----------------------------- MODULE MCLegalPack -----------------------------
(***************************************************************************)
(* LegalPack on a small instance: two recordings, on one platform or two,   *)
(* chained or not, with a signed log and a token or without.               *)
(***************************************************************************)
EXTENDS LegalPack, TLC

CONSTANTS r1, r2, c1, c2

MCRecordings == {r1, r2}
MCContents   == {c1, c2}

Draft(audio, name, chained, log, stamped) ==
  [audio |-> audio, audioName |-> name, chained |-> chained, log |-> log, stamped |-> stamped]

MCDrafts ==
  {Draft(c1, "original.m4a", TRUE, "signed", TRUE),
   Draft(c2, "original.wav", FALSE, "unsigned", FALSE)}
=============================================================================
