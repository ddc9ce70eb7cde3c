---------------------------- MODULE MCLegalAudit ----------------------------
(***************************************************************************)
(* LegalAudit on a small instance: two signing producers and one that does *)
(* not sign.                                                               *)
(***************************************************************************)
EXTENDS LegalAudit

CONSTANTS p1, p2, q, f1, f2

MCProducers == {p1, p2, q}
MCSigning   == {p1, p2}
MCFacts     == {f1, f2}
MCMaxEvents == p1 :> 3 @@ p2 :> 1 @@ q :> 1
=============================================================================
