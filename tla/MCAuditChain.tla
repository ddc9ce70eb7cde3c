---------------------------- MODULE MCAuditChain ----------------------------
(***************************************************************************)
(* AuditChain on a small instance: two producers whose logs can agree, part *)
(* or differ from the first event on.                                      *)
(***************************************************************************)
EXTENDS AuditChain

CONSTANTS p1, p2, f1, f2

MCProducers == {p1, p2}
MCFacts     == {f1, f2}
MCMaxEvents == p1 :> 3 @@ p2 :> 2
=============================================================================
