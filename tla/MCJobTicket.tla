----------------------------- MODULE MCJobTicket -----------------------------
(***************************************************************************)
(* JobTicket for TLC.  Two callers send the same request, the same key with*)
(* different targets, or different requests; which caller and which key is *)
(* which makes no difference.                                              *)
(***************************************************************************)
EXTENDS JobTicket, TLC

CONSTANTS c1, c2, k1, k2

Callers(key, target) ==
    c1 :> [key |-> k1, target |-> 2] @@ c2 :> [key |-> key, target |-> target]

MCRequests == {Callers(k1, 2), Callers(k1, 3), Callers(k2, 2)}
===============================================================================
