---------------------------- MODULE SystemIntent ----------------------------
(***************************************************************************)
(* What the parts of the updater promise each other about the host, and    *)
(* all that each of them assumes of the rest: the desired state, whether   *)
(* the watchdog is repairing, and who may change the host meanwhile.       *)
(*                                                                         *)
(* The host belongs to the engine while the desired state is "upgrading",  *)
(* and to the watchdog during a repair; a repair begins only while the     *)
(* service is meant to run, and nothing takes the host away from either.   *)
(***************************************************************************)
VARIABLES
    desired, repairing,
    host                \* what only the two may change

vars == <<desired, repairing, host>>

Free == desired # "upgrading" /\ ~repairing

Init == desired = "running" /\ repairing = FALSE

\* A job is accepted, or a failed one restarted.
BeginUpgrade ==
    Free /\ desired' = "upgrading" /\ UNCHANGED <<repairing, host>>

\* The engine records how its job ended.
EndUpgrade ==
    /\ desired = "upgrading"
    /\ desired' \in {"running", "maintenance"}
    /\ UNCHANGED <<repairing, host>>

SetDesired ==
    /\ Free
    /\ desired' \in {"running", "maintenance", "deprovisioned"}
    /\ UNCHANGED <<repairing, host>>

BeginRepair ==
    /\ desired = "running" /\ ~repairing
    /\ repairing' = TRUE
    /\ UNCHANGED <<desired, host>>

\* It is over, was cancelled, or the process has stopped.
EndRepair ==
    /\ repairing
    /\ repairing' = FALSE
    /\ UNCHANGED <<desired, host>>

\* The engine's or the watchdog's own work, the one whose turn it is.
Work ==
    /\ desired = "upgrading" \/ repairing
    /\ UNCHANGED <<desired, repairing>>

Next ==
    \/ Work \/ BeginRepair \/ EndRepair
    \/ BeginUpgrade \/ EndUpgrade \/ SetDesired

Spec == Init /\ [][Next]_vars
=============================================================================
