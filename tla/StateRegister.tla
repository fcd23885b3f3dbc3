---------------------------- MODULE StateRegister ----------------------------
(***************************************************************************)
(* What StateStore promises to the engine, the watchdog and the control    *)
(* routes, without its files: a register that updates are applied to one at*)
(* a time.  A state is the set of updates that made it.                    *)
(*                                                                         *)
(* An update that returned nil is in the state, whatever happens later.  An*)
(* update that returned an error may be in it or not, and until the next   *)
(* one returns nil a power loss may still undo it.                         *)
(***************************************************************************)
CONSTANT Updates

VARIABLES
    value,      \* the state the next Load returns
    disk,       \* states a power loss may leave
    told        \* what the caller of each update has been told

registerVars == <<value, disk, told>>

RegisterInit ==
    /\ value = {}
    /\ disk = {{}}
    /\ told = [u \in Updates |-> "nothing"]

Apply(u) ==
    /\ told[u] = "nothing"
    /\ u \notin value
    /\ value' = value \union {u}
    /\ disk' = disk \union {value'}
    /\ UNCHANGED told

Confirm(u) ==
    /\ told[u] = "nothing"
    /\ u \in value
    /\ disk' = {value}
    /\ told' = [told EXCEPT ![u] = "ok"]
    /\ UNCHANGED value

Refuse(u) ==
    /\ told[u] = "nothing"
    /\ told' = [told EXCEPT ![u] = "error"]
    /\ UNCHANGED <<value, disk>>

Revert ==
    /\ value' \in disk
    /\ disk' = {value'}
    /\ UNCHANGED told

RegisterNext ==
    \/ \E u \in Updates : Apply(u) \/ Confirm(u) \/ Refuse(u)
    \/ Revert

RegisterSpec == RegisterInit /\ [][RegisterNext]_registerVars
===============================================================================
