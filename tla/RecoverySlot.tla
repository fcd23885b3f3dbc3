----------------------------- MODULE RecoverySlot -----------------------------
(***************************************************************************)
(* What the backup store promises to the upgrade transaction, without its  *)
(* directories: one recovery point, replaced as a whole.                   *)
(*                                                                         *)
(* points are the backups the next start-up may find: one when the last    *)
(* rotation is settled, two while it may still be completed or undone.     *)
(***************************************************************************)
EXTENDS Naturals

VARIABLES
    points,     \* backups the next start-up may recover (0: none yet)
    attempt,    \* the backup being committed, 0 when there is none
    committed   \* the last backup whose Commit returned nil

slotVars == <<points, attempt, committed>>

SlotInit == points = {0} /\ attempt = 0 /\ committed = 0

Offer ==
    /\ attempt = 0
    /\ attempt' \in {g \in Nat : g > committed /\ g \notin points}
    /\ UNCHANGED <<points, committed>>

\* A step of the rotation or of its recovery: the attempted backup becomes
\* possible, or others become impossible.  One is always left.
Rotate ==
    /\ points' # {}
    /\ points' \subseteq points \union (IF attempt = 0 THEN {} ELSE {attempt})
    /\ UNCHANGED <<attempt, committed>>

\* Commit returns nil.
Accept ==
    /\ attempt # 0
    /\ points = {attempt}
    /\ committed' = attempt
    /\ attempt' = 0
    /\ UNCHANGED points

\* Commit returns an error, or the process stops: the outcome may stay open.
Abandon ==
    /\ attempt' = 0
    /\ points' # {} /\ points' \subseteq points
    /\ UNCHANGED committed

SlotSpec == SlotInit /\ [][Offer \/ Rotate \/ Accept \/ Abandon]_slotVars
===============================================================================
