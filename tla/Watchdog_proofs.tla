--------------------------- MODULE Watchdog_proofs ---------------------------
(***************************************************************************)
(* Proofs about the watchdog and the host gate, for any number of handlers,*)
(* any requests, any window, cooldown and clock.                           *)
(***************************************************************************)
EXTENDS Watchdog, SequenceTheorems, TLAPS

(***************************************************************************)
(* The operation mutex: who is past its Lock owns it, and a repair runs    *)
(* only while the desired state that was confirmed under it still holds.   *)
(***************************************************************************)
GateInv ==
    /\ desired \in DesiredState
    /\ hpc \in [Handler -> {"idle", "cancel", "lock", "update", "unlock"}]
    /\ kind \in [Handler -> Kind]
    /\ wpc \in Holding => operation = "watchdog"
    /\ \A h \in Handler : hpc[h] \in {"update", "unlock"} => operation = h
    /\ wpc = "repair" => desired = "running"

\* Nobody holds the gate when the process starts.
LEMMA InitGate == Init => GateInv
  BY DEF Init, GateInv, Holding, DesiredState, Kind

\* The watchdog confirms the desired state while it holds the gate, handlers
\* write it only while they do, and the engine only while a job is active.
LEMMA NextGate == GateInv /\ [Next]_vars => GateInv'
<1> SUFFICES ASSUME GateInv, [Next]_vars PROVE GateInv'
  OBVIOUS
<1> USE DEF GateInv, Holding
<1>1. CASE Load
  BY <1>1 DEF Load, At, fileVars, gateUnchanged, gateVars, handlerVars
<1>2. CASE Suppress
  BY <1>2 DEF Suppress, Conclude, Update, Done, gateUnchanged, gateVars,
              handlerVars
<1>3. CASE ObserveWatchdog
  BY <1>3 DEF ObserveWatchdog, At, Goto, fileVars, gateUnchanged, gateVars,
              handlerVars
<1>4. CASE Healthy
  BY <1>4 DEF Healthy, Conclude, Update, Done, gateUnchanged, gateVars,
              handlerVars
<1>5. CASE Failed
  BY <1>5 DEF Failed, At, Goto, Update, Done, gateUnchanged, gateVars,
              handlerVars
<1>6. CASE Recheck
  BY <1>6 DEF Recheck, At, Goto, fileVars, gateUnchanged, gateVars, handlerVars
<1>7. CASE Gate
  BY <1>7, HandlerAssumption DEF Gate, At, Goto, fileVars, handlerVars
<1>8. CASE Register
  BY <1>8 DEF Register, At, Goto, fileVars, handlerVars
<1>9. CASE Confirm
  BY <1>9 DEF Confirm, At, Goto, StartRepair, fileVars, gateUnchanged,
              gateVars, handlerVars
<1>10. CASE SuppressConfirmed
  BY <1>10 DEF SuppressConfirmed, At, Goto, ConcludeHolding, Update,
               gateUnchanged, gateVars, handlerVars
<1>11. CASE RepairWatchdog
  BY <1>11 DEF RepairWatchdog, At, Goto, fileVars, gateUnchanged, gateVars,
               handlerVars
<1>12. CASE Interrupted \/ Repaired \/ RepairFailed
  BY <1>12 DEF Interrupted, Repaired, RepairFailed, At, Goto, ConcludeHolding,
               Update, gateUnchanged, gateVars, handlerVars
<1>13. CASE Release
  BY <1>13, HandlerAssumption DEF Release, At, Done, fileVars, handlerVars
<1>14. ASSUME NEW h \in Handler, Request(h) PROVE GateInv'
  BY <1>14, MutationAssumption
     DEF Request, fileVars, gateVars, watchdogUnchanged
<1>15. ASSUME NEW h \in Handler, CancelRepair(h) PROVE GateInv'
  BY <1>15 DEF CancelRepair, fileVars, watchdogUnchanged
<1>16. ASSUME NEW h \in Handler, Lock(h) PROVE GateInv'
  BY <1>16, HandlerAssumption DEF Lock, fileVars, watchdogUnchanged
<1>17. ASSUME NEW h \in Handler, Mutate(h) PROVE GateInv'
  <2>1. operation = h /\ wpc \notin Holding
    BY <1>17, HandlerAssumption DEF Mutate
  <2>2. desired' \in DesiredState
    BY <1>17 DEF Mutate, fileVars, Kind, DesiredState
  <2> QED
    BY <1>17, <2>1, <2>2 DEF Mutate, gateVars, watchdogUnchanged
<1>18. ASSUME NEW h \in Handler, Unlock(h) PROVE GateInv'
  <2>1. operation = h /\ wpc \notin Holding
    BY <1>18, HandlerAssumption DEF Unlock
  <2> QED
    BY <1>18, <2>1, HandlerAssumption
       DEF Unlock, fileVars, watchdogUnchanged, Kind, DesiredState
<1>19. CASE EngineEnds
  BY <1>19 DEF EngineEnds, handlerVars, gateVars, watchdogUnchanged,
               DesiredState
<1>20. CASE Tick \/ SetBack
  BY <1>20 DEF Tick, SetBack, fileVars, handlerVars, gateVars
<1>21. CASE Crash
  BY <1>21 DEF Crash, fileVars, Kind, DesiredState
<1>22. CASE Boot
  BY <1>22 DEF Boot, At, Done, fileVars, gateUnchanged, gateVars, handlerVars
<1>23. CASE UNCHANGED vars
  BY <1>23 DEF vars, fileVars, handlerVars, gateVars
<1> QED
  BY <1>1, <1>2, <1>3, <1>4, <1>5, <1>6, <1>7, <1>8, <1>9, <1>10, <1>11,
     <1>12, <1>13, <1>14, <1>15, <1>16, <1>17, <1>18, <1>19, <1>20, <1>21,
     <1>22, <1>23 DEF Next, Reconcile, Handle

\* No repair command runs while the host is meant to be stopped or changed, or
\* while a handler may be changing that.
THEOREM RepairIsExclusive == Spec => []RepairExclusive
<1>1. GateInv => RepairExclusive
  BY HandlerAssumption DEF GateInv, RepairExclusive, Holding
<1> QED
  BY <1>1, InitGate, NextGate, PTL DEF Spec

\* Every access to the file or the gate is a step of the intent, or none.
LEMMA StepIntent ==
  ASSUME GateInv, [Next]_vars
  PROVE  Intent!Next \/ UNCHANGED <<desired, wpc = "repair", 0>>
<1> USE DEF GateInv, Holding
<1>1. ASSUME Load \/ ObserveWatchdog \/ Recheck \/ Gate \/ Register \/ Release
                 \/ Suppress \/ Healthy \/ Failed \/ SuppressConfirmed
                 \/ Interrupted \/ Repaired \/ RepairFailed
      PROVE  UNCHANGED <<desired, wpc = "repair", 0>>
  BY <1>1 DEF Load, ObserveWatchdog, Recheck, Gate, Register, Release, Suppress,
     Healthy, Failed, SuppressConfirmed, Interrupted, Repaired, RepairFailed,
     At, Goto, Done, Conclude, ConcludeHolding, Update, fileVars
<1>2. CASE Confirm
  <2>1. wpc = "confirm" /\ desired' = desired
    BY <1>2 DEF Confirm, At, fileVars
  <2>2. wpc' = "repair" => desired = "running"
    BY <1>2 DEF Confirm, Goto, StartRepair
  <2> QED
    BY <2>1, <2>2 DEF Intent!Next, Intent!BeginRepair
<1>3. CASE RepairWatchdog
  <2>1. wpc = "repair" /\ wpc' # "repair" /\ desired' = desired
    BY <1>3 DEF RepairWatchdog, At, Goto, fileVars
  <2> QED
    BY <2>1 DEF Intent!Next, Intent!EndRepair
<1>4. ASSUME NEW h \in Handler, Request(h) \/ CancelRepair(h) \/ Lock(h) \/ Unlock(h)
      PROVE  UNCHANGED <<desired, wpc = "repair", 0>>
  BY <1>4 DEF Request, CancelRepair, Lock, Unlock, fileVars, watchdogUnchanged
<1>5. ASSUME NEW h \in Handler, Mutate(h)
      PROVE  Intent!Next \/ UNCHANGED <<desired, wpc = "repair", 0>>
  <2>1. wpc # "repair" /\ wpc' = wpc
    BY <1>5, HandlerAssumption DEF Mutate, watchdogUnchanged
  <2>2. CASE UNCHANGED fileVars
    BY <2>1, <2>2 DEF fileVars
  <2>3. CASE /\ Accepted(kind[h])
             /\ desired' = IF kind[h] \in {"create", "restart"} THEN "upgrading"
                           ELSE kind[h]
    <3>1. desired # "upgrading" /\ kind[h] \in Kind
      BY <2>3 DEF Accepted
    <3>2. desired' \in {"upgrading", "running", "maintenance", "deprovisioned"}
      BY <2>3, <3>1 DEF Kind, DesiredState
    <3> QED
      BY <2>1, <3>1, <3>2
         DEF Intent!Next, Intent!BeginUpgrade, Intent!SetDesired, Intent!Free
  <2> QED
    BY <1>5, <2>2, <2>3 DEF Mutate
<1>6. CASE EngineEnds
  BY <1>6 DEF EngineEnds, watchdogUnchanged, Intent!Next, Intent!EndUpgrade
<1>7. CASE Crash
  <2>1. wpc' # "repair" /\ desired' = desired
    BY <1>7 DEF Crash, fileVars
  <2> QED
    BY <2>1 DEF Intent!Next, Intent!EndRepair
<1>8. ASSUME Tick \/ SetBack \/ Boot \/ UNCHANGED vars
      PROVE  UNCHANGED <<desired, wpc = "repair", 0>>
  BY <1>8 DEF Tick, SetBack, Boot, vars, At, Done, fileVars
<1> QED
  BY <1>1, <1>2, <1>3, <1>4, <1>5, <1>6, <1>7, <1>8 DEF Next, Reconcile, Handle

\* Reconcile, the gate and the handlers keep what the engine relies on: nothing
\* but a job changes the host while one is active, and no repair outlives the
\* desired state it was confirmed under.
THEOREM KeepsIntent == Spec => IntentIsKept
<1>1. Init => Intent!Init
  BY DEF Init, Intent!Init
<1> QED
  BY <1>1, InitGate, NextGate, StepIntent, PTL
     DEF Spec, IntentIsKept, Intent!Spec, Intent!vars
-----------------------------------------------------------------------------
(***************************************************************************)
(* The budget.  What has to be shown is that the repairs which ran are     *)
(* among the recorded attempts for as long as they are within the window:  *)
(* the attempts are filtered at every observation, one is recorded some    *)
(* steps before its repair runs, may be refunded or may never run, and a   *)
(* crash or a failed save may come in between.                             *)
(***************************************************************************)
Away == {"idle", "down"}

\* An attempt is recorded and its repair has not run.
Pending == {"recheck", "suppress_rechecked", "gate", "register", "confirm",
            "suppress_confirmed", "interrupted"}

\* Whatever reads the attempts next does so at this time or later.
Horizon == IF wpc \in Away THEN clock ELSE now

\* The attempts that stand for repairs which ran.
Counted == IF wpc \in Pending THEN Len(wd.attempts) - 1 ELSE Len(wd.attempts)

\* The repairs R have left the window at time h, or the attempt at the same
\* place, counted from the end of the first m, was recorded no earlier.
Covered(A, m, R, h) ==
    \A n \in 1..Len(R) :
        \/ R[n] + Window <= h
        \/ /\ m - (Len(R) - n) >= 1
           /\ A[m - (Len(R) - n)] >= R[n]

\* The last attempt is the one of this observation.
Recorded == Len(wd.attempts) >= 1 /\ wd.attempts[Len(wd.attempts)] = now

RecordInv ==
    /\ TypeOK
    /\ wpc \notin Away => now >= 1
    /\ validateAttempts(wd)
    /\ wpc \in Pending \union {"repair"} => Recorded
    /\ back = 0 => /\ now <= clock
                   /\ Covered(wd.attempts, Counted, repairs, Horizon)
                   /\ RecordedBudget

\* Attempts that a saved state may hold.
Sound(A) ==
    /\ A \in Seq(1..MaxTime)
    /\ Len(A) <= watchdogMaxAttempts
    /\ \A i \in 1..Len(A) - 1 : A[i] <= A[i + 1]

\* What is left of the attempts is a suffix, and what was dropped is old.
LEMMA RecentAttempts ==
  ASSUME NEW A, Sound(A), NEW t \in Nat
  PROVE  LET B == recentWatchdogAttempts(A, t)
         IN  /\ Sound(B)
             /\ \E k \in 0..Len(A) :
                   /\ Len(B) = Len(A) - k
                   /\ \A i \in 1..Len(B) : B[i] = A[k + i]
                   /\ \A i \in 1..k : A[i] + Window <= t
<1> DEFINE Old(n) == \A i \in 1..Len(A) : i <= n <=> A[i] + Window <= t
           k == CHOOSE n \in 0..Len(A) : Old(n)
           B == SubSeq(A, k + 1, Len(A))
<1>1. /\ A \in Seq(1..MaxTime) /\ Len(A) \in 0..3
      /\ \A i \in 1..Len(A) : A[i] \in 1..MaxTime
      /\ \A i \in 1..Len(A) - 1 : A[i] <= A[i + 1]
      /\ Window \in Nat /\ MaxTime \in Nat
  <2>1. A \in Seq(1..MaxTime)
    BY DEF Sound
  <2>2. \A i \in 1..Len(A) : A[i] \in 1..MaxTime
    BY <2>1, ElementOfSeq
  <2>3. Len(A) \in Nat /\ Len(A) <= 3
    BY <2>1, LenProperties DEF Sound, watchdogMaxAttempts
  <2>4. \A i \in 1..Len(A) - 1 : A[i] <= A[i + 1]
    BY DEF Sound
  <2>5. \A n \in Nat : n <= 3 => n \in 0..3
    OBVIOUS
  <2>6. Window \in Nat /\ MaxTime \in Nat
    BY WatchdogBounds
  <2> QED BY <2>1, <2>2, <2>3, <2>4, <2>5, <2>6, Zenon
<1>2. \E n \in 0..Len(A) : Old(n)
  <2> SUFFICES ASSUME \A n \in 0..Len(A) : ~Old(n) PROVE FALSE
    OBVIOUS
  <2>1. CASE Len(A) = 0
    BY <1>1, <2>1
  <2>2. CASE Len(A) = 1
    <3>1. ~Old(0) /\ ~Old(1)
      BY <2>2
    <3> QED BY <1>1, <2>2, <3>1
  <2>3. CASE Len(A) = 2
    <3>1. ~Old(0) /\ ~Old(1) /\ ~Old(2)
      BY <2>3
    <3> QED BY <1>1, <2>3, <3>1
  <2>4. CASE Len(A) = 3
    <3>1. ~Old(0) /\ ~Old(1) /\ ~Old(2) /\ ~Old(3)
      BY <2>4
    <3> QED BY <1>1, <2>4, <3>1
  <2> QED BY <1>1, <2>1, <2>2, <2>3, <2>4
<1>3. k \in 0..Len(A) /\ Old(k)
  BY <1>2
<1>4. recentWatchdogAttempts(A, t) = B
  BY DEF recentWatchdogAttempts, recentUntil
<1> HIDE DEF k
<1>5. \A i \in k + 1..Len(A) : A[i] \in 1..MaxTime
  BY <1>1, <1>3
<1>6. /\ B \in Seq(1..MaxTime)
      /\ Len(B) = Len(A) - k
      /\ \A i \in 1..Len(B) : B[i] = A[k + i]
  <2>1. k + 1 \in Int /\ Len(A) \in Int
    BY <1>1, <1>3
  <2>2. /\ B \in Seq(1..MaxTime)
        /\ Len(B) = IF k + 1 <= Len(A) THEN Len(A) - (k + 1) + 1 ELSE 0
        /\ \A i \in 1..Len(A) - (k + 1) + 1 : B[i] = A[k + 1 + i - 1]
    BY <1>5, <2>1, SubSeqProperties
  <2> HIDE DEF B
  <2> QED BY <1>1, <1>3, <2>2
<1> HIDE DEF B
<1>7. Sound(B)
  <2>1. Len(A) \in 0..3 /\ k \in 0..Len(A) /\ Len(B) = Len(A) - k
    BY <1>1, <1>3, <1>6, Zenon
  <2>2. Len(B) \in Nat /\ Len(B) <= watchdogMaxAttempts
    BY <2>1 DEF watchdogMaxAttempts
  <2>3. ASSUME NEW i \in 1..Len(B) - 1
        PROVE  B[i] <= B[i + 1]
    <3>1. /\ i \in 1..Len(B) /\ i + 1 \in 1..Len(B)
          /\ k + i \in 1..Len(A) - 1 /\ k + (i + 1) = (k + i) + 1
      BY <2>1, <2>2
    <3>2. B[i] = A[k + i] /\ B[i + 1] = A[(k + i) + 1]
      BY <1>6, <3>1
    <3> QED BY <1>1, <3>1, <3>2
  <2> QED BY <1>6, <2>2, <2>3, Zenon DEF Sound
<1>8. \A i \in 1..k : A[i] + Window <= t
  BY <1>1, <1>3
<1> QED BY <1>3, <1>4, <1>6, <1>7, <1>8
\* The places that Covered speaks of.
LEMMA Places ==
  ASSUME NEW R \in Seq(1..MaxTime), NEW m \in Int, NEW n \in 1..Len(R)
  PROVE  /\ Len(R) \in Nat /\ n \in Nat /\ n <= Len(R)
         /\ R[n] \in Nat /\ Window \in Nat
         /\ m - (Len(R) - n) \in Int /\ m - (Len(R) - n) <= m
<1>1. Len(R) \in Nat
  BY LenProperties
<1>2. R[n] \in 1..MaxTime /\ MaxTime \in Nat /\ Window \in Nat
  BY ElementOfSeq, WatchdogBounds
<1> QED BY <1>1, <1>2

\* Time goes on: more repairs leave the window.
LEMMA CoveredLater ==
  ASSUME NEW A, NEW m \in Int, NEW R \in Seq(1..MaxTime),
         NEW h \in Nat, NEW later \in Nat, h <= later, Covered(A, m, R, h)
  PROVE  Covered(A, m, R, later)
<1> SUFFICES ASSUME NEW n \in 1..Len(R), ~(R[n] + Window <= later)
             PROVE  /\ m - (Len(R) - n) >= 1
                    /\ A[m - (Len(R) - n)] >= R[n]
  BY DEF Covered
<1>1. R[n] \in Nat /\ Window \in Nat
  BY Places
<1>2. ~(R[n] + Window <= h)
  BY <1>1
<1> QED BY <1>2 DEF Covered

\* Only the first m attempts matter.
LEMMA CoveredSame ==
  ASSUME NEW A, NEW B, NEW m \in Int, NEW R \in Seq(1..MaxTime), NEW h \in Nat,
         \A i \in 1..m : B[i] = A[i], Covered(A, m, R, h)
  PROVE  Covered(B, m, R, h)
<1> SUFFICES ASSUME NEW n \in 1..Len(R), ~(R[n] + Window <= h)
             PROVE  /\ m - (Len(R) - n) >= 1
                    /\ B[m - (Len(R) - n)] >= R[n]
  BY DEF Covered
<1> DEFINE p == m - (Len(R) - n)
<1>1. p \in Int /\ p <= m
  BY Places
<1>2. p >= 1 /\ A[p] >= R[n]
  BY DEF Covered
<1> HIDE DEF p
<1>3. p \in 1..m
  BY <1>1, <1>2
<1>4. B[p] = A[p]
  BY <1>3
<1>5. p >= 1 /\ B[p] >= R[n]
  BY <1>2, <1>4
<1> QED BY <1>5 DEF p

\* An attempt whose repair never runs does no harm: the attempts are in order.
LEMMA CoveredMore ==
  ASSUME NEW A, Sound(A), NEW R \in Seq(1..MaxTime), NEW h \in Nat,
         Covered(A, Len(A) - 1, R, h)
  PROVE  Covered(A, Len(A), R, h)
<1> SUFFICES ASSUME NEW n \in 1..Len(R), ~(R[n] + Window <= h)
             PROVE  /\ Len(A) - (Len(R) - n) >= 1
                    /\ A[Len(A) - (Len(R) - n)] >= R[n]
  BY DEF Covered
<1> DEFINE p == Len(A) - 1 - (Len(R) - n)
<1>1. A \in Seq(1..MaxTime) /\ Len(A) \in Nat
  BY LenProperties DEF Sound
<1>2. /\ p \in Int /\ p <= Len(A) - 1 /\ R[n] \in Nat
      /\ Len(R) \in Nat /\ n \in Nat
  <2>1. Len(A) - 1 \in Int
    BY <1>1
  <2> QED BY <2>1, Places
<1>3. p >= 1 /\ A[p] >= R[n]
  BY DEF Covered
<1>4. Len(A) - (Len(R) - n) = p + 1
  BY <1>1, <1>2
<1> HIDE DEF p
<1>5. p \in 1..Len(A) - 1
  BY <1>1, <1>2, <1>3
<1>6. A[p] <= A[p + 1]
  BY <1>5 DEF Sound
<1>7. A[p] \in Nat /\ A[p + 1] \in Nat
  <2>1. p \in 1..Len(A) /\ p + 1 \in 1..Len(A)
    BY <1>1, <1>5
  <2>2. A[p] \in 1..MaxTime /\ A[p + 1] \in 1..MaxTime
    BY <1>1, <2>1, ElementOfSeq
  <2> QED BY <2>2
<1> QED BY <1>2, <1>3, <1>4, <1>6, <1>7

\* What an observation drops from the attempts is out of the window.
LEMMA CoveredRecent ==
  ASSUME NEW A, Sound(A), NEW R \in Seq(1..MaxTime), NEW t \in Nat,
         Covered(A, Len(A), R, t)
  PROVE  LET B == recentWatchdogAttempts(A, t)
         IN  Sound(B) /\ Covered(B, Len(B), R, t)
<1> DEFINE B == recentWatchdogAttempts(A, t)
<1>1. A \in Seq(1..MaxTime) /\ Len(A) \in Nat
  BY LenProperties DEF Sound
<1>2. PICK k \in 0..Len(A) :
         /\ Len(B) = Len(A) - k
         /\ \A i \in 1..Len(B) : B[i] = A[k + i]
         /\ \A i \in 1..k : A[i] + Window <= t
  BY RecentAttempts
<1>3. Sound(B)
  BY RecentAttempts
<1> HIDE DEF B
<1>4. k \in Nat /\ k <= Len(A)
  BY <1>1, <1>2
<1>5. ASSUME NEW n \in 1..Len(R), ~(R[n] + Window <= t)
      PROVE  /\ Len(B) - (Len(R) - n) >= 1
             /\ B[Len(B) - (Len(R) - n)] >= R[n]
  <2> DEFINE p == Len(A) - (Len(R) - n)
  <2>1. /\ p \in Int /\ p <= Len(A) /\ R[n] \in Nat /\ Window \in Nat
        /\ Len(R) \in Nat /\ n \in Nat
    <3>1. Len(A) \in Int
      BY <1>1
    <3> QED BY <3>1, Places
  <2>2. p >= 1 /\ A[p] >= R[n]
    BY <1>5 DEF Covered
  <2>3. Len(B) - (Len(R) - n) = p - k
    BY <1>1, <1>2, <1>4, <2>1
  <2> HIDE DEF p
  <2>4. A[p] \in Nat
    <3>1. p \in 1..Len(A)
      BY <1>1, <2>1, <2>2
    <3>2. A[p] \in 1..MaxTime
      BY <1>1, <3>1, ElementOfSeq
    <3> QED BY <3>2
  <2>5. ~(p <= k)
    <3> SUFFICES ASSUME p <= k PROVE FALSE
      OBVIOUS
    <3>1. p \in 1..k
      BY <1>4, <2>1, <2>2
    <3>2. A[p] + Window <= t
      BY <1>2, <3>1
    <3> QED BY <1>5, <2>1, <2>2, <2>4, <3>2
  <2>6. p - k \in 1..Len(B) /\ k + (p - k) = p
    BY <1>1, <1>2, <1>4, <2>1, <2>5
  <2>7. B[p - k] = A[p]
    <3>1. B[p - k] = A[k + (p - k)]
      BY <1>2, <2>6
    <3> QED BY <2>6, <3>1
  <2>8. p - k >= 1
    BY <1>4, <2>1, <2>5
  <2> QED BY <2>2, <2>3, <2>7, <2>8
<1>6. Covered(B, Len(B), R, t)
  BY <1>5 DEF Covered
<1> QED BY <1>3, <1>6 DEF B
\* A sequence without its last element.
LEMMA FrontFacts ==
  ASSUME NEW s \in Seq(1..MaxTime)
  PROVE  /\ Front(s) \in Seq(1..MaxTime)
         /\ Len(s) < 1 => Len(Front(s)) < 1
         /\ Len(s) >= 1 => Len(Front(s)) = Len(s) - 1
         /\ \A i \in 1..Len(s) - 1 : Front(s)[i] = s[i]
<1>1. Len(s) \in Nat
  BY LenProperties
<1>2. \A i \in 1..Len(s) - 1 : s[i] \in 1..MaxTime
  <2> SUFFICES ASSUME NEW i \in 1..Len(s) - 1 PROVE s[i] \in 1..MaxTime
    OBVIOUS
  <2>1. i \in 1..Len(s)
    BY <1>1
  <2> QED BY <2>1, ElementOfSeq
<1> DEFINE f == SubSeq(s, 1, Len(s) - 1)
<1>3. /\ f \in Seq(1..MaxTime)
      /\ Len(f) = IF 1 <= Len(s) - 1 THEN Len(s) - 1 - 1 + 1 ELSE 0
      /\ \A i \in 1..Len(s) - 1 - 1 + 1 : f[i] = s[1 + i - 1]
  <2>1. 1 \in Int /\ Len(s) - 1 \in Int
    BY <1>1
  <2> QED BY <1>2, <2>1, SubSeqProperties
<1>4. Front(s) = f
  BY DEF Front
<1> HIDE DEF f
<1>8. Len(f) = IF 1 <= Len(s) - 1 THEN Len(s) - 1 - 1 + 1 ELSE 0
  BY <1>3, Zenon
<1>5. Len(s) >= 1 => Len(f) = Len(s) - 1
  BY <1>1, <1>8
<1>6. Len(s) < 1 => Len(f) < 1
  BY <1>1, <1>8
<1>7. \A i \in 1..Len(s) - 1 : f[i] = s[i]
  BY <1>1, <1>3
<1> QED BY <1>3, <1>4, <1>5, <1>6, <1>7

\* A repair that was cancelled did not run, and its attempt stands for none.
LEMMA CoveredUndone ==
  ASSUME NEW A, Sound(A), NEW R \in Seq(1..MaxTime), NEW h \in Nat,
         Covered(A, Len(A), R, h)
  PROVE  Covered(A, Len(A) - 1, Front(R), h)
<1> DEFINE Q == Front(R)
<1>1. /\ Q \in Seq(1..MaxTime)
      /\ Len(R) < 1 => Len(Q) < 1
      /\ Len(R) >= 1 => Len(Q) = Len(R) - 1
      /\ \A i \in 1..Len(R) - 1 : Q[i] = R[i]
  BY FrontFacts
<1>2. Len(A) \in Nat /\ Len(R) \in Nat
  BY LenProperties DEF Sound
<1> HIDE DEF Q
<1>3. ASSUME NEW n \in 1..Len(Q), ~(Q[n] + Window <= h)
      PROVE  /\ Len(A) - 1 - (Len(Q) - n) >= 1
             /\ A[Len(A) - 1 - (Len(Q) - n)] >= Q[n]
  <2>1. Len(R) >= 1 /\ Len(Q) = Len(R) - 1
    <3>1. ~(Len(Q) < 1)
      BY <1>1, LenProperties
    <3>2. ~(Len(R) < 1)
      BY <1>1, <3>1
    <3>3. Len(R) >= 1
      BY <1>2, <3>2
    <3> QED BY <1>1, <3>3
  <2>2. n \in 1..Len(R) /\ n \in 1..Len(R) - 1
    BY <1>2, <2>1
  <2>3. Q[n] = R[n] /\ ~(R[n] + Window <= h)
    BY <1>1, <1>3, <2>2
  <2>4. Len(A) - 1 - (Len(Q) - n) = Len(A) - (Len(R) - n)
    BY <1>2, <2>1, <2>2
  <2>5. /\ Len(A) - (Len(R) - n) >= 1
        /\ A[Len(A) - (Len(R) - n)] >= R[n]
    BY <2>2, <2>3 DEF Covered
  <2> QED BY <2>3, <2>4, <2>5
<1>4. Covered(A, Len(A) - 1, Q, h)
  BY <1>3 DEF Covered
<1> QED BY <1>4 DEF Q

\* The attempt of the repair that runs now is the last one.
LEMMA CoveredAppend ==
  ASSUME NEW A, Sound(A), NEW R \in Seq(1..MaxTime), NEW h \in 1..MaxTime,
         Len(A) >= 1, A[Len(A)] = h, Covered(A, Len(A) - 1, R, h)
  PROVE  Covered(A, Len(A), Append(R, h), h)
<1> DEFINE Q == Append(R, h)
<1>1. /\ Len(Q) = Len(R) + 1 /\ Q[Len(R) + 1] = h
      /\ \A i \in 1..Len(R) : Q[i] = R[i]
  BY AppendProperties
<1>2. Len(A) \in Nat /\ Len(R) \in Nat /\ h \in Nat
  BY LenProperties, WatchdogBounds DEF Sound
<1> HIDE DEF Q
<1>3. ASSUME NEW n \in 1..Len(Q), ~(Q[n] + Window <= h)
      PROVE  /\ Len(A) - (Len(Q) - n) >= 1
             /\ A[Len(A) - (Len(Q) - n)] >= Q[n]
  <2>1. CASE n = Len(Q)
    <3>1. Len(A) - (Len(Q) - n) = Len(A) /\ Q[n] = h
      BY <1>1, <1>2, <2>1
    <3> QED BY <1>2, <3>1
  <2>2. CASE n # Len(Q)
    <3>1. n \in 1..Len(R)
      BY <1>1, <1>2, <2>2
    <3>2. Q[n] = R[n] /\ ~(R[n] + Window <= h)
      BY <1>1, <1>3, <3>1
    <3>3. Len(A) - (Len(Q) - n) = Len(A) - 1 - (Len(R) - n)
      BY <1>1, <1>2, <3>1
    <3>4. /\ Len(A) - 1 - (Len(R) - n) >= 1
          /\ A[Len(A) - 1 - (Len(R) - n)] >= R[n]
      BY <3>1, <3>2 DEF Covered
    <3> QED BY <3>2, <3>3, <3>4
  <2> QED BY <2>1, <2>2
<1>4. Covered(A, Len(A), Q, h)
  BY <1>3 DEF Covered
<1> QED BY <1>4 DEF Q

\* The oldest repair may be forgotten.
LEMMA CoveredTail ==
  ASSUME NEW A, NEW m \in Int, NEW R \in Seq(1..MaxTime), NEW h \in Nat,
         R # <<>>, Covered(A, m, R, h)
  PROVE  Covered(A, m, Tail(R), h)
<1> DEFINE Q == Tail(R)
<1>1. /\ Len(Q) = Len(R) - 1 /\ Q \in Seq(1..MaxTime)
      /\ \A i \in 1..Len(Q) : Q[i] = R[i + 1]
  BY HeadTailProperties
<1>2. Len(R) \in Nat
  BY LenProperties
<1> HIDE DEF Q
<1>3. ASSUME NEW n \in 1..Len(Q), ~(Q[n] + Window <= h)
      PROVE  m - (Len(Q) - n) >= 1 /\ A[m - (Len(Q) - n)] >= Q[n]
  <2>1. n + 1 \in 1..Len(R)
    BY <1>1, <1>2
  <2>2. Q[n] = R[n + 1] /\ ~(R[n + 1] + Window <= h)
    BY <1>1, <1>3
  <2>3. m - (Len(Q) - n) = m - (Len(R) - (n + 1))
    BY <1>1, <1>2
  <2>4. /\ m - (Len(R) - (n + 1)) >= 1
        /\ A[m - (Len(R) - (n + 1))] >= R[n + 1]
    BY <2>1, <2>2 DEF Covered
  <2> QED BY <2>2, <2>3, <2>4
<1>4. Covered(A, m, Q, h)
  BY <1>3 DEF Covered
<1> QED BY <1>4 DEF Q

\* The budget of a list of repairs; RecordedBudget is that of "repairs".
Budget(R) ==
    Len(R) > watchdogMaxAttempts => R[Len(R)] >= R[1] + Window

\* The repair that runs now: the fourth from the end is none of the three
\* attempts, so it has left the window.
LEMMA RepairRecorded ==
  ASSUME NEW A, Sound(A), NEW R \in Seq(1..MaxTime), NEW h \in 1..MaxTime,
         Len(A) >= 1, A[Len(A)] = h, Len(R) <= watchdogMaxAttempts + 1,
         Covered(A, Len(A) - 1, R, h)
  PROVE  /\ Remember(R, h) \in Seq(1..MaxTime)
         /\ Len(Remember(R, h)) <= watchdogMaxAttempts + 1
         /\ Covered(A, Len(A), Remember(R, h), h)
         /\ Budget(Remember(R, h))
<1> DEFINE all == Append(R, h)
           Q == Remember(R, h)
<1>1. /\ all \in Seq(1..MaxTime) /\ all # <<>> /\ Len(all) = Len(R) + 1
      /\ all[Len(R) + 1] = h
  BY AppendProperties
<1>2. /\ Len(A) \in Nat /\ Len(A) <= 3 /\ Len(R) \in Nat /\ Len(R) <= 4
      /\ h \in Nat /\ Window \in Nat
  <2>1. Len(A) \in Nat /\ Len(R) \in Nat
    BY LenProperties DEF Sound
  <2>2. Len(A) <= 3 /\ Len(R) <= 4
    BY <2>1 DEF Sound, watchdogMaxAttempts
  <2>3. h \in Nat /\ Window \in Nat
    BY WatchdogBounds
  <2> QED BY <2>1, <2>2, <2>3, Zenon
<1>3. Covered(A, Len(A), all, h)
  BY CoveredAppend
<1> HIDE DEF all
<1>4. Q = IF Len(all) > 4 THEN Tail(all) ELSE all
  BY DEF Remember, watchdogMaxAttempts, all
<1> HIDE DEF Q
<1>5. /\ Q \in Seq(1..MaxTime) /\ Len(Q) \in Nat /\ Len(Q) <= 4
      /\ Len(Q) > 3 => Q[Len(Q)] = h
  <2>1. CASE Len(all) > 4
    <3>1. Q = Tail(all)
      BY <1>4, <2>1
    <3>2. /\ Q \in Seq(1..MaxTime) /\ Len(Q) = Len(all) - 1
          /\ \A i \in 1..Len(Q) : Q[i] = all[i + 1]
      BY <1>1, <3>1, HeadTailProperties
    <3>0. \A n \in Nat : n <= 4 /\ n + 1 > 4 => n = 4
      OBVIOUS
    <3>3. Len(R) = 4 /\ Len(Q) = 4
      <4>1. Len(R) + 1 > 4
        BY <1>1, <2>1, Zenon
      <4>2. Len(R) = 4
        BY <1>2, <3>0, <4>1, Zenon
      <4>3. Len(Q) = Len(R) + 1 - 1 /\ 4 + 1 - 1 = 4
        BY <1>1, <3>2
      <4> QED BY <4>2, <4>3, Zenon
    <3>4. 4 \in 1..4 /\ 4 \in 1..Len(Q)
      BY <3>3
    <3>5. Q[4] = all[4 + 1]
      BY <3>2, <3>4
    <3>6. Q[Len(Q)] = h
      BY <1>1, <3>3, <3>5, Zenon
    <3>7. Len(Q) \in Nat /\ Len(Q) <= 4
      BY <3>3
    <3> QED BY <3>2, <3>6, <3>7, Zenon
  <2>2. CASE ~(Len(all) > 4)
    <3>1. Q = all
      BY <1>4, <2>2
    <3> QED BY <1>1, <1>2, <2>2, <3>1
  <2> QED BY <2>1, <2>2
<1>6. Covered(A, Len(A), Q, h)
  <2>1. CASE Len(all) > 4
    <3>1. Len(A) \in Int
      BY <1>2
    <3>2. Covered(A, Len(A), Tail(all), h)
      BY <1>1, <1>2, <1>3, <3>1, CoveredTail
    <3> QED BY <1>4, <2>1, <3>2
  <2>2. CASE ~(Len(all) > 4)
    BY <1>3, <1>4, <2>2
  <2> QED BY <2>1, <2>2
<1>7. ASSUME Len(Q) > 3
      PROVE  Q[Len(Q)] >= Q[1] + Window
  <2>1. Len(Q) = 4 /\ Q[Len(Q)] = h
    <3>1. Len(Q) \in Nat /\ Len(Q) <= 4
      BY <1>5, Zenon
    <3>2. Len(Q) = 4
      <4>1. \A n \in Nat : n <= 4 /\ n > 3 => n = 4
        OBVIOUS
      <4> QED BY <1>7, <3>1, <4>1, Zenon
    <3> QED BY <1>5, <1>7, <3>2, Zenon
  <2>2. ~(Len(A) - (Len(Q) - 1) >= 1)
    BY <1>2, <2>1
  <2>3. 1 \in 1..Len(Q)
    BY <2>1
  <2>4. Q[1] + Window <= h
    BY <1>6, <2>2, <2>3 DEF Covered
  <2>5. Q[1] \in Nat
    BY <1>5, <2>3, Places
  <2> QED BY <1>2, <2>1, <2>4, <2>5
<1>8. Budget(Q)
  BY <1>7 DEF Budget, watchdogMaxAttempts
<1>9. Len(Q) <= watchdogMaxAttempts + 1
  BY <1>5 DEF watchdogMaxAttempts
<1> QED BY <1>5, <1>6, <1>8, <1>9 DEF Q
\* What a saved state may hold, as the invariant says it.
LEMMA SoundRecord ==
  ASSUME NEW w \in WatchdogState
  PROVE  validateAttempts(w) <=> Sound(w.attempts)
<1>1. w.attempts \in Seq(1..MaxTime)
  BY DEF WatchdogState
<1> QED BY <1>1 DEF validateAttempts, Sound

\* The records that leave the attempts alone.
LEMMA PlainRecords ==
  ASSUME NEW w \in WatchdogState, NEW t \in 1..MaxTime
  PROVE  /\ suppressWatchdog(w) \in WatchdogState
         /\ suppressWatchdog(w).attempts = w.attempts
         /\ repairSucceeded(w) \in WatchdogState
         /\ repairSucceeded(w).attempts = w.attempts
         /\ repairFailed(w, t) \in WatchdogState
         /\ repairFailed(w, t).attempts = w.attempts
<1>1. 0 \in Time /\ t + Cooldown \in Time
      /\ 0 \in 0..(watchdogObservationThreshold - 1)
  BY WatchdogBounds DEF Time, watchdogObservationThreshold
<1>2. suppressWatchdog(w) \in WatchdogState
      /\ suppressWatchdog(w).attempts = w.attempts
  BY <1>1 DEF suppressWatchdog, WatchdogState
<1>3. repairSucceeded(w) \in WatchdogState
      /\ repairSucceeded(w).attempts = w.attempts
  BY <1>1 DEF repairSucceeded, WatchdogState
<1>4. repairFailed(w, t) \in WatchdogState
      /\ repairFailed(w, t).attempts = w.attempts
  BY <1>1 DEF repairFailed, WatchdogState
<1> QED BY <1>2, <1>3, <1>4

\* A route suppresses the watchdog at any time.
LEMMA SuppressedAttempts ==
  ASSUME NEW w \in WatchdogState
  PROVE  suppressWatchdog(w).attempts = w.attempts
<1>1. 1 \in 1..MaxTime
  BY WatchdogBounds
<1> QED BY <1>1, PlainRecords

\* A good observation keeps the recent attempts.
LEMMA HealthyRecord ==
  ASSUME NEW w \in WatchdogState, Sound(w.attempts), NEW t \in 1..MaxTime
  PROVE  /\ observedHealthy(w, t) \in WatchdogState
         /\ observedHealthy(w, t).attempts = recentWatchdogAttempts(w.attempts, t)
<1> DEFINE B == recentWatchdogAttempts(w.attempts, t)
<1>1. B \in Seq(1..MaxTime)
  <2>1. t \in Nat
    BY WatchdogBounds
  <2>2. Sound(B)
    BY <2>1, RecentAttempts
  <2> QED BY <2>2 DEF Sound
<1>2. 0 \in Time /\ 0 \in 0..(watchdogObservationThreshold - 1)
  BY WatchdogBounds DEF Time, watchdogObservationThreshold
<1>3. observedHealthy(w, t) =
          [w EXCEPT !.status = "healthy", !.failures = 0, !.cooldown = 0,
                    !.attempts = B]
  BY DEF observedHealthy
<1> HIDE DEF B
<1>4. observedHealthy(w, t) \in WatchdogState
      /\ observedHealthy(w, t).attempts = B
  BY <1>1, <1>2, <1>3 DEF WatchdogState
<1> QED BY <1>4 DEF B

\* So does a bad one, except that a decision to repair is recorded.
LEMMA FailedRecord ==
  ASSUME NEW w \in WatchdogState, Sound(w.attempts), NEW t \in 1..MaxTime
  PROVE  LET f == observedFailed(w, t)
             B == recentWatchdogAttempts(w.attempts, t)
         IN  /\ f \in WatchdogState
             /\ \/ f.status # "repairing" /\ f.attempts = B
                \/ f.status = "repairing" /\ f.attempts = Append(B, t)
<1> DEFINE f == observedFailed(w, t)
           B == recentWatchdogAttempts(w.attempts, t)
           C == Append(B, t)
           seen == [w EXCEPT !.attempts = B]
           open == [seen EXCEPT !.cooldown = 0]
<1> SUFFICES /\ f \in WatchdogState
             /\ \/ f.status # "repairing" /\ f.attempts = B
                \/ f.status = "repairing" /\ f.attempts = Append(B, t)
  OBVIOUS
<1>1. B \in Seq(1..MaxTime)
  <2>1. t \in Nat
    BY WatchdogBounds
  <2>2. Sound(B)
    BY <2>1, RecentAttempts
  <2> QED BY <2>2 DEF Sound
<1>2. C \in Seq(1..MaxTime)
  BY <1>1, AppendProperties
<1>3. /\ 0 \in Time /\ t \in Time /\ t + Cooldown \in Time
      /\ 0 \in 0..(watchdogObservationThreshold - 1)
  BY WatchdogBounds DEF Time, watchdogObservationThreshold
<1>4. w.failures \in Nat /\ w.cooldown \in Nat /\ t \in Nat
  BY WatchdogBounds DEF WatchdogState, Time, watchdogObservationThreshold
<1>5. ~Decides(w) => w.failures + 1 \in 0..(watchdogObservationThreshold - 1)
  BY <1>4 DEF Decides, watchdogObservationThreshold
<1>6. \/ f = [seen EXCEPT !.status = "degraded", !.failures = 0]
      \/ /\ ~Decides(w)
         /\ f = [open EXCEPT !.status = "observing", !.failures = @ + 1]
      \/ f = [open EXCEPT !.status = "degraded", !.failures = 0,
                          !.cooldown = t + Cooldown]
      \/ f = [open EXCEPT !.status = "repairing", !.failures = 0,
                          !.attempts = Append(@, t), !.last = t]
  <2> HIDE DEF B
  <2>1. seen.cooldown = w.cooldown
    BY DEF WatchdogState
  <2>2. CASE w.cooldown > t
    BY <2>1, <2>2, <1>4 DEF observedFailed, B
  <2>3. CASE w.cooldown <= t /\ ~Decides(w)
    BY <2>1, <2>3, <1>4 DEF observedFailed, B
  <2>4. CASE w.cooldown <= t /\ Decides(w)
    BY <2>1, <2>4, <1>4 DEF observedFailed, B
  <2> QED BY <1>4, <2>2, <2>3, <2>4
<1> HIDE DEF f, B
<1>7. seen \in WatchdogState /\ seen.attempts = B /\ seen.failures = w.failures
  BY <1>1 DEF WatchdogState
<1>8. open \in WatchdogState /\ open.attempts = B /\ open.failures = w.failures
  BY <1>3, <1>7 DEF WatchdogState
<1> HIDE DEF seen, open, C
<1>9. CASE f = [seen EXCEPT !.status = "degraded", !.failures = 0]
  <2>1. f \in WatchdogState
    BY <1>3, <1>7, <1>9 DEF WatchdogState
  <2>2. f.status = "degraded"
    BY <1>3, <1>7, <1>9 DEF WatchdogState
  <2>3. f.attempts = B
    BY <1>3, <1>7, <1>9 DEF WatchdogState
  <2> QED BY <2>1, <2>2, <2>3
<1>10. CASE /\ ~Decides(w)
            /\ f = [open EXCEPT !.status = "observing", !.failures = @ + 1]
  <2>1. f \in WatchdogState
    BY <1>5, <1>8, <1>10 DEF WatchdogState
  <2>2. f.status = "observing"
    BY <1>5, <1>8, <1>10 DEF WatchdogState
  <2>3. f.attempts = B
    BY <1>5, <1>8, <1>10 DEF WatchdogState
  <2> QED BY <2>1, <2>2, <2>3
<1>11. CASE f = [open EXCEPT !.status = "degraded", !.failures = 0,
                             !.cooldown = t + Cooldown]
  <2>1. f \in WatchdogState
    BY <1>3, <1>8, <1>11 DEF WatchdogState
  <2>2. f.status = "degraded"
    BY <1>3, <1>8, <1>11 DEF WatchdogState
  <2>3. f.attempts = B
    BY <1>3, <1>8, <1>11 DEF WatchdogState
  <2> QED BY <2>1, <2>2, <2>3
<1>12. CASE f = [open EXCEPT !.status = "repairing", !.failures = 0,
                             !.attempts = Append(@, t), !.last = t]
  <2>1. f = [open EXCEPT !.status = "repairing", !.failures = 0,
                         !.attempts = C, !.last = t]
    BY <1>8, <1>12 DEF C
  <2>2. f \in WatchdogState
    BY <1>2, <1>3, <1>8, <2>1 DEF WatchdogState
  <2>3. f.status = "repairing"
    BY <1>8, <2>1 DEF WatchdogState
  <2>4. f.attempts = C
    BY <1>8, <2>1 DEF WatchdogState
  <2> QED BY <2>2, <2>3, <2>4 DEF C
<1> QED BY <1>6, <1>9, <1>10, <1>11, <1>12

\* A refund takes back the last attempt, or nothing.
LEMMA RefundRecord ==
  ASSUME NEW w \in WatchdogState
  PROVE  /\ restoreInterrupted(w) \in WatchdogState
         /\ restoreInterrupted(w).attempts \in {w.attempts, Front(w.attempts)}
<1> DEFINE F == Front(w.attempts)
<1>1. w.attempts \in Seq(1..MaxTime) /\ F \in Seq(1..MaxTime)
  BY FrontFacts DEF WatchdogState
<1>2. 0 \in Time /\ 0 \in 0..(watchdogObservationThreshold - 1)
  BY WatchdogBounds DEF Time, watchdogObservationThreshold
<1>3. \/ restoreInterrupted(w) = w
      \/ \E A \in {w.attempts, F} :
            restoreInterrupted(w) =
                [w EXCEPT !.attempts = A, !.status = "observing",
                          !.failures = 0, !.last = 0]
  BY DEF restoreInterrupted
<1> HIDE DEF F
<1>4. CASE restoreInterrupted(w) = w
  BY <1>4
<1>5. ASSUME NEW A \in {w.attempts, F},
             restoreInterrupted(w) =
                [w EXCEPT !.attempts = A, !.status = "observing",
                          !.failures = 0, !.last = 0]
      PROVE  /\ restoreInterrupted(w) \in WatchdogState
             /\ restoreInterrupted(w).attempts = A
  <2> DEFINE r == restoreInterrupted(w)
  <2>1. A \in Seq(1..MaxTime)
    BY <1>1
  <2> HIDE DEF r
  <2>2. r = [w EXCEPT !.attempts = A, !.status = "observing",
                      !.failures = 0, !.last = 0]
    BY <1>5 DEF r
  <2>3. r \in WatchdogState
    BY <1>2, <2>1, <2>2 DEF WatchdogState
  <2>4. r.attempts = A
    BY <2>2 DEF WatchdogState
  <2> QED BY <2>3, <2>4 DEF r
<1>6. /\ restoreInterrupted(w) \in WatchdogState
      /\ restoreInterrupted(w).attempts \in {w.attempts, F}
  BY <1>3, <1>4, <1>5
<1> QED BY <1>6 DEF F
\* The repairs that are remembered stay typed.
LEMMA ConfirmedRepairs ==
  ASSUME RecordInv, Confirm
  PROVE  repairs' \in Seq(1..MaxTime) /\ Len(repairs') <= watchdogMaxAttempts + 1
<1>1. /\ repairs \in Seq(1..MaxTime) /\ Len(repairs) <= watchdogMaxAttempts + 1
      /\ wpc = "confirm"
  BY DEF RecordInv, TypeOK, Confirm, At
<1>2. now \in 1..MaxTime
  BY <1>1, WatchdogBounds DEF RecordInv, TypeOK, Away
<1> DEFINE Q == Append(repairs, now)
<1>3. Q \in Seq(1..MaxTime) /\ Q # <<>> /\ Len(Q) = Len(repairs) + 1
  BY <1>1, <1>2, AppendProperties
<1>4. Len(repairs) \in Nat
  BY <1>1, LenProperties
<1>5. repairs' = repairs \/ repairs' = Remember(repairs, now)
  BY DEF Confirm, StartRepair
<1> HIDE DEF Q
<1>6. Remember(repairs, now) = IF Len(Q) > watchdogMaxAttempts + 1
                               THEN Tail(Q) ELSE Q
  BY DEF Remember, Q
<1>7. CASE Len(Q) > watchdogMaxAttempts + 1
  <2>1. Tail(Q) \in Seq(1..MaxTime) /\ Len(Tail(Q)) = Len(Q) - 1
    BY <1>3, HeadTailProperties
  <2>2. Len(Tail(Q)) <= watchdogMaxAttempts + 1
    BY <1>1, <1>3, <1>4, <2>1 DEF watchdogMaxAttempts
  <2> QED BY <1>1, <1>5, <1>6, <1>7, <2>1, <2>2
<1>8. CASE ~(Len(Q) > watchdogMaxAttempts + 1)
  <2>1. Len(Q) <= watchdogMaxAttempts + 1
    BY <1>3, <1>4, <1>8 DEF watchdogMaxAttempts
  <2> QED BY <1>1, <1>3, <1>5, <1>6, <1>8, <2>1
<1> QED BY <1>7, <1>8

\* Those that are left when one was cancelled, too.
LEMMA EndedRepairs ==
  ASSUME TypeOK, RepairWatchdog
  PROVE  repairs' \in Seq(1..MaxTime) /\ Len(repairs') <= watchdogMaxAttempts + 1
<1>1. repairs \in Seq(1..MaxTime) /\ Len(repairs) <= watchdogMaxAttempts + 1
  BY DEF TypeOK
<1>2. repairs' = repairs \/ repairs' = Front(repairs)
  BY DEF RepairWatchdog
<1>3. /\ Front(repairs) \in Seq(1..MaxTime)
      /\ Len(repairs) < 1 => Len(Front(repairs)) < 1
      /\ Len(repairs) >= 1 => Len(Front(repairs)) = Len(repairs) - 1
  BY <1>1, FrontFacts
<1>4. Len(repairs) \in Nat
  BY <1>1, LenProperties
<1>5. Len(Front(repairs)) <= watchdogMaxAttempts + 1
  BY <1>1, <1>3, <1>4, LenProperties DEF watchdogMaxAttempts
<1> QED BY <1>1, <1>2, <1>3, <1>5

\* What every record that Reconcile may save is made of.
LEMMA ReconcileRecords ==
  ASSUME RecordInv
  PROVE  /\ Sound(wd.attempts)
         /\ suppressWatchdog(wd) \in WatchdogState
         /\ repairSucceeded(wd) \in WatchdogState
         /\ restoreInterrupted(wd) \in WatchdogState
         /\ wpc \notin Away =>
              /\ now \in 1..MaxTime
              /\ observedHealthy(wd, now) \in WatchdogState
              /\ observedFailed(wd, now) \in WatchdogState
              /\ repairFailed(wd, now) \in WatchdogState
<1>1. wd \in WatchdogState /\ Sound(wd.attempts)
  BY SoundRecord DEF RecordInv, TypeOK
<1>2. 1 \in 1..MaxTime
  BY WatchdogBounds
<1>3. ASSUME wpc \notin Away PROVE now \in 1..MaxTime
  BY <1>3, WatchdogBounds DEF RecordInv, TypeOK
<1> QED
  BY <1>1, <1>2, <1>3, PlainRecords, RefundRecord, HealthyRecord, FailedRecord

\* The types of everything but the records.
LEMMA NextTypes ==
  ASSUME RecordInv, [Next]_vars
  PROVE  TypeOK'
<1> USE DEF Away
<1>0. /\ TypeOK /\ (wpc \notin Away => now \in 1..MaxTime)
      /\ 0 \in 0..MaxTime /\ 1..MaxTime \subseteq 0..MaxTime
  BY ReconcileRecords, WatchdogBounds DEF RecordInv
<1>a. ASSUME NEW w \in WatchdogState, wd' = wd \/ (wd' = w /\ validateAttempts(w))
      PROVE  wd' \in WatchdogState /\ Len(wd'.attempts) <= watchdogMaxAttempts
  BY <1>0, <1>a DEF TypeOK, validateAttempts
<1>b. faults < MaxFaults /\ faults' = faults + 1 => faults' \in 0..MaxFaults
  BY <1>0, WatchdogBounds DEF TypeOK
<1>1. CASE Load
  BY <1>0, <1>1 DEF Load, At, TypeOK, fileVars, gateUnchanged, handlerVars,
     gateVars, clockVars, WatchdogSteps, Holding
<1>2. CASE Suppress
  <2>1. wd' = wd \/ (wd' = suppressWatchdog(wd)
                        /\ validateAttempts(suppressWatchdog(wd)))
    BY <1>2 DEF Suppress, Conclude, Update
  <2>2. wd' \in WatchdogState /\ Len(wd'.attempts) <= watchdogMaxAttempts
    BY <1>a, <2>1, ReconcileRecords
  <2> QED
    BY <1>0, <1>b, <1>2, <2>2 DEF Suppress, Conclude, Update, Done, TypeOK,
       gateUnchanged, handlerVars, gateVars, clockVars, WatchdogSteps, Holding
<1>3. CASE ObserveWatchdog
  BY <1>0, <1>3 DEF ObserveWatchdog, At, Goto, TypeOK, fileVars, gateUnchanged,
     handlerVars, gateVars, clockVars, WatchdogSteps, Holding
<1>4. CASE Healthy
  <2>1. /\ wpc = "healthy"
        /\ wd' = wd \/ (wd' = observedHealthy(wd, now)
                          /\ validateAttempts(observedHealthy(wd, now)))
    BY <1>4 DEF Healthy, At, Conclude, Update
  <2>2. wd' \in WatchdogState /\ Len(wd'.attempts) <= watchdogMaxAttempts
    BY <1>a, <2>1, ReconcileRecords
  <2> QED
    BY <1>0, <1>b, <1>4, <2>2 DEF Healthy, Conclude, Update, Done, TypeOK,
       gateUnchanged, handlerVars, gateVars, clockVars, WatchdogSteps, Holding
<1>5. CASE Failed
  <2>1. PICK w \in WatchdogState :
           Update(w, IF desired = "running" /\ w.status = "repairing"
                     THEN Goto("recheck") ELSE Done, Done)
    <3>1. wpc = "failed"
      BY <1>5 DEF Failed, At
    <3> QED BY <1>5, <3>1, ReconcileRecords DEF Failed
  <2>2. wd' = wd \/ (wd' = w /\ validateAttempts(w))
    BY <2>1 DEF Update
  <2>3. wd' \in WatchdogState /\ Len(wd'.attempts) <= watchdogMaxAttempts
    BY <1>a, <2>2
  <2> QED
    BY <1>0, <1>b, <1>5, <2>1, <2>3 DEF Failed, Update, Done, Goto, TypeOK,
       gateUnchanged, handlerVars, gateVars, clockVars, WatchdogSteps, Holding
<1>6. CASE Recheck
  BY <1>0, <1>6 DEF Recheck, At, Goto, TypeOK, fileVars, gateUnchanged,
     handlerVars, gateVars, clockVars, WatchdogSteps, Holding
<1>7. CASE Gate \/ Register
  BY <1>0, <1>7 DEF Gate, Register, At, Goto, TypeOK, fileVars, handlerVars,
     clockVars, WatchdogSteps, Holding
<1>8. CASE Confirm
  <2>1. repairs' \in Seq(1..MaxTime) /\ Len(repairs') <= watchdogMaxAttempts + 1
    BY <1>8, ConfirmedRepairs
  <2> QED
    BY <1>0, <1>8, <2>1 DEF Confirm, At, Goto, StartRepair, TypeOK, fileVars,
       gateUnchanged, handlerVars, gateVars, clockVars, WatchdogSteps, Holding
<1>9. CASE SuppressConfirmed \/ Interrupted \/ Repaired \/ RepairFailed
  <2>1. PICK w \in WatchdogState : ConcludeHolding(w)
    <3>1. wpc \notin Away /\ wd \in WatchdogState
      BY <1>0, <1>9 DEF SuppressConfirmed, Interrupted, Repaired, RepairFailed,
         At, TypeOK
    <3> QED
      BY <1>9, <3>1, ReconcileRecords
         DEF SuppressConfirmed, Interrupted, Repaired, RepairFailed
  <2>2. wd' = wd \/ (wd' = w /\ validateAttempts(w))
    BY <2>1 DEF ConcludeHolding, Update
  <2>3. wd' \in WatchdogState /\ Len(wd'.attempts) <= watchdogMaxAttempts
    BY <1>a, <2>2
  <2> QED
    BY <1>0, <1>b, <2>1, <2>3 DEF ConcludeHolding, Update, Goto, TypeOK,
       gateUnchanged, handlerVars, gateVars, clockVars, WatchdogSteps, Holding
<1>10. CASE RepairWatchdog
  <2>1. repairs' \in Seq(1..MaxTime) /\ Len(repairs') <= watchdogMaxAttempts + 1
    BY <1>10, EndedRepairs DEF RecordInv
  <2> QED
    BY <1>0, <1>10, <2>1 DEF RepairWatchdog, At, Goto, TypeOK, fileVars,
       gateUnchanged, handlerVars, gateVars, clockVars, WatchdogSteps, Holding
<1>11. CASE Release
  BY <1>0, <1>11 DEF Release, At, Done, TypeOK, fileVars, handlerVars,
     clockVars, WatchdogSteps, Holding
<1>12. ASSUME NEW h \in Handler, Request(h) \/ CancelRepair(h) \/ Lock(h) \/ Unlock(h)
       PROVE  TypeOK'
  BY <1>0, <1>12, MutationAssumption
     DEF Request, CancelRepair, Lock, Unlock, TypeOK, fileVars, gateVars,
         watchdogUnchanged, clockVars, Kind, DesiredState
<1>13. ASSUME NEW h \in Handler, Mutate(h)
       PROVE  TypeOK'
  <2>1. wd' \in WatchdogState /\ Len(wd'.attempts) <= watchdogMaxAttempts
    <3>1. wd' \in {wd, suppressWatchdog(wd)}
      BY <1>13 DEF Mutate, fileVars
    <3>2. 1 \in 1..MaxTime
      BY WatchdogBounds
    <3> QED BY <1>0, <3>1, <3>2, PlainRecords DEF TypeOK
  <2>2. desired' \in DesiredState
    BY <1>0, <1>13 DEF Mutate, fileVars, TypeOK, Kind, DesiredState
  <2> QED
    BY <1>0, <1>13, <2>1, <2>2
       DEF Mutate, TypeOK, gateVars, watchdogUnchanged, clockVars
<1>14. CASE EngineEnds
  BY <1>0, <1>14 DEF EngineEnds, TypeOK, handlerVars, gateVars,
     watchdogUnchanged, clockVars, DesiredState
<1>15. CASE Tick \/ SetBack
  <2>1. clock' \in 1..MaxTime /\ back' \in 0..MaxBack
    BY <1>0, <1>15, WatchdogBounds DEF Tick, SetBack, TypeOK
  <2> QED
    BY <1>0, <1>15, <2>1 DEF Tick, SetBack, TypeOK, fileVars, handlerVars,
       gateVars
<1>16. CASE Crash
  BY <1>0, <1>b, <1>16 DEF Crash, TypeOK, fileVars, clockVars, WatchdogSteps,
     Kind, DesiredState
<1>17. CASE Boot
  BY <1>0, <1>17 DEF Boot, At, Done, TypeOK, fileVars, gateUnchanged,
     handlerVars, gateVars, clockVars, WatchdogSteps
<1>18. CASE UNCHANGED vars
  BY <1>0, <1>18 DEF vars, TypeOK, fileVars, handlerVars, gateVars, clockVars
<1> QED
  BY <1>1, <1>2, <1>3, <1>4, <1>5, <1>6, <1>7, <1>8, <1>9, <1>10, <1>11,
     <1>12, <1>13, <1>14, <1>15, <1>16, <1>17, <1>18 DEF Next, Reconcile, Handle
\* A step that leaves attempts and repairs alone keeps the records, whether a
\* decision to repair goes on, is given up or was never made.
LEMMA SameRecords ==
  ASSUME RecordInv, TypeOK',
         wd'.attempts = wd.attempts, repairs' = repairs,
         wpc' \notin Away => now' >= 1,
         wpc' \in Pending \union {"repair"} =>
             now' = now /\ wpc \in Pending \union {"repair"},
         wpc' \in Pending => wpc \in Pending,
         back' = 0 => back = 0 /\ now' <= clock' /\ Horizon <= Horizon'
  PROVE  RecordInv'
<1>1. /\ Sound(wd.attempts) /\ repairs \in Seq(1..MaxTime)
      /\ Len(wd.attempts) \in Nat
  <2>1. Sound(wd.attempts) /\ repairs \in Seq(1..MaxTime)
    BY ReconcileRecords DEF RecordInv, TypeOK
  <2> QED BY <2>1, LenProperties DEF Sound
<1>2. validateAttempts(wd)'
  BY DEF RecordInv, validateAttempts
<1>3. wpc' \in Pending \union {"repair"} => Recorded'
  BY DEF RecordInv, Recorded
<1>4. ASSUME back' = 0
      PROVE  Covered(wd.attempts, Counted', repairs, Horizon')
  <2>1. Horizon \in Nat /\ Horizon' \in Nat /\ Horizon <= Horizon'
    BY <1>4, WatchdogBounds DEF Horizon, RecordInv, TypeOK
  <2>2. Counted \in Int
    BY <1>1 DEF Counted
  <2>3. Covered(wd.attempts, Counted, repairs, Horizon)
    BY <1>4 DEF RecordInv
  <2>4. Covered(wd.attempts, Counted, repairs, Horizon')
    BY <1>1, <2>1, <2>2, <2>3, CoveredLater
  <2>5. Counted' = Counted \/ (/\ Counted = Len(wd.attempts) - 1
                               /\ Counted' = Len(wd.attempts))
    BY DEF Counted
  <2>6. CASE Counted' = Counted
    BY <2>4, <2>6
  <2>7. CASE Counted = Len(wd.attempts) - 1 /\ Counted' = Len(wd.attempts)
    <3>1. Covered(wd.attempts, Len(wd.attempts) - 1, repairs, Horizon')
      BY <2>4, <2>7
    <3>2. Covered(wd.attempts, Len(wd.attempts), repairs, Horizon')
      BY <1>1, <2>1, <3>1, CoveredMore
    <3> QED BY <2>7, <3>2
  <2> QED BY <2>5, <2>6, <2>7
<1>5. back' = 0 => Covered(wd.attempts, Counted, repairs, Horizon)'
  BY <1>4 DEF Covered
<1>6. back' = 0 => RecordedBudget'
  BY DEF RecordInv, RecordedBudget
<1> QED
  BY <1>2, <1>3, <1>5, <1>6 DEF RecordInv

\* The horizon and the attempts after a step, by what it does to them.
LEMMA RecordsAfter ==
  ASSUME TypeOK', Sound(wd'.attempts),
         wpc' \notin Away => now' >= 1,
         wpc' \in Pending \union {"repair"} => Recorded',
         back' = 0 => now' <= clock',
         back' = 0 => Covered(wd'.attempts, Counted', repairs', Horizon'),
         back' = 0 => Budget(repairs')
  PROVE  RecordInv'
<1>1. validateAttempts(wd')
  <2>1. wd' \in WatchdogState
    BY DEF TypeOK
  <2> QED BY <2>1, SoundRecord
<1>2. Budget(repairs') => RecordedBudget'
  <2>1. repairs' \in Seq(1..MaxTime)
    BY DEF TypeOK
  <2>2. Last(repairs') = repairs'[Len(repairs')] /\ Head(repairs') = repairs'[1]
    BY DEF Last
  <2> QED BY <2>2 DEF Budget, RecordedBudget
<1>3. validateAttempts(wd)' /\ (back' = 0 => RecordedBudget')
      /\ (back' = 0 => Covered(wd.attempts, Counted, repairs, Horizon)')
  BY <1>1, <1>2 DEF validateAttempts, Covered
<1> QED BY <1>3 DEF RecordInv

\* A decision is recorded among the recent attempts; every other observation
\* only drops those that left the window.
LEMMA ObservedRecords ==
  ASSUME RecordInv, TypeOK', Healthy \/ Failed
  PROVE  RecordInv'
<1> DEFINE A == wd.attempts
           B == recentWatchdogAttempts(wd.attempts, now)
<1>1. /\ wpc \in {"healthy", "failed"} /\ wpc \notin Away /\ wpc \notin Pending
      /\ UNCHANGED <<repairs, clock, back>>
  BY DEF Healthy, Failed, At, Conclude, gateUnchanged, clockVars, Away, Pending
<1>2. /\ wd \in WatchdogState /\ now \in 1..MaxTime /\ Sound(A)
      /\ repairs \in Seq(1..MaxTime) /\ now \in Nat
      /\ clock \in Nat /\ Len(A) \in Nat
  <2>1. wd \in WatchdogState /\ now \in 1..MaxTime /\ Sound(A)
        /\ repairs \in Seq(1..MaxTime)
    BY <1>1, ReconcileRecords DEF RecordInv, TypeOK
  <2>2. now \in Nat /\ clock \in Nat
    BY <2>1, WatchdogBounds DEF RecordInv, TypeOK
  <2>3. Len(A) \in Nat
    BY <2>1, LenProperties DEF Sound
  <2> QED BY <2>1, <2>2, <2>3
<1>3. back = 0 => /\ now <= clock /\ Covered(A, Len(A), repairs, now)
                  /\ RecordedBudget
  BY <1>1 DEF RecordInv, Counted, Horizon
<1>4. Sound(B) /\ (back = 0 => Covered(B, Len(B), repairs, now))
  BY <1>2, <1>3, CoveredRecent, RecentAttempts
<1>5. \/ wd' = wd /\ wpc' = "idle" /\ now' = 0
      \/ /\ wd'.attempts \in {A, B} /\ wpc' = "idle" /\ now' = 0
      \/ /\ wd'.attempts = Append(B, now) /\ Sound(wd'.attempts)
         /\ \/ wpc' = "idle" /\ now' = 0
            \/ wpc' = "recheck" /\ now' = now
  <2>1. CASE Healthy
    BY <1>2, <2>1, HealthyRecord DEF Healthy, Conclude, Update, Done
  <2>2. CASE Failed /\ desired = "running"
    <3> DEFINE f == observedFailed(wd, now)
    <3>1. /\ f \in WatchdogState
          /\ \/ f.status # "repairing" /\ f.attempts = B
             \/ f.status = "repairing" /\ f.attempts = Append(B, now)
      BY <1>2, FailedRecord
    <3> HIDE DEF f, B
    <3>2. Update(f, IF desired = "running" /\ f.status = "repairing"
                    THEN Goto("recheck") ELSE Done, Done)
      BY <2>2 DEF Failed, f
    <3>3. \/ wd' = wd /\ Done
          \/ /\ wd' = f /\ validateAttempts(f)
             /\ \/ Done
                \/ f.status = "repairing" /\ Goto("recheck")
      BY <3>2 DEF Update
    <3>4. validateAttempts(f) => Sound(f.attempts)
      BY <3>1, SoundRecord
    <3> QED BY <3>1, <3>3, <3>4 DEF Done, Goto
  <2>3. CASE Failed /\ desired # "running"
    <3>1. suppressWatchdog(wd).attempts = A
      BY <1>2, PlainRecords
    <3>2. (wd' = wd \/ wd' = suppressWatchdog(wd)) /\ Done
      BY <2>3 DEF Failed, Update
    <3> QED BY <3>1, <3>2 DEF Done
  <2> QED BY <2>1, <2>2, <2>3
<1> HIDE DEF B
<1>6. CASE wpc' = "idle" /\ now' = 0 /\ wd'.attempts \in {A, B}
  <2> DEFINE C == wd'.attempts
  <2>1. Sound(C) /\ (back = 0 => Covered(C, Len(C), repairs, now))
    <3>1. CASE C = A
      BY <1>2, <1>3, <3>1
    <3>2. CASE C = B
      BY <1>4, <3>2
    <3> QED BY <1>6, <3>1, <3>2
  <2>2. Counted' = Len(C) /\ Horizon' = clock
    BY <1>1, <1>6 DEF Counted, Horizon, Away, Pending
  <2>3. back = 0 => Covered(C, Len(C), repairs, clock)
    <3>1. Len(C) \in Int
      BY <2>1, LenProperties DEF Sound
    <3> HIDE DEF C
    <3> QED BY <1>2, <1>3, <2>1, <3>1, CoveredLater
  <2>4. back = 0 => Budget(repairs)
    BY <1>2, <1>3 DEF RecordedBudget, Budget, Last
  <2> QED
    BY <1>1, <1>2, <1>6, <2>1, <2>2, <2>3, <2>4, RecordsAfter
       DEF Away, Pending
<1>7. CASE /\ wd'.attempts = Append(B, now) /\ Sound(wd'.attempts)
           /\ \/ wpc' = "idle" /\ now' = 0
              \/ wpc' = "recheck" /\ now' = now
  <2> DEFINE C == wd'.attempts
  <2>1. /\ Len(C) = Len(B) + 1 /\ C[Len(B) + 1] = now
        /\ \A i \in 1..Len(B) : C[i] = B[i]
    <3>1. B \in Seq(1..MaxTime)
      BY <1>4 DEF Sound
    <3> QED BY <1>2, <1>7, <3>1, AppendProperties
  <2>2. Len(B) \in Nat
    BY <1>4, LenProperties DEF Sound
  <2>3. Sound(C)
    BY <1>7
  <2> HIDE DEF C
  <2>4. Len(B) \in Int /\ Len(C) - 1 = Len(B)
    BY <2>1, <2>2
  <2>5. back = 0 => Covered(C, Len(C) - 1, repairs, now)
    <3>1. back = 0 => Covered(C, Len(B), repairs, now)
      BY <1>2, <1>4, <2>1, <2>4, CoveredSame
    <3> QED BY <2>4, <3>1
  <2>6. back = 0 => Covered(C, Len(C), repairs, now)
    BY <1>2, <2>3, <2>5, CoveredMore
  <2>7. back = 0 => Covered(C, Len(C), repairs, clock)
    <3>1. Len(C) \in Int
      BY <2>1, <2>2
    <3> QED BY <1>2, <1>3, <2>6, <3>1, CoveredLater
  <2>8. back = 0 => Budget(repairs)
    BY <1>2, <1>3 DEF RecordedBudget, Budget, Last
  <2>9. Len(C) >= 1 /\ C[Len(C)] = now
    BY <2>1, <2>2
  <2>10. CASE wpc' = "idle" /\ now' = 0
    <3>1. Counted' = Len(C) /\ Horizon' = clock
      BY <1>1, <2>10 DEF Counted, Horizon, Away, Pending, C
    <3> QED
      BY <1>1, <1>2, <2>3, <2>7, <2>8, <2>10, <3>1, RecordsAfter
         DEF Away, Pending, C
  <2>11. CASE wpc' = "recheck" /\ now' = now
    <3>1. Counted' = Len(C) - 1 /\ Horizon' = now
      BY <2>11 DEF Counted, Horizon, Away, Pending, C
    <3>2. Recorded'
      BY <2>9, <2>11 DEF Recorded, C
    <3> QED
      BY <1>1, <1>2, <1>3, <2>3, <2>5, <2>8, <2>11, <3>1, <3>2, RecordsAfter
         DEF Away, Pending, C
  <2> QED BY <1>7, <2>10, <2>11
<1> QED BY <1>5, <1>6, <1>7
\* The repair that starts is the one that was recorded last.
LEMMA StartedRecords ==
  ASSUME RecordInv, TypeOK', Confirm, wpc' = "repair"
  PROVE  RecordInv'
<1> DEFINE A == wd.attempts
           Q == Remember(repairs, now)
<1>1. /\ wpc = "confirm" /\ wd' = wd /\ now' = now /\ repairs' = Q
      /\ UNCHANGED <<clock, back>>
  BY DEF Confirm, At, Goto, StartRepair, fileVars, gateUnchanged, clockVars
<1>2. /\ wpc \in Pending /\ wpc \notin Away
      /\ wpc' \notin Pending /\ wpc' \notin Away
  BY <1>1 DEF Pending, Away
<1>3. /\ now \in 1..MaxTime /\ Sound(A) /\ repairs \in Seq(1..MaxTime)
      /\ Len(repairs) <= watchdogMaxAttempts + 1
      /\ Len(A) >= 1 /\ A[Len(A)] = now
  BY <1>2, ReconcileRecords DEF RecordInv, TypeOK, Recorded
<1>4. back = 0 => now <= clock /\ Covered(A, Len(A) - 1, repairs, now)
  BY <1>2 DEF RecordInv, Counted, Horizon
<1>5. back = 0 => Covered(A, Len(A), Q, now) /\ Budget(Q)
  BY <1>3, <1>4, RepairRecorded
<1>6. Counted' = Len(A) /\ Horizon' = now /\ Recorded'
  BY <1>1, <1>2, <1>3 DEF Counted, Horizon, Recorded
<1>7. now' >= 1
  BY <1>1, <1>3, WatchdogBounds
<1> HIDE DEF Q
<1> QED BY <1>1, <1>3, <1>4, <1>5, <1>6, <1>7, RecordsAfter

\* A repair that was cancelled is not counted, and its attempt is pending
\* again, to be refunded.
LEMMA CancelledRecords ==
  ASSUME RecordInv, TypeOK', RepairWatchdog, wpc' = "interrupted"
  PROVE  RecordInv'
<1> DEFINE A == wd.attempts
           Q == Front(repairs)
<1>1. /\ wpc = "repair" /\ wd' = wd /\ now' = now /\ repairs' = Q
      /\ UNCHANGED <<clock, back>>
  BY DEF RepairWatchdog, At, Goto, fileVars, gateUnchanged, clockVars
<1>2. /\ wpc \notin Pending /\ wpc \notin Away
      /\ wpc' \in Pending /\ wpc' \notin Away
  BY <1>1 DEF Pending, Away
<1>3. /\ now \in 1..MaxTime /\ Sound(A) /\ repairs \in Seq(1..MaxTime)
      /\ Len(repairs) <= watchdogMaxAttempts + 1 /\ Recorded
  BY <1>1, <1>2, ReconcileRecords DEF RecordInv, TypeOK
<1>4. back = 0 => now <= clock /\ Covered(A, Len(A), repairs, now)
  BY <1>2 DEF RecordInv, Counted, Horizon
<1>5. now \in Nat /\ now >= 1
  BY <1>3, WatchdogBounds
<1>6. back = 0 => Covered(A, Len(A) - 1, Q, now)
  BY <1>3, <1>4, <1>5, CoveredUndone
<1>7. Budget(Q)
  <2>1. /\ Len(repairs) < 1 => Len(Q) < 1
        /\ Len(repairs) >= 1 => Len(Q) = Len(repairs) - 1
    BY <1>3, FrontFacts
  <2>2. Len(repairs) \in Nat /\ Len(repairs) <= 4
    BY <1>3, LenProperties DEF watchdogMaxAttempts
  <2> HIDE DEF Q
  <2>3. ~(Len(Q) > 3)
    BY <1>1, <2>1, <2>2, LenProperties
  <2> QED BY <2>3 DEF Budget, watchdogMaxAttempts
<1>8. Counted' = Len(A) - 1 /\ Horizon' = now /\ Recorded'
  BY <1>1, <1>2, <1>3 DEF Counted, Horizon, Recorded
<1> HIDE DEF Q
<1> QED BY <1>1, <1>3, <1>4, <1>5, <1>6, <1>7, <1>8, RecordsAfter

\* The refund takes back the attempt of the repair that did not run.
LEMMA RefundedRecords ==
  ASSUME RecordInv, TypeOK', Interrupted
  PROVE  RecordInv'
<1> DEFINE A == wd.attempts
           F == Front(A)
<1>1. /\ wpc = "interrupted" /\ wpc' = "release" /\ now' = now
      /\ UNCHANGED <<repairs, clock, back>>
      /\ \/ wd' = wd
         \/ /\ wd' = restoreInterrupted(wd)
            /\ validateAttempts(restoreInterrupted(wd))
  BY DEF Interrupted, At, ConcludeHolding, Update, Goto, gateUnchanged, clockVars
<1>2. /\ wpc \in Pending /\ wpc \notin Away
      /\ wpc' \notin Pending \union {"repair"} /\ wpc' \notin Away
  BY <1>1 DEF Pending, Away
<1>3. /\ wd \in WatchdogState /\ restoreInterrupted(wd) \in WatchdogState
      /\ restoreInterrupted(wd).attempts \in {A, F}
  BY RefundRecord DEF RecordInv, TypeOK
<1>4. now \in 1..MaxTime /\ now \in Nat /\ now >= 1
  BY <1>2, WatchdogBounds DEF RecordInv, TypeOK
<1>5. CASE wd'.attempts = A
  <2>1. Horizon' = Horizon /\ (back' = 0 => back = 0 /\ now' <= clock')
    BY <1>1, <1>2 DEF Horizon, RecordInv
  <2>2. Horizon <= Horizon'
    BY <1>2, <1>4, <2>1 DEF Horizon
  <2> QED BY <1>1, <1>2, <1>4, <1>5, <2>1, <2>2, SameRecords
<1>6. CASE wd' = restoreInterrupted(wd) /\ wd'.attempts = F
  <2>1. Sound(F)
    BY <1>1, <1>3, <1>6, SoundRecord DEF RecordInv
  <2>2. /\ A \in Seq(1..MaxTime) /\ repairs \in Seq(1..MaxTime)
        /\ Len(A) \in Nat /\ Len(A) >= 1
    <3>1. A \in Seq(1..MaxTime) /\ repairs \in Seq(1..MaxTime)
      BY <1>3 DEF WatchdogState, RecordInv, TypeOK
    <3>2. Len(A) >= 1
      BY <1>2 DEF RecordInv, Recorded
    <3> QED BY <3>1, <3>2, LenProperties
  <2>3. Len(F) = Len(A) - 1 /\ \A i \in 1..Len(A) - 1 : F[i] = A[i]
    BY <2>2, FrontFacts
  <2>4. back = 0 => /\ now <= clock /\ RecordedBudget
                    /\ Covered(A, Len(A) - 1, repairs, now)
    BY <1>2 DEF RecordInv, Counted, Horizon
  <2> HIDE DEF F
  <2>5. back = 0 => Covered(F, Len(F), repairs, now)
    <3>1. Len(A) - 1 \in Int
      BY <2>2
    <3>2. back = 0 => Covered(F, Len(A) - 1, repairs, now)
      BY <1>4, <2>2, <2>3, <2>4, <3>1, CoveredSame
    <3> QED BY <2>3, <3>2
  <2>6. back = 0 => Budget(repairs)
    BY <2>2, <2>4 DEF RecordedBudget, Budget, Last
  <2>7. Counted' = Len(F) /\ Horizon' = now
    BY <1>1, <1>2, <1>6 DEF Counted, Horizon
  <2> QED
    BY <1>1, <1>2, <1>4, <1>6, <2>1, <2>4, <2>5, <2>6, <2>7, RecordsAfter
<1> QED BY <1>1, <1>3, <1>5, <1>6

\* Every step keeps the invariant.
LEMMA NextRecords ==
  ASSUME RecordInv, [Next]_vars
  PROVE  RecordInv'
<1> USE DEF Away, Pending
<1>0. /\ TypeOK' /\ TypeOK /\ (wpc \notin Away => now \in 1..MaxTime)
      /\ now \in Nat /\ clock \in Nat /\ clock >= 1 /\ back \in Nat
      /\ wd \in WatchdogState
  BY NextTypes, ReconcileRecords, WatchdogBounds DEF RecordInv, TypeOK
<1>1. back = 0 => now <= clock
  BY DEF RecordInv
<1>2. Horizon = IF wpc \in Away THEN clock ELSE now
  BY DEF Horizon
<1>3. Horizon' = IF wpc' \in Away THEN clock' ELSE now'
  BY DEF Horizon
<1>4. wpc \notin Away => now >= 1
  BY DEF RecordInv
<1>5. CASE Load
  BY <1>0, <1>1, <1>2, <1>3, <1>5, SameRecords
     DEF Load, At, fileVars, gateUnchanged, clockVars
<1>6. CASE Suppress
  <2>1. wd'.attempts = wd.attempts
    <3>1. suppressWatchdog(wd).attempts = wd.attempts
      BY <1>0, SuppressedAttempts
    <3> QED BY <1>6, <3>1 DEF Suppress, Conclude, Update
  <2>2. /\ wpc \notin {"idle", "down"} /\ wpc' = "idle" /\ now' = 0
        /\ UNCHANGED <<repairs, clock, back>>
    BY <1>6 DEF Suppress, Conclude, Update, Done, gateUnchanged, clockVars
  <2> QED
    BY <1>0, <1>1, <1>2, <1>3, <1>4, <2>1, <2>2, SameRecords
<1>7. CASE ObserveWatchdog \/ Recheck \/ Gate \/ Register
  BY <1>0, <1>1, <1>2, <1>3, <1>4, <1>7, SameRecords
     DEF ObserveWatchdog, Recheck, Gate, Register, At, Goto, fileVars,
         gateUnchanged, clockVars
<1>8. CASE Healthy \/ Failed
  BY <1>0, <1>8, ObservedRecords
<1>9. CASE Confirm
  <2>1. CASE wpc' = "repair"
    BY <1>0, <1>9, <2>1, StartedRecords
  <2>2. CASE wpc' # "repair"
    BY <1>0, <1>1, <1>2, <1>3, <1>4, <1>9, <2>2, SameRecords
       DEF Confirm, StartRepair, At, Goto, fileVars, gateUnchanged, clockVars
  <2> QED BY <2>1, <2>2
<1>10. CASE SuppressConfirmed \/ Repaired \/ RepairFailed
  <2>1. PICK w \in WatchdogState :
           w.attempts = wd.attempts /\ ConcludeHolding(w)
    <3>1. wpc \notin Away
      BY <1>10 DEF SuppressConfirmed, Repaired, RepairFailed, At
    <3> QED
      BY <1>0, <1>10, <3>1, PlainRecords
         DEF SuppressConfirmed, Repaired, RepairFailed
  <2>2. wd'.attempts = wd.attempts
    BY <2>1 DEF ConcludeHolding, Update
  <2>3. wpc \notin Away /\ wpc' = "release"
    BY <1>10, <2>1 DEF SuppressConfirmed, Repaired, RepairFailed, At,
       ConcludeHolding, Update, Goto
  <2> QED
    BY <1>0, <1>1, <1>2, <1>3, <1>4, <2>1, <2>2, <2>3, SameRecords
       DEF ConcludeHolding, Update, Goto, gateUnchanged, clockVars
<1>11. CASE RepairWatchdog
  <2>1. CASE wpc' = "interrupted"
    BY <1>0, <1>11, <2>1, CancelledRecords
  <2>2. CASE wpc' # "interrupted"
    BY <1>0, <1>1, <1>2, <1>3, <1>4, <1>11, <2>2, SameRecords
       DEF RepairWatchdog, At, Goto, fileVars, gateUnchanged, clockVars
  <2> QED BY <2>1, <2>2
<1>12. CASE Interrupted
  BY <1>0, <1>12, RefundedRecords
<1>13. CASE Release
  BY <1>0, <1>1, <1>2, <1>3, <1>4, <1>13, SameRecords
     DEF Release, At, Done, fileVars, clockVars
<1>14. ASSUME NEW h \in Handler, Request(h) \/ CancelRepair(h) \/ Lock(h) \/ Unlock(h)
       PROVE  RecordInv'
  BY <1>0, <1>1, <1>2, <1>3, <1>4, <1>14, SameRecords
     DEF Request, CancelRepair, Lock, Unlock, fileVars, watchdogUnchanged,
         clockVars
<1>15. ASSUME NEW h \in Handler, Mutate(h)
       PROVE  RecordInv'
  <2>1. wd'.attempts = wd.attempts
    BY <1>0, <1>15, SuppressedAttempts DEF Mutate, fileVars
  <2> QED
    BY <1>0, <1>1, <1>2, <1>3, <1>4, <1>15, <2>1, SameRecords
       DEF Mutate, watchdogUnchanged, clockVars
<1>16. CASE EngineEnds
  BY <1>0, <1>1, <1>2, <1>3, <1>4, <1>16, SameRecords
     DEF EngineEnds, watchdogUnchanged, clockVars
<1>17. CASE Tick
  <2>1. clock' = clock + 1 /\ back' = back /\ UNCHANGED <<wd, wpc, now, repairs>>
    BY <1>17 DEF Tick, fileVars
  <2>2. Horizon <= Horizon' /\ (back' = 0 => now' <= clock')
    BY <1>0, <1>1, <1>2, <1>3, <2>1
  <2> QED BY <1>0, <1>4, <2>1, <2>2, SameRecords
<1>18. CASE SetBack
  <2>1. back' = back + 1 /\ UNCHANGED <<wd, wpc, now, repairs>>
    BY <1>18 DEF SetBack, fileVars
  <2>2. back' # 0
    BY <1>0, <2>1
  <2> QED BY <1>0, <1>4, <2>1, <2>2, SameRecords
<1>19. CASE Crash
  BY <1>0, <1>1, <1>2, <1>3, <1>19, SameRecords DEF Crash, fileVars, clockVars
<1>20. CASE Boot
  BY <1>0, <1>1, <1>2, <1>3, <1>20, SameRecords
     DEF Boot, At, Done, fileVars, gateUnchanged, clockVars
<1>21. CASE UNCHANGED vars
  BY <1>0, <1>1, <1>2, <1>3, <1>4, <1>21, SameRecords
     DEF vars, fileVars, clockVars
<1> QED
  BY <1>5, <1>6, <1>7, <1>8, <1>9, <1>10, <1>11, <1>12, <1>13, <1>14, <1>15,
     <1>16, <1>17, <1>18, <1>19, <1>20, <1>21 DEF Next, Reconcile, Handle

\* Nothing is recorded and nothing has run.
LEMMA InitRecords == Init => RecordInv
<1> SUFFICES ASSUME Init PROVE RecordInv
  OBVIOUS
<1>1. <<>> \in Seq(1..MaxTime) /\ Len(<<>>) = 0
  BY EmptySeq
<1>2. wd \in WatchdogState /\ wd.attempts = <<>>
  BY <1>1, WatchdogBounds
     DEF Init, WatchdogState, Time, watchdogObservationThreshold
<1>3. TypeOK
  <2>1. repairs \in Seq(1..MaxTime) /\ Len(repairs) <= watchdogMaxAttempts + 1
    BY <1>1 DEF Init, watchdogMaxAttempts
  <2>2. Len(wd.attempts) <= watchdogMaxAttempts
    BY <1>1, <1>2 DEF watchdogMaxAttempts
  <2>3. now \in 0..MaxTime /\ clock \in 1..MaxTime
    BY WatchdogBounds DEF Init
  <2>4. back \in 0..MaxBack /\ faults \in 0..MaxFaults
    BY WatchdogBounds DEF Init
  <2>5. desired \in DesiredState /\ wpc \in WatchdogSteps
    BY DEF Init, DesiredState, WatchdogSteps
  <2>6. kind \in [Handler -> Kind]
    BY DEF Init, Kind, DesiredState
  <2> QED
    BY <1>2, <2>1, <2>2, <2>3, <2>4, <2>5, <2>6 DEF Init, TypeOK
<1>4. validateAttempts(wd)
  BY <1>1, <1>2 DEF validateAttempts, watchdogMaxAttempts
<1>5. repairs = <<>> /\ wpc = "idle" /\ now = 0 /\ clock = 1
  BY DEF Init
<1>6. Covered(wd.attempts, Counted, repairs, Horizon)
  BY <1>1, <1>5 DEF Covered
<1>7. RecordedBudget
  BY <1>1, <1>5 DEF RecordedBudget, watchdogMaxAttempts
<1> QED BY <1>3, <1>4, <1>5, <1>6, <1>7 DEF RecordInv, Away, Pending

\* Every state of the watchdog and the gate has its type, and while the clock
\* is steady, four repairs in a row were recorded at least a window apart: over
\* healthy periods, cooldowns, interruptions, refunds, failed saves, crashes and
\* any requests at any time.
THEOREM BudgetIsKept == Spec => []SteadyBudget
<1>1. RecordInv => SteadyBudget
  BY DEF RecordInv, SteadyBudget
<1> QED BY <1>1, InitRecords, NextRecords, PTL DEF Spec
=============================================================================
