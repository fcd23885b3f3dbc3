------------------------------ MODULE Watchdog ------------------------------
(***************************************************************************)
(* The watchdog goroutine (Reconcile), the host gate it shares with the    *)
(* control routes, and the routes that change the desired state.           *)
(*                                                                         *)
(* One action is one access to the state file, one operation on the gate's *)
(* mutexes, or one host operation; the others run in between.  The engine  *)
(* appears as what JobEngine guarantees of it: there is an active job      *)
(* exactly while the desired state is "upgrading", and the engine ends that*)
(* in "running" or in "maintenance", without taking the gate.              *)
(*                                                                         *)
(* The clock is a count of units; Window and Cooldown are given in them. It*)
(* may be set back, by NTP or by hand: recorded attempts then lie in the   *)
(* future, a new one is out of order, and a state that holds it does not   *)
(* validate.                                                               *)
(***************************************************************************)
EXTENDS Naturals, Sequences, SequencesExt

CONSTANTS
    Handler,    \* control requests that may be in flight together
    Mutation,   \* what they ask for, of Kind
    Window,     \* watchdogAttemptWindow
    Cooldown,   \* watchdogCooldown
    MaxTime,    \* bound of the clock
    MaxBack,    \* times it is set back
    MaxFaults   \* crashes and failing saves

ASSUME WatchdogBounds ==
    /\ Window \in Nat /\ Cooldown \in Nat
    /\ MaxTime \in Nat \ {0} /\ MaxBack \in Nat /\ MaxFaults \in Nat

DesiredState == {"running", "upgrading", "maintenance", "deprovisioned"}
Kind == {"create", "restart"} \union (DesiredState \ {"upgrading"})

ASSUME MutationAssumption == Mutation \subseteq Kind
ASSUME HandlerAssumption == Handler \intersect {"none", "watchdog"} = {}

watchdogObservationThreshold == 3
watchdogMaxAttempts == 3

VARIABLES
    desired, wd,        \* the state file
    wpc, now,           \* where Reconcile is, and its reading of the clock
    hpc, kind,          \* where each handler is, and what it asks for
    operation,          \* owner of the gate's operation mutex
    session, cancelled, \* gate.active, and that its context is cancelled
    clock, back,        \* the time, and how often it was set back
    faults,
    repairs             \* the recorded times of the last repairs that ran

fileVars == <<desired, wd>>
gateVars == <<operation, session, cancelled>>
handlerVars == <<hpc, kind>>
clockVars == <<clock, back>>
vars == <<fileVars, wpc, now, handlerVars, gateVars, clockVars, faults, repairs>>

Time == 0..(MaxTime + Cooldown)         \* 0 is time.Time{}

WatchdogState ==
    [status   : {"unknown", "healthy", "observing", "repairing", "degraded",
                 "suppressed"},
     failures : 0..(watchdogObservationThreshold - 1),
     attempts : Seq(1..MaxTime),
     cooldown : Time,
     last     : Time]                   \* last_repair_at

\* Steps of Reconcile that hold the operation mutex.
Holding == {"register", "confirm", "repair", "interrupted", "repaired",
            "repair_failed", "suppress_confirmed", "release"}
WatchdogSteps == Holding \union
    {"idle", "down", "suppress", "observe", "healthy", "failed", "recheck",
     "suppress_rechecked", "gate"}

TypeOK ==
    /\ desired \in DesiredState
    /\ wd \in WatchdogState /\ Len(wd.attempts) <= watchdogMaxAttempts
    /\ wpc \in WatchdogSteps
    /\ now \in 0..MaxTime
    /\ hpc \in [Handler -> {"idle", "cancel", "lock", "update", "unlock"}]
    /\ kind \in [Handler -> Kind]
    /\ operation \in Handler \union {"none", "watchdog"}
    /\ session \in BOOLEAN /\ cancelled \in BOOLEAN
    /\ clock \in 1..MaxTime /\ back \in 0..MaxBack
    /\ faults \in 0..MaxFaults
    /\ repairs \in Seq(1..MaxTime)
    /\ Len(repairs) <= watchdogMaxAttempts + 1

Init ==
    /\ desired = "running"
    /\ wd = [status |-> "unknown", failures |-> 0, attempts |-> <<>>,
             cooldown |-> 0, last |-> 0]
    /\ wpc = "idle" /\ now = 0
    /\ hpc = [h \in Handler |-> "idle"]
    /\ kind = [h \in Handler |-> "running"]
    /\ operation = "none" /\ session = FALSE /\ cancelled = FALSE
    /\ clock = 1 /\ back = 0
    /\ faults = 0
    /\ repairs = <<>>

-----------------------------------------------------------------------------
(***************************************************************************)
(* The transformations of the watchdog record.                             *)
(***************************************************************************)
suppressWatchdog(w) ==
    [w EXCEPT !.status = "suppressed", !.failures = 0, !.cooldown = 0]

\* The attempts that were made later than Window before t.  Recorded ones are in
\* order (validateAttempts), so the loop that keeps them drops a prefix.
recentUntil(attempts, t) ==
    LET old == CHOOSE n \in 0..Len(attempts) :
                   \A i \in 1..Len(attempts) :
                       i <= n <=> attempts[i] + Window <= t
    IN  SubSeq(attempts, old + 1, Len(attempts))

recentHalf(attempts, t) ==              \* mutant: half the window
    recentUntil(attempts, t + 2)

recentWatchdogAttempts(attempts, t) == recentUntil(attempts, t)

observedHealthy(w, t) ==
    [w EXCEPT !.status = "healthy", !.failures = 0, !.cooldown = 0,
              !.attempts = recentWatchdogAttempts(@, t)]

BudgetOffByOne(w) ==                    \* mutant: one attempt too many
    Len(w.attempts) > watchdogMaxAttempts
BudgetSpent(w) == Len(w.attempts) >= watchdogMaxAttempts

Decides(w) == w.failures + 1 >= watchdogObservationThreshold

\* A failed observation at time t, by what it leads to.
observedFailed(w, t) ==
    LET seen == [w EXCEPT !.attempts = recentWatchdogAttempts(@, t)]
        open == [seen EXCEPT !.cooldown = 0]
    IN  CASE seen.cooldown > t ->
               [seen EXCEPT !.status = "degraded", !.failures = 0]
          [] seen.cooldown <= t /\ ~Decides(w) ->
               [open EXCEPT !.status = "observing", !.failures = @ + 1]
          [] OTHER ->
               IF BudgetSpent(seen)
               THEN [open EXCEPT !.status = "degraded", !.failures = 0,
                                 !.cooldown = t + Cooldown]
               ELSE [open EXCEPT !.status = "repairing", !.failures = 0,
                                 !.attempts = Append(@, t), !.last = t]

repairSucceeded(w) ==
    [w EXCEPT !.status = "healthy", !.failures = 0, !.cooldown = 0]

repairFailed(w, t) ==
    IF BudgetSpent(w)
    THEN [w EXCEPT !.status = "degraded", !.failures = 0,
                   !.cooldown = t + Cooldown]
    ELSE [w EXCEPT !.status = "observing", !.failures = 0]

restoreInterrupted(w) ==
    IF desired # "running" \/ w.status # "repairing" THEN w
    ELSE [w EXCEPT
            !.attempts = IF w.attempts # <<>> /\ Last(w.attempts) = w.last
                         THEN Front(w.attempts) ELSE @,
            !.status = "observing", !.failures = 0, !.last = 0]

-----------------------------------------------------------------------------
(***************************************************************************)
(* Reconcile                                                               *)
(***************************************************************************)
At(s) == wpc = s
Goto(s) == wpc' = s /\ UNCHANGED now
Done == wpc' = "idle" /\ now' = 0

gateUnchanged == UNCHANGED <<handlerVars, gateVars, clockVars>>

\* RuntimeState.normalizeAndValidate, for the recorded attempts.
validateAttempts(w) ==
    /\ Len(w.attempts) <= watchdogMaxAttempts
    /\ \A i \in 1..Len(w.attempts) - 1 : w.attempts[i] <= w.attempts[i + 1]

\* StateStore.Update: a record that does not validate is not saved; the save may
\* fail, before or after its rename.
Update(w, Ok, Err) ==
    /\ UNCHANGED desired
    /\ \/ validateAttempts(w) /\ wd' = w /\ UNCHANGED faults /\ Ok
       \/ ~validateAttempts(w) /\ UNCHANGED <<wd, faults>> /\ Err
       \/ /\ validateAttempts(w)
          /\ faults < MaxFaults /\ faults' = faults + 1 /\ wd' \in {wd, w} /\ Err

\* An update that ends Reconcile, with or without the gate.
Conclude(w) == Update(w, Done, Done) /\ UNCHANGED repairs /\ gateUnchanged
ConcludeHolding(w) ==
    Update(w, Goto("release"), Goto("release")) /\ UNCHANGED repairs
        /\ gateUnchanged

\* Mutant: nothing is written while the desired state is not "running".
LoadOnly ==
    /\ At("idle")
    /\ IF desired = "running" THEN wpc' = "observe" /\ now' = clock ELSE Done
    /\ UNCHANGED <<fileVars, faults, repairs>> /\ gateUnchanged

\* The ticker or a container event, the load, and the clock read after it.
Load ==
    /\ At("idle")
    /\ wpc' = IF desired = "running" THEN "observe" ELSE "suppress"
    /\ now' = clock
    /\ UNCHANGED <<fileVars, faults, repairs>> /\ gateUnchanged

Suppress ==
    /\ wpc \in {"suppress", "suppress_rechecked"}
    /\ Conclude(suppressWatchdog(wd))

ObserveWatchdog ==
    /\ At("observe")
    /\ Goto("healthy") \/ Goto("failed")
    /\ UNCHANGED <<fileVars, faults, repairs>> /\ gateUnchanged

Healthy == At("healthy") /\ Conclude(observedHealthy(wd, now))

Failed ==
    /\ At("failed")
    /\ LET w == IF desired = "running" THEN observedFailed(wd, now)
                ELSE suppressWatchdog(wd)
       IN  Update(w, IF desired = "running" /\ w.status = "repairing"
                     THEN Goto("recheck") ELSE Done, Done)
    /\ UNCHANGED repairs /\ gateUnchanged

Recheck ==
    /\ At("recheck")
    /\ Goto(IF desired = "running" THEN "gate" ELSE "suppress_rechecked")
    /\ UNCHANGED <<fileVars, faults, repairs>> /\ gateUnchanged

\* BeginRepair: the operation mutex, then the session a mutation can cancel.
Gate ==
    /\ At("gate")
    /\ operation = "none"
    /\ operation' = "watchdog"
    /\ Goto("register")
    /\ UNCHANGED <<fileVars, handlerVars, session, cancelled, clockVars, faults,
                   repairs>>

Register ==
    /\ At("register")
    /\ session' = TRUE /\ cancelled' = FALSE
    /\ Goto("confirm")
    /\ UNCHANGED <<fileVars, handlerVars, operation, clockVars, faults, repairs>>

\* Keeps the repairs that a budget of watchdogMaxAttempts can be exceeded by.
Remember(rs, r) ==
    LET all == Append(rs, r)
    IN  IF Len(all) > watchdogMaxAttempts + 1 THEN Tail(all) ELSE all

StartRepair ==
    /\ Goto("repair")
    /\ repairs' = Remember(repairs, now)

\* Mutants: the desired state is not read again under the gate; a load that
\* was cancelled is tried again, under the gate.
ConfirmNothing ==
    /\ At("confirm")
    /\ StartRepair
    /\ UNCHANGED <<fileVars, faults>> /\ gateUnchanged
ConfirmRetries ==
    /\ At("confirm")
    /\ IF cancelled THEN Goto("confirm") /\ UNCHANGED repairs
       ELSE IF desired # "running"
            THEN Goto("suppress_confirmed") /\ UNCHANGED repairs
            ELSE StartRepair
    /\ UNCHANGED <<fileVars, faults>> /\ gateUnchanged

Confirm ==
    /\ At("confirm")
    /\ IF cancelled THEN Goto("release") /\ UNCHANGED repairs
       ELSE IF desired # "running"
            THEN Goto("suppress_confirmed") /\ UNCHANGED repairs
            ELSE StartRepair
    /\ UNCHANGED <<fileVars, faults>> /\ gateUnchanged

SuppressConfirmed ==
    /\ At("suppress_confirmed")
    /\ ConcludeHolding(IF cancelled THEN wd ELSE suppressWatchdog(wd))

\* RepairWatchdog returns; a repair that was cancelled does not count.
RepairWatchdog ==
    /\ At("repair")
    /\ IF cancelled
       THEN Goto("interrupted") /\ repairs' = Front(repairs)
       ELSE (Goto("repaired") \/ Goto("repair_failed")) /\ UNCHANGED repairs
    /\ UNCHANGED <<fileVars, faults>> /\ gateUnchanged

Interrupted ==
    At("interrupted") /\ ConcludeHolding(restoreInterrupted(wd))

Repaired == At("repaired") /\ ConcludeHolding(repairSucceeded(wd))

RepairFailed == At("repair_failed") /\ ConcludeHolding(repairFailed(wd, now))

Release ==
    /\ At("release")
    /\ session' = FALSE /\ cancelled' = FALSE
    /\ operation' = "none"
    /\ Done
    /\ UNCHANGED <<fileVars, handlerVars, clockVars, faults, repairs>>

-----------------------------------------------------------------------------
(***************************************************************************)
(* The control routes: BeginMutation, one update of the state, release.    *)
(***************************************************************************)
watchdogUnchanged == UNCHANGED <<wpc, now, clockVars, faults, repairs>>

Request(h) ==
    /\ wpc # "down" /\ hpc[h] = "idle"
    /\ \E k \in Mutation :
        /\ k = "create" => desired = "running"      \* preflightDirectJob
        /\ kind' = [kind EXCEPT ![h] = k]
    /\ hpc' = [hpc EXCEPT ![h] = "cancel"]
    /\ UNCHANGED <<fileVars, gateVars>> /\ watchdogUnchanged

CancelRepair(h) ==
    /\ hpc[h] = "cancel"
    /\ cancelled' = (cancelled \/ session)
    /\ hpc' = [hpc EXCEPT ![h] = "lock"]
    /\ UNCHANGED <<fileVars, operation, session, kind>> /\ watchdogUnchanged

Lock(h) ==
    /\ hpc[h] = "lock" /\ operation = "none"
    /\ operation' = h
    /\ hpc' = [hpc EXCEPT ![h] = "update"]
    /\ UNCHANGED <<fileVars, session, cancelled, kind>> /\ watchdogUnchanged

\* Whether the request is applied to the state it finds.  A restart is offered
\* by a failed job; with another job active it does not validate.
Accepted(k) ==
    IF k = "create" THEN desired = "running" ELSE desired # "upgrading"

\* The request is applied, or rejected, or its client is gone or its save fails.
Mutate(h) ==
    /\ hpc[h] = "update"
    /\ \/ UNCHANGED fileVars
       \/ /\ Accepted(kind[h])
          /\ desired' = IF kind[h] \in {"create", "restart"} THEN "upgrading"
                        ELSE kind[h]
          /\ wd' = suppressWatchdog(wd)
    /\ hpc' = [hpc EXCEPT ![h] = "unlock"]
    /\ UNCHANGED <<gateVars, kind>> /\ watchdogUnchanged

Unlock(h) ==
    /\ hpc[h] = "unlock"
    /\ operation' = "none"
    /\ hpc' = [hpc EXCEPT ![h] = "idle"]
    /\ kind' = [kind EXCEPT ![h] = "running"]
    /\ UNCHANGED <<fileVars, session, cancelled>> /\ watchdogUnchanged

-----------------------------------------------------------------------------
(***************************************************************************)
(* The engine's last update of a job, the clock, and the process.          *)
(***************************************************************************)
EngineEnds ==
    /\ wpc # "down" /\ desired = "upgrading"
    /\ desired' \in {"running", "maintenance"}
    /\ UNCHANGED <<wd, handlerVars, gateVars>> /\ watchdogUnchanged

Tick ==
    /\ clock < MaxTime
    /\ clock' = clock + 1
    /\ UNCHANGED <<fileVars, wpc, now, handlerVars, gateVars, back, faults,
                   repairs>>

SetBack ==
    /\ back < MaxBack
    /\ back' = back + 1
    /\ clock' \in 1..clock - 1
    /\ UNCHANGED <<fileVars, wpc, now, handlerVars, gateVars, faults, repairs>>

Crash ==
    /\ wpc # "down" /\ faults < MaxFaults
    /\ faults' = faults + 1
    /\ wpc' = "down" /\ now' = 0
    /\ hpc' = [h \in Handler |-> "idle"]
    /\ kind' = [h \in Handler |-> "running"]
    /\ operation' = "none" /\ session' = FALSE /\ cancelled' = FALSE
    /\ UNCHANGED <<fileVars, clockVars, repairs>>

Boot ==
    /\ At("down")
    /\ Done
    /\ UNCHANGED <<fileVars, faults, repairs>> /\ gateUnchanged

Reconcile ==
    \/ Load \/ Suppress \/ ObserveWatchdog \/ Healthy \/ Failed \/ Recheck
    \/ Gate \/ Register \/ Confirm \/ SuppressConfirmed \/ RepairWatchdog
    \/ Interrupted \/ Repaired \/ RepairFailed \/ Release

Handle(h) == CancelRepair(h) \/ Lock(h) \/ Mutate(h) \/ Unlock(h)

Next ==
    \/ Reconcile
    \/ \E h \in Handler : Request(h) \/ Handle(h)
    \/ EngineEnds \/ Tick \/ SetBack \/ Crash \/ Boot

Spec == Init /\ [][Next]_vars

(***************************************************************************)
(* Host operations and saves return (they run under timeouts), the ticker  *)
(* fires, time goes on (also after it was set back), systemd starts the    *)
(* process again.  A sync.Mutex in starvation mode is handed to its longest*)
(* waiter: whoever waits gets it eventually.                               *)
(***************************************************************************)
Fairness == WF_vars(Reconcile) /\ SF_vars(Gate) /\ WF_vars(Boot) /\ WF_vars(Tick)
HandlerFairness == \A h \in Handler : WF_vars(Handle(h)) /\ SF_vars(Lock(h))

WatchdogFairSpec == Spec /\ Fairness
FairSpec == Spec /\ Fairness /\ HandlerFairness

-----------------------------------------------------------------------------
(***************************************************************************)
(* Properties                                                              *)
(***************************************************************************)
\* While repair commands run on the host, nobody means it to be stopped or
\* changed: the desired state is "running" (so there is no active job) and no
\* handler is between the gate and its update.
RepairExclusive ==
    wpc = "repair" =>
        /\ desired = "running"
        /\ \A h \in Handler : hpc[h] \notin {"update", "unlock"}

\* Any four consecutive repairs that ran to their end were recorded at least a
\* window apart, over healthy periods, interruptions, refunds and crashes.
RecordedBudget ==
    Len(repairs) > watchdogMaxAttempts =>
        Last(repairs) >= Head(repairs) + Window

\* That is so while the clock is not set back.  (One that was set back after a
\* repair may record the next one at a time before it.)
SteadyBudget == TypeOK /\ (back = 0 => RecordedBudget)

\* A service that fails its third observation is not left to itself: although
\* the decision may not validate for as long as the clock is behind, it is made
\* (a repair, or the cooldown) unless an observation succeeds or the service is
\* not meant to run any more.
FailuresDecide ==
    wd.failures = watchdogObservationThreshold - 1 ~>
        \/ wd.failures # watchdogObservationThreshold - 1
        \/ desired # "running"

\* A mutation gets through the gate although the watchdog keeps repairing and
\* other mutations keep arriving.
MutationProceeds ==
    \A h \in Handler : hpc[h] = "lock" ~> hpc[h] # "lock"

\* A watchdog status that went stale under a change of the desired state is
\* corrected: nothing but "suppressed" lasts while the host may be down.
SuppressionSettles ==
    desired # "running" ~> (desired = "running" \/ wd.status = "suppressed")

Intent == INSTANCE SystemIntent WITH repairing <- wpc = "repair", host <- 0

\* The gate, the handlers and Reconcile keep what the engine relies on: no
\* repair begins or goes on under a job or a stopped service.  (HostSystem shows
\* that the engine keeps its part, which EngineEnds assumes.)
IntentIsKept == Intent!Spec
=============================================================================
