------------------------------ MODULE StateFile ------------------------------
(***************************************************************************)
(* StateStore: runtime.json under one mutex, replaced through a temporary  *)
(* file.  Several goroutines update it; every file operation may fail; the *)
(* process may stop, and the host may lose power, between any two of them. *)
(*                                                                         *)
(* A state is the set of updates that made it; {} is the state of a missing*)
(* file.  Directory changes reach the disk in order, at the latest at the  *)
(* next successful fsync of the directory; the contents of a file that was *)
(* not fsynced may be lost (Torn) although its name survives (external).   *)
(***************************************************************************)
EXTENDS Naturals

CONSTANTS
    Updates,    \* the calls of StateStore.Update that are ever made
    Nobody,     \* the mutex is free
    MaxFaults   \* failing operations, crashes and power losses

ASSUME StateFileAssumption ==
    Nobody \notin Updates /\ MaxFaults \in Nat

Torn == {Nobody}    \* contents that do not decode: no set of updates

VARIABLES
    file,       \* what a read of runtime.json returns
    images,     \* what a power loss may leave of it
    mu,         \* who holds StateStore.mu
    pc,         \* where each call stands
    copy,       \* the state each call has loaded
    flushed,    \* the temporary file is fsynced
    told,       \* what each call returned
    up,         \* the process runs
    faults

vars == <<file, images, mu, pc, copy, flushed, told, up, faults>>

Inside == {"loaded", "written", "flushed", "renamed"}
Contents == (SUBSET Updates) \union {Torn}

TypeOK ==
    /\ file \in Contents
    /\ images \in SUBSET Contents /\ file \in images
    /\ mu \in Updates \union {Nobody}
    /\ pc \in [Updates -> Inside \union {"new", "waiting", "returned", "gone"}]
    /\ copy \in [Updates -> SUBSET Updates]
    /\ flushed \in BOOLEAN
    /\ told \in [Updates -> {"nothing", "ok", "error"}]
    /\ up \in BOOLEAN
    /\ faults \in Nat
    /\ \A u \in Updates : pc[u] \in Inside => mu = u

Init ==
    /\ file = {} /\ images = {{}}
    /\ mu = Nobody
    /\ pc = [u \in Updates |-> "new"]
    /\ copy = [u \in Updates |-> {}]
    /\ flushed = FALSE
    /\ told = [u \in Updates |-> "nothing"]
    /\ up = TRUE
    /\ faults = 0

-----------------------------------------------------------------------------
Goto(u, s) == pc' = [pc EXCEPT ![u] = s]
Fault == faults < MaxFaults /\ faults' = faults + 1

\* Update returns: the deferred Unlock runs on every path.
ReturnLocked(u, answer) ==                  \* mutant: an error keeps the mutex
    /\ Goto(u, "returned")
    /\ told' = [told EXCEPT ![u] = answer]
    /\ mu' = IF answer = "ok" THEN Nobody ELSE mu
Return(u, answer) ==
    /\ Goto(u, "returned")
    /\ told' = [told EXCEPT ![u] = answer]
    /\ mu' = Nobody

Call(u) ==
    /\ up /\ pc[u] = "new"
    /\ Goto(u, "waiting")
    /\ UNCHANGED <<file, images, mu, copy, flushed, told, up, faults>>

\* Lock and loadLocked; a file that does not decode is an error.
LoadUnlocked(u) ==                          \* mutant: loaded without the mutex
    /\ up /\ pc[u] = "waiting" /\ file # Torn
    /\ Goto(u, "loaded") /\ mu' = u
    /\ copy' = [copy EXCEPT ![u] = file]
    /\ UNCHANGED <<file, images, flushed, told, up, faults>>
LockAndLoad(u) ==
    /\ up /\ pc[u] = "waiting"
    /\ mu = Nobody
    /\ IF file = Torn
       THEN Return(u, "error") /\ UNCHANGED copy
       ELSE /\ Goto(u, "loaded")
            /\ mu' = u
            /\ copy' = [copy EXCEPT ![u] = file]
            /\ UNCHANGED told
    /\ UNCHANGED <<file, images, flushed, up, faults>>

\* The mutation is refused, the new state does not validate, or ctx is done.
Reject(u) ==
    /\ up /\ pc[u] = "loaded"
    /\ Return(u, "error")
    /\ UNCHANGED <<file, images, copy, flushed, up, faults>>

\* CreateTemp, Chmod and Write; the deferred Remove takes a failed one away.
WriteTemp(u) ==
    /\ up /\ pc[u] = "loaded"
    /\ \/ Goto(u, "written") /\ flushed' = FALSE
              /\ UNCHANGED <<mu, told, faults>>
       \/ Fault /\ Return(u, "error") /\ UNCHANGED flushed
    /\ UNCHANGED <<file, images, copy, up>>

SkipFlush(u) ==                             \* mutant: no fsync before rename
    /\ up /\ pc[u] = "written"
    /\ Goto(u, "flushed")
    /\ UNCHANGED <<file, images, mu, copy, flushed, told, up, faults>>
FlushTemp(u) ==
    /\ up /\ pc[u] = "written"
    /\ \/ Goto(u, "flushed") /\ flushed' = TRUE
              /\ UNCHANGED <<mu, told, faults>>
       \/ Fault /\ Return(u, "error") /\ UNCHANGED flushed
    /\ UNCHANGED <<file, images, copy, up>>

Replace(u) ==
    /\ up /\ pc[u] = "flushed"
    /\ \/ /\ Goto(u, "renamed")
          /\ file' = copy[u] \union {u}
          /\ images' = images \union {file'}
                         \union (IF flushed THEN {} ELSE {Torn})
          /\ UNCHANGED <<mu, told, faults>>
       \/ Fault /\ Return(u, "error") /\ UNCHANGED <<file, images>>
    /\ UNCHANGED <<copy, flushed, up>>

SyncLater(u) ==                             \* mutant: no fsync of the directory
    /\ up /\ pc[u] = "renamed"
    /\ Return(u, "ok")
    /\ UNCHANGED <<file, images, copy, flushed, up, faults>>
SyncDirectory(u) ==
    /\ up /\ pc[u] = "renamed"
    /\ \/ images' = {file} /\ Return(u, "ok") /\ UNCHANGED faults
       \/ Fault /\ Return(u, "error") /\ UNCHANGED images
    /\ UNCHANGED <<file, copy, flushed, up>>

-----------------------------------------------------------------------------
\* Calls that were running never return; the mutex goes with the process.
Stop ==
    /\ up' = FALSE
    /\ mu' = Nobody
    /\ pc' = [u \in Updates |->
                IF pc[u] \in Inside \union {"waiting"} THEN "gone" ELSE pc[u]]
    /\ UNCHANGED <<copy, flushed, told>>

Crash == up /\ Fault /\ Stop /\ UNCHANGED <<file, images>>

PowerLoss ==
    /\ Fault
    /\ Stop
    /\ file' \in images
    /\ images' = {file'}

\* NewService loads the state; a file that does not decode ends the start-up.
Boot ==
    /\ ~up
    /\ file # Torn
    /\ up' = TRUE
    /\ UNCHANGED <<file, images, mu, pc, copy, flushed, told, faults>>

Step(u) ==
    \/ LockAndLoad(u) \/ Reject(u) \/ WriteTemp(u) \/ FlushTemp(u)
    \/ Replace(u) \/ SyncDirectory(u)

Next == (\E u \in Updates : Call(u) \/ Step(u)) \/ Crash \/ PowerLoss \/ Boot

Spec == Init /\ [][Next]_vars

\* A file operation returns, and sync.Mutex wakes a waiter when it is freed.
FairSpec == Spec /\ \A u \in Updates : WF_vars(Step(u))

-----------------------------------------------------------------------------
(***************************************************************************)
(* Properties                                                              *)
(***************************************************************************)
\* An update that returned nil is in every state a later Load, restart or power
\* loss may find: concurrent updates do not overwrite it (read-modify-write
\* under the mutex) and it does not depend on what the disk still buffers.
AnsweredIsDurable ==
    \A u \in Updates : told[u] = "ok" => \A s \in images : s # Torn => u \in s

\* Whatever a crash or a power loss leaves is a whole state, so the service
\* starts again (saveLocked fsyncs the temporary file before it renames it).
StartsAgain == Torn \notin images

\* The store implements the register: updates take effect one at a time and as
\* a whole; nil means settled, an error leaves the old state or the new one.
Register == INSTANCE StateRegister WITH value <- file, disk <- images
StoreIsRegister == Register!RegisterSpec

\* Every call returns unless the process stops first: no path keeps the mutex.
EveryCallReturns ==
    \A u \in Updates : pc[u] = "waiting" ~> pc[u] \in {"returned", "gone"}
===============================================================================
