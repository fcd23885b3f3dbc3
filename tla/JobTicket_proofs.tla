--------------------------- MODULE JobTicket_proofs ---------------------------
(***************************************************************************)
(* A key keeps its one job, a returned ticket stays valid, a known key is  *)
(* replayed and no wake-up is lost, for any number of callers, keys, jobs  *)
(* and faults.                                                             *)
(***************************************************************************)
EXTENDS JobTicket, FiniteSetTheorems, TLAPS

-----------------------------------------------------------------------------
(***************************************************************************)
(* The inductive invariant.                                                *)
(***************************************************************************)
Job == [status : ActiveStatus \union
                    {"absent", "succeeded", "failed", "broken"},
        key : Key \union {Nobody}, cur : 0..MaxVersion,
        target : 0..MaxVersion, bearers : SUBSET Bearer]

isActive(j) == jobs[j].status \in ActiveStatus

\* The state file: a key and its job name each other, the jobs are between
\* existing versions, and one of them at most is active, as desired says.
FileInv ==
    /\ jobs \in [JobId -> Job]
    /\ idem \in [Key -> JobId \union {NoJob}]
    /\ desired \in {"running", "upgrading", "maintenance"}
    /\ desired = "upgrading" <=> hasActiveJob
    /\ \A j \in JobId : jobs[j].status # "absent" =>
            /\ jobs[j].key \in Key /\ idem[jobs[j].key] = j
            /\ jobs[j].cur \in Version /\ jobs[j].target \in Version
    /\ \A k \in Key : idem[k] # NoJob =>
            jobs[idem[k]].status # "absent" /\ jobs[idem[k]].key = k
    /\ \A i, j \in JobId : isActive(i) /\ isActive(j) => i = j

\* The job runner works on the active job, and accepted jobs are active.
RunnerInv ==
    /\ runner \in {"run", "work", "returned", "wait", "down"}
    /\ mine \in JobId \union {NoJob}
    /\ signal \in BOOLEAN /\ accepted \subseteq JobId
    /\ \A j \in accepted : isActive(j)
    /\ runner = "work" => mine \in JobId /\ isActive(mine) /\ mine \notin accepted

\* A handler and the request or ticket of its caller.
HandlerRecord ==
    [pc : {"idle", "look", "rotate", "gate", "save", "wake", "reply", "done",
           "restart_gate", "restart_save"},
     knew : BOOLEAN, cur : 0..MaxVersion, ticket : Ticket,
     answer : {"none", "ticket", "operation_in_progress",
               "desired_state_not_running", "target_not_newer",
               "runtime_status_unavailable", "idempotency_conflict",
               "state_write_failed", "idempotency_not_found"}]

\* What a handler has answered, by where it stands.
Answered(c) ==
    /\ h[c].pc \in {"idle", "look", "rotate", "gate", "save"} =>
            h[c].answer = "none"
    /\ h[c].pc \in {"wake", "restart_gate", "restart_save"} =>
            h[c].answer = "ticket"
    /\ h[c].pc = "reply" => h[c].answer # "none"
    /\ h[c].pc = "save" => h[c].cur \in Version

\* A returned ticket names the job of the caller's key and target.
TicketValid(c) ==
    h[c].answer = "ticket" =>
        LET t == h[c].ticket
        IN  /\ t \in [job : JobId, bearer : Bearer]
            /\ jobs[t.job].status # "absent"
            /\ t.bearer \in jobs[t.job].bearers
            /\ jobs[t.job].key = want[c].key
            /\ jobs[t.job].target = want[c].target

\* A request that found its key bound never leaves the replay.
Replayed(c) ==
    h[c].knew => /\ Bound(c)
                 /\ h[c].pc \notin {"idle", "gate", "save"}
                 /\ h[c].answer \in {"none", "ticket", "state_write_failed"}

HandlerOK(c) == Answered(c) /\ TicketValid(c) /\ Replayed(c)

HandlerInv ==
    /\ want \in [Client -> [key : Key, target : Version]]
    /\ h \in [Client -> HandlerRecord]
    /\ \A c \in Client : HandlerOK(c)

\* The host gate has one holder, the handler that saves.
GateInv ==
    /\ gate \in Client \union {Nobody}
    /\ \A c \in Client : h[c].pc \in {"save", "restart_save"} => gate = c

\* The wake-up of an accepted job is under way until the runner loads it.
WakeInv ==
    faults = 0 /\ accepted # {} =>
        signal \/ runner = "run" \/ \E c \in Client : h[c].pc = "wake"

\* Every caller may have made a bearer that it did not get for each fault.
Unspent == {c \in Client : h[c].answer # "ticket"}
MintInv ==
    /\ minted \in Nat /\ faults \in 0..MaxFaults
    /\ minted + Cardinality(Unspent) <= Cardinality(Client) * (faults + 1)

TInv == /\ FileInv /\ RunnerInv /\ HandlerInv /\ GateInv /\ WakeInv
        /\ MintInv /\ env \in Version

USE JobTicketBounds, NobodyIsNoClient

-----------------------------------------------------------------------------
(***************************************************************************)
(* The state file.                                                         *)
(***************************************************************************)
\* The changes of the state file, each with what its action has checked.
Rotation(c) ==
    LET j == idem[want[c].key]
    IN  /\ h[c].pc \in {"rotate", "save"}
        /\ j # NoJob /\ jobs[j].target = want[c].target
        /\ jobs' = rotated(j) /\ UNCHANGED <<idem, desired>>

Creation(c) ==
    /\ h[c].pc = "save"
    /\ idem[want[c].key] = NoJob /\ ~hasActiveJob
    /\ \E j \in JobId : /\ jobs[j].status = "absent"
                        /\ jobs' = [jobs EXCEPT ![j] = newJob(c)]
                        /\ idem' = [idem EXCEPT ![want[c].key] = j]
    /\ desired' = "upgrading"

Restarting(c) ==
    /\ h[c].pc = "restart_save"
    /\ Allowed(c) /\ ~hasActiveJob
    /\ jobs' = [jobs EXCEPT ![h[c].ticket.job].status = "restarting"]
    /\ idem' = idem /\ desired' = "upgrading"

Saving ==
    /\ runner = "work"
    /\ \E o \in Outcomes(mine) : jobs' = saved(mine, o[1]) /\ desired' = o[2]
    /\ idem' = idem

Wishing ==
    /\ ~hasActiveJob
    /\ UNCHANGED <<jobs, idem>>
    /\ desired' \in {"running", "maintenance"}

FileStep ==
    \/ \E c \in Client : Rotation(c) \/ Creation(c) \/ Restarting(c)
    \/ Saving \/ Wishing \/ UNCHANGED fileVars

\* Every step changes the file in one of these ways, or not.
LEMMA StepFile == TInv /\ Next => FileStep
<1> SUFFICES ASSUME TInv, Next PROVE FileStep
    OBVIOUS
<1>1. ASSUME NEW c \in Client, Rotate(c) PROVE FileStep
      BY <1>1 DEF Rotate, RotatePersisted, Update, FileStep, Rotation, fileVars
<1>2. ASSUME NEW c \in Client, Save(c) PROVE FileStep
      BY <1>2
         DEF Save, RotatePersisted, Accept, Update, FileStep, Rotation,
             Creation, fileVars
<1>3. ASSUME NEW c \in Client, RestartSave(c) PROVE FileStep
      BY <1>3 DEF RestartSave, Update, FileStep, Restarting, fileVars
<1>4. ASSUME EngineSave PROVE FileStep
      BY <1>4 DEF EngineSave, Update, FileStep, Saving, fileVars
<1>5. ASSUME setDesiredState PROVE FileStep
      BY <1>5 DEF setDesiredState, Update, FileStep, Wishing, fileVars
<1>6. ASSUME NEW c \in Client,
             \/ Send(c) \/ Look(c) \/ TakeGate(c) \/ Wake(c) \/ Reply(c)
             \/ Abandon(c) \/ RestartLook(c) \/ RestartGate(c)
      PROVE  UNCHANGED fileVars
      BY <1>6
         DEF Send, Look, TakeGate, Wake, Reply, Abandon, RestartLook,
             RestartGate, fileVars
<1>7. ASSUME RunnerLoads \/ RunnerWaits \/ Signalled \/ Tick \/ EngineHost
             \/ Crash \/ Boot
      PROVE  UNCHANGED fileVars
      BY <1>7
         DEF RunnerLoads, RunnerWaits, Signalled, Tick, EngineHost, Crash,
             Boot, fileVars
<1>8. QED
  BY <1>1, <1>2, <1>3, <1>4, <1>5, <1>6, <1>7
     DEF Next, Handler, Runner, FileStep

\* What no change of the file takes back: keys and targets, bearers, and which
\* job a key has.
Kept ==
    /\ \A j \in JobId : jobs[j].status # "absent" =>
            /\ jobs'[j].status # "absent"
            /\ jobs'[j].key = jobs[j].key /\ jobs'[j].target = jobs[j].target
            /\ jobs'[j].cur = jobs[j].cur
            /\ jobs[j].bearers \subseteq jobs'[j].bearers
    /\ \A k \in Key : idem[k] # NoJob => idem'[k] = idem[k]

\* A change of one job that is not absent, of its status and bearers only,
\* while no other job is active.
LEMMA OneJobChanged ==
    ASSUME FileInv, NEW i \in JobId, NEW r \in Job,
           jobs' = [jobs EXCEPT ![i] = r], idem' = idem,
           jobs[i].status # "absent", r.status # "absent",
           r.key = jobs[i].key, r.cur = jobs[i].cur, r.target = jobs[i].target,
           jobs[i].bearers \subseteq r.bearers,
           r.status \in ActiveStatus => \A j \in JobId : isActive(j) => j = i,
           desired' \in {"running", "upgrading", "maintenance"},
           desired' = "upgrading" <=>
                r.status \in ActiveStatus \/ \E j \in JobId : j # i /\ isActive(j)
    PROVE  FileInv' /\ Kept
<1>1. jobs' \in [JobId -> Job]
      BY DEF FileInv
<1>2. \A j \in JobId : jobs'[j] = IF j = i THEN r ELSE jobs[j]
      BY DEF FileInv
<1>3. \A j \in JobId : isActive(j)' <=> (IF j = i THEN r.status \in ActiveStatus
                                        ELSE isActive(j))
      BY <1>2 DEF isActive
<1>4. (desired = "upgrading" <=> hasActiveJob)'
      BY <1>3 DEF hasActiveJob, isActive
<1>5. (\A j, l \in JobId : isActive(j) /\ isActive(l) => j = l)'
      BY <1>3 DEF FileInv
<1>6. (\A j \in JobId : jobs[j].status # "absent" =>
            /\ jobs[j].key \in Key /\ idem[jobs[j].key] = j
            /\ jobs[j].cur \in Version /\ jobs[j].target \in Version)'
      BY <1>2 DEF FileInv
<1>7. (\A k \in Key : idem[k] # NoJob =>
            jobs[idem[k]].status # "absent" /\ jobs[idem[k]].key = k)'
      BY <1>2 DEF FileInv
<1>8. Kept
      BY <1>2 DEF Kept
<1>9. QED BY <1>1, <1>4, <1>5, <1>6, <1>7, <1>8 DEF FileInv

\* The bearer of the next replay is one of the bounded bearers.
LEMMA MintBound ==
    ASSUME TInv, NEW c \in Client, h[c].answer # "ticket"
    PROVE  minted + 1 \in Bearer
<1> DEFINE N == Cardinality(Client)
<1>1. N \in Nat /\ IsFiniteSet(Unspent) /\ Cardinality(Unspent) \in Nat
      BY FS_CardinalityType, FS_Subset DEF Unspent
<1>2. Cardinality(Unspent) # 0
  <2>1. c \in Unspent
        BY DEF Unspent
  <2>2. QED BY <1>1, <2>1, FS_EmptySet
<1>3. minted \in Nat /\ faults \in 0..MaxFaults
      /\ minted + Cardinality(Unspent) <= N * (faults + 1)
      BY DEF TInv, MintInv
<1> HIDE DEF N
<1>4. N * (faults + 1) <= N * (MaxFaults + 1)
      BY <1>1, <1>3
<1>5. N * (faults + 1) \in Nat /\ N * (MaxFaults + 1) \in Nat
      BY <1>1, <1>3
<1>6. minted + 1 <= N * (MaxFaults + 1)
      BY <1>1, <1>2, <1>3, <1>4, <1>5
<1>7. QED BY <1>3, <1>5, <1>6 DEF Bearer, N

\* No change of the file breaks it, or takes something back.
LEMMA FileKept == TInv /\ Next => FileInv' /\ Kept
<1> SUFFICES ASSUME TInv, FileStep PROVE FileInv' /\ Kept
    BY StepFile
<1>0. FileInv
      BY DEF TInv
<1>1. ASSUME NEW c \in Client, Rotation(c) PROVE FileInv' /\ Kept
  <2> DEFINE i == idem[want[c].key]
             r == [jobs[i] EXCEPT !.bearers = @ \union {minted + 1}]
  <2>1. i \in JobId /\ jobs[i] \in Job /\ jobs[i].status # "absent"
        BY <1>0, <1>1 DEF Rotation, FileInv, HandlerInv, TInv
  <2>2. minted + 1 \in Bearer
        BY <1>1, MintBound DEF Rotation, TInv, HandlerInv, HandlerOK, Answered
  <2>3. /\ r \in Job /\ r.status = jobs[i].status /\ r.key = jobs[i].key
        /\ r.cur = jobs[i].cur /\ r.target = jobs[i].target
        /\ r.bearers = jobs[i].bearers \union {minted + 1}
        BY <2>1, <2>2 DEF Job
  <2>4. jobs' = [jobs EXCEPT ![i] = r] /\ UNCHANGED <<idem, desired>>
        BY <1>1 DEF Rotation, rotated
  <2> HIDE DEF r, i
  <2>5. r.status \in ActiveStatus => \A j \in JobId : isActive(j) => j = i
        BY <1>0, <2>1, <2>3 DEF FileInv, isActive
  <2>6. desired' = "upgrading" <=>
            r.status \in ActiveStatus \/ \E j \in JobId : j # i /\ isActive(j)
        BY <1>0, <2>1, <2>3, <2>4 DEF FileInv, isActive, hasActiveJob
  <2>7. desired' \in {"running", "upgrading", "maintenance"}
        BY <1>0, <2>4 DEF FileInv
  <2>8. QED BY <1>0, <2>1, <2>3, <2>4, <2>5, <2>6, <2>7, OneJobChanged
<1>2. ASSUME NEW c \in Client, Creation(c) PROVE FileInv' /\ Kept
  <2> DEFINE k == want[c].key
             r == newJob(c)
  <2>1. PICK i \in JobId : /\ jobs[i].status = "absent"
                           /\ jobs' = [jobs EXCEPT ![i] = r]
                           /\ idem' = [idem EXCEPT ![k] = i]
        BY <1>2 DEF Creation
  <2>2. k \in Key /\ idem[k] = NoJob /\ desired' = "upgrading" /\ ~hasActiveJob
        BY <1>2 DEF Creation, TInv, HandlerInv
  <2>3. minted + 1 \in Bearer
        BY <1>2, MintBound DEF Creation, TInv, HandlerInv, HandlerOK, Answered
  <2>4. want[c].target \in Version /\ h[c].cur \in Version
        BY <1>2 DEF Creation, TInv, HandlerInv, HandlerOK, Answered
  <2>5. /\ r \in Job /\ r.status = "queued" /\ r.key = k
        /\ r.cur \in Version /\ r.target \in Version
        BY <2>2, <2>3, <2>4 DEF newJob, Job, Version, ActiveStatus
  <2> HIDE DEF k, r
  <2>6. /\ jobs' \in [JobId -> Job] /\ idem' \in [Key -> JobId \union {NoJob}]
        /\ \A j \in JobId : jobs'[j] = IF j = i THEN r ELSE jobs[j]
        /\ \A l \in Key : idem'[l] = IF l = k THEN i ELSE idem[l]
        BY <1>0, <2>1, <2>5 DEF FileInv
  <2>7. \A j \in JobId : isActive(j)' <=> j = i
        BY <2>2, <2>5, <2>6 DEF isActive, hasActiveJob, ActiveStatus
  <2>8. (desired = "upgrading" <=> hasActiveJob)'
        BY <2>2, <2>7 DEF hasActiveJob, isActive
  <2>9. (\A j, l \in JobId : isActive(j) /\ isActive(l) => j = l)'
        BY <2>7
  <2>10. i # NoJob
         BY DEF JobId, NoJob
  <2>11. (\A j \in JobId : jobs[j].status # "absent" =>
            /\ jobs[j].key \in Key /\ idem[jobs[j].key] = j
            /\ jobs[j].cur \in Version /\ jobs[j].target \in Version)'
    <3> SUFFICES ASSUME NEW j \in JobId, jobs'[j].status # "absent"
                 PROVE  /\ jobs'[j].key \in Key /\ idem'[jobs'[j].key] = j
                        /\ jobs'[j].cur \in Version /\ jobs'[j].target \in Version
        OBVIOUS
    <3>1. CASE j = i
          BY <2>2, <2>5, <2>6, <3>1
    <3>2. CASE j # i
      <4>1. /\ jobs[j].key \in Key /\ idem[jobs[j].key] = j
            /\ jobs[j].cur \in Version /\ jobs[j].target \in Version
            BY <1>0, <2>6, <3>2 DEF FileInv
      <4>2. jobs[j].key # k
            BY <2>2, <4>1 DEF JobId, NoJob
      <4>3. QED BY <2>6, <3>2, <4>1, <4>2
    <3>3. QED BY <3>1, <3>2
  <2>12. (\A l \in Key : idem[l] # NoJob =>
            jobs[idem[l]].status # "absent" /\ jobs[idem[l]].key = l)'
         BY <1>0, <2>1, <2>5, <2>6 DEF FileInv
  <2>13. Kept
         BY <2>1, <2>2, <2>6 DEF Kept
  <2>14. QED BY <2>2, <2>6, <2>8, <2>9, <2>11, <2>12, <2>13 DEF FileInv
<1>3. ASSUME NEW c \in Client, Restarting(c) PROVE FileInv' /\ Kept
  <2> DEFINE i == h[c].ticket.job
             r == [jobs[i] EXCEPT !.status = "restarting"]
  <2>1. i \in JobId /\ jobs[i] \in Job /\ jobs[i].status = "broken"
        BY <1>0, <1>3
           DEF Restarting, FileInv, HandlerInv, HandlerOK, Answered,
               TicketValid, TInv, Allowed
  <2>3. /\ r \in Job /\ r.status = "restarting" /\ r.key = jobs[i].key
        /\ r.cur = jobs[i].cur /\ r.target = jobs[i].target
        /\ r.bearers = jobs[i].bearers
        BY <2>1 DEF Job, ActiveStatus
  <2>4. /\ jobs' = [jobs EXCEPT ![i] = r] /\ idem' = idem
        /\ desired' = "upgrading" /\ ~hasActiveJob
        BY <1>3 DEF Restarting
  <2> HIDE DEF r, i
  <2>5. \A j \in JobId : ~isActive(j)
        BY <2>4 DEF hasActiveJob, isActive
  <2>6. r.status \in ActiveStatus
        BY <2>3 DEF ActiveStatus
  <2>8. QED BY <1>0, <2>1, <2>3, <2>4, <2>5, <2>6, OneJobChanged
<1>4. ASSUME Saving PROVE FileInv' /\ Kept
  <2>1. mine \in JobId /\ isActive(mine) /\ jobs[mine] \in Job
        BY <1>0, <1>4 DEF Saving, TInv, RunnerInv, FileInv
  <2>2. PICK o \in Outcomes(mine) : jobs' = saved(mine, o[1]) /\ desired' = o[2]
        BY <1>4 DEF Saving
  <2>3. /\ o[1] \in ActiveStatus \union {"succeeded", "failed", "broken"}
        /\ o[2] \in {"running", "upgrading", "maintenance"}
        /\ o[2] = "upgrading" <=> o[1] \in ActiveStatus
        BY <2>1, <2>2 DEF Outcomes, ActiveStatus
  <2> DEFINE r == [jobs[mine] EXCEPT !.status = o[1]]
  <2>4. /\ r \in Job /\ r.status = o[1] /\ r.key = jobs[mine].key
        /\ r.cur = jobs[mine].cur /\ r.target = jobs[mine].target
        /\ r.bearers = jobs[mine].bearers
        BY <2>1, <2>3 DEF Job
  <2>5. jobs' = [jobs EXCEPT ![mine] = r] /\ idem' = idem
        BY <1>4, <2>2 DEF Saving, saved
  <2> HIDE DEF r
  <2>6. \A j \in JobId : isActive(j) => j = mine
        BY <1>0, <2>1 DEF FileInv
  <2>7. jobs[mine].status # "absent" /\ r.status # "absent"
        BY <2>1, <2>3, <2>4 DEF isActive, ActiveStatus
  <2>8. QED
    BY <1>0, <2>1, <2>2, <2>3, <2>4, <2>5, <2>6, <2>7, OneJobChanged
<1>5. ASSUME Wishing PROVE FileInv' /\ Kept
      BY <1>0, <1>5 DEF Wishing, FileInv, Kept, hasActiveJob, isActive
<1>6. ASSUME UNCHANGED fileVars PROVE FileInv' /\ Kept
      BY <1>0, <1>6 DEF fileVars, FileInv, Kept, hasActiveJob, isActive
<1>7. QED BY <1>1, <1>2, <1>3, <1>4, <1>5, <1>6 DEF FileStep

-----------------------------------------------------------------------------
(***************************************************************************)
(* The handlers.                                                           *)
(***************************************************************************)
\* A step of one handler leaves the others alone.
OnlyHandler(c) ==
    /\ h' \in [Client -> HandlerRecord]
    /\ \A d \in Client : d # c => h'[d] = h[d]

\* The key of a request stays bound.
LEMMA BoundStays ==
    ASSUME TInv, Kept, NEW d \in Client, want' = want, Bound(d)
    PROVE  Bound(d)'
<1> DEFINE j == idem[want[d].key]
<1>1. want[d].key \in Key
      BY DEF TInv, HandlerInv
<1>2. j \in JobId /\ jobs[j].status # "absent" /\ jobs[j].target = want[d].target
      BY <1>1 DEF Bound, TInv, FileInv
<1>3. idem'[want[d].key] = j /\ jobs'[j].target = jobs[j].target
      BY <1>1, <1>2 DEF Bound, Kept
<1>4. QED BY <1>2, <1>3 DEF Bound

\* Another handler's ticket and key survive every change of the file.
LEMMA OtherHandler ==
    ASSUME TInv, Kept, NEW d \in Client, h'[d] = h[d], want' = want
    PROVE  HandlerOK(d)'
<1>1. HandlerOK(d) /\ want[d].key \in Key
      BY DEF TInv, HandlerInv
<1>2. Answered(d)'
      BY <1>1 DEF HandlerOK, Answered
<1>3. TicketValid(d)'
      BY <1>1 DEF HandlerOK, TicketValid, Kept
<1>4. Bound(d) => Bound(d)'
      BY BoundStays
<1>5. Replayed(d)'
      BY <1>1, <1>4 DEF HandlerOK, Replayed
<1>6. QED BY <1>2, <1>3, <1>5 DEF HandlerOK

\* What the four ways to move a handler change.
LEMMA GotoStep ==
    ASSUME HandlerInv, NEW c \in Client, NEW s, Goto(c, s),
           s \in {"idle", "look", "rotate", "gate", "save", "wake", "reply",
                  "done", "restart_gate", "restart_save"}
    PROVE  /\ OnlyHandler(c)
           /\ h'[c].pc = s /\ h'[c].knew = h[c].knew /\ h'[c].cur = h[c].cur
           /\ h'[c].answer = h[c].answer /\ h'[c].ticket = h[c].ticket
<1>1. h \in [Client -> HandlerRecord]
      BY DEF HandlerInv
<1>2. [h[c] EXCEPT !.pc = s] \in HandlerRecord
      BY <1>1 DEF HandlerRecord
<1>3. h'[c] = [h[c] EXCEPT !.pc = s]
      BY <1>1 DEF Goto
<1>4. h' \in [Client -> HandlerRecord]
      BY <1>1, <1>2 DEF Goto
<1>5. QED BY <1>1, <1>3, <1>4 DEF OnlyHandler, Goto, HandlerRecord

Refusals == {"operation_in_progress", "desired_state_not_running",
             "target_not_newer", "runtime_status_unavailable",
             "idempotency_conflict", "state_write_failed",
             "idempotency_not_found"}

\* A refusal.
LEMMA AnswerStep ==
    ASSUME HandlerInv, NEW c \in Client, NEW a \in Refusals, Answer(c, a)
    PROVE  /\ OnlyHandler(c)
           /\ h'[c].pc = "reply" /\ h'[c].answer = a /\ h'[c].knew = h[c].knew
<1>1. h \in [Client -> HandlerRecord]
      BY DEF HandlerInv
<1>2. [h[c] EXCEPT !.pc = "reply", !.answer = a] \in HandlerRecord
      BY <1>1 DEF HandlerRecord, Refusals
<1>3. h'[c] = [h[c] EXCEPT !.pc = "reply", !.answer = a]
      BY <1>1 DEF Answer
<1>4. h' \in [Client -> HandlerRecord]
      BY <1>1, <1>2 DEF Answer
<1>5. QED BY <1>1, <1>3, <1>4 DEF OnlyHandler, Answer, HandlerRecord

\* A ticket.
LEMMA GrantStep ==
    ASSUME HandlerInv, NEW c \in Client, NEW j \in JobId, NEW s \in {"reply", "wake"},
           minted + 1 \in Bearer, Grant(c, j, s)
    PROVE  /\ OnlyHandler(c)
           /\ h'[c].pc = s /\ h'[c].answer = "ticket" /\ h'[c].knew = h[c].knew
           /\ h'[c].ticket = [job |-> j, bearer |-> minted + 1]
<1> DEFINE t == [job |-> j, bearer |-> minted + 1]
           r == [h[c] EXCEPT !.pc = s, !.answer = "ticket", !.ticket = t]
<1>1. h \in [Client -> HandlerRecord]
      BY DEF HandlerInv
<1>2. t \in Ticket
      BY DEF Ticket
<1>3. h' = [h EXCEPT ![c] = r]
      BY DEF Grant
<1> HIDE DEF t
<1>4. r \in HandlerRecord
      BY <1>1, <1>2 DEF HandlerRecord
<1>5. r.pc = s /\ r.answer = "ticket" /\ r.ticket = t /\ r.knew = h[c].knew
      BY <1>1 DEF HandlerRecord
<1>6. h' \in [Client -> HandlerRecord] /\ h'[c] = r
      BY <1>1, <1>3, <1>4
<1>7. QED BY <1>1, <1>3, <1>5, <1>6 DEF OnlyHandler, t

\* The caller has gone, or will retry.
LEMMA IdleStep ==
    ASSUME HandlerInv, NEW c \in Client, h' = [h EXCEPT ![c] = Idle]
    PROVE  OnlyHandler(c) /\ h'[c] = Idle
<1>1. h \in [Client -> HandlerRecord]
      BY DEF HandlerInv
<1>2. Idle \in HandlerRecord
      BY DEF Idle, HandlerRecord, Ticket
<1>3. QED BY <1>1, <1>2 DEF OnlyHandler

\* Where a move leaves the handler.
LEMMA GoesTo ==
    ASSUME HandlerInv, NEW c \in Client
    PROVE  /\ \A s : Goto(c, s) => h'[c].pc = s /\ h'[c].answer = h[c].answer
           /\ \A a : Answer(c, a) => h'[c].pc = "reply" /\ h'[c].answer = a
           /\ \A j, s : Grant(c, j, s) => h'[c].pc = s /\ h'[c].answer = "ticket"
           /\ h' = [h EXCEPT ![c] = Idle] =>
                    h'[c].pc = "idle" /\ h'[c].answer = "none"
<1>1. h \in [Client -> HandlerRecord] /\ h[c] \in HandlerRecord
      BY DEF HandlerInv
<1>2. ASSUME NEW s, Goto(c, s) PROVE h'[c].pc = s /\ h'[c].answer = h[c].answer
  <2>1. h'[c] = [h[c] EXCEPT !.pc = s]
        BY <1>1, <1>2 DEF Goto
  <2>2. QED BY <1>1, <2>1 DEF HandlerRecord
<1>3. ASSUME NEW a, Answer(c, a) PROVE h'[c].pc = "reply" /\ h'[c].answer = a
  <2>1. h'[c] = [h[c] EXCEPT !.pc = "reply", !.answer = a]
        BY <1>1, <1>3 DEF Answer
  <2>2. QED BY <1>1, <2>1 DEF HandlerRecord
<1>4. ASSUME NEW j, NEW s, Grant(c, j, s)
      PROVE  h'[c].pc = s /\ h'[c].answer = "ticket"
  <2> DEFINE t == [job |-> j, bearer |-> minted + 1]
  <2>1. h'[c] = [h[c] EXCEPT !.pc = s, !.answer = "ticket", !.ticket = t]
        BY <1>1, <1>4 DEF Grant
  <2> HIDE DEF t
  <2>2. QED BY <1>1, <2>1 DEF HandlerRecord
<1>5. h' = [h EXCEPT ![c] = Idle] => h'[c].pc = "idle" /\ h'[c].answer = "none"
      BY <1>1 DEF Idle
<1>6. QED BY <1>2, <1>3, <1>4, <1>5

\* An idle handler, and one that has refused.
LEMMA IdleIsOK ==
    ASSUME NEW c \in Client, h'[c] = Idle
    PROVE  HandlerOK(c)'
<1>1. QED BY DEF Idle, HandlerOK, Answered, TicketValid, Replayed

\* A refusal is no answer to a known key, but for a failed save.
LEMMA RefusalIsOK ==
    ASSUME NEW c \in Client, NEW a \in Refusals,
           h'[c].pc = "reply", h'[c].answer = a,
           h'[c].knew => Bound(c)' /\ a = "state_write_failed"
    PROVE  HandlerOK(c)'
<1>1. QED BY DEF Refusals, HandlerOK, Answered, TicketValid, Replayed

\* A snapshot of the file, or the check under its mutex, refuses a new job.
LEMMA PreflightStep ==
    ASSUME HandlerInv, NEW c \in Client, Preflight(c), ~h[c].knew,
           h[c].answer = "none"
    PROVE  OnlyHandler(c) /\ HandlerOK(c)' /\ h'[c].pc \in {"reply", "gate"}
<1>1. \/ Answer(c, "operation_in_progress")
      \/ Answer(c, "desired_state_not_running")
      \/ Goto(c, "gate")
      BY DEF Preflight
<1>2. ASSUME NEW a \in Refusals, Answer(c, a)
      PROVE  OnlyHandler(c) /\ HandlerOK(c)' /\ h'[c].pc \in {"reply", "gate"}
      BY <1>2, AnswerStep, RefusalIsOK
<1>3. CASE Goto(c, "gate")
      BY <1>3, GotoStep DEF HandlerOK, Answered, TicketValid, Replayed
<1>4. QED BY <1>1, <1>2, <1>3 DEF Refusals

\* The replay of a known key, by the rotation of its job's bearers.
LEMMA ReplayStep ==
    ASSUME TInv, FileInv', Kept, NEW c \in Client, NEW s \in {"reply", "wake"},
           want' = want, h[c].pc \in {"rotate", "save"},
           idem[want[c].key] # NoJob, RotatePersisted(c, s)
    PROVE  OnlyHandler(c) /\ HandlerOK(c)' /\ h'[c].pc \in {"reply", "wake"}
<1> DEFINE j == idem[want[c].key]
<1>1. /\ HandlerInv /\ want[c].key \in Key /\ h[c].answer = "none"
      /\ j \in JobId /\ jobs[j].status # "absent" /\ jobs[j].key = want[c].key
      BY DEF TInv, FileInv, HandlerInv, HandlerOK, Answered
<1>2. h[c].knew => Bound(c) /\ Bound(c)'
      BY <1>1, BoundStays DEF HandlerInv, HandlerOK, Replayed
<1>3. minted + 1 \in Bearer
      BY <1>1, MintBound
<1>4. CASE Answer(c, "idempotency_conflict") /\ jobs[j].target # want[c].target
  <2>1. ~h[c].knew
        BY <1>2, <1>4 DEF Bound
  <2>2. QED BY <1>1, <1>4, <2>1, AnswerStep, RefusalIsOK DEF Refusals
<1>5. CASE Answer(c, "state_write_failed")
      BY <1>1, <1>2, <1>5, AnswerStep, RefusalIsOK DEF Refusals
<1>6. CASE Grant(c, j, s) /\ jobs' = rotated(j) /\ jobs[j].target = want[c].target
  <2>1. /\ OnlyHandler(c) /\ h'[c].pc = s /\ h'[c].answer = "ticket"
        /\ h'[c].knew = h[c].knew
        /\ h'[c].ticket = [job |-> j, bearer |-> minted + 1]
        BY <1>1, <1>3, <1>6, GrantStep
  <2>2. minted + 1 \in jobs'[j].bearers
    <3>1. jobs \in [JobId -> Job] /\ jobs[j] \in Job
          BY <1>1 DEF TInv, FileInv
    <3>2. jobs'[j] = [jobs[j] EXCEPT !.bearers = @ \union {minted + 1}]
          BY <1>1, <1>6, <3>1 DEF rotated
    <3>3. QED BY <3>1, <3>2 DEF Job
  <2>3. /\ jobs'[j].status # "absent" /\ jobs'[j].key = want[c].key
        /\ jobs'[j].target = want[c].target
        BY <1>1, <1>6 DEF Kept
  <2>4. TicketValid(c)'
        BY <1>1, <1>3, <2>1, <2>2, <2>3 DEF TicketValid
  <2>5. QED BY <1>2, <2>1, <2>4 DEF HandlerOK, Answered, Replayed
<1>7. QED BY <1>4, <1>5, <1>6 DEF RotatePersisted, Update

\* One step per action of a handler.
LEMMA HandlerStep ==
    ASSUME TInv, Next, FileInv', Kept, NEW c \in Client,
           Send(c) \/ RestartLook(c) \/ Handler(c) \/ Abandon(c)
    PROVE  OnlyHandler(c) /\ HandlerOK(c)'
<1>0. HandlerInv /\ HandlerOK(c) /\ want[c].key \in Key
      BY DEF TInv, HandlerInv
<1>1. want' = want
      BY DEF Send, RestartLook, Handler, Abandon, Look, TakeGate, Rotate, Save,
             Wake, Reply, RestartGate, RestartSave
<1>2. h[c].knew => Bound(c) /\ Bound(c)'
      BY <1>0, <1>1, BoundStays DEF HandlerOK, Replayed
<1>3. CASE Send(c)
  <2>1. PICK s \in {"look", "rotate"} :
            h' = [h EXCEPT ![c].pc = s, ![c].knew = Bound(c)]
        BY <1>3 DEF Send
  <2>2. h \in [Client -> HandlerRecord] /\ h[c].answer = "none"
        BY <1>0, <1>3 DEF Send, HandlerInv, HandlerOK, Answered
  <2> DEFINE r == [h[c] EXCEPT !.pc = s, !.knew = Bound(c)]
  <2>3. Bound(c) \in BOOLEAN
        BY DEF Bound
  <2>4. r \in HandlerRecord
        BY <2>2, <2>3 DEF HandlerRecord
  <2>5. r.pc = s /\ r.knew = Bound(c) /\ r.answer = "none"
        BY <2>2 DEF HandlerRecord
  <2>6. h' = [h EXCEPT ![c] = r]
        BY <2>1, <2>2
  <2> HIDE DEF r
  <2>7. OnlyHandler(c) /\ h'[c] = r
        BY <2>2, <2>4, <2>6 DEF OnlyHandler
  <2>8. Bound(c) => Bound(c)'
        BY <1>1, BoundStays
  <2>9. QED BY <2>5, <2>7, <2>8 DEF HandlerOK, Answered, TicketValid, Replayed
<1>4. CASE Look(c)
  <2>1. CASE idem[want[c].key] # NoJob
    <3>1. Goto(c, "rotate") /\ h[c].answer = "none"
          BY <1>0, <1>4, <2>1 DEF Look, HandlerOK, Answered
    <3>2. QED BY <1>0, <1>2, <3>1, GotoStep
                 DEF HandlerOK, Answered, TicketValid, Replayed
  <2>2. CASE idem[want[c].key] = NoJob
    <3>1. ~h[c].knew /\ h[c].answer = "none" /\ Preflight(c) /\ h[c].pc = "look"
          BY <1>0, <1>2, <1>4, <2>2 DEF Look, HandlerOK, Answered, Bound
    <3>2. QED BY <1>0, <3>1, PreflightStep
  <2>3. QED BY <2>1, <2>2
<1>5. CASE TakeGate(c)
  <2>1. h[c].answer = "none" /\ ~h[c].knew
        BY <1>0, <1>5 DEF TakeGate, HandlerOK, Answered, Replayed
  <2>2. CASE h' = [h EXCEPT ![c].pc = "save", ![c].cur = env]
    <3>1. /\ h \in [Client -> HandlerRecord] /\ env \in Version
          /\ env \in 0..MaxVersion
          BY <1>0 DEF HandlerInv, TInv, Version
    <3> DEFINE r == [h[c] EXCEPT !.pc = "save", !.cur = env]
    <3>2. r \in HandlerRecord
          BY <3>1 DEF HandlerRecord
    <3>3. r.pc = "save" /\ r.cur = env /\ r.answer = "none" /\ ~r.knew
          BY <2>1, <3>1 DEF HandlerRecord
    <3>4. h' = [h EXCEPT ![c] = r]
          BY <2>2, <3>1
    <3> HIDE DEF r
    <3>5. OnlyHandler(c) /\ h'[c] = r
          BY <3>1, <3>2, <3>4 DEF OnlyHandler
    <3>6. QED BY <3>1, <3>3, <3>5
                 DEF HandlerOK, Answered, TicketValid, Replayed, Version
  <2>3. ASSUME NEW a \in {"target_not_newer", "runtime_status_unavailable"},
               Answer(c, a)
        PROVE  OnlyHandler(c) /\ HandlerOK(c)'
        BY <1>0, <2>1, <2>3, AnswerStep, RefusalIsOK DEF Refusals
  <2>4. QED BY <1>5, <2>2, <2>3 DEF TakeGate
<1>6. CASE Rotate(c)
  <2>1. CASE idem[want[c].key] = NoJob
    <3>1. Answer(c, "idempotency_not_found") /\ ~h[c].knew
          BY <1>2, <1>6, <2>1 DEF Rotate, Bound
    <3>2. QED BY <1>0, <3>1, AnswerStep, RefusalIsOK DEF Refusals
  <2>2. CASE idem[want[c].key] # NoJob
        BY <1>1, <1>6, <2>2, ReplayStep DEF Rotate
  <2>3. QED BY <2>1, <2>2
<1>7. CASE Save(c)
  <2>0. h[c].pc = "save" /\ h[c].answer = "none" /\ ~h[c].knew
        BY <1>0, <1>7 DEF Save, HandlerOK, Answered, Replayed
  <2>1. CASE idem[want[c].key] # NoJob /\ RotatePersisted(c, "wake")
        BY <1>1, <2>0, <2>1, ReplayStep
  <2>2. CASE (hasActiveJob \/ desired # "running") /\ Preflight(c)
        BY <1>0, <2>0, <2>2, PreflightStep
  <2>3. CASE Accept(c)
    <3>1. CASE Answer(c, "state_write_failed")
          BY <1>0, <2>0, <3>1, AnswerStep, RefusalIsOK DEF Refusals
    <3>2. CASE \E j \in JobId : /\ jobs' = [jobs EXCEPT ![j] = newJob(c)]
                                /\ Grant(c, j, "wake")
      <4>1. PICK j \in JobId : /\ jobs' = [jobs EXCEPT ![j] = newJob(c)]
                               /\ Grant(c, j, "wake")
            BY <3>2
      <4>2. minted + 1 \in Bearer
            BY <2>0, MintBound
      <4>3. /\ OnlyHandler(c) /\ h'[c].pc = "wake" /\ h'[c].answer = "ticket"
            /\ h'[c].knew = h[c].knew
            /\ h'[c].ticket = [job |-> j, bearer |-> minted + 1]
            BY <1>0, <4>1, <4>2, GrantStep
      <4>4. jobs'[j] = newJob(c)
            BY <4>1 DEF TInv, FileInv
      <4>5. TicketValid(c)'
            BY <1>1, <4>2, <4>3, <4>4 DEF TicketValid, newJob
      <4>6. QED BY <2>0, <4>3, <4>5 DEF HandlerOK, Answered, Replayed
    <3>3. QED BY <2>3, <3>1, <3>2 DEF Accept, Update
  <2>4. QED BY <1>7, <2>1, <2>2, <2>3 DEF Save
<1>8. ASSUME NEW s \in {"wake", "reply", "done", "restart_gate",
                         "restart_save"},
             Goto(c, s), h[c].answer = "ticket" \/ s = "done"
      PROVE  OnlyHandler(c) /\ HandlerOK(c)'
  <2>1. /\ OnlyHandler(c) /\ h'[c].pc = s /\ h'[c].knew = h[c].knew
        /\ h'[c].answer = h[c].answer /\ h'[c].ticket = h[c].ticket
        BY <1>0, <1>8, GotoStep
  <2>2. TicketValid(c)'
        BY <1>0, <1>1, <2>1 DEF HandlerOK, TicketValid, Kept
  <2>3. QED BY <1>0, <1>2, <1>8, <2>1, <2>2 DEF HandlerOK, Answered, Replayed
<1>9. CASE Wake(c)
      BY <1>0, <1>8, <1>9 DEF Wake, HandlerOK, Answered
<1>10. CASE Reply(c)
       BY <1>0, <1>8, <1>10, IdleStep, IdleIsOK DEF Reply
<1>11. CASE Abandon(c)
       BY <1>0, <1>11, IdleStep, IdleIsOK DEF Abandon
<1>12. CASE RestartLook(c)
       BY <1>0, <1>8, <1>12 DEF RestartLook
<1>13. CASE RestartGate(c)
       BY <1>0, <1>8, <1>13 DEF RestartGate, HandlerOK, Answered
<1>14. CASE RestartSave(c)
       BY <1>0, <1>8, <1>14 DEF RestartSave, Update, HandlerOK, Answered
<1>15. QED
  BY <1>3, <1>4, <1>5, <1>6, <1>7, <1>9, <1>10, <1>11, <1>12, <1>13, <1>14
     DEF Handler

\* Every step, of a handler or not, leaves each handler in order.
LEMMA HandlersKept == TInv /\ Next => HandlerInv'
<1> SUFFICES ASSUME TInv, Next PROVE HandlerInv'
    OBVIOUS
<1>0. FileInv' /\ Kept /\ HandlerInv
      BY FileKept DEF TInv
<1>1. want' = want
      BY DEF Next, Send, RestartLook, Handler, Runner, Abandon, Look, TakeGate,
             Rotate, Save, Wake, Reply, RestartGate, RestartSave, RunnerLoads,
             EngineSave, RunnerWaits, Signalled, Tick, EngineHost,
             setDesiredState, Crash, Boot
<1>2. ASSUME NEW c \in Client,
             Send(c) \/ RestartLook(c) \/ Handler(c) \/ Abandon(c)
      PROVE  HandlerInv'
  <2>1. OnlyHandler(c) /\ HandlerOK(c)'
        BY <1>0, <1>2, HandlerStep
  <2>2. \A d \in Client : d # c => HandlerOK(d)'
        BY <1>0, <1>1, <2>1, OtherHandler DEF OnlyHandler
  <2>3. QED BY <1>0, <1>1, <2>1, <2>2 DEF HandlerInv, OnlyHandler
<1>3. CASE h' = h
      BY <1>0, <1>1, <1>3, OtherHandler DEF HandlerInv
<1>4. CASE Crash
  <2>1. \A c \in Client : \/ h'[c] = h[c]
                          \/ h'[c] = Idle
                          \/ /\ h[c].pc \in {"restart_gate", "restart_save"}
                             /\ h'[c] = [h[c] EXCEPT !.pc = "done"]
        BY <1>4 DEF Crash
  <2>2. \A c \in Client : h[c] \in HandlerRecord /\ Idle \in HandlerRecord
        BY <1>0 DEF HandlerInv, Idle, HandlerRecord, Ticket
  <2>3. ASSUME NEW c \in Client
        PROVE  h'[c] \in HandlerRecord /\ HandlerOK(c)'
    <3>1. CASE h'[c] = h[c]
          BY <1>0, <1>1, <2>2, <3>1, OtherHandler
    <3>2. CASE h'[c] = Idle
          BY <2>2, <3>2, IdleIsOK
    <3>3. CASE h'[c] = [h[c] EXCEPT !.pc = "done"]
      <4>1. /\ h'[c] \in HandlerRecord /\ h'[c].pc = "done"
            /\ h'[c].knew = h[c].knew /\ h'[c].answer = h[c].answer
            /\ h'[c].ticket = h[c].ticket
            BY <2>2, <3>3 DEF HandlerRecord
      <4>2. HandlerOK(c)
            BY <1>0 DEF HandlerInv
      <4>3. TicketValid(c)'
            BY <1>0, <1>1, <4>1, <4>2
               DEF HandlerOK, TicketValid, Kept, HandlerInv
      <4>4. h[c].knew => Bound(c)'
            BY <1>1, <1>0, <4>2, BoundStays DEF HandlerOK, Replayed
      <4>5. QED BY <4>1, <4>2, <4>3, <4>4 DEF HandlerOK, Answered, Replayed
    <3>4. QED BY <2>1, <3>1, <3>2, <3>3
  <2>4. h' \in [Client -> HandlerRecord]
        BY <2>3, <1>4 DEF Crash
  <2>5. QED BY <1>0, <1>1, <2>3, <2>4 DEF HandlerInv
<1>5. \/ h' = h \/ Crash
      \/ \E c \in Client : Send(c) \/ RestartLook(c) \/ Handler(c) \/ Abandon(c)
      BY DEF Next, Runner, RunnerLoads, EngineSave, RunnerWaits, Signalled,
             Tick, EngineHost, setDesiredState, Boot
<1>6. QED BY <1>2, <1>3, <1>4, <1>5

\* A handler that gives the gate back, or does not hold it, takes it from no
\* other; one that takes it finds it free.
LEMMA GateKept == TInv /\ Next => GateInv'
<1> SUFFICES ASSUME TInv, Next PROVE GateInv'
    OBVIOUS
<1>0. GateInv /\ HandlerInv /\ h \in [Client -> HandlerRecord]
      BY DEF TInv, HandlerInv
<1>1. ASSUME NEW c \in Client,
             Send(c) \/ RestartLook(c) \/ Look(c) \/ Rotate(c) \/ Wake(c) \/ Reply(c)
      PROVE  GateInv'
  <2>1. gate' = gate
        BY <1>1 DEF Send, RestartLook, Look, Rotate, Wake, Reply
  <2>2. OnlyHandler(c)
        BY <1>1, FileKept, HandlerStep DEF Handler
  <2>3. h'[c].pc \notin {"save", "restart_save"}
    <3>1. CASE Send(c)
      <4>1. PICK s \in {"look", "rotate"} :
                h'[c] = [h[c] EXCEPT !.pc = s, !.knew = Bound(c)]
            BY <1>0, <3>1 DEF Send
      <4>2. h[c] \in HandlerRecord
            BY <1>0
      <4>3. QED BY <4>1, <4>2 DEF HandlerRecord
    <3>2. CASE Look(c)
          BY <1>0, <3>2, GoesTo DEF Look, Preflight
    <3>3. CASE Rotate(c)
          BY <1>0, <3>3, GoesTo DEF Rotate, RotatePersisted, Update
    <3>4. CASE RestartLook(c) \/ Wake(c) \/ Reply(c)
          BY <1>0, <3>4, GoesTo DEF RestartLook, Wake, Reply
    <3>5. QED BY <1>1, <3>1, <3>2, <3>3, <3>4
  <2>4. QED BY <1>0, <2>1, <2>2, <2>3 DEF GateInv, OnlyHandler
<1>2. ASSUME NEW c \in Client, TakeGate(c) \/ RestartGate(c)
      PROVE  GateInv'
  <2>1. OnlyHandler(c)
        BY <1>2, FileKept, HandlerStep DEF Handler
  <2>2. gate = Nobody /\ \A d \in Client : h[d].pc \notin {"save", "restart_save"}
        BY <1>0, <1>2 DEF TakeGate, RestartGate, GateInv
  <2>3. gate' = c \/ (gate' = Nobody /\ h'[c].pc \notin {"save", "restart_save"})
        BY <1>0, <1>2, <2>2, GoesTo DEF TakeGate, RestartGate
  <2>4. QED BY <1>0, <2>1, <2>2, <2>3 DEF GateInv, OnlyHandler
<1>3. ASSUME NEW c \in Client, Save(c) \/ RestartSave(c) \/ Abandon(c)
      PROVE  GateInv'
  <2>1. OnlyHandler(c)
        BY <1>3, FileKept, HandlerStep DEF Handler
  <2>2. Release(c)
        BY <1>3 DEF Save, RestartSave, Abandon
  <2>3. h'[c].pc \notin {"save", "restart_save"}
    <3>1. CASE Save(c)
          BY <1>0, <3>1, GoesTo
             DEF Save, RotatePersisted, Accept, Preflight, Update
    <3>2. CASE RestartSave(c) \/ Abandon(c)
          BY <1>0, <3>2, GoesTo DEF RestartSave, Abandon, Update
    <3>3. QED BY <1>3, <3>1, <3>2
  <2>4. QED BY <1>0, <2>1, <2>2, <2>3 DEF GateInv, OnlyHandler, Release
<1>4. CASE UNCHANGED <<h, gate>>
      BY <1>0, <1>4 DEF GateInv
<1>5. CASE Crash
  <2>1. \A c \in Client : h'[c].pc \notin {"save", "restart_save"}
        BY <1>0, <1>5 DEF Crash, Idle, HandlerRecord
  <2>2. QED BY <1>5, <2>1 DEF GateInv, Crash
<1>6. QED
  BY <1>1, <1>2, <1>3, <1>4, <1>5
     DEF Next, Handler, Runner, RunnerLoads, EngineSave, RunnerWaits,
         Signalled, Tick, EngineHost, setDesiredState, Boot

-----------------------------------------------------------------------------
(***************************************************************************)
(* The job runner and its signal.                                          *)
(***************************************************************************)
\* The runner's job is the only one, and nothing is accepted meanwhile.
LEMMA OneAtATime ==
    ASSUME TInv
    PROVE  /\ ~hasActiveJob => accepted = {} /\ runner # "work"
           /\ runner = "work" => accepted = {}
<1>1. QED BY DEF TInv, RunnerInv, FileInv, hasActiveJob, isActive

\* A step that moves neither the runner nor the statuses.
LEMMA RunnerRests ==
    ASSUME TInv, UNCHANGED <<runner, mine, accepted>>, signal' \in BOOLEAN,
           \A j \in JobId : isActive(j) => isActive(j)'
    PROVE  RunnerInv'
<1>1. QED BY DEF TInv, RunnerInv

\* An accepted job, under each way the update may end.
LEMMA AcceptKept ==
    ASSUME TInv, ~hasActiveJob, NEW j \in JobId, NEW s \in ActiveStatus,
           AcceptedIf(j, s), UNCHANGED <<runner, mine, signal>>
    PROVE  RunnerInv'
<1>1. accepted = {} /\ runner # "work"
      BY OneAtATime
<1>2. accepted' = {} \/ (accepted' = {j} /\ jobs'[j].status = s)
      BY <1>1 DEF AcceptedIf
<1>3. QED BY <1>1, <1>2 DEF TInv, RunnerInv, isActive

\* The runner keeps to the active job.
LEMMA RunnerKept == TInv /\ Next => RunnerInv'
<1> SUFFICES ASSUME TInv, Next PROVE RunnerInv'
    OBVIOUS
<1>0. RunnerInv /\ FileInv /\ HandlerInv
      BY DEF TInv
<1>1. CASE UNCHANGED <<jobs, runner, mine, accepted>> /\ signal' \in BOOLEAN
      BY <1>1, RunnerRests DEF isActive
<1>2. ASSUME NEW c \in Client, Rotation(c), UNCHANGED runnerVars
      PROVE  RunnerInv'
  <2> DEFINE i == idem[want[c].key]
  <2>1. i \in JobId /\ jobs \in [JobId -> Job]
        BY <1>0, <1>2 DEF Rotation, FileInv, HandlerInv
  <2>2. \A j \in JobId : jobs'[j].status = jobs[j].status
        BY <1>2, <2>1 DEF Rotation, rotated, Job
  <2>3. QED BY <1>0, <1>2, <2>2, RunnerRests DEF runnerVars, isActive, RunnerInv
<1>3. ASSUME NEW c \in Client, Rotate(c) PROVE RunnerInv'
  <2>1. UNCHANGED runnerVars /\ (Rotation(c) \/ UNCHANGED jobs)
        BY <1>3 DEF Rotate, RotatePersisted, Update, Rotation, fileVars
  <2>2. QED BY <1>0, <1>1, <1>2, <2>1 DEF runnerVars, RunnerInv
<1>4. ASSUME NEW c \in Client, Save(c) PROVE RunnerInv'
  <2>1. CASE Accept(c) /\ ~hasActiveJob
        BY <1>4, <2>1, AcceptKept DEF Accept, Save, ActiveStatus
  <2>2. CASE /\ RotatePersisted(c, "wake") /\ idem[want[c].key] # NoJob
             /\ UNCHANGED accepted
    <3>1. UNCHANGED runnerVars /\ (Rotation(c) \/ UNCHANGED jobs)
          BY <1>4, <2>2
             DEF Save, RotatePersisted, Update, Rotation, fileVars, runnerVars
    <3>2. QED BY <1>0, <1>1, <1>2, <3>1 DEF runnerVars, RunnerInv
  <2>3. CASE UNCHANGED <<jobs, accepted>>
        BY <1>0, <1>1, <1>4, <2>3 DEF Save, RunnerInv
  <2>4. QED BY <1>4, <2>1, <2>2, <2>3 DEF Save, fileVars
<1>5. ASSUME NEW c \in Client, RestartSave(c) PROVE RunnerInv'
  <2>1. h[c].ticket.job \in JobId
        BY <1>0, <1>5
           DEF RestartSave, HandlerInv, HandlerOK, Answered, TicketValid
  <2>2. CASE ~hasActiveJob /\ AcceptedIf(h[c].ticket.job, "restarting")
        BY <1>5, <2>1, <2>2, AcceptKept DEF RestartSave, ActiveStatus
  <2>3. CASE UNCHANGED <<jobs, accepted>>
        BY <1>0, <1>1, <1>5, <2>3 DEF RestartSave, RunnerInv
  <2>4. QED BY <1>5, <2>2, <2>3 DEF RestartSave, fileVars
<1>6. CASE EngineSave
  <2>1. /\ runner = "work" /\ accepted = {} /\ mine \in JobId
        /\ jobs \in [JobId -> Job]
        BY <1>0, <1>6, OneAtATime DEF EngineSave, RunnerInv, FileInv
  <2>2. PICK o \in Outcomes(mine) :
            \/ /\ jobs' = saved(mine, o[1])
               /\ RunnerGoes(IF o[1] = "running" THEN "work" ELSE "returned")
            \/ RunnerGoes("returned")
        BY <1>6 DEF EngineSave, Update
  <2>3. CASE RunnerGoes("returned")
        BY <1>0, <2>1, <2>3 DEF RunnerGoes, RunnerInv, JobId, NoJob
  <2>4. CASE o[1] = "running" /\ jobs' = saved(mine, o[1]) /\ RunnerGoes("work")
    <3>1. jobs'[mine].status = "running"
          BY <2>1, <2>4 DEF saved, Job
    <3>2. QED BY <1>0, <2>1, <2>4, <3>1
                 DEF RunnerGoes, RunnerInv, isActive, ActiveStatus
  <2>5. QED BY <2>2, <2>3, <2>4
<1>7. CASE RunnerLoads
      BY <1>0, <1>7 DEF RunnerLoads, RunnerInv, FileInv, fileVars, isActive
<1>8. CASE RunnerWaits \/ Signalled \/ Tick \/ Boot \/ Crash
      BY <1>0, <1>8
         DEF RunnerWaits, RunnerGoes, Signalled, Tick, Boot, Crash, RunnerInv,
             fileVars, isActive, JobId, NoJob
<1>9. ASSUME NEW c \in Client,
             \/ Send(c) \/ RestartLook(c) \/ Look(c) \/ TakeGate(c)
             \/ Wake(c) \/ Reply(c) \/ RestartGate(c) \/ Abandon(c)
      PROVE  RunnerInv'
      BY <1>0, <1>1, <1>9
         DEF Send, RestartLook, Look, TakeGate, Wake, Reply, RestartGate,
             Abandon, runnerVars, fileVars, RunnerInv
<1>10. CASE EngineHost \/ setDesiredState
       BY <1>0, <1>1, <1>10
          DEF EngineHost, setDesiredState, Update, runnerVars, fileVars,
              RunnerInv
<1>11. QED BY <1>3, <1>4, <1>5, <1>6, <1>7, <1>8, <1>9, <1>10
              DEF Next, Handler, Runner

\* No step loses a wake-up but a failing one.
LEMMA WakeKept == TInv /\ Next => WakeInv'
<1> SUFFICES ASSUME TInv, Next, faults' = 0, accepted' # {}
             PROVE  \/ signal' \/ runner' = "run"
                    \/ \E c \in Client : h'[c].pc = "wake"
    BY DEF WakeInv
<1>0. /\ RunnerInv /\ FileInv /\ HandlerInv /\ faults \in Nat
      /\ accepted # {} /\ faults = 0 =>
            signal \/ runner = "run" \/ \E c \in Client : h[c].pc = "wake"
      BY DEF TInv, MintInv, WakeInv
<1> DEFINE Waked == \/ signal' \/ runner' = "run"
                    \/ \E c \in Client : h'[c].pc = "wake"
<1>1. ASSUME NEW c \in Client,
             \/ Send(c) \/ RestartLook(c) \/ Look(c) \/ TakeGate(c)
             \/ Rotate(c) \/ Reply(c) \/ RestartGate(c) \/ Abandon(c)
      PROVE  Waked
  <2>1. OnlyHandler(c) /\ h[c].pc # "wake"
        BY <1>1, FileKept, HandlerStep
           DEF Handler, Send, RestartLook, Look, TakeGate, Rotate, Reply,
               RestartGate, Abandon
  <2>2. UNCHANGED runnerVars /\ faults = 0
        BY <1>0, <1>1
           DEF Send, RestartLook, Look, TakeGate, Rotate, RotatePersisted,
               Update, Reply, RestartGate, Abandon, Fault
  <2>3. QED BY <1>0, <2>1, <2>2 DEF runnerVars, OnlyHandler
<1>2. ASSUME NEW c \in Client, Save(c) \/ RestartSave(c)
      PROVE  Waked
  <2>1. OnlyHandler(c) /\ h[c].pc # "wake"
        BY <1>2, FileKept, HandlerStep DEF Handler, Save, RestartSave
  <2>2. UNCHANGED <<runner, signal>> /\ faults = 0
        BY <1>0, <1>2
           DEF Save, Accept, RestartSave, RotatePersisted, Update, Fault
  <2>3. h'[c].pc = "wake" \/ UNCHANGED accepted
    <3>1. CASE Save(c)
          BY <1>0, <2>2, <3>1, GoesTo DEF Save, Accept, Update, Fault
    <3>2. CASE RestartSave(c)
          BY <1>0, <2>2, <3>2, GoesTo DEF RestartSave, Update, Fault
    <3>3. QED BY <1>2, <3>1, <3>2
  <2>4. QED BY <1>0, <2>1, <2>2, <2>3 DEF OnlyHandler
<1>3. ASSUME NEW c \in Client, Wake(c) PROVE Waked
      BY <1>3 DEF Wake
<1>4. CASE EngineSave
      BY <1>4, OneAtATime DEF EngineSave, Update, RunnerGoes
<1>5. CASE RunnerLoads
  <2>1. ASSUME hasActiveJob PROVE accepted' = {}
        BY <1>0, <1>5, <2>1
           DEF RunnerLoads, RunnerInv, FileInv, isActive, hasActiveJob
  <2>2. ASSUME ~hasActiveJob PROVE accepted' = {}
        BY <1>0, <1>5, <2>2, OneAtATime DEF RunnerLoads, hasActiveJob
  <2>3. QED BY <2>1, <2>2
<1>6. CASE RunnerWaits \/ Signalled \/ Tick \/ Boot \/ EngineHost
      BY <1>0, <1>6
         DEF RunnerWaits, RunnerGoes, Signalled, Tick, Boot, EngineHost,
             runnerVars
<1>7. CASE setDesiredState
      BY <1>0, <1>7 DEF setDesiredState, Update, Fault, runnerVars
<1>8. ~Crash
      BY <1>0 DEF Crash, Fault
<1>9. QED BY <1>1, <1>2, <1>3, <1>4, <1>5, <1>6, <1>7, <1>8
             DEF Next, Handler, Runner

-----------------------------------------------------------------------------
(***************************************************************************)
(* The bearers made.                                                       *)
(***************************************************************************)
\* Cardinalities of the callers without a ticket.
LEMMA UnspentCounts ==
    /\ Cardinality(Client) \in Nat
    /\ IsFiniteSet(Unspent) /\ Cardinality(Unspent) \in Nat
    /\ Cardinality(Unspent) <= Cardinality(Client)
<1>1. QED BY FS_CardinalityType, FS_Subset DEF Unspent

\* What a step may do to the count: nothing new, a fault, a bearer that a
\* caller gets, or a bearer that a failed save keeps back.
MintStep ==
    \/ /\ minted' = minted /\ faults' = faults
       /\ Unspent' \subseteq Unspent
    \/ minted' = minted /\ Fault
    \/ /\ minted' = minted + 1 /\ faults' = faults
       /\ \E c \in Unspent : Unspent' = Unspent \ {c}
    \/ /\ minted' = minted + 1 /\ Fault
       /\ Unspent' \subseteq Unspent /\ Client # {}

\* Such a step keeps the count below the bearers that the faults allow.
LEMMA MintStepKeeps == MintInv /\ MintStep => MintInv'
<1> SUFFICES ASSUME MintInv, MintStep PROVE MintInv'
    OBVIOUS
<1> DEFINE N == Cardinality(Client)
           U == Cardinality(Unspent)
<1>1. /\ N \in Nat /\ IsFiniteSet(Unspent) /\ U \in Nat /\ U <= N
      /\ minted \in Nat /\ faults \in Nat /\ faults <= MaxFaults
      /\ minted + U <= N * (faults + 1)
      BY UnspentCounts DEF MintInv
<1>2. Cardinality(Unspent)' \in Nat /\ Cardinality(Unspent)' <= N
  <2>1. Unspent' \subseteq Client
        BY DEF Unspent
  <2>2. QED BY <2>1, FS_CardinalityType, FS_Subset
<1>3. Unspent' \subseteq Unspent => Cardinality(Unspent)' <= U
      BY <1>1, FS_Subset
<1>4. N * (faults + 1 + 1) = N * (faults + 1) + N
      BY <1>1
<1>5. N * (faults + 1) \in Nat
      BY <1>1
<1>6. Client # {} => N >= 1
      BY <1>1, FS_EmptySet
<1> DEFINE V == Cardinality(Unspent')
<1>7. V \in Nat /\ V <= N /\ (Unspent' \subseteq Unspent => V <= U)
      BY <1>2, <1>3
<1>8. ASSUME NEW c \in Unspent, Unspent' = Unspent \ {c} PROVE V = U - 1
      BY <1>1, <1>8, FS_RemoveElement
<1> HIDE DEF N, U, V
<1>9. CASE minted' = minted /\ faults' = faults /\ Unspent' \subseteq Unspent
  <2>1. minted' + V <= N * (faults' + 1)
        BY <1>1, <1>5, <1>7, <1>9
  <2>2. QED BY <1>1, <1>9, <2>1 DEF MintInv, N, V
<1>10. CASE minted' = minted /\ Fault
  <2>1. faults' = faults + 1 /\ faults < MaxFaults
        BY <1>10 DEF Fault
  <2>2. minted' + V <= N * (faults + 1) + N
        BY <1>1, <1>5, <1>7, <1>10
  <2>3. QED BY <1>1, <1>4, <1>10, <2>1, <2>2 DEF MintInv, N, V
<1>11. CASE /\ minted' = minted + 1 /\ faults' = faults
            /\ \E c \in Unspent : Unspent' = Unspent \ {c}
  <2>1. V = U - 1
        BY <1>8, <1>11
  <2>2. minted' + V <= N * (faults + 1)
        BY <1>1, <1>5, <1>7, <1>11, <2>1
  <2>3. QED BY <1>1, <1>11, <2>2 DEF MintInv, N, V
<1>12. CASE /\ minted' = minted + 1 /\ Fault
            /\ Unspent' \subseteq Unspent /\ Client # {}
  <2>1. faults' = faults + 1 /\ faults < MaxFaults
        BY <1>12 DEF Fault
  <2>2. N >= 1
        BY <1>6, <1>12 DEF N
  <2>3. minted' + V <= N * (faults + 1) + N
        BY <1>1, <1>5, <1>7, <1>12, <2>2
  <2>4. QED BY <1>1, <1>4, <1>12, <2>1, <2>3 DEF MintInv, N, V
<1>13. QED BY <1>9, <1>10, <1>11, <1>12 DEF MintStep

\* A handler's answer is all that the count sees of it.
LEMMA OneSpends ==
    ASSUME NEW c \in Client, OnlyHandler(c), h[c].answer = "none"
    PROVE  IF h'[c].answer = "ticket" THEN c \in Unspent /\ Unspent' = Unspent \ {c}
                                      ELSE Unspent' = Unspent
<1>1. QED BY DEF OnlyHandler, Unspent

\* A step that gives no ticket and takes none.
LEMMA SameAnswers ==
    ASSUME NEW c \in Client, OnlyHandler(c),
           h'[c].answer = "ticket" <=> h[c].answer = "ticket"
    PROVE  Unspent' = Unspent
<1>1. QED BY DEF OnlyHandler, Unspent

\* A replay mints one bearer, or none when the key has another target.
LEMMA ReplayMints ==
    ASSUME HandlerInv, NEW c \in Client, OnlyHandler(c), h[c].answer = "none",
           NEW s, RotatePersisted(c, s)
    PROVE  MintStep
<1>1. CASE Answer(c, "idempotency_conflict") /\ UNCHANGED <<minted, faults>>
  <2>1. h'[c].answer # "ticket"
        BY <1>1, GoesTo
  <2>2. QED BY <1>1, <2>1, OneSpends DEF MintStep
<1>2. CASE Answer(c, "state_write_failed") /\ minted' = minted + 1 /\ Fault
  <2>1. h'[c].answer # "ticket"
        BY <1>2, GoesTo
  <2>2. QED BY <1>2, <2>1, OneSpends DEF MintStep
<1>3. CASE /\ Grant(c, idem[want[c].key], s)
           /\ minted' = minted + 1 /\ faults' = faults
  <2>1. h'[c].answer = "ticket"
        BY <1>3, GoesTo
  <2>2. QED BY <1>3, <2>1, OneSpends DEF MintStep
<1>4. QED BY <1>1, <1>2, <1>3 DEF RotatePersisted, Update

\* A new job has one bearer.
LEMMA AcceptMints ==
    ASSUME HandlerInv, NEW c \in Client, OnlyHandler(c), h[c].answer = "none",
           Accept(c)
    PROVE  MintStep
<1>1. CASE Answer(c, "state_write_failed") /\ minted' = minted + 1 /\ Fault
  <2>1. h'[c].answer # "ticket"
        BY <1>1, GoesTo
  <2>2. QED BY <1>1, <2>1, OneSpends DEF MintStep
<1>2. ASSUME NEW j \in JobId, Grant(c, j, "wake"),
             minted' = minted + 1, faults' = faults
      PROVE  MintStep
  <2>1. h'[c].answer = "ticket"
        BY <1>2, GoesTo
  <2>2. QED BY <1>2, <2>1, OneSpends DEF MintStep
<1>3. QED BY <1>1, <1>2 DEF Accept, Update

\* Every step counts in one of these ways.
LEMMA StepMints == TInv /\ Next => MintStep
<1> SUFFICES ASSUME TInv, Next PROVE MintStep
    OBVIOUS
<1>0. HandlerInv /\ \A c \in Client : Answered(c)
      BY DEF TInv, HandlerInv, HandlerOK
<1>1. ASSUME NEW c \in Client,
             Send(c) \/ RestartLook(c) \/ Handler(c) \/ Abandon(c)
      PROVE  OnlyHandler(c)
      BY <1>1, FileKept, HandlerStep
<1>2. ASSUME NEW c \in Client, Rotate(c) PROVE MintStep
  <2>1. h[c].answer = "none" /\ OnlyHandler(c)
        BY <1>0, <1>1, <1>2 DEF Rotate, Answered, Handler
  <2>2. CASE RotatePersisted(c, "reply")
        BY <1>0, <2>1, <2>2, ReplayMints
  <2>3. CASE Answer(c, "idempotency_not_found") /\ UNCHANGED <<minted, faults>>
    <3>1. h'[c].answer # "ticket"
          BY <1>0, <2>3, GoesTo
    <3>2. QED BY <2>1, <2>3, <3>1, OneSpends DEF MintStep
  <2>4. QED BY <1>2, <2>2, <2>3 DEF Rotate
<1>3. ASSUME NEW c \in Client, Save(c) PROVE MintStep
  <2>1. h[c].answer = "none" /\ OnlyHandler(c)
        BY <1>0, <1>1, <1>3 DEF Save, Answered, Handler
  <2>2. CASE RotatePersisted(c, "wake")
        BY <1>0, <2>1, <2>2, ReplayMints
  <2>3. CASE Preflight(c) /\ UNCHANGED <<minted, faults>>
    <3>1. h'[c].answer # "ticket"
          BY <1>0, <2>1, <2>3, GoesTo DEF Preflight
    <3>2. QED BY <2>1, <2>3, <3>1, OneSpends DEF MintStep
  <2>4. CASE Accept(c)
        BY <1>0, <2>1, <2>4, AcceptMints
  <2>5. QED BY <1>3, <2>2, <2>3, <2>4 DEF Save
<1>4. ASSUME NEW c \in Client,
             Send(c) \/ Look(c) \/ TakeGate(c)
      PROVE  MintStep
  <2>1. h[c].answer = "none" /\ OnlyHandler(c)
        BY <1>0, <1>1, <1>4 DEF Send, Look, TakeGate, Answered, Handler
  <2>2. h'[c].answer # "ticket"
    <3>1. CASE Send(c) \/ h' = [h EXCEPT ![c].pc = "save", ![c].cur = env]
      <4>1. h[c] \in HandlerRecord
            BY <1>0 DEF HandlerInv
      <4>2. h'[c].answer = h[c].answer
            BY <1>0, <3>1, <4>1 DEF Send, HandlerInv, HandlerRecord
      <4>3. QED BY <2>1, <4>2
    <3>2. CASE Look(c)
          BY <1>0, <2>1, <3>2, GoesTo DEF Look, Preflight
    <3>3. CASE TakeGate(c) /\ ~(h' = [h EXCEPT ![c].pc = "save", ![c].cur = env])
          BY <1>0, <2>1, <3>3, GoesTo DEF TakeGate
    <3>4. QED BY <1>4, <3>1, <3>2, <3>3
  <2>3. UNCHANGED <<minted, faults>>
        BY <1>4 DEF Send, Look, TakeGate
  <2>4. QED BY <2>1, <2>2, <2>3, OneSpends DEF MintStep
<1>5. ASSUME NEW c \in Client,
             Wake(c) \/ RestartLook(c) \/ RestartGate(c) \/ RestartSave(c)
      PROVE  MintStep
  <2>1. OnlyHandler(c) /\ h'[c].answer = h[c].answer
        BY <1>0, <1>1, <1>5, GoesTo
           DEF Handler, Wake, RestartLook, RestartGate, RestartSave, Update
  <2>2. minted' = minted /\ (faults' = faults \/ Fault)
        BY <1>5 DEF Wake, RestartLook, RestartGate, RestartSave, Update
  <2>3. QED BY <2>1, <2>2, SameAnswers DEF MintStep
<1>6. ASSUME NEW c \in Client, Reply(c) PROVE MintStep
  <2>1. minted' = minted /\ (faults' = faults \/ Fault)
        BY <1>6 DEF Reply
  <2>2. CASE faults' = faults /\ ~Fault
    <3>1. \/ h[c].answer \in Transient /\ h' = [h EXCEPT ![c] = Idle]
          \/ Goto(c, "done")
          BY <1>6, <2>2 DEF Reply
    <3>2. h'[c].answer = "ticket" <=> h[c].answer = "ticket"
          BY <1>0, <3>1, GoesTo DEF Transient
    <3>3. OnlyHandler(c)
          BY <1>1, <1>6 DEF Handler
    <3>4. QED BY <2>1, <2>2, <3>2, <3>3, SameAnswers DEF MintStep
  <2>3. QED BY <2>1, <2>2 DEF MintStep
<1>7. ASSUME NEW c \in Client, Abandon(c) PROVE MintStep
      BY <1>7 DEF Abandon, MintStep
<1>8. CASE UNCHANGED <<h, minted>> /\ (faults' = faults \/ Fault)
      BY <1>8 DEF MintStep, Unspent
<1>9. CASE Crash
      BY <1>9 DEF Crash, MintStep
<1>10. CASE \/ RunnerLoads \/ EngineSave \/ RunnerWaits \/ Signalled \/ Tick
            \/ EngineHost \/ setDesiredState \/ Boot
       BY <1>8, <1>10
          DEF RunnerLoads, EngineSave, RunnerWaits, Signalled, Tick,
              EngineHost, setDesiredState, Boot, Update
<1>11. QED BY <1>2, <1>3, <1>4, <1>5, <1>6, <1>7, <1>9, <1>10
              DEF Next, Handler, Runner

-----------------------------------------------------------------------------
(***************************************************************************)
(* The invariant, and the theorems.                                        *)
(***************************************************************************)
\* The configured version is one that exists.
LEMMA EnvKept == TInv /\ Next => env' \in Version
<1> SUFFICES ASSUME TInv, Next PROVE env' \in Version
    OBVIOUS
<1>1. CASE EngineHost
  <2>1. mine \in JobId /\ jobs[mine].status # "absent"
        BY <1>1 DEF EngineHost, TInv, RunnerInv, isActive, ActiveStatus
  <2>2. QED BY <1>1, <2>1 DEF EngineHost, TInv, FileInv
<1>2. CASE env' = env
      BY <1>2 DEF TInv
<1>3. QED
  BY <1>1, <1>2
     DEF Next, Send, RestartLook, Handler, Runner, Abandon, Look, TakeGate,
         Rotate, Save, Wake, Reply, RestartGate, RestartSave, RunnerLoads,
         EngineSave, RunnerWaits, Signalled, Tick, setDesiredState, Crash, Boot

\* No job yet, nobody waiting.
LEMMA InitHolds == Init => TInv
<1> SUFFICES ASSUME Init PROVE TInv
    OBVIOUS
<1>1. FileInv
      BY DEF Init, FileInv, Absent, Job, hasActiveJob, isActive, ActiveStatus,
             NoJob, JobId, Version
<1>2. RunnerInv /\ WakeInv
      BY DEF Init, RunnerInv, WakeInv
<1>3. want \in [Client -> [key : Key, target : Version]]
  <2>1. \A r \in [key : Key, target : 2..MaxVersion] :
            r \in [key : Key, target : Version]
        BY DEF Version
  <2>2. QED BY <2>1 DEF Init
<1>4. HandlerInv
  <2>1. \A c \in Client : h[c] = Idle
        BY DEF Init
  <2>2. Idle \in HandlerRecord
        BY DEF Idle, HandlerRecord, Ticket
  <2>3. h \in [Client -> HandlerRecord]
        BY <2>2 DEF Init
  <2>4. \A c \in Client : HandlerOK(c)
        BY <2>1 DEF Idle, HandlerOK, Answered, TicketValid, Replayed
  <2>5. QED BY <1>3, <2>3, <2>4 DEF HandlerInv
<1>5. GateInv
      BY DEF Init, GateInv, Idle
<1>6. MintInv
      BY UnspentCounts DEF Init, MintInv
<1>7. env \in Version
      BY DEF Init, Version
<1>8. QED BY <1>1, <1>2, <1>4, <1>5, <1>6, <1>7 DEF TInv

\* Every state of a run has the invariant.
LEMMA InvariantHolds == Spec => []TInv
<1>1. TInv /\ [Next]_vars => TInv'
  <2> SUFFICES ASSUME TInv, [Next]_vars PROVE TInv'
      OBVIOUS
  <2>1. CASE Next
        BY <2>1, FileKept, HandlersKept, GateKept, RunnerKept, WakeKept,
           StepMints, MintStepKeeps, EnvKept
           DEF TInv
  <2>2. CASE UNCHANGED vars
    <3> USE <2>2 DEF vars, fileVars, runnerVars, TInv
    <3>1. FileInv' /\ RunnerInv' /\ GateInv'
          BY DEF FileInv, RunnerInv, GateInv, hasActiveJob, isActive
    <3>2. HandlerInv'
          BY DEF HandlerInv, HandlerOK, Answered, TicketValid, Replayed, Bound
    <3>3. WakeInv' /\ MintInv'
          BY DEF WakeInv, MintInv, Unspent
    <3>4. QED BY <3>1, <3>2, <3>3
  <2>3. QED BY <2>1, <2>2
<1>2. QED BY InitHolds, <1>1, PTL DEF Spec

\* A bearer stays within the bearers there are, whatever was lost.
LEMMA MintedTyped == TInv => minted \in 0..Cardinality(Bearer)
<1> SUFFICES ASSUME TInv PROVE minted \in 0..Cardinality(Bearer)
    OBVIOUS
<1> DEFINE N == Cardinality(Client)
<1>1. /\ N \in Nat /\ Cardinality(Unspent) \in Nat
      /\ minted \in Nat /\ faults \in 0..MaxFaults
      /\ minted + Cardinality(Unspent) <= N * (faults + 1)
      BY UnspentCounts DEF TInv, MintInv
<1> DEFINE K == N * (MaxFaults + 1)
<1>2. Bearer = 1..K
      BY DEF Bearer
<1> HIDE DEF N
<1>3. N * (faults + 1) <= K /\ K \in Nat /\ N * (faults + 1) \in Nat
      BY <1>1
<1> HIDE DEF K
<1>4. Cardinality(1..K) = K
      BY <1>3, FS_Interval
<1>5. minted <= K
      BY <1>1, <1>3
<1>6. QED BY <1>1, <1>2, <1>3, <1>4, <1>5

\* A key never has two jobs and its job stays its own, over concurrent
\* duplicates, failed saves, lost answers and crashes (createJob).
THEOREM KeysKeepTheirJob == Spec => []OneJobPerKey
<1>1. TInv => OneJobPerKey
  <2> SUFFICES ASSUME TInv PROVE OneJobPerKey
      OBVIOUS
  <2>1. TypeOK
    <3>1. \A c \in Client : h[c].ticket \in Ticket /\ h[c].cur \in 0..MaxVersion
          BY DEF TInv, HandlerInv, HandlerRecord
    <3>2. faults \in 0..MaxFaults /\ minted \in 0..Cardinality(Bearer)
          BY MintedTyped DEF TInv, MintInv
    <3>3. QED BY <3>1, <3>2
                 DEF TInv, FileInv, RunnerInv, HandlerInv, GateInv, TypeOK,
                     Job, hasActiveJob
  <2>2. QED BY <2>1 DEF TInv, FileInv, OneJobPerKey
<1>2. QED BY InvariantHolds, <1>1, PTL

\* A bearer that a caller was given opens its job ever after (rotate and replay
\* append, the engine's saves change the job inside the update).
THEOREM BearersStayValid == Spec => []TicketsStayValid
<1>1. TInv => TicketsStayValid
      BY DEF TInv, HandlerInv, HandlerOK, TicketValid, TicketsStayValid,
             jobTokenAllowed
<1>2. QED BY InvariantHolds, <1>1, PTL

\* A request for a key that was bound to its target is replayed, never refused
\* (createJob looks at the key before anything else).
THEOREM KnownKeysAreReplayed == Spec => []KnownKeyIsReplayed
<1>1. TInv => KnownKeyIsReplayed
      BY DEF TInv, HandlerInv, HandlerOK, Answered, Replayed, KnownKeyIsReplayed
<1>2. QED BY InvariantHolds, <1>1, PTL

\* The wake-up of an accepted job is never lost (wakeJobRunner, RunJobs).
THEOREM NoWakeUpIsLost == Spec => []WakeUpWaits
<1>1. TInv => WakeUpWaits
      BY DEF TInv, WakeInv, WakeUpWaits
<1>2. QED BY InvariantHolds, <1>1, PTL
=============================================================================
