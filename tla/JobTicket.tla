------------------------------ MODULE JobTicket ------------------------------
(***************************************************************************)
(* How a caller gets an upgrade job and keeps access to it: createJob with *)
(* its idempotency key, replayJobTicket, startJobOperation, the bearers a  *)
(* job accepts, and the signal that wakes the job runner.                  *)
(*                                                                         *)
(* A handler reads a snapshot, takes the host gate, reads the configured   *)
(* version and saves, one step each; other handlers, the engine, failed    *)
(* saves, lost responses and crashes come between.  The state file is the  *)
(* register of StateFile.  A bearer is a number and stands for its hash.   *)
(* The engine appears as JobEngine shows it to the routes: the statuses it *)
(* saves, and the image it configures while a job runs.                    *)
(***************************************************************************)
EXTENDS Naturals, FiniteSets

CONSTANTS
    Client, Key,    \* callers, and idempotency keys
    MaxJob,         \* jobs that may be created
    MaxVersion,
    Requests,       \* keys and targets the callers may have
    MaxFaults       \* failed saves, lost responses and crashes

ASSUME JobTicketBounds ==
    /\ IsFiniteSet(Client)
    /\ MaxJob \in Nat /\ MaxVersion \in Nat \ {0} /\ MaxFaults \in Nat
    /\ Requests \subseteq [Client -> [key : Key, target : 2..MaxVersion]]

JobId == 1..MaxJob
NoJob == 0
Version == 1..MaxVersion
Bearer == 1..(Cardinality(Client) * (MaxFaults + 1))

VARIABLES
    jobs, idem, desired,    \* the state file
    env,                    \* configured version
    want,                   \* key and target of each caller
    h,                      \* each caller and the handler that serves it
    gate,                   \* the caller whose handler holds the host gate
    minted,                 \* bearers made so far
    runner, mine, signal,   \* RunJobs, its job, and jobSignal
    accepted,               \* jobs accepted since the runner last loaded them
    faults

fileVars   == <<jobs, idem, desired>>
runnerVars == <<runner, mine, signal, accepted>>
vars == <<fileVars, env, want, h, gate, minted, runnerVars, faults>>

Nobody == "nobody"
ASSUME NobodyIsNoClient == Nobody \notin Client

NoTicket == [job |-> NoJob, bearer |-> 0]
Ticket == [job : JobId, bearer : Bearer] \union {NoTicket}

Idle == [pc |-> "idle", knew |-> FALSE, cur |-> 0, answer |-> "none",
         ticket |-> NoTicket]
Absent == [status |-> "absent", key |-> Nobody, cur |-> 0, target |-> 0,
           bearers |-> {}]
ActiveStatus == {"queued", "running", "restarting"}

TypeOK ==
    /\ jobs \in [JobId -> [status : ActiveStatus \union
                              {"absent", "succeeded", "failed", "broken"},
                           key : Key \union {Nobody}, cur : 0..MaxVersion,
                           target : 0..MaxVersion, bearers : SUBSET Bearer]]
    /\ idem \in [Key -> JobId \union {NoJob}]
    /\ desired \in {"running", "upgrading", "maintenance"}
    /\ desired = "upgrading" <=> \E j \in JobId : jobs[j].status \in ActiveStatus
    /\ env \in Version
    /\ want \in [Client -> [key : Key, target : Version]]
    /\ \A c \in Client : h[c].ticket \in Ticket /\ h[c].cur \in 0..MaxVersion
    /\ gate \in Client \union {Nobody}
    /\ \A c \in Client : h[c].pc \in {"save", "restart_save"} => gate = c
    /\ minted \in 0..Cardinality(Bearer)
    /\ runner \in {"run", "work", "returned", "wait", "down"}
    /\ mine \in JobId \union {NoJob}
    /\ signal \in BOOLEAN /\ accepted \subseteq JobId
    /\ faults \in 0..MaxFaults

Init ==
    /\ jobs = [j \in JobId |-> Absent]
    /\ idem = [k \in Key |-> NoJob]
    /\ desired = "running"
    /\ env = 1
    /\ want \in Requests
    /\ h = [c \in Client |-> Idle]
    /\ gate = Nobody
    /\ minted = 0
    /\ runner = "run" /\ mine = NoJob /\ signal = FALSE /\ accepted = {}
    /\ faults = 0

-----------------------------------------------------------------------------
hasActiveJob == \E j \in JobId : jobs[j].status \in ActiveStatus

Fault == faults < MaxFaults /\ faults' = faults + 1

\* StateStore.Update: saved, or an error that leaves either state.
Update(js, ids, wish, Ok, Err) ==
    \/ jobs' = js /\ idem' = ids /\ desired' = wish /\ Ok /\ UNCHANGED faults
    \/ /\ Fault
       /\ \/ UNCHANGED fileVars
          \/ jobs' = js /\ idem' = ids /\ desired' = wish
       /\ Err

Goto(c, s) == h' = [h EXCEPT ![c].pc = s]
Answer(c, a) == h' = [h EXCEPT ![c].pc = "reply", ![c].answer = a]
Grant(c, j, s) ==
    h' = [h EXCEPT ![c].pc = s, ![c].answer = "ticket",
                   ![c].ticket = [job |-> j, bearer |-> minted + 1]]

\* The deferred release of the host gate.  Mutant: only after a success.
ReleaseOnSuccess(c) ==
    gate' = IF gate = c /\ h'[c].answer = "ticket" THEN Nobody ELSE gate
Release(c) == gate' = IF gate = c THEN Nobody ELSE gate

-----------------------------------------------------------------------------
(***************************************************************************)
(* createJob and replayJobTicket                                           *)
(***************************************************************************)
Bound(c) == /\ idem[want[c].key] # NoJob
            /\ jobs[idem[want[c].key]].target = want[c].target

Send(c) ==
    /\ runner # "down"
    /\ h[c].pc = "idle"
    /\ \E s \in {"look", "rotate"} :
            h' = [h EXCEPT ![c].pc = s, ![c].knew = Bound(c)]
    /\ UNCHANGED <<fileVars, env, want, gate, minted, runnerVars, faults>>

Preflight(c) ==
    CASE hasActiveJob -> Answer(c, "operation_in_progress")
      [] ~hasActiveJob /\ desired # "running" ->
            Answer(c, "desired_state_not_running")
      [] OTHER -> Goto(c, "gate")

\* The snapshot: a known key goes to the replay, before any other check.
LookAfterPreflight(c) ==                    \* mutant: the preflight first
    /\ h[c].pc = "look"
    /\ IF idem[want[c].key] # NoJob /\ ~hasActiveJob /\ desired = "running"
       THEN Goto(c, "rotate") ELSE Preflight(c)
    /\ UNCHANGED <<fileVars, env, want, gate, minted, runnerVars, faults>>
Look(c) ==
    /\ h[c].pc = "look"
    /\ IF idem[want[c].key] # NoJob THEN Goto(c, "rotate") ELSE Preflight(c)
    /\ UNCHANGED <<fileVars, env, want, gate, minted, runnerVars, faults>>

\* BeginMutation; CurrentVersion may fail.
TakeGate(c) ==
    /\ h[c].pc = "gate"
    /\ gate = Nobody
    /\ \/ /\ env < want[c].target
          /\ gate' = c
          /\ h' = [h EXCEPT ![c].pc = "save", ![c].cur = env]
       \/ /\ ~(env < want[c].target)
          /\ UNCHANGED gate
          /\ Answer(c, "target_not_newer")
       \/ UNCHANGED gate /\ Answer(c, "runtime_status_unavailable")
    /\ UNCHANGED <<fileVars, env, want, minted, runnerVars, faults>>

\* rotatePersistedJobTicket, inside Update.
rotated(j) == [jobs EXCEPT ![j].bearers = @ \union {minted + 1}]

RotatePersisted(c, then) ==
    LET j == idem[want[c].key]
    IN  IF jobs[j].target # want[c].target
        THEN Answer(c, "idempotency_conflict")
                /\ UNCHANGED <<fileVars, minted, faults>>
        ELSE /\ Update(rotated(j), idem, desired, Grant(c, j, then),
                       Answer(c, "state_write_failed"))
             /\ minted' = minted + 1

Rotate(c) ==
    /\ h[c].pc = "rotate"
    /\ IF idem[want[c].key] = NoJob
       THEN Answer(c, "idempotency_not_found")
                /\ UNCHANGED <<fileVars, minted, faults>>
       ELSE RotatePersisted(c, "reply")
    /\ UNCHANGED <<env, want, gate, runnerVars>>

newJob(c) == [status |-> "queued", key |-> want[c].key, cur |-> h[c].cur,
              target |-> want[c].target, bearers |-> {minted + 1}]

AcceptedIf(j, s) ==
    accepted' = IF jobs'[j].status = s THEN accepted \union {j} ELSE accepted

Accept(c) ==
    \E j \in JobId :
        /\ jobs[j].status = "absent"
        /\ \A i \in JobId : i < j => jobs[i].status # "absent"
        /\ Update([jobs EXCEPT ![j] = newJob(c)],
                  [idem EXCEPT ![want[c].key] = j], "upgrading",
                  Grant(c, j, "wake"), Answer(c, "state_write_failed"))
        /\ minted' = minted + 1
        /\ AcceptedIf(j, "queued")

\* The snapshot may be old: everything is checked again inside the update.
SaveUnchecked(c) ==                 \* mutant: the key is not looked up again
    /\ h[c].pc = "save" /\ ~hasActiveJob /\ desired = "running" /\ Accept(c)
    /\ Release(c)
    /\ UNCHANGED <<env, want, runner, mine, signal>>
Save(c) ==
    /\ h[c].pc = "save"
    /\ \/ /\ idem[want[c].key] # NoJob
          /\ RotatePersisted(c, "wake")
          /\ UNCHANGED accepted
       \/ /\ idem[want[c].key] = NoJob
          /\ hasActiveJob \/ desired # "running"
          /\ Preflight(c)
          /\ UNCHANGED <<fileVars, minted, accepted, faults>>
       \/ /\ idem[want[c].key] = NoJob
          /\ ~hasActiveJob /\ desired = "running"
          /\ Accept(c)
    /\ Release(c)
    /\ UNCHANGED <<env, want, runner, mine, signal>>

\* wakeJobRunner: a full jobSignal already holds the wake-up.
WakeIfWaiting(c) ==                 \* mutant: jobSignal without its buffer
    /\ h[c].pc = "wake" /\ Goto(c, "reply")
    /\ signal' = (signal \/ runner = "wait")
    /\ UNCHANGED <<fileVars, env, want, gate, minted, runner, mine, accepted,
                   faults>>
Wake(c) ==
    /\ h[c].pc = "wake"
    /\ Goto(c, "reply")
    /\ signal' = TRUE
    /\ UNCHANGED <<fileVars, env, want, gate, minted, runner, mine, accepted,
                   faults>>

\* The caller gets the answer and retries what may succeed later, or its
\* connection is gone.
Transient == {"state_write_failed", "runtime_status_unavailable",
              "idempotency_not_found"}

Reply(c) ==
    /\ h[c].pc = "reply"
    /\ \/ /\ IF h[c].answer \in Transient
             THEN h' = [h EXCEPT ![c] = Idle]
             ELSE Goto(c, "done")
          /\ UNCHANGED faults
       \/ Fault /\ h' = [h EXCEPT ![c] = Idle]
    /\ UNCHANGED <<fileVars, env, want, gate, minted, runnerVars>>

\* The request context ends before a step that looks at it.
Abandon(c) ==
    /\ h[c].pc \in {"look", "gate", "save", "rotate"}
    /\ Fault
    /\ h' = [h EXCEPT ![c] = Idle]
    /\ Release(c)
    /\ UNCHANGED <<fileVars, env, want, minted, runnerVars>>

-----------------------------------------------------------------------------
(***************************************************************************)
(* startJobOperation("restart"), by a caller that holds a ticket           *)
(***************************************************************************)
jobTokenAllowed(ticket) == ticket.bearer \in jobs[ticket.job].bearers

Allowed(c) == /\ jobs[h[c].ticket.job].status = "broken"
              /\ jobTokenAllowed(h[c].ticket)

RestartLook(c) ==
    /\ runner # "down"
    /\ h[c].pc = "done" /\ h[c].answer = "ticket"
    /\ Allowed(c)
    /\ Goto(c, "restart_gate")
    /\ UNCHANGED <<fileVars, env, want, gate, minted, runnerVars, faults>>

RestartGate(c) ==
    /\ h[c].pc = "restart_gate"
    /\ gate = Nobody
    /\ gate' = c
    /\ Goto(c, "restart_save")
    /\ UNCHANGED <<fileVars, env, want, minted, runnerVars, faults>>

RestartSave(c) ==
    /\ h[c].pc = "restart_save"
    /\ LET j == h[c].ticket.job
       IN  \/ /\ Allowed(c) /\ ~hasActiveJob
              /\ Update([jobs EXCEPT ![j].status = "restarting"], idem,
                        "upgrading", Goto(c, "wake"), Goto(c, "done"))
              /\ AcceptedIf(j, "restarting")
           \/ /\ ~(Allowed(c) /\ ~hasActiveJob)
              /\ Goto(c, "done")
              /\ UNCHANGED <<fileVars, accepted, faults>>
    /\ Release(c)
    /\ UNCHANGED <<env, want, minted, runner, mine, signal>>

setDesiredState ==
    /\ runner # "down" /\ gate = Nobody /\ ~hasActiveJob
    /\ \E wish \in {"running", "maintenance"} :
            Update(jobs, idem, wish, TRUE, TRUE)
    /\ UNCHANGED <<env, want, h, gate, minted, runnerVars>>

-----------------------------------------------------------------------------
(***************************************************************************)
(* RunJobs: RunActive, then wait for jobSignal or the ticker.              *)
(***************************************************************************)
RunnerLoads ==
    /\ runner = "run"
    /\ \/ /\ \E j \in JobId : /\ jobs[j].status \in ActiveStatus
                               /\ mine' = j
                               /\ accepted' = accepted \ {j}
          /\ runner' = "work"
       \/ ~hasActiveJob /\ runner' = "returned" /\ UNCHANGED <<mine, accepted>>
    /\ UNCHANGED <<fileVars, env, want, h, gate, minted, signal, faults>>

EngineHost ==
    /\ runner = "work" /\ jobs[mine].status = "running"
    /\ env' \in {jobs[mine].cur, jobs[mine].target}
    /\ UNCHANGED <<fileVars, want, h, gate, minted, runnerVars, faults>>

\* The next status of a job and the desired state saved with it.  broken: it
\* failed and the service is down.
Outcomes(j) ==
    CASE jobs[j].status = "queued" -> {<<"running", "upgrading">>}
      [] jobs[j].status = "running" ->
            {<<"failed", "running">>, <<"broken", "running">>,
             <<"broken", "maintenance">>}
                \union (IF env = jobs[j].target
                        THEN {<<"succeeded", "running">>} ELSE {})
      [] OTHER -> {<<"restarting", "upgrading">>, <<"failed", "running">>,
                   <<"broken", "maintenance">>}

\* JobEngine.updateJob changes the job inside the update, never a copy of it.
savedFromCopy(j, s) ==              \* mutant: the copy loaded at the start
    [jobs EXCEPT ![j].status = s,
                 ![j].bearers = {CHOOSE b \in @ : \A d \in @ : b <= d}]
saved(j, s) == [jobs EXCEPT ![j].status = s]

RunnerGoes(s) == runner' = s /\ mine' = (IF s = "work" THEN mine ELSE NoJob)
                   /\ UNCHANGED <<signal, accepted>>

EngineSave ==
    /\ runner = "work"
    /\ \E o \in Outcomes(mine) :
            Update(saved(mine, o[1]), idem, o[2],
                   RunnerGoes(IF o[1] = "running" THEN "work" ELSE "returned"),
                   RunnerGoes("returned"))
    /\ UNCHANGED <<env, want, h, gate, minted>>

\* RunActive has returned; only now does the runner look at its channels.
RunnerWaits ==
    /\ runner = "returned"
    /\ RunnerGoes("wait")
    /\ UNCHANGED <<fileVars, env, want, h, gate, minted, faults>>

Signalled ==
    /\ runner = "wait" /\ signal
    /\ runner' = "run" /\ signal' = FALSE
    /\ UNCHANGED <<fileVars, env, want, h, gate, minted, mine, accepted, faults>>

Tick ==
    /\ runner = "wait"
    /\ runner' = "run"
    /\ UNCHANGED <<fileVars, env, want, h, gate, minted, mine, signal, accepted,
                   faults>>

Crash ==
    /\ runner # "down"
    /\ Fault
    /\ runner' = "down" /\ mine' = NoJob /\ signal' = FALSE
    /\ h' = [c \in Client |->
                IF h[c].pc = "done" THEN h[c]
                ELSE IF h[c].pc \in {"restart_gate", "restart_save"}
                THEN [h[c] EXCEPT !.pc = "done"]
                ELSE Idle]
    /\ gate' = Nobody
    /\ UNCHANGED <<fileVars, env, want, minted, accepted>>

Boot ==
    /\ runner = "down"
    /\ runner' = "run"
    /\ UNCHANGED <<fileVars, env, want, h, gate, minted, mine, signal, accepted,
                   faults>>

Handler(c) ==
    \/ Look(c) \/ TakeGate(c) \/ Rotate(c) \/ Save(c) \/ Wake(c) \/ Reply(c)
    \/ RestartGate(c) \/ RestartSave(c)

Runner == RunnerLoads \/ EngineSave \/ RunnerWaits \/ Signalled

Next ==
    \/ \E c \in Client : Send(c) \/ RestartLook(c) \/ Handler(c) \/ Abandon(c)
    \/ Runner \/ Tick \/ EngineHost \/ setDesiredState \/ Crash \/ Boot

(***************************************************************************)
(* Handlers and the runner are never blocked for ever, and callers retry;  *)
(* sync.Mutex hands the gate to its longest waiter; the ticker fires, and  *)
(* systemd starts the process again.                                       *)
(***************************************************************************)
Spec == Init /\ [][Next]_vars

FairSpec ==
    /\ Spec
    /\ \A c \in Client : /\ WF_vars(Send(c) \/ Handler(c))
                         /\ SF_vars(TakeGate(c) \/ RestartGate(c))
    /\ WF_vars(Runner \/ Tick \/ Boot)

-----------------------------------------------------------------------------
(***************************************************************************)
(* Properties                                                              *)
(***************************************************************************)
\* A key never has two jobs, and the job of a key stays the one it was given,
\* over concurrent duplicates, failed saves and retries after any answer.
OneJobPerKey ==
    /\ TypeOK
    /\ \A j \in JobId : jobs[j].status # "absent" => idem[jobs[j].key] = j

\* A bearer that was returned is accepted by its job ever after: replays and
\* the engine's saves of the same job lose none.  The job is the caller's.
TicketsStayValid ==
    \A c \in Client :
        h[c].answer = "ticket" =>
            LET j == h[c].ticket.job
            IN  /\ jobTokenAllowed(h[c].ticket)
                /\ jobs[j].key = want[c].key
                /\ jobs[j].target = want[c].target

\* A request whose key was bound to its target when it arrived is not refused:
\* not for the job being active, nor for the host running the target by now.
KnownKeyIsReplayed ==
    \A c \in Client :
        h[c].pc = "reply" /\ h[c].knew =>
            h[c].answer \in {"ticket", "state_write_failed"}

\* A caller that retries after lost answers, failed saves and crashes is
\* answered for good once its job exists.
RetriesEnd ==
    \A c \in Client : Bound(c) /\ h[c].pc # "done" ~> h[c].pc = "done"

\* The runner needs no ticker for an accepted job, unless something failed: when
\* it waits, the job's wake-up waits as well, or is about to be sent.  It is not
\* lost between the runner's load and its wait, nor by an earlier one.
WakeUpWaits ==
    faults = 0 /\ accepted # {} /\ runner = "wait" =>
        signal \/ \E c \in Client : h[c].pc = "wake"
===============================================================================
