------------------------------ MODULE JobEngine ------------------------------
(***************************************************************************)
(* The upgrade transaction: JobEngine running a direct job over the Compose*)
(* host, with the durable job record it checkpoints into and the single    *)
(* backup slot it rolls back to.                                           *)
(*                                                                         *)
(* One action is one externally visible effect: a save of the state file, a*)
(* host command, or a health window.  Between any two of them the process  *)
(* may stop (Crash) and start again (Boot); the state file, the host and   *)
(* the backup directory survive, everything else is lost.                  *)
(*                                                                         *)
(* A host command may fail, and where it can fail half-way it may leave    *)
(* either result.  A save may fail before its rename (nothing written) or  *)
(* after it (written, and still reported as an error).  MaxFaults bounds   *)
(* crashes and failed saves together; failing host commands are unbounded. *)
(***************************************************************************)
EXTENDS UpdaterState

CONSTANT MaxFaults
ASSUME MaxFaultsAssumption == MaxFaults \in Nat

VARIABLES
    jobs, desired,      \* the state file
    env,                \* version in MESSAGE_SERVER_IMAGE of the env file
    running,            \* version the container runs, 0 when it is stopped
    data,               \* contents of PostgreSQL, config, data and p2p
    slot, retiring,     \* backup/current and backup/.retiring
    pc, mine,           \* where RunActive is, and the job it works on
    code, avail,        \* error code and availability of a pending failure
    dumped, dumpOK,     \* contents of the staging directory, and backupErr
    request,            \* createJob handlers between their reads and saves
    faults              \* crashes and failed saves so far

fileVars   == <<jobs, desired>>
hostVars   == <<env, running, data>>
backupVars == <<slot, retiring>>
engineVars == <<pc, mine, code, avail, dumped, dumpOK>>
vars == <<fileVars, hostVars, backupVars, engineVars, request, faults>>

\* waiting: some createJob passed its preflight.  cur # 0: one holds the host
\* gate, has read this version, and is about to save a job.
NoRequest == [waiting |-> FALSE, target |-> 0, cur |-> 0]

EngineSteps == {
    "queued", "prepare_validating", "source_ready", "prepare_backing_up",
    "begin_stop", "dump", "source_restored", "commit", "checkpoint",
    "activate_pulling", "pull", "activate_stopping", "write_image",
    "activate_migrating", "recreate", "activate_starting", "checking",
    "check_target", "succeed", "fail_before_mutation", "begin_rollback",
    "count_restore", "restore_image", "restore_stop", "wipe", "restore_data",
    "restore_up", "restored", "check_restored", "roll_back",
    "recovery_failed", "count_restart", "restart_up", "restart_check",
    "restart_done", "restart_failed" }

TypeOK ==
    /\ jobs \in [JobId -> Job]
    /\ desired \in DesiredState
    /\ env \in Version
    /\ running \in Version \union {0}
    /\ data \in Data
    /\ slot \in RecoveryPoint \union {NoPoint}
    /\ retiring \in RecoveryPoint \union {NoPoint}
    /\ pc \in EngineSteps \union {"idle", "down"}
    /\ mine \in JobId \union {NoJob}
    /\ code \in ErrorCode
    /\ avail \in BOOLEAN
    /\ dumped \in Data
    /\ dumpOK \in BOOLEAN
    /\ request \in [waiting : BOOLEAN, target : Version \union {0},
                    cur : Version \union {0}]
    /\ faults \in Nat

Init ==
    /\ jobs = [j \in JobId |-> NoSuchJob]
    /\ desired = "running"
    /\ env \in Version
    /\ running = env
    /\ data = env
    /\ slot = NoPoint
    /\ retiring = NoPoint
    /\ pc = "idle"
    /\ mine = NoJob
    /\ code = ""
    /\ avail = TRUE
    /\ dumped = Mixed
    /\ dumpOK = TRUE
    /\ request = NoRequest
    /\ faults = 0

-----------------------------------------------------------------------------
(***************************************************************************)
(* Control flow of the engine goroutine.                                   *)
(***************************************************************************)
At(s) == pc = s
Goto(s) == pc' = s /\ UNCHANGED <<mine, code, avail, dumped, dumpOK>>

\* RunActive returns: every local is gone until the next tick.
Return ==
    /\ pc' = "idle"
    /\ mine' = NoJob
    /\ code' = ""
    /\ avail' = TRUE
    /\ dumped' = Mixed
    /\ dumpOK' = TRUE

\* finishBeforeMutationFailure is next, with this code and availability.
FailBefore(c, a) ==
    /\ pc' = "fail_before_mutation"
    /\ code' = c
    /\ avail' = a
    /\ UNCHANGED <<mine, dumped, dumpOK>>

\* beginAndRunRollback is next, with this code.
Rollback(c) ==
    /\ pc' = "begin_rollback"
    /\ code' = c
    /\ UNCHANGED <<mine, avail, dumped, dumpOK>>

(***************************************************************************)
(* StateStore.Update: load, mutate, validate, replace the file atomically. *)
(* A state that does not validate is never written.                        *)
(***************************************************************************)
Update(js, want, Ok, Err) ==
    IF normalizeAndValidate(js, want)
    THEN \/ jobs' = js /\ desired' = want /\ Ok /\ UNCHANGED faults
         \/ /\ faults < MaxFaults
            /\ faults' = faults + 1
            /\ \/ UNCHANGED fileVars
               \/ jobs' = js /\ desired' = want
            /\ Err
    ELSE UNCHANGED <<fileVars, faults>> /\ Err

updateJob(job, Ok, Err) ==
    Update([jobs EXCEPT ![mine] = job], desired, Ok, Err)

(***************************************************************************)
(* The progress callback: a phase is never persisted backwards, so that a  *)
(* resumed activation does not report earlier phases again.                *)
(***************************************************************************)
availableIn(phase, before) ==
    CASE phase \in {"backing_up", "stopping", "migrating", "starting"} -> FALSE
      [] phase = "pulling" -> TRUE
      [] OTHER -> before

progressedBackwards(job, next) ==           \* mutant: no rank guard
    [job EXCEPT !.status = next, !.step = "phase",
                !.svc = availableIn(next, job.svc)]

progressed(job, next) ==
    IF job.status \in UpgradePhases
         /\ upgradePhaseRank(job.status) > upgradePhaseRank(next)
    THEN job
    ELSE [job EXCEPT !.status = next, !.step = "phase",
                     !.svc = availableIn(next, job.svc)]

progress(next, Ok, Err) == updateJob(progressed(jobs[mine], next), Ok, Err)

(***************************************************************************)
(* A health window: three consecutive probes that see the container run the*)
(* expected version.  A server migrates its stores before it reports       *)
(* itself healthy; contents it did not write (Mixed, or a newer schema) are*)
(* not what the probe compares.                                            *)
(***************************************************************************)
NeedsMigration(v) == data \in Version /\ data < v
HealthyUnprobed(v) == running = v           \* mutant: image only, no probe
Healthy(v) == running = v /\ ~NeedsMigration(v)

\* What `docker compose up -d` may leave when it fails.
UpFails == running' \in {running, 0, env}

-----------------------------------------------------------------------------
(***************************************************************************)
(* RunActive: the ticker or a signal finds the one active job.             *)
(***************************************************************************)
Resume(job) ==
    CASE job.status = "queued" -> "queued"
      [] job.status \in {"validating", "backing_up"} -> "prepare_validating"
      [] job.status \in {"pulling", "stopping", "migrating", "starting"} ->
            "activate_pulling"
      [] job.status = "health_check" -> "check_target"
      [] job.status = "rolling_back" /\ job.step = "restore_backup" ->
            "count_restore"
      [] job.status = "rolling_back" /\ job.step # "restore_backup" ->
            "check_restored"
      [] OTHER -> "count_restart"

RunActive ==
    /\ At("idle")
    /\ \E j \in JobId :
        /\ active(jobs[j])
        /\ mine' = j
        /\ pc' = Resume(jobs[j])
    /\ UNCHANGED <<code, avail, dumped, dumpOK,
                   fileVars, hostVars, backupVars, request, faults>>

StartQueued ==
    /\ At("queued")
    /\ updateJob([jobs[mine] EXCEPT !.status = "validating", !.step = "phase"],
                 Goto("prepare_validating"), Return)
    /\ UNCHANGED <<hostVars, backupVars, request>>

-----------------------------------------------------------------------------
(***************************************************************************)
(* PrepareDirectBackup                                                     *)
(***************************************************************************)
BackupFails(a) == FailBefore("backup_failed", a)

PrepareValidating ==
    /\ At("prepare_validating")
    /\ progress("validating", Goto("source_ready"), BackupFails(TRUE))
    /\ UNCHANGED <<hostVars, backupVars, request>>

(***************************************************************************)
(* ensureDirectSourceReady: the configured version must be the job's, and  *)
(* after `up -d` the source must pass a health window.                     *)
(***************************************************************************)
ensureDirectSourceReady(Ok, ErrAvailable, ErrUnavailable) ==
    \/ /\ ErrAvailable                 \* unreadable env file or image digest
       /\ UNCHANGED running
    \/ /\ env = jobs[mine].cur
       /\ \/ UpFails /\ ErrUnavailable
          \/ running' = env /\ (ErrUnavailable \/ ErrAvailable)
          \/ running' = env /\ ~NeedsMigration(env) /\ Ok

SourceReady ==
    /\ At("source_ready")
    /\ ensureDirectSourceReady(Goto("prepare_backing_up"),
                               BackupFails(TRUE), BackupFails(FALSE))
    /\ UNCHANGED <<fileVars, env, data, backupVars, request, faults>>

PrepareBackingUp ==
    /\ At("prepare_backing_up")
    /\ progress("backing_up", Goto("begin_stop"), BackupFails(TRUE))
    /\ UNCHANGED <<hostVars, backupVars, request>>

\* Begin a staging directory, then stop the source server.
BeginAndStop ==
    /\ At("begin_stop")
    /\ \/ BackupFails(TRUE) /\ UNCHANGED running
       \/ BackupFails(FALSE) /\ running' \in {running, 0}
       \/ Goto("dump") /\ running' = 0
    /\ UNCHANGED <<fileVars, env, data, backupVars, request, faults>>

\* The archives and the PostgreSQL dump; a failure is remembered, not returned.
Dump ==
    /\ At("dump")
    /\ pc' = "source_restored"
    /\ dumped' = data
    /\ dumpOK' \in BOOLEAN
    /\ UNCHANGED <<mine, code, avail, fileVars, hostVars, backupVars, request,
                   faults>>

\* The source server is started again whether the dump succeeded or not.
SourceRestored ==
    /\ At("source_restored")
    /\ ensureDirectSourceReady(
            IF dumpOK THEN Goto("commit") ELSE BackupFails(TRUE),
            BackupFails(FALSE), BackupFails(FALSE))
    /\ UNCHANGED <<fileVars, env, data, backupVars, request, faults>>

(***************************************************************************)
(* WriteBackupMetadata and BackupStore.Commit.  Commit returns nil only    *)
(* when current is the new backup; an error may leave the old one, the new *)
(* one, or (rotation interrupted and its recovery failed too) the old one  *)
(* under .retiring, where every later Commit refuses until a start-up.     *)
(***************************************************************************)
\* Mutant: the error of Commit is not looked at.
CommitErrorIgnored ==
    /\ At("commit")
    /\ Goto("checkpoint")
    /\ \/ UNCHANGED backupVars
       \/ /\ slot' = [job |-> mine, ver |-> jobs[mine].cur, data |-> dumped]
          /\ UNCHANGED retiring
    /\ UNCHANGED <<fileVars, hostVars, request, faults>>

Commit ==
    /\ At("commit")
    /\ LET new == [job |-> mine, ver |-> jobs[mine].cur, data |-> dumped]
       IN  \/ /\ retiring = NoPoint
              /\ slot' = new
              /\ UNCHANGED retiring
              /\ Goto("checkpoint")
           \/ /\ BackupFails(TRUE)
              /\ \/ UNCHANGED backupVars
                 \/ retiring = NoPoint /\ slot' = new
                        /\ retiring' \in {slot, NoPoint}
                 \/ retiring = NoPoint /\ slot' = NoPoint /\ retiring' = slot
    /\ UNCHANGED <<fileVars, hostVars, request, faults>>

(***************************************************************************)
(* The recovery point becomes the job's, and no other job keeps one: the   *)
(* slot they refer to has just been replaced.                              *)
(***************************************************************************)
withRecoveryPoint(js, m, point) ==
    [j \in JobId |->
        IF j = m
        THEN [js[j] EXCEPT !.rp = point, !.status = "pulling",
                           !.step = "phase", !.svc = TRUE]
        ELSE IF ~active(js[j]) THEN [js[j] EXCEPT !.rp = NoPoint]
        ELSE js[j]]

Checkpoint ==
    /\ At("checkpoint")
    /\ LET point == [job |-> mine, ver |-> jobs[mine].cur, data |-> dumped]
       IN  Update(withRecoveryPoint(jobs, mine, point), desired,
                  Goto("activate_pulling"), Return)
    /\ UNCHANGED <<hostVars, backupVars, request>>

-----------------------------------------------------------------------------
(***************************************************************************)
(* ActivateDirectTarget.  An error before the env file is written ends the *)
(* job where it stands; from the env file on, it starts the rollback.      *)
(***************************************************************************)
NotActivated == FailBefore("target_activation_failed", TRUE)
HalfActivated == Rollback("target_activation_failed")

ActivatePulling ==
    /\ At("activate_pulling")
    /\ progress("pulling", Goto("pull"), NotActivated)
    /\ UNCHANGED <<hostVars, backupVars, request>>

\* Mutant: the env file is written under the phase "pulling".
PullThenWrite ==
    /\ At("pull")
    /\ Goto("write_image") \/ NotActivated
    /\ UNCHANGED <<fileVars, hostVars, backupVars, request, faults>>

Pull ==
    /\ At("pull")
    /\ Goto("activate_stopping") \/ NotActivated
    /\ UNCHANGED <<fileVars, hostVars, backupVars, request, faults>>

ActivateStopping ==
    /\ At("activate_stopping")
    /\ progress("stopping", Goto("write_image"), NotActivated)
    /\ UNCHANGED <<hostVars, backupVars, request>>

\* writeAllowedImage: replaced or not when it fails (fsync after the rename).
WriteImage ==
    /\ At("write_image")
    /\ \/ env' = jobs[mine].target /\ Goto("activate_migrating")
       \/ env' \in {env, jobs[mine].target} /\ HalfActivated
    /\ UNCHANGED <<fileVars, running, data, backupVars, request, faults>>

ActivateMigrating ==
    /\ At("activate_migrating")
    /\ progress("migrating", Goto("recreate"), HalfActivated)
    /\ UNCHANGED <<hostVars, backupVars, request>>

Recreate ==
    /\ At("recreate")
    /\ \/ running' = env /\ Goto("activate_starting")
       \/ UpFails /\ HalfActivated
    /\ UNCHANGED <<fileVars, env, data, backupVars, request, faults>>

ActivateStarting ==
    /\ At("activate_starting")
    /\ progress("starting", Goto("checking"), HalfActivated)
    /\ UNCHANGED <<hostVars, backupVars, request>>

\* ActivateDirectTarget returned nil.
Checking ==
    /\ At("checking")
    /\ updateJob([jobs[mine] EXCEPT !.status = "health_check",
                                    !.step = "phase", !.svc = FALSE],
                 Goto("check_target"), Return)
    /\ UNCHANGED <<hostVars, backupVars, request>>

CheckDirectTarget ==
    /\ At("check_target")
    /\ \/ Healthy(jobs[mine].target) /\ Goto("succeed")
       \/ Rollback("target_health_failed")
    /\ UNCHANGED <<fileVars, hostVars, backupVars, request, faults>>

Succeed ==
    /\ At("succeed")
    /\ LET t == jobs[mine].target
       IN  Update([jobs EXCEPT ![mine] = [@ EXCEPT
                      !.status = "succeeded", !.step = "complete",
                      !.svc = TRUE, !.cur = t, !.safe = t, !.code = ""]],
                  "running", Return, Return)
    /\ UNCHANGED <<hostVars, backupVars, request>>

\* Mutant: maintenance, as after a recovery that failed.
FailInMaintenance ==
    /\ At("fail_before_mutation")
    /\ Update([jobs EXCEPT ![mine] = [@ EXCEPT
                   !.status = "failed", !.step = "complete", !.svc = avail,
                   !.safe = jobs[mine].cur, !.code = code]],
              "maintenance", Return, Return)
    /\ UNCHANGED <<hostVars, backupVars, request>>

FailBeforeMutation ==
    /\ At("fail_before_mutation")
    /\ Update([jobs EXCEPT ![mine] = [@ EXCEPT
                   !.status = "failed", !.step = "complete", !.svc = avail,
                   !.safe = jobs[mine].cur, !.code = code]],
              "running", Return, Return)
    /\ UNCHANGED <<hostVars, backupVars, request>>

-----------------------------------------------------------------------------
(***************************************************************************)
(* beginAndRunRollback and resumeRollback                                  *)
(***************************************************************************)
BeginRollback ==
    /\ At("begin_rollback")
    /\ IF jobs[mine].rp = NoPoint
       THEN FailBefore(code, FALSE) /\ UNCHANGED <<fileVars, faults>>
       ELSE updateJob([jobs[mine] EXCEPT !.status = "rolling_back",
                           !.step = "restore_backup", !.svc = FALSE,
                           !.code = code],
                      Goto("count_restore"), Return)
    /\ UNCHANGED <<hostVars, backupVars, request>>

\* The attempt is counted before it touches the host.
\* Mutant: the step that says "restored" is saved first.
CountRestoreStepFirst ==
    /\ At("count_restore")
    /\ updateJob([jobs[mine] EXCEPT !.attempts = @ + 1,
                                    !.step = "check_restored"],
                 Goto("restore_image"), Return)
    /\ UNCHANGED <<hostVars, backupVars, request>>

CountRestore ==
    /\ At("count_restore")
    /\ updateJob([jobs[mine] EXCEPT !.attempts = @ + 1],
                 Goto("restore_image"), Return)
    /\ UNCHANGED <<hostVars, backupVars, request>>

(***************************************************************************)
(* RestoreBackup: only from the committed backup, which must be the job's; *)
(* the image is local or pulled, and configured first.                     *)
(***************************************************************************)
RestoreImage ==
    /\ At("restore_image")
    /\ \/ Goto("recovery_failed") /\ UNCHANGED env
       \/ /\ slot = jobs[mine].rp
          /\ env' = slot.ver
          /\ Goto("restore_stop") \/ Goto("recovery_failed")
    /\ UNCHANGED <<fileVars, running, data, backupVars, request, faults>>

RestoreStop ==
    /\ At("restore_stop")
    /\ \/ running' = 0 /\ Goto("wipe")
       \/ running' \in {running, 0} /\ Goto("recovery_failed")
    /\ UNCHANGED <<fileVars, env, data, backupVars, request, faults>>

\* restoreTar and the schema reset empty a store before they fill it.
Wipe ==
    /\ At("wipe")
    /\ \/ data' = Mixed /\ Goto("restore_data")
       \/ data' \in {data, Mixed} /\ Goto("recovery_failed")
    /\ UNCHANGED <<fileVars, env, running, backupVars, request, faults>>

RestoreData ==
    /\ At("restore_data")
    /\ \/ data' = slot.data /\ Goto("restore_up")
       \/ UNCHANGED data /\ Goto("recovery_failed")
    /\ UNCHANGED <<fileVars, env, running, backupVars, request, faults>>

RestoreUp ==
    /\ At("restore_up")
    /\ \/ running' = env /\ Goto("restored")
       \/ UpFails /\ Goto("recovery_failed")
    /\ UNCHANGED <<fileVars, env, data, backupVars, request, faults>>

Restored ==
    /\ At("restored")
    /\ updateJob([jobs[mine] EXCEPT !.step = "check_restored"],
                 Goto("check_restored"), Return)
    /\ UNCHANGED <<hostVars, backupVars, request>>

CheckRestored ==
    /\ At("check_restored")
    /\ \/ Healthy(jobs[mine].rp.ver) /\ Goto("roll_back")
       \/ Goto("recovery_failed")
    /\ UNCHANGED <<fileVars, hostVars, backupVars, request, faults>>

RollBack ==
    /\ At("roll_back")
    /\ LET v == jobs[mine].rp.ver
       IN  Update([jobs EXCEPT ![mine] = [@ EXCEPT
                      !.status = "rolled_back", !.step = "complete",
                      !.svc = TRUE, !.safe = v, !.cur = v]],
                  "running", Return, Return)
    /\ UNCHANGED <<hostVars, backupVars, request>>

\* recordRecoveryFailure: the whole restore again, or maintenance.
RecordRecoveryFailure ==
    /\ At("recovery_failed")
    /\ IF jobs[mine].attempts >= maxRecoveryAttempts
       THEN Update([jobs EXCEPT ![mine] = [@ EXCEPT
                        !.status = "failed", !.step = "complete",
                        !.svc = FALSE, !.code = "rollback_failed"]],
                   "maintenance", Return, Return)
       ELSE updateJob([jobs[mine] EXCEPT !.svc = FALSE,
                                         !.step = "restore_backup"],
                      Return, Return)
    /\ UNCHANGED <<hostVars, backupVars, request>>

-----------------------------------------------------------------------------
(***************************************************************************)
(* resumeRestart                                                           *)
(***************************************************************************)
CountRestart ==
    /\ At("count_restart")
    /\ updateJob([jobs[mine] EXCEPT !.attempts = @ + 1],
                 Goto("restart_up"), Return)
    /\ UNCHANGED <<hostVars, backupVars, request>>

\* RestartCurrent: start whatever is configured, then look at what it is.
RestartUp ==
    /\ At("restart_up")
    /\ \/ running' = env /\ Goto("restart_check")
       \/ UpFails /\ Goto("restart_failed")
    /\ UNCHANGED <<fileVars, env, data, backupVars, request, faults>>

RestartCheck ==
    /\ At("restart_check")
    /\ \/ /\ env \in {jobs[mine].cur, jobs[mine].target}
          /\ Healthy(env)
          /\ Goto("restart_done")
       \/ Goto("restart_failed")
    /\ UNCHANGED <<fileVars, hostVars, backupVars, request, faults>>

RestartDone ==
    /\ At("restart_done")
    /\ Update([jobs EXCEPT ![mine] = [@ EXCEPT
                   !.status = "failed", !.step = "complete", !.svc = TRUE]],
              "running", Return, Return)
    /\ UNCHANGED <<hostVars, backupVars, request>>

RestartFailed ==
    /\ At("restart_failed")
    /\ IF jobs[mine].attempts >= maxRecoveryAttempts
       THEN Update([jobs EXCEPT ![mine] = [@ EXCEPT
                        !.status = "failed", !.step = "complete",
                        !.svc = FALSE, !.code = "restart_failed"]],
                   "maintenance", Return, Return)
       ELSE updateJob([jobs[mine] EXCEPT !.svc = FALSE], Return, Return)
    /\ UNCHANGED <<hostVars, backupVars, request>>

-----------------------------------------------------------------------------
(***************************************************************************)
(* The control routes that write the state file, between engine steps.     *)
(*                                                                         *)
(* createJob checks a snapshot (the preflight), takes the host gate, reads *)
(* the host's version and saves.  The gate keeps other control routes out  *)
(* from the version read to the save, but not from the preflight to it, and*)
(* the engine never takes the gate.  Any number of handlers may wait.      *)
(***************************************************************************)
controlUnchanged == UNCHANGED <<hostVars, backupVars, engineVars>>
gateFree == request.cur = 0
Answered == request' = [request EXCEPT !.target = 0, !.cur = 0]

CreatePreflight ==
    /\ pc # "down"
    /\ ~request.waiting
    /\ ~hasActiveJob(jobs)
    /\ desired = "running"
    /\ request' = [request EXCEPT !.waiting = TRUE]
    /\ UNCHANGED <<fileVars, faults>> /\ controlUnchanged

\* CurrentVersion, and the comparison with the target; "target_not_newer"
\* changes nothing.
CreateReadVersion ==
    /\ pc # "down"
    /\ request.waiting /\ gateFree
    /\ \E t \in Version :
        /\ env < t
        /\ request' = [request EXCEPT !.target = t, !.cur = env]
    /\ UNCHANGED <<fileVars, faults>> /\ controlUnchanged

newJob(c, t) ==
    [NoSuchJob EXCEPT !.status = "queued", !.step = "phase", !.cur = c,
                      !.target = t, !.safe = c]

\* Rejected, or its client is gone; or the job is saved.
CreateSave ==
    /\ pc # "down"
    /\ ~gateFree
    /\ \/ Answered /\ UNCHANGED <<fileVars, faults>>
       \/ /\ ~hasActiveJob(jobs) /\ desired = "running"
          /\ \E j \in JobId :
              /\ jobs[j].status = Absent
              /\ Update([jobs EXCEPT ![j] = newJob(request.cur, request.target)],
                        "upgrading", Answered, Answered)
    /\ controlUnchanged

\* startJobOperation("restart")
StartRestart ==
    /\ pc # "down"
    /\ gateFree
    /\ \E j \in JobId :
        /\ restartOffered(jobs[j])
        /\ Update([jobs EXCEPT ![j] = [@ EXCEPT !.status = "restarting",
                       !.step = "restart", !.svc = FALSE, !.attempts = 0]],
                  "upgrading", UNCHANGED request, UNCHANGED request)
    /\ controlUnchanged

setDesiredState ==
    /\ pc # "down"
    /\ gateFree
    /\ ~hasActiveJob(jobs)
    /\ \E want \in DesiredState \ {"upgrading"} :
            Update(jobs, want, UNCHANGED request, UNCHANGED request)
    /\ controlUnchanged

-----------------------------------------------------------------------------
(***************************************************************************)
(* The environment: the process stops and starts, and a started server     *)
(* migrates its stores in its own time.                                    *)
(***************************************************************************)
Crash ==
    /\ pc # "down"
    /\ faults < MaxFaults
    /\ faults' = faults + 1
    /\ pc' = "down"
    /\ mine' = NoJob /\ code' = "" /\ avail' = TRUE
    /\ dumped' = Mixed /\ dumpOK' = TRUE
    /\ request' = NoRequest
    /\ UNCHANGED <<fileVars, hostVars, backupVars>>

\* runServer: BackupStore.Recover, then the job runner.  A rotation that
\* Commit reported as failed may be completed or undone.
Boot ==
    /\ pc = "down"
    /\ pc' = "idle"
    /\ slot' \in IF retiring = NoPoint THEN {slot}
                ELSE {slot, retiring} \ {NoPoint}
    /\ retiring' = NoPoint
    /\ UNCHANGED <<mine, code, avail, dumped, dumpOK, fileVars, hostVars,
                   request, faults>>

ServerMigrates ==
    /\ running # 0
    /\ NeedsMigration(running)
    /\ data' = running
    /\ UNCHANGED <<fileVars, env, running, backupVars, engineVars, request,
                   faults>>

PrepareStep ==
    \/ PrepareValidating \/ SourceReady \/ PrepareBackingUp \/ BeginAndStop
    \/ Dump \/ SourceRestored \/ Commit \/ Checkpoint

ActivateStep ==
    \/ ActivatePulling \/ Pull \/ ActivateStopping \/ WriteImage
    \/ ActivateMigrating \/ Recreate \/ ActivateStarting \/ Checking
    \/ CheckDirectTarget \/ Succeed \/ FailBeforeMutation

RestoreStep ==
    \/ BeginRollback \/ CountRestore \/ RestoreImage \/ RestoreStop \/ Wipe
    \/ RestoreData \/ RestoreUp \/ Restored \/ CheckRestored \/ RollBack
    \/ RecordRecoveryFailure

RestartStep ==
    \/ CountRestart \/ RestartUp \/ RestartCheck \/ RestartDone
    \/ RestartFailed

EngineStep ==
    RunActive \/ StartQueued \/ PrepareStep \/ ActivateStep \/ RestoreStep
        \/ RestartStep

ControlStep ==
    \/ CreatePreflight \/ CreateReadVersion \/ CreateSave \/ StartRestart
    \/ setDesiredState

Next == EngineStep \/ ControlStep \/ Crash \/ Boot \/ ServerMigrates

Spec == Init /\ [][Next]_vars

(***************************************************************************)
(* The runner goroutine is never blocked for ever: every host command and  *)
(* health window runs under a timeout, and its ticker fires every ten      *)
(* seconds.  systemd starts the process again (external).                  *)
(***************************************************************************)
Fairness == WF_vars(EngineStep) /\ WF_vars(Boot)
FairSpec == Spec /\ Fairness

-----------------------------------------------------------------------------
(***************************************************************************)
(* Properties                                                              *)
(***************************************************************************)
PastCheckpoint == {"pulling", "stopping", "migrating", "starting",
                   "health_check", "rolling_back"}

\* While a job may have touched the host or is being rolled back, the backup
\* its record names is the one in backup/current, it is of the version the
\* job started from, and its contents need no migration to run there.
\* (Commit precedes the checkpoint; nothing else rotates the slot.)
RecoveryPointHeld ==
    \A j \in JobId : jobs[j].status \in PastCheckpoint =>
        LET point == jobs[j].rp
        IN  /\ point \in RecoveryPoint
            /\ point.job = j
            /\ point.ver = jobs[j].cur
            /\ slot = point
            /\ ~(point.data \in Version /\ point.data < point.ver)

\* As long as a restore may be repeated, no server runs on stores that it has
\* emptied and not filled again: neither the engine after a crash, nor a restart
\* that is offered by another job, nor a repair starts one.
HalfRestoredStaysDown ==
    \A j \in JobId :
        /\ jobs[j].status = "rolling_back"
        /\ data = Mixed /\ jobs[j].rp.data # Mixed
        => running = 0

Becomes(j, s) == jobs[j].status # s /\ jobs'[j].status = s

\* Reported results are true of the host.  A job is rolled back only when the
\* image it was backed up from is configured and running and every store has
\* exactly the archived contents, whatever crashed or failed on the way; it has
\* succeeded only when its target is configured, running and has migrated them.
ReportsAreTrue ==
    [][\A j \in JobId :
          /\ Becomes(j, "rolled_back") =>
                env = jobs[j].rp.ver /\ running = env /\ data = jobs[j].rp.data
          /\ Becomes(j, "succeeded") =>
                env = jobs[j].target /\ running = env /\ ~NeedsMigration(env)]_vars

\* A finished job never changes again, except that it loses a recovery point
\* that was rotated away, and that a failed one without service may restart.
TerminalIsFinal ==
    [][\A j \in JobId : jobs[j].status \in TerminalStatus =>
          \/ jobs'[j] = jobs[j]
          \/ jobs'[j] = [jobs[j] EXCEPT !.rp = NoPoint]
          \/ /\ jobs[j].status = "failed" /\ ~jobs[j].svc
             /\ jobs'[j].status = "restarting"]_vars

\* The configured image changes, and stores are emptied, only under a persisted
\* phase that says so and with the recovery point committed; and the version goes
\* down only by a restore, back to the one the rolled back job started from: a
\* job created from a stale version read fails before it changes anything.
CheckpointBeforeMutation ==
    [][/\ env' # env => \E j \in JobId :
             /\ jobs[j].status \in PastCheckpoint \ {"pulling"}
             /\ jobs[j].rp = slot
             /\ env' < env => jobs[j].status = "rolling_back"
                              /\ env' = jobs[j].cur
       /\ data' = Mixed /\ data # Mixed => \E j \in JobId :
             /\ jobs[j].status = "rolling_back"
             /\ jobs[j].attempts > 0
             /\ jobs[j].rp = slot]_vars

\* The phases a client polls never go backwards, over crashes and resumptions.
PhaseMonotone ==
    [][\A j \in JobId :
          jobs[j].status \in UpgradePhases /\ jobs'[j].status \in UpgradePhases
            => upgradePhaseRank(jobs'[j].status)
                 >= upgradePhaseRank(jobs[j].status)]_vars

\* The recovery attempts of a job are all counted and none is left to run.
BudgetSpent(job) ==
    /\ job.attempts = maxRecoveryAttempts
    /\ \/ job.status = "restarting"
       \/ job.status = "rolling_back" /\ job.step = "restore_backup"

\* With finitely many crashes and failed saves every active job ends, or has
\* counted its last recovery attempt without the result being recorded.
RecoveryDecides ==
    \A j \in JobId :
        active(jobs[j]) ~> (~active(jobs[j]) \/ BudgetSpent(jobs[j]))

\* README: after three recovery failures the job enters maintenance.  Hence an
\* active job always ends.  A crash during the third attempt refutes it: the
\* next count would be four, which never validates.
EveryJobEnds == \A j \in JobId : active(jobs[j]) ~> ~active(jobs[j])

\* "The release change was stopped before the running service was changed":
\* a job that fails with this message leaves its source version configured.
StoppedMeansUnchanged ==
    [][\A j \in JobId :
          At("fail_before_mutation") /\ Becomes(j, "failed")
            => env = jobs[j].cur]_vars

\* No failure leaves the service down and unattended: whenever a job fails and
\* the server is stopped, a restart is offered or the watchdog may start it.
\* (errorServiceAvailable judges by the error alone: a backup that is resumed
\* with the source stopped offers no restart, and only the watchdog is left.)
FailureIsAttended ==
    [][\A j \in JobId :
          Becomes(j, "failed") /\ running = 0
            => restartOffered(jobs'[j]) \/ desired' = "running"]_vars
=============================================================================
