--------------------------- MODULE Engine_proofs ----------------------------
(***************************************************************************)
(* Proofs about the upgrade transaction and the two systems it is a part   *)
(* of, for any set of jobs and versions and any number of faults.          *)
(*                                                                         *)
(* JobEngine: the transaction of a direct job, in three layers: what the   *)
(* state file holds, the recovery point, and the host at each stage.       *)
(*                                                                         *)
(* HostSystem: engine, control routes and watchdog on one host keep        *)
(* SystemIntent, no repair starts the server over stores that are          *)
(* archived or restored, and what JobEngine promises holds beside them.    *)
(*                                                                         *)
(* LegacyJob: jobs with a plan, for any chain of releases.  What is new is *)
(* the hop counter: which release the record, the configuration and the    *)
(* engine's place in the hop belong to.  The steps that are JobEngine's    *)
(* preserve what is proved of them in the first part.                      *)
(***************************************************************************)
EXTENDS HostSystem, LegacyJob, SequenceTheorems, TLAPS

-----------------------------------------------------------------------------
(***************************************************************************)
(* The state file: every state in it has been validated by the save.       *)
(***************************************************************************)
Versioned(job) == job.cur \in Version /\ job.target \in Version

Typed(js) ==
    /\ js \in [JobId -> Job]
    /\ \A j \in JobId : js[j].status # Absent => Versioned(js[j])

FileInv ==
    /\ Typed(jobs)
    /\ desired \in DesiredState
    /\ normalizeAndValidate(jobs, desired)

\* A job before it is validated: the attempts have no bound yet.
Candidate == [status : JobStatus, step : JobStep, svc : BOOLEAN,
              cur : Version \union {0}, target : Version \union {0},
              safe : Version \union {0}, attempts : Nat,
              rp : RecoveryPoint \union {NoPoint}, code : ErrorCode]

\* A candidate with the bound is a job.
LEMMA JobIsCandidate ==
  /\ Job \subseteq Candidate
  /\ \A job \in Candidate : job.attempts <= maxRecoveryAttempts => job \in Job
<1>1. Job \subseteq Candidate
  BY DEF Job, Candidate, maxRecoveryAttempts
<1>2. ASSUME NEW job \in Candidate, job.attempts <= maxRecoveryAttempts
      PROVE  job \in Job
  BY <1>2 DEF Job, Candidate, maxRecoveryAttempts
<1> QED BY <1>1, <1>2

\* What a save writes when it changes one job.
LEMMA OneJobSaved ==
  ASSUME Typed(jobs), NEW m \in JobId, NEW job \in Candidate,
         job.status # Absent, Versioned(job),
         NEW want \in DesiredState,
         normalizeAndValidate([jobs EXCEPT ![m] = job], want)
  PROVE  Typed([jobs EXCEPT ![m] = job])
<1> DEFINE js == [jobs EXCEPT ![m] = job]
<1>1. js[m] = job /\ \A j \in JobId \ {m} : js[j] = jobs[j]
  BY DEF Typed
<1>2. job.attempts <= maxRecoveryAttempts
  <2>1. validateExecutionState(m, js[m])
    BY <1>1 DEF normalizeAndValidate
  <2> QED BY <1>1, <2>1 DEF validateExecutionState
<1>3. job \in Job
  BY <1>2, JobIsCandidate
<1>4. js \in [JobId -> Job]
  BY <1>3 DEF Typed
<1> QED BY <1>1, <1>4 DEF Typed

-----------------------------------------------------------------------------
(***************************************************************************)
(* The engine goroutine: which job it works on, and which statuses that job*)
(* can have at each of its steps.                                          *)
(***************************************************************************)
PrepareSteps == {"prepare_validating", "source_ready", "prepare_backing_up",
                 "begin_stop", "dump", "source_restored", "commit",
                 "checkpoint"}
BeforeWriteSteps == {"activate_pulling", "pull", "activate_stopping"}
MutateSteps == {"write_image", "activate_migrating", "recreate",
                "activate_starting", "checking"}
CheckSteps == {"check_target", "succeed"}
RestoreSteps == {"count_restore", "restore_image", "restore_stop", "wipe",
                 "restore_data", "restore_up", "restored", "check_restored",
                 "roll_back", "recovery_failed"}
RestartSteps == {"count_restart", "restart_up", "restart_check",
                 "restart_done", "restart_failed"}

MutatePhases == {"stopping", "migrating", "starting"}

StatusAt(status, s) ==
    /\ s = "queued" => status = "queued"
    /\ s \in PrepareSteps => status \in {"validating", "backing_up"}
    /\ s \in BeforeWriteSteps => status \in MutatePhases \union {"pulling"}
    /\ s \in MutateSteps => status \in MutatePhases
    /\ s \in CheckSteps => status = "health_check"
    /\ s = "fail_before_mutation" => status \in UpgradePhases
    /\ s = "begin_rollback" => status \in MutatePhases \union {"health_check"}
    /\ s \in RestoreSteps => status = "rolling_back"
    /\ s \in RestartSteps => status = "restarting"

EngineInv ==
    /\ pc \in EngineSteps \union {"idle", "down"}
    /\ mine \in JobId \union {NoJob}
    /\ pc \in EngineSteps => mine \in JobId /\ StatusAt(jobs[mine].status, pc)
    /\ code \in ErrorCode
    /\ avail \in BOOLEAN
    /\ dumped \in Data
    /\ dumpOK \in BOOLEAN

HostInv ==
    /\ env \in Version
    /\ running \in Version \union {0}
    /\ data \in Data
    /\ slot \in RecoveryPoint \union {NoPoint}
    /\ retiring \in RecoveryPoint \union {NoPoint}
    /\ request \in [waiting : BOOLEAN, target : Version \union {0},
                    cur : Version \union {0}]
    /\ ~gateFree => request.target \in Version
    /\ faults \in Nat

TypeInv == FileInv /\ EngineInv /\ HostInv

\* The engine's job is active, so it is in the file with its versions.
LEMMA MineIsActive ==
  ASSUME TypeInv, pc \in EngineSteps
  PROVE  /\ mine \in JobId
         /\ active(jobs[mine])
         /\ jobs[mine].status # Absent
         /\ Versioned(jobs[mine])
         /\ jobs[mine] \in Candidate
         /\ hasActiveJob(jobs)
<1>1. mine \in JobId /\ StatusAt(jobs[mine].status, pc)
  BY DEF TypeInv, EngineInv
<1>2. jobs[mine].status \in ActiveStatus
  BY <1>1 DEF StatusAt, EngineSteps, PrepareSteps, BeforeWriteSteps,
       MutateSteps, CheckSteps, RestoreSteps, RestartSteps, MutatePhases,
       ActiveStatus, UpgradePhases
<1>3. Absent \notin ActiveStatus
  BY DEF Absent, ActiveStatus, UpgradePhases
<1> QED
  BY <1>1, <1>2, <1>3, JobIsCandidate
     DEF active, hasActiveJob, TypeInv, FileInv, Typed

-----------------------------------------------------------------------------
(***************************************************************************)
(* How a step of the engine continues, and what it may save.               *)
(***************************************************************************)
Moves ==
    \/ Return
    \/ \E s \in EngineSteps : Goto(s) /\ StatusAt(jobs'[mine].status, s)
    \/ \E c \in ErrorCode, a \in BOOLEAN :
          FailBefore(c, a) /\ jobs'[mine].status \in UpgradePhases
    \/ \E c \in ErrorCode :
          /\ Rollback(c)
          /\ jobs'[mine].status \in MutatePhases \union {"health_check"}

\* The record of the engine's job that a step saves: the recovery point of a
\* job past its checkpoint stays, and so does the version it started from.
KeepsPoint(job) ==
    job.status \in PastCheckpoint =>
        /\ jobs[mine].status \in PastCheckpoint
        /\ job.rp = jobs[mine].rp
        /\ job.cur = jobs[mine].cur

KeepsPhase(job) ==
    job.status \in UpgradePhases /\ jobs[mine].status \in UpgradePhases =>
        upgradePhaseRank(job.status) >= upgradePhaseRank(jobs[mine].status)

GoodSave(job) ==
    /\ job \in Candidate
    /\ Versioned(job)
    /\ job.status # Absent
    /\ KeepsPoint(job)
    /\ KeepsPhase(job)

Saves(job, want) ==
    \/ UNCHANGED fileVars
    \/ /\ jobs' = [jobs EXCEPT ![mine] = job]
       /\ desired' = want
       /\ normalizeAndValidate([jobs EXCEPT ![mine] = job], want)

EngineSaves ==
    /\ pc \in EngineSteps
    /\ \E job \in Candidate, want \in DesiredState :
          GoodSave(job) /\ Saves(job, want)
    /\ Moves
    /\ UNCHANGED <<hostVars, backupVars, request>>
    /\ faults' \in Nat

\* A continuation keeps the engine's locals typed and its job at the step.
LEMMA MovesEngine ==
  ASSUME TypeInv, pc \in EngineSteps, Moves
  PROVE  EngineInv'
<1>0. mine \in JobId
  BY MineIsActive
<1>1. CASE Return
  BY <1>1 DEF Return, EngineInv, EngineSteps, ErrorCode, Data
<1>2. ASSUME NEW s \in EngineSteps, Goto(s), StatusAt(jobs'[mine].status, s)
      PROVE  EngineInv'
  BY <1>0, <1>2 DEF Goto, TypeInv, EngineInv
<1>3. ASSUME NEW c \in ErrorCode, NEW a \in BOOLEAN, FailBefore(c, a),
             jobs'[mine].status \in UpgradePhases
      PROVE  EngineInv'
  BY <1>0, <1>3 DEF FailBefore, TypeInv, EngineInv, StatusAt, EngineSteps,
     PrepareSteps, BeforeWriteSteps, MutateSteps, CheckSteps, RestoreSteps,
     RestartSteps
<1>4. ASSUME NEW c \in ErrorCode, Rollback(c),
             jobs'[mine].status \in MutatePhases \union {"health_check"}
      PROVE  EngineInv'
  BY <1>0, <1>4 DEF Rollback, TypeInv, EngineInv, StatusAt, EngineSteps,
     PrepareSteps, BeforeWriteSteps, MutateSteps, CheckSteps, RestoreSteps,
     RestartSteps
<1> QED BY <1>1, <1>2, <1>3, <1>4 DEF Moves

\* A step that only saves the engine's job preserves the typing invariant.
LEMMA SavesTypes ==
  ASSUME TypeInv, EngineSaves
  PROVE  TypeInv'
<1>1. PICK job \in Candidate, want \in DesiredState :
         GoodSave(job) /\ Saves(job, want)
  BY DEF EngineSaves
<1>2. FileInv'
  <2>1. CASE UNCHANGED fileVars
    BY <2>1 DEF TypeInv, FileInv, fileVars, Typed, Versioned,
       normalizeAndValidate, hasActiveJob
  <2>2. CASE ~UNCHANGED fileVars
    <3>1. /\ jobs' = [jobs EXCEPT ![mine] = job] /\ desired' = want
          /\ normalizeAndValidate([jobs EXCEPT ![mine] = job], want)
      BY <1>1, <2>2 DEF Saves
    <3>2. mine \in JobId
      BY MineIsActive DEF EngineSaves
    <3>3. Typed([jobs EXCEPT ![mine] = job])
      BY <1>1, <3>1, <3>2, OneJobSaved DEF GoodSave, TypeInv, FileInv
    <3> QED
      BY <3>1, <3>3 DEF FileInv, Typed, normalizeAndValidate, hasActiveJob
  <2> QED BY <2>1, <2>2
<1>3. HostInv'
  BY DEF EngineSaves, TypeInv, HostInv, hostVars, backupVars, gateFree
<1> QED
  BY <1>2, <1>3, MovesEngine DEF EngineSaves, TypeInv
-----------------------------------------------------------------------------
(***************************************************************************)
(* The steps that report a phase.                                          *)
(***************************************************************************)
\* The phase a report leaves is the later one, and the record is a good one.
LEMMA ProgressedGood ==
  ASSUME TypeInv, pc \in EngineSteps,
         NEW next \in UpgradePhases, jobs[mine].status \in UpgradePhases,
         next \in PastCheckpoint => jobs[mine].status \in PastCheckpoint
  PROVE  /\ GoodSave(progressed(jobs[mine], next))
         /\ progressed(jobs[mine], next).status =
              IF upgradePhaseRank(jobs[mine].status) > upgradePhaseRank(next)
              THEN jobs[mine].status ELSE next
<1> DEFINE old == jobs[mine]
           new == [old EXCEPT !.status = next, !.step = "phase",
                              !.svc = availableIn(next, old.svc)]
<1>1. old \in Candidate /\ Versioned(old) /\ old.status # Absent
  BY MineIsActive
<1>2. \A p \in UpgradePhases : upgradePhaseRank(p) \in 0..6
  BY DEF UpgradePhases, upgradePhaseRank
<1>3. availableIn(next, old.svc) \in BOOLEAN
  BY <1>1 DEF availableIn, Candidate
<1>4. new \in Candidate
  BY <1>1, <1>3 DEF Candidate, JobStatus, ActiveStatus, JobStep
<1>5. CASE upgradePhaseRank(old.status) > upgradePhaseRank(next)
  <2>1. progressed(old, next) = old
    BY <1>5 DEF progressed
  <2> QED
    BY <1>1, <1>2, <1>5, <2>1 DEF GoodSave, KeepsPoint, KeepsPhase
<1>6. CASE ~(upgradePhaseRank(old.status) > upgradePhaseRank(next))
  <2>1. progressed(old, next) = new
    BY <1>6 DEF progressed
  <2>2. new.status = next /\ new.rp = old.rp /\ new.cur = old.cur
          /\ new.target = old.target
    BY <1>1 DEF Candidate
  <2>3. next # Absent
    BY DEF UpgradePhases, Absent
  <2>4. KeepsPhase(new)
    BY <1>2, <1>6, <2>2 DEF KeepsPhase
  <2> QED
    BY <1>1, <1>4, <1>6, <2>1, <2>2, <2>3, <2>4
       DEF GoodSave, KeepsPoint, Versioned
<1> QED BY <1>5, <1>6

\* A report of a phase saves the engine's job and continues or fails.
LEMMA ReportSaves ==
  ASSUME TypeInv, pc \in EngineSteps,
         NEW next \in UpgradePhases, NEW ok \in EngineSteps,
         jobs[mine].status \in UpgradePhases,
         next \in PastCheckpoint => jobs[mine].status \in PastCheckpoint,
         StatusAt(progressed(jobs[mine], next).status, ok),
         Saves(progressed(jobs[mine], next), desired),
         faults' \in Nat, UNCHANGED <<hostVars, backupVars, request>>,
         \/ Goto(ok) /\ jobs' = [jobs EXCEPT ![mine] =
                                    progressed(jobs[mine], next)]
         \/ \E c \in ErrorCode, a \in BOOLEAN : FailBefore(c, a)
         \/ /\ \E c \in ErrorCode : Rollback(c)
            /\ jobs[mine].status \in MutatePhases
            /\ next \in MutatePhases
  PROVE  EngineSaves
<1> DEFINE job == progressed(jobs[mine], next)
<1>1. mine \in JobId /\ jobs \in [JobId -> Job] /\ desired \in DesiredState
  BY MineIsActive DEF TypeInv, FileInv, Typed
<1>2. GoodSave(job) /\ job.status \in {jobs[mine].status, next}
  BY ProgressedGood
<1>3. jobs'[mine].status \in {jobs[mine].status, next}
  BY <1>1, <1>2 DEF Saves, fileVars
<1>4. Goto(ok) /\ jobs' = [jobs EXCEPT ![mine] = job]
        => StatusAt(jobs'[mine].status, ok)
  BY <1>1
<1>5. Moves
  <2>1. jobs'[mine].status \in UpgradePhases
    BY <1>3
  <2> QED
    BY <1>3, <1>4, <2>1 DEF Moves
<1> QED
  BY <1>1, <1>2, <1>5 DEF EngineSaves, GoodSave

\* The progress reports of PrepareDirectBackup: validating, then backing_up,
\* each from a phase that is not ahead of it.
LEMMA PrepareReports ==
  ASSUME TypeInv, PrepareValidating \/ PrepareBackingUp
  PROVE  EngineSaves
<1>f. faults \in Nat /\ faults + 1 \in Nat
  BY DEF TypeInv, HostInv
<1>0. pc \in EngineSteps /\ pc \in PrepareSteps
  BY DEF PrepareValidating, PrepareBackingUp, At, EngineSteps, PrepareSteps
<1>1. jobs[mine].status \in {"validating", "backing_up"}
  BY <1>0 DEF TypeInv, EngineInv, StatusAt
<1>2. {"validating", "backing_up"} \subseteq UpgradePhases \ PastCheckpoint
  BY DEF UpgradePhases, PastCheckpoint
<1>3. \A ok \in PrepareSteps, s \in {"validating", "backing_up"} :
         ok \in EngineSteps /\ StatusAt(s, ok)
  BY DEF StatusAt, EngineSteps, PrepareSteps, BeforeWriteSteps, MutateSteps,
     CheckSteps, RestoreSteps, RestartSteps
<1>4. \A next \in {"validating", "backing_up"} :
         progressed(jobs[mine], next).status \in {"validating", "backing_up"}
  BY <1>0, <1>1, <1>2, ProgressedGood
<1>5. CASE PrepareValidating
  <2>1. /\ Saves(progressed(jobs[mine], "validating"), desired)
        /\ faults' \in Nat /\ UNCHANGED <<hostVars, backupVars, request>>
        /\ \/ Goto("source_ready") /\ jobs' = [jobs EXCEPT ![mine] =
                                     progressed(jobs[mine], "validating")]
           \/ FailBefore("backup_failed", TRUE)
    BY <1>5, <1>f DEF PrepareValidating, progress, updateJob, Update, Saves,
       BackupFails, fileVars
  <2> QED
    BY <2>1, <1>0, <1>1, <1>2, <1>3, <1>4, ReportSaves
       DEF PrepareSteps, ErrorCode
<1>6. CASE PrepareBackingUp
  <2>1. /\ Saves(progressed(jobs[mine], "backing_up"), desired)
        /\ faults' \in Nat /\ UNCHANGED <<hostVars, backupVars, request>>
        /\ \/ Goto("begin_stop") /\ jobs' = [jobs EXCEPT ![mine] =
                                     progressed(jobs[mine], "backing_up")]
           \/ FailBefore("backup_failed", TRUE)
    BY <1>6, <1>f DEF PrepareBackingUp, progress, updateJob, Update, Saves,
       BackupFails, fileVars
  <2> QED
    BY <2>1, <1>0, <1>1, <1>2, <1>3, <1>4, ReportSaves
       DEF PrepareSteps, ErrorCode
<1> QED BY <1>5, <1>6

\* The progress reports of ActivateDirectTarget: pulling to starting.
LEMMA ActivateReports ==
  ASSUME TypeInv,
         ActivatePulling \/ ActivateStopping \/ ActivateMigrating
           \/ ActivateStarting
  PROVE  EngineSaves
<1>f. faults \in Nat /\ faults + 1 \in Nat
  BY DEF TypeInv, HostInv
<1>0. pc \in EngineSteps
  BY DEF ActivatePulling, ActivateStopping, ActivateMigrating,
     ActivateStarting, At, EngineSteps
<1> DEFINE Phases == MutatePhases \union {"pulling"}
           old == jobs[mine].status
<1>1. /\ old \in Phases
      /\ pc \in MutateSteps => old \in MutatePhases
  BY <1>0 DEF TypeInv, EngineInv, StatusAt, ActivatePulling, ActivateStopping,
     ActivateMigrating, ActivateStarting, At, BeforeWriteSteps, MutateSteps,
     MutatePhases
<1>2. /\ Phases \subseteq UpgradePhases \intersect PastCheckpoint
      /\ "pulling" \notin MutatePhases
  BY DEF UpgradePhases, PastCheckpoint, MutatePhases
<1>3. /\ \A s \in Phases : StatusAt(s, "pull")
      /\ \A s \in MutatePhases : /\ StatusAt(s, "write_image")
                                 /\ StatusAt(s, "recreate")
                                 /\ StatusAt(s, "checking")
  BY DEF StatusAt, PrepareSteps, BeforeWriteSteps, MutateSteps, CheckSteps,
     RestoreSteps, RestartSteps, MutatePhases
<1>4. \A next \in Phases :
        progressed(jobs[mine], next).status =
              IF upgradePhaseRank(old) > upgradePhaseRank(next)
              THEN old ELSE next
  BY <1>0, <1>1, <1>2, ProgressedGood
<1>5. /\ progressed(jobs[mine], "pulling").status \in Phases
      /\ \A next \in MutatePhases :
            progressed(jobs[mine], next).status \in MutatePhases
  <2>1. \A next \in MutatePhases :
          ~(upgradePhaseRank("pulling") > upgradePhaseRank(next))
    BY DEF upgradePhaseRank, MutatePhases
  <2> QED BY <1>1, <1>4, <2>1
<1>7. CASE ActivatePulling
  <2>1. /\ Saves(progressed(jobs[mine], "pulling"), desired)
        /\ faults' \in Nat /\ UNCHANGED <<hostVars, backupVars, request>>
        /\ \/ Goto("pull") /\ jobs' = [jobs EXCEPT ![mine] =
                                     progressed(jobs[mine], "pulling")]
           \/ FailBefore("target_activation_failed", TRUE)
    BY <1>7, <1>f DEF ActivatePulling, progress, updateJob, Update, Saves,
       NotActivated, fileVars
  <2> QED
    BY <2>1, <1>0, <1>1, <1>2, <1>3, <1>5, ReportSaves
       DEF EngineSteps, ErrorCode
<1>8. CASE ActivateStopping
  <2>1. /\ Saves(progressed(jobs[mine], "stopping"), desired)
        /\ faults' \in Nat /\ UNCHANGED <<hostVars, backupVars, request>>
        /\ \/ Goto("write_image") /\ jobs' = [jobs EXCEPT ![mine] =
                                     progressed(jobs[mine], "stopping")]
           \/ FailBefore("target_activation_failed", TRUE)
    BY <1>8, <1>f DEF ActivateStopping, progress, updateJob, Update, Saves,
       NotActivated, fileVars
  <2> QED
    BY <2>1, <1>0, <1>1, <1>2, <1>3, <1>5, ReportSaves
       DEF EngineSteps, ErrorCode, MutatePhases
<1>9. CASE ActivateMigrating
  <2>1. /\ Saves(progressed(jobs[mine], "migrating"), desired)
        /\ faults' \in Nat /\ UNCHANGED <<hostVars, backupVars, request>>
        /\ \/ Goto("recreate") /\ jobs' = [jobs EXCEPT ![mine] =
                                     progressed(jobs[mine], "migrating")]
           \/ Rollback("target_activation_failed")
    BY <1>9, <1>f DEF ActivateMigrating, progress, updateJob, Update, Saves,
       HalfActivated, fileVars
  <2>2. old \in MutatePhases
    BY <1>1, <1>9 DEF ActivateMigrating, At, MutateSteps
  <2> QED
    BY <2>1, <2>2, <1>0, <1>1, <1>2, <1>3, <1>5, ReportSaves
       DEF EngineSteps, ErrorCode, MutatePhases
<1>10. CASE ActivateStarting
  <2>1. /\ Saves(progressed(jobs[mine], "starting"), desired)
        /\ faults' \in Nat /\ UNCHANGED <<hostVars, backupVars, request>>
        /\ \/ Goto("checking") /\ jobs' = [jobs EXCEPT ![mine] =
                                     progressed(jobs[mine], "starting")]
           \/ Rollback("target_activation_failed")
    BY <1>10, <1>f DEF ActivateStarting, progress, updateJob, Update, Saves,
       HalfActivated, fileVars
  <2>2. old \in MutatePhases
    BY <1>1, <1>10 DEF ActivateStarting, At, MutateSteps
  <2> QED
    BY <2>1, <2>2, <1>0, <1>1, <1>2, <1>3, <1>5, ReportSaves
       DEF EngineSteps, ErrorCode, MutatePhases
<1> QED BY <1>7, <1>8, <1>9, <1>10

-----------------------------------------------------------------------------
(***************************************************************************)
(* The other saves of the engine's job.                                    *)
(***************************************************************************)
\* The values the saves write.
LEMMA Members ==
  /\ \A s \in {"validating", "health_check", "rolling_back", "succeeded",
               "failed", "rolled_back", "restarting", "queued"} :
        s \in JobStatus
  /\ \A s \in {"phase", "restore_backup", "check_restored", "restart",
               "complete"} : s \in JobStep
  /\ \A c \in {"", "rollback_failed", "restart_failed"} : c \in ErrorCode
  /\ Absent \notin {"validating", "health_check", "rolling_back", "succeeded",
                    "failed", "rolled_back", "restarting", "queued"}
  BY DEF JobStatus, ActiveStatus, UpgradePhases, TerminalStatus, Absent,
     JobStep, ErrorCode

\* Counting an attempt changes nothing else.
LEMMA Counted ==
  ASSUME NEW STATE old, old \in Candidate
  PROVE  LET job == [old EXCEPT !.attempts = @ + 1]
         IN  /\ job \in Candidate
             /\ job.status = old.status /\ job.target = old.target
             /\ job.cur = old.cur /\ job.rp = old.rp /\ job.step = old.step
<1>1. old.attempts + 1 \in Nat
  BY DEF Candidate
<1>2. ASSUME NEW n \in Nat
      PROVE  LET job == [old EXCEPT !.attempts = n]
             IN  /\ job \in Candidate
                 /\ job.status = old.status /\ job.target = old.target
                 /\ job.cur = old.cur /\ job.rp = old.rp
                 /\ job.step = old.step
  BY DEF Candidate
<1> QED BY <1>1, <1>2

\* A good record is saved, and the step continues at `ok` or ends RunActive.
LEMMA RecordSaves ==
  ASSUME TypeInv, pc \in EngineSteps,
         NEW STATE job, GoodSave(job),
         NEW STATE want, want \in DesiredState,
         Saves(job, want), faults' \in Nat,
         UNCHANGED <<hostVars, backupVars, request>>,
         \/ /\ jobs' = [jobs EXCEPT ![mine] = job]
            /\ \E ok \in EngineSteps : Goto(ok) /\ StatusAt(job.status, ok)
         \/ Return
  PROVE  EngineSaves
<1>1. mine \in JobId /\ jobs \in [JobId -> Job]
  BY MineIsActive DEF TypeInv, FileInv, Typed
<1>2. Moves
  BY <1>1 DEF Moves
<1> QED
  BY <1>2 DEF EngineSaves, GoodSave

\* RunActive starts a queued job.
LEMMA StartQueuedSaves == ASSUME TypeInv, StartQueued PROVE EngineSaves
<1> DEFINE old == jobs[mine]
           job == [old EXCEPT !.status = "validating", !.step = "phase"]
<1>1. pc = "queued" /\ pc \in EngineSteps
  BY DEF StartQueued, At, EngineSteps
<1>2. /\ old \in Candidate /\ Versioned(old) /\ old.status # Absent
      /\ StatusAt(old.status, pc)
      /\ desired \in DesiredState /\ faults \in Nat /\ faults + 1 \in Nat
      /\ code \in ErrorCode /\ avail \in BOOLEAN
  BY <1>1, MineIsActive DEF TypeInv, FileInv, EngineInv, HostInv
<1>3. /\ job \in Candidate
      /\ job.status = "validating" /\ job.target = old.target
      /\ job.cur = old.cur /\ job.rp = old.rp
  BY <1>2, Members DEF Candidate, Versioned
<1>4. GoodSave(job)
  BY <1>1, <1>2, <1>3 DEF GoodSave, KeepsPoint, KeepsPhase, Versioned,
     Candidate, StatusAt, PrepareSteps, MutateSteps, RestoreSteps, RestartSteps,
     MutatePhases, PastCheckpoint, UpgradePhases, Absent, upgradePhaseRank
<1>5. "prepare_validating" \in EngineSteps /\ StatusAt(job.status, "prepare_validating")
  BY <1>1, <1>2, <1>3 DEF StatusAt, EngineSteps, PrepareSteps,
     BeforeWriteSteps, MutateSteps, CheckSteps, RestoreSteps, RestartSteps,
     Candidate
<1>6. /\ Saves(job, desired) /\ faults' \in Nat
      /\ UNCHANGED <<hostVars, backupVars, request>>
      /\ \/ Goto("prepare_validating") /\ jobs' = [jobs EXCEPT ![mine] = job]
         \/ Return
  BY <1>2 DEF StartQueued, updateJob, Update, Saves, fileVars
<1> QED
  BY <1>1, <1>2, <1>4, <1>5, <1>6, RecordSaves DEF DesiredState

\* The activation returned and the health check begins.
LEMMA CheckingSaves == ASSUME TypeInv, Checking PROVE EngineSaves
<1> DEFINE old == jobs[mine]
           job == [old EXCEPT !.status = "health_check", !.step = "phase",
                         !.svc = FALSE]
<1>1. pc = "checking" /\ pc \in EngineSteps
  BY DEF Checking, At, EngineSteps
<1>2. /\ old \in Candidate /\ Versioned(old) /\ old.status # Absent
      /\ StatusAt(old.status, pc)
      /\ desired \in DesiredState /\ faults \in Nat /\ faults + 1 \in Nat
      /\ code \in ErrorCode /\ avail \in BOOLEAN
  BY <1>1, MineIsActive DEF TypeInv, FileInv, EngineInv, HostInv
<1>3. /\ job \in Candidate
      /\ job.status = "health_check" /\ job.target = old.target
      /\ job.cur = old.cur /\ job.rp = old.rp
  BY <1>2, Members DEF Candidate, Versioned
<1>4. GoodSave(job)
  BY <1>1, <1>2, <1>3 DEF GoodSave, KeepsPoint, KeepsPhase, Versioned,
     Candidate, StatusAt, PrepareSteps, MutateSteps, RestoreSteps, RestartSteps,
     MutatePhases, PastCheckpoint, UpgradePhases, Absent, upgradePhaseRank
<1>5. "check_target" \in EngineSteps /\ StatusAt(job.status, "check_target")
  BY <1>1, <1>2, <1>3 DEF StatusAt, EngineSteps, PrepareSteps,
     BeforeWriteSteps, MutateSteps, CheckSteps, RestoreSteps, RestartSteps,
     Candidate
<1>6. /\ Saves(job, desired) /\ faults' \in Nat
      /\ UNCHANGED <<hostVars, backupVars, request>>
      /\ \/ Goto("check_target") /\ jobs' = [jobs EXCEPT ![mine] = job]
         \/ Return
  BY <1>2 DEF Checking, updateJob, Update, Saves, fileVars
<1> QED
  BY <1>1, <1>2, <1>4, <1>5, <1>6, RecordSaves DEF DesiredState

\* A recovery attempt is counted before it runs.
LEMMA CountRestoreSaves == ASSUME TypeInv, CountRestore PROVE EngineSaves
<1> DEFINE old == jobs[mine]
           job == [old EXCEPT !.attempts = @ + 1]
<1>1. pc = "count_restore" /\ pc \in EngineSteps
  BY DEF CountRestore, At, EngineSteps
<1>2. /\ old \in Candidate /\ Versioned(old) /\ old.status # Absent
      /\ StatusAt(old.status, pc)
      /\ desired \in DesiredState /\ faults \in Nat /\ faults + 1 \in Nat
      /\ code \in ErrorCode /\ avail \in BOOLEAN
  BY <1>1, MineIsActive DEF TypeInv, FileInv, EngineInv, HostInv
<1>3. /\ job \in Candidate
      /\ job.status = old.status /\ job.target = old.target
      /\ job.cur = old.cur /\ job.rp = old.rp
  BY <1>2, Counted DEF Candidate, Versioned
<1>4. GoodSave(job)
  BY <1>1, <1>2, <1>3 DEF GoodSave, KeepsPoint, KeepsPhase, Versioned,
     Candidate, StatusAt, PrepareSteps, MutateSteps, RestoreSteps, RestartSteps,
     MutatePhases, PastCheckpoint, UpgradePhases, Absent, upgradePhaseRank
<1>5. "restore_image" \in EngineSteps /\ StatusAt(job.status, "restore_image")
  BY <1>1, <1>2, <1>3 DEF StatusAt, EngineSteps, PrepareSteps,
     BeforeWriteSteps, MutateSteps, CheckSteps, RestoreSteps, RestartSteps,
     Candidate
<1>6. /\ Saves(job, desired) /\ faults' \in Nat
      /\ UNCHANGED <<hostVars, backupVars, request>>
      /\ \/ Goto("restore_image") /\ jobs' = [jobs EXCEPT ![mine] = job]
         \/ Return
  BY <1>2 DEF CountRestore, updateJob, Update, Saves, fileVars
<1> QED
  BY <1>1, <1>2, <1>4, <1>5, <1>6, RecordSaves DEF DesiredState

\* The restore returned.
LEMMA RestoredSaves == ASSUME TypeInv, Restored PROVE EngineSaves
<1> DEFINE old == jobs[mine]
           job == [old EXCEPT !.step = "check_restored"]
<1>1. pc = "restored" /\ pc \in EngineSteps
  BY DEF Restored, At, EngineSteps
<1>2. /\ old \in Candidate /\ Versioned(old) /\ old.status # Absent
      /\ StatusAt(old.status, pc)
      /\ desired \in DesiredState /\ faults \in Nat /\ faults + 1 \in Nat
      /\ code \in ErrorCode /\ avail \in BOOLEAN
  BY <1>1, MineIsActive DEF TypeInv, FileInv, EngineInv, HostInv
<1>3. /\ job \in Candidate
      /\ job.status = old.status /\ job.target = old.target
      /\ job.cur = old.cur /\ job.rp = old.rp
  BY <1>2, Members DEF Candidate, Versioned
<1>4. GoodSave(job)
  BY <1>1, <1>2, <1>3 DEF GoodSave, KeepsPoint, KeepsPhase, Versioned,
     Candidate, StatusAt, PrepareSteps, MutateSteps, RestoreSteps, RestartSteps,
     MutatePhases, PastCheckpoint, UpgradePhases, Absent, upgradePhaseRank
<1>5. "check_restored" \in EngineSteps /\ StatusAt(job.status, "check_restored")
  BY <1>1, <1>2, <1>3 DEF StatusAt, EngineSteps, PrepareSteps,
     BeforeWriteSteps, MutateSteps, CheckSteps, RestoreSteps, RestartSteps,
     Candidate
<1>6. /\ Saves(job, desired) /\ faults' \in Nat
      /\ UNCHANGED <<hostVars, backupVars, request>>
      /\ \/ Goto("check_restored") /\ jobs' = [jobs EXCEPT ![mine] = job]
         \/ Return
  BY <1>2 DEF Restored, updateJob, Update, Saves, fileVars
<1> QED
  BY <1>1, <1>2, <1>4, <1>5, <1>6, RecordSaves DEF DesiredState

\* A restart attempt is counted before it runs.
LEMMA CountRestartSaves == ASSUME TypeInv, CountRestart PROVE EngineSaves
<1> DEFINE old == jobs[mine]
           job == [old EXCEPT !.attempts = @ + 1]
<1>1. pc = "count_restart" /\ pc \in EngineSteps
  BY DEF CountRestart, At, EngineSteps
<1>2. /\ old \in Candidate /\ Versioned(old) /\ old.status # Absent
      /\ StatusAt(old.status, pc)
      /\ desired \in DesiredState /\ faults \in Nat /\ faults + 1 \in Nat
      /\ code \in ErrorCode /\ avail \in BOOLEAN
  BY <1>1, MineIsActive DEF TypeInv, FileInv, EngineInv, HostInv
<1>3. /\ job \in Candidate
      /\ job.status = old.status /\ job.target = old.target
      /\ job.cur = old.cur /\ job.rp = old.rp
  BY <1>2, Counted DEF Candidate, Versioned
<1>4. GoodSave(job)
  BY <1>1, <1>2, <1>3 DEF GoodSave, KeepsPoint, KeepsPhase, Versioned,
     Candidate, StatusAt, PrepareSteps, MutateSteps, RestoreSteps, RestartSteps,
     MutatePhases, PastCheckpoint, UpgradePhases, Absent, upgradePhaseRank
<1>5. "restart_up" \in EngineSteps /\ StatusAt(job.status, "restart_up")
  BY <1>1, <1>2, <1>3 DEF StatusAt, EngineSteps, PrepareSteps,
     BeforeWriteSteps, MutateSteps, CheckSteps, RestoreSteps, RestartSteps,
     Candidate
<1>6. /\ Saves(job, desired) /\ faults' \in Nat
      /\ UNCHANGED <<hostVars, backupVars, request>>
      /\ \/ Goto("restart_up") /\ jobs' = [jobs EXCEPT ![mine] = job]
         \/ Return
  BY <1>2 DEF CountRestart, updateJob, Update, Saves, fileVars
<1> QED
  BY <1>1, <1>2, <1>4, <1>5, <1>6, RecordSaves DEF DesiredState

\* The target passed its health window.
LEMMA SucceedSaves == ASSUME TypeInv, Succeed PROVE EngineSaves
<1> DEFINE old == jobs[mine]
           job == [old EXCEPT !.status = "succeeded", !.step = "complete",
                         !.svc = TRUE, !.cur = old.target,
                         !.safe = old.target, !.code = ""]
<1>1. pc = "succeed" /\ pc \in EngineSteps
  BY DEF Succeed, At, EngineSteps
<1>2. /\ old \in Candidate /\ Versioned(old) /\ old.status # Absent
      /\ StatusAt(old.status, pc)
      /\ desired \in DesiredState /\ faults \in Nat /\ faults + 1 \in Nat
      /\ code \in ErrorCode /\ avail \in BOOLEAN
  BY <1>1, MineIsActive DEF TypeInv, FileInv, EngineInv, HostInv
<1>3. /\ job \in Candidate
      /\ job.status = "succeeded" /\ job.target = old.target
      /\ job.cur = old.target /\ job.rp = old.rp
  BY <1>2, Members DEF Candidate, Versioned
<1>4. GoodSave(job)
  BY <1>2, <1>3, Members DEF GoodSave, KeepsPoint, KeepsPhase, Versioned,
     Candidate, PastCheckpoint, UpgradePhases
<1>5. /\ Saves(job, "running") /\ faults' \in Nat
      /\ UNCHANGED <<hostVars, backupVars, request>>
      /\ Return
  BY <1>2 DEF Succeed, Update, Saves, fileVars
<1> QED
  BY <1>1, <1>4, <1>5, RecordSaves DEF DesiredState

\* A failure that ends the job where it stands.
LEMMA FailBeforeMutationSaves == ASSUME TypeInv, FailBeforeMutation PROVE EngineSaves
<1> DEFINE old == jobs[mine]
           job == [old EXCEPT !.status = "failed", !.step = "complete",
                         !.svc = avail, !.safe = old.cur, !.code = code]
<1>1. pc = "fail_before_mutation" /\ pc \in EngineSteps
  BY DEF FailBeforeMutation, At, EngineSteps
<1>2. /\ old \in Candidate /\ Versioned(old) /\ old.status # Absent
      /\ StatusAt(old.status, pc)
      /\ desired \in DesiredState /\ faults \in Nat /\ faults + 1 \in Nat
      /\ code \in ErrorCode /\ avail \in BOOLEAN
  BY <1>1, MineIsActive DEF TypeInv, FileInv, EngineInv, HostInv
<1>3. /\ job \in Candidate
      /\ job.status = "failed" /\ job.target = old.target
      /\ job.cur = old.cur /\ job.rp = old.rp
  BY <1>2, Members DEF Candidate, Versioned
<1>4. GoodSave(job)
  BY <1>2, <1>3, Members DEF GoodSave, KeepsPoint, KeepsPhase, Versioned,
     Candidate, PastCheckpoint, UpgradePhases
<1>5. /\ Saves(job, "running") /\ faults' \in Nat
      /\ UNCHANGED <<hostVars, backupVars, request>>
      /\ Return
  BY <1>2 DEF FailBeforeMutation, Update, Saves, fileVars
<1> QED
  BY <1>1, <1>4, <1>5, RecordSaves DEF DesiredState

\* The restored source passed its health window: the recovery point, which
\* a job that is rolling back has, gives the version.
LEMMA RollBackSaves == ASSUME TypeInv, RollBack PROVE EngineSaves
<1> DEFINE old == jobs[mine]
           job == [old EXCEPT !.status = "rolled_back", !.step = "complete",
                         !.svc = TRUE, !.safe = old.rp.ver,
                         !.cur = old.rp.ver]
<1>1. pc = "roll_back" /\ pc \in EngineSteps
  BY DEF RollBack, At, EngineSteps
<1>2. /\ old \in Candidate /\ Versioned(old) /\ old.status # Absent
      /\ StatusAt(old.status, pc)
      /\ desired \in DesiredState /\ faults \in Nat /\ faults + 1 \in Nat
      /\ code \in ErrorCode /\ avail \in BOOLEAN
  BY <1>1, MineIsActive DEF TypeInv, FileInv, EngineInv, HostInv
<1>r. old.rp \in RecoveryPoint /\ old.rp.ver \in Version
  <2>1. old.status = "rolling_back"
    BY <1>1, <1>2 DEF StatusAt, RestoreSteps
  <2>2. normalizeAndValidate(jobs, desired) /\ mine \in JobId
    BY <1>1, MineIsActive DEF TypeInv, FileInv
  <2>3. validateExecutionState(mine, old)
    BY <1>2, <2>2 DEF normalizeAndValidate
  <2>4. old.rp # NoPoint
    BY <2>1, <2>3 DEF validateExecutionState
  <2> QED BY <1>2, <2>4 DEF Candidate, RecoveryPoint
<1>3. /\ job \in Candidate
      /\ job.status = "rolled_back" /\ job.target = old.target
      /\ job.cur = old.rp.ver /\ job.rp = old.rp
  BY <1>2, Members, <1>r DEF Candidate, Versioned
<1>4. GoodSave(job)
  BY <1>2, <1>3, Members, <1>r DEF GoodSave, KeepsPoint, KeepsPhase, Versioned,
     Candidate, PastCheckpoint, UpgradePhases
<1>5. /\ Saves(job, "running") /\ faults' \in Nat
      /\ UNCHANGED <<hostVars, backupVars, request>>
      /\ Return
  BY <1>2 DEF RollBack, Update, Saves, fileVars
<1> QED
  BY <1>1, <1>4, <1>5, RecordSaves DEF DesiredState

\* A restart passed its health window.
LEMMA RestartDoneSaves == ASSUME TypeInv, RestartDone PROVE EngineSaves
<1> DEFINE old == jobs[mine]
           job == [old EXCEPT !.status = "failed", !.step = "complete",
                         !.svc = TRUE]
<1>1. pc = "restart_done" /\ pc \in EngineSteps
  BY DEF RestartDone, At, EngineSteps
<1>2. /\ old \in Candidate /\ Versioned(old) /\ old.status # Absent
      /\ StatusAt(old.status, pc)
      /\ desired \in DesiredState /\ faults \in Nat /\ faults + 1 \in Nat
      /\ code \in ErrorCode /\ avail \in BOOLEAN
  BY <1>1, MineIsActive DEF TypeInv, FileInv, EngineInv, HostInv
<1>3. /\ job \in Candidate
      /\ job.status = "failed" /\ job.target = old.target
      /\ job.cur = old.cur /\ job.rp = old.rp
  BY <1>2, Members DEF Candidate, Versioned
<1>4. GoodSave(job)
  BY <1>2, <1>3, Members DEF GoodSave, KeepsPoint, KeepsPhase, Versioned,
     Candidate, PastCheckpoint, UpgradePhases
<1>5. /\ Saves(job, "running") /\ faults' \in Nat
      /\ UNCHANGED <<hostVars, backupVars, request>>
      /\ Return
  BY <1>2 DEF RestartDone, Update, Saves, fileVars
<1> QED
  BY <1>1, <1>4, <1>5, RecordSaves DEF DesiredState


\* Phases are compared by their rank.
LEMMA RankIsNumber == \A p \in UpgradePhases : upgradePhaseRank(p) \in 0..6
  BY DEF UpgradePhases, upgradePhaseRank

\* The rollback begins, or a job without a recovery point fails.
LEMMA BeginRollbackSaves == ASSUME TypeInv, BeginRollback PROVE EngineSaves
<1> DEFINE old == jobs[mine]
           job == [old EXCEPT !.status = "rolling_back",
                              !.step = "restore_backup", !.svc = FALSE,
                              !.code = code]
<1>1. pc = "begin_rollback" /\ pc \in EngineSteps
  BY DEF BeginRollback, At, EngineSteps
<1>2. /\ old \in Candidate /\ Versioned(old) /\ old.status # Absent
      /\ old.status \in MutatePhases \union {"health_check"}
      /\ desired \in DesiredState /\ faults \in Nat /\ faults + 1 \in Nat
      /\ code \in ErrorCode
  BY <1>1, MineIsActive
     DEF TypeInv, FileInv, EngineInv, HostInv, StatusAt
<1>3. /\ job \in Candidate
      /\ job.status = "rolling_back" /\ job.target = old.target
      /\ job.cur = old.cur /\ job.rp = old.rp
  BY <1>2, Members DEF Candidate, Versioned
<1>4. GoodSave(job) /\ GoodSave(old)
  <2>1. KeepsPhase(old)
    BY RankIsNumber DEF KeepsPhase
  <2>2. KeepsPhase(job)
    BY <1>3 DEF KeepsPhase, UpgradePhases
  <2> QED
    BY <1>2, <1>3, <2>1, <2>2, Members DEF GoodSave, KeepsPoint, Versioned,
       PastCheckpoint, MutatePhases
<1>5. CASE old.rp = NoPoint
  <2>1. /\ UNCHANGED fileVars /\ FailBefore(code, FALSE) /\ faults' \in Nat
        /\ UNCHANGED <<hostVars, backupVars, request>>
    BY <1>2, <1>5 DEF BeginRollback
  <2>2. Moves
    BY <1>2, <2>1 DEF Moves, fileVars, MutatePhases, UpgradePhases
  <2> QED
    BY <1>1, <1>2, <1>4, <2>1, <2>2 DEF EngineSaves, Saves
<1>6. CASE old.rp # NoPoint
  <2>1. /\ Saves(job, desired) /\ faults' \in Nat
        /\ UNCHANGED <<hostVars, backupVars, request>>
        /\ \/ Goto("count_restore") /\ jobs' = [jobs EXCEPT ![mine] = job]
           \/ Return
    BY <1>2, <1>6 DEF BeginRollback, updateJob, Update, Saves, fileVars
  <2>2. "count_restore" \in EngineSteps
          /\ StatusAt(job.status, "count_restore")
    BY <1>3 DEF StatusAt, EngineSteps, PrepareSteps, BeforeWriteSteps,
       MutateSteps, CheckSteps, RestoreSteps, RestartSteps
  <2> QED BY <1>1, <1>2, <1>4, <2>1, <2>2, RecordSaves
<1> QED BY <1>5, <1>6

\* A failed recovery attempt is recorded, or ends the job in maintenance.
LEMMA RecoveryFailureSaves ==
  ASSUME TypeInv, RecordRecoveryFailure PROVE EngineSaves
<1> DEFINE old == jobs[mine]
           ended == [old EXCEPT !.status = "failed", !.step = "complete",
                                !.svc = FALSE, !.code = "rollback_failed"]
           again == [old EXCEPT !.svc = FALSE, !.step = "restore_backup"]
<1>1. pc = "recovery_failed" /\ pc \in EngineSteps
  BY DEF RecordRecoveryFailure, At, EngineSteps
<1>2. /\ old \in Candidate /\ Versioned(old) /\ old.status # Absent
      /\ old.status = "rolling_back"
      /\ desired \in DesiredState /\ faults \in Nat /\ faults + 1 \in Nat
  BY <1>1, MineIsActive
     DEF TypeInv, FileInv, EngineInv, HostInv, StatusAt, RestoreSteps
<1>3. /\ ended \in Candidate /\ again \in Candidate
      /\ ended.status = "failed" /\ again.status = old.status
      /\ ended.target = old.target /\ again.target = old.target
      /\ ended.cur = old.cur /\ again.cur = old.cur
      /\ ended.rp = old.rp /\ again.rp = old.rp
  BY <1>2, Members DEF Candidate, Versioned
<1>4. GoodSave(ended) /\ GoodSave(again)
  BY <1>2, <1>3, Members DEF GoodSave, KeepsPoint, KeepsPhase, Versioned,
     PastCheckpoint, UpgradePhases
<1>5. /\ Saves(ended, "maintenance") \/ Saves(again, desired)
      /\ faults' \in Nat
      /\ UNCHANGED <<hostVars, backupVars, request>>
      /\ Return
  BY <1>2 DEF RecordRecoveryFailure, updateJob, Update, Saves, fileVars
<1> QED
  BY <1>1, <1>2, <1>4, <1>5, RecordSaves DEF DesiredState

\* A failed restart attempt is recorded, or ends the job in maintenance.
LEMMA RestartFailureSaves ==
  ASSUME TypeInv, RestartFailed PROVE EngineSaves
<1> DEFINE old == jobs[mine]
           ended == [old EXCEPT !.status = "failed", !.step = "complete",
                                !.svc = FALSE, !.code = "restart_failed"]
           again == [old EXCEPT !.svc = FALSE]
<1>1. pc = "restart_failed" /\ pc \in EngineSteps
  BY DEF RestartFailed, At, EngineSteps
<1>2. /\ old \in Candidate /\ Versioned(old) /\ old.status # Absent
      /\ old.status = "restarting"
      /\ desired \in DesiredState /\ faults \in Nat /\ faults + 1 \in Nat
  BY <1>1, MineIsActive
     DEF TypeInv, FileInv, EngineInv, HostInv, StatusAt, RestartSteps
<1>3. /\ ended \in Candidate /\ again \in Candidate
      /\ ended.status = "failed" /\ again.status = old.status
      /\ ended.target = old.target /\ again.target = old.target
      /\ ended.cur = old.cur /\ again.cur = old.cur
      /\ ended.rp = old.rp /\ again.rp = old.rp
  BY <1>2, Members DEF Candidate, Versioned
<1>4. GoodSave(ended) /\ GoodSave(again)
  BY <1>2, <1>3, Members DEF GoodSave, KeepsPoint, KeepsPhase, Versioned,
     PastCheckpoint, UpgradePhases
<1>5. /\ Saves(ended, "maintenance") \/ Saves(again, desired)
      /\ faults' \in Nat
      /\ UNCHANGED <<hostVars, backupVars, request>>
      /\ Return
  BY <1>2 DEF RestartFailed, updateJob, Update, Saves, fileVars
<1> QED
  BY <1>1, <1>2, <1>4, <1>5, RecordSaves DEF DesiredState

-----------------------------------------------------------------------------
(***************************************************************************)
(* The steps that work on the host and save nothing.                       *)
(***************************************************************************)
\* Such a step keeps the typing invariant if it keeps the host typed and
\* continues at a step that its job's status belongs to.
LEMMA HostTypes ==
  ASSUME TypeInv, pc \in EngineSteps, UNCHANGED <<fileVars, request, faults>>,
         Moves,
         /\ env' \in Version /\ running' \in Version \union {0}
         /\ data' \in Data
         /\ slot' \in RecoveryPoint \union {NoPoint}
         /\ retiring' \in RecoveryPoint \union {NoPoint}
  PROVE  TypeInv'
<1>1. FileInv'
  BY DEF TypeInv, FileInv, fileVars, Typed, Versioned, normalizeAndValidate,
     hasActiveJob
<1>2. HostInv'
  BY DEF TypeInv, HostInv, gateFree
<1> QED BY <1>1, <1>2, MovesEngine DEF TypeInv

\* The steps of the backup.
LEMMA PrepareTypes ==
  ASSUME TypeInv,
         SourceReady \/ BeginAndStop \/ Dump \/ SourceRestored \/ Commit
  PROVE  TypeInv'
<1>1. pc \in EngineSteps /\ pc \in PrepareSteps
  BY DEF SourceReady, BeginAndStop, Dump, SourceRestored, Commit, At,
     EngineSteps, PrepareSteps
<1>2. /\ jobs[mine].status \in {"validating", "backing_up"}
      /\ mine \in JobId /\ Versioned(jobs[mine])
      /\ HostInv /\ dumped \in Data
  BY <1>1, MineIsActive DEF TypeInv, EngineInv, StatusAt
<1>3. ASSUME UNCHANGED fileVars,
             \/ \E a \in BOOLEAN : BackupFails(a)
             \/ \E s \in PrepareSteps : Goto(s)
      PROVE  Moves
  <2>1. jobs'[mine].status \in UpgradePhases
    BY <1>2, <1>3 DEF fileVars, UpgradePhases
  <2>2. \A s \in PrepareSteps :
           s \in EngineSteps /\ StatusAt(jobs'[mine].status, s)
    BY <1>2, <1>3 DEF fileVars, StatusAt, EngineSteps, PrepareSteps,
       BeforeWriteSteps, MutateSteps, CheckSteps, RestoreSteps, RestartSteps
  <2>3. "backup_failed" \in ErrorCode
    BY DEF ErrorCode
  <2> QED BY <1>3, <2>1, <2>2, <2>3 DEF Moves, BackupFails
<1>4. CASE SourceReady
  <2>1. \/ \E a \in BOOLEAN : BackupFails(a)
        \/ Goto("prepare_backing_up")
    BY <1>4 DEF SourceReady, ensureDirectSourceReady
  <2>2. running' \in Version \union {0}
    BY <1>2, <1>4 DEF SourceReady, ensureDirectSourceReady, UpFails, HostInv
  <2> QED
    BY <1>1, <1>2, <1>3, <1>4, <2>1, <2>2, HostTypes
       DEF SourceReady, HostInv, backupVars, PrepareSteps
<1>5. CASE BeginAndStop
  <2>1. \/ \E a \in BOOLEAN : BackupFails(a)
        \/ Goto("dump")
    BY <1>5 DEF BeginAndStop
  <2>2. running' \in Version \union {0}
    BY <1>2, <1>5 DEF BeginAndStop, HostInv
  <2> QED
    BY <1>1, <1>2, <1>3, <1>5, <2>1, <2>2, HostTypes
       DEF BeginAndStop, HostInv, backupVars, PrepareSteps
<1>6. CASE Dump
  <2>1. EngineInv'
    BY <1>2, <1>6 DEF Dump, TypeInv, EngineInv, HostInv, fileVars, hostVars,
       StatusAt, EngineSteps, PrepareSteps, BeforeWriteSteps, MutateSteps,
       CheckSteps, RestoreSteps, RestartSteps
  <2>2. FileInv'
    BY <1>6 DEF Dump, TypeInv, FileInv, fileVars, Typed, Versioned,
       normalizeAndValidate, hasActiveJob
  <2>3. HostInv'
    BY <1>2, <1>6 DEF Dump, HostInv, hostVars, backupVars, gateFree
  <2> QED BY <2>1, <2>2, <2>3 DEF TypeInv
<1>7. CASE SourceRestored
  <2>1. \/ \E a \in BOOLEAN : BackupFails(a)
        \/ Goto("commit")
    BY <1>7 DEF SourceRestored, ensureDirectSourceReady
  <2>2. running' \in Version \union {0}
    BY <1>2, <1>7
       DEF SourceRestored, ensureDirectSourceReady, UpFails, HostInv
  <2> QED
    BY <1>1, <1>2, <1>3, <1>7, <2>1, <2>2, HostTypes
       DEF SourceRestored, HostInv, backupVars, PrepareSteps
<1>8. CASE Commit
  <2> DEFINE new == [job |-> mine, ver |-> jobs[mine].cur, data |-> dumped]
  <2>1. new \in RecoveryPoint
    BY <1>2 DEF RecoveryPoint, Versioned
  <2>2. \/ \E a \in BOOLEAN : BackupFails(a)
        \/ Goto("checkpoint")
    BY <1>8 DEF Commit
  <2>3. slot' \in {slot, new, NoPoint} /\ retiring' \in {retiring, slot, NoPoint}
    BY <1>8 DEF Commit, backupVars
  <2> QED
    BY <1>1, <1>2, <1>3, <1>8, <2>1, <2>2, <2>3, HostTypes
       DEF Commit, HostInv, hostVars, PrepareSteps
<1> QED BY <1>4, <1>5, <1>6, <1>7, <1>8

\* Membership of the steps that the host steps continue at.
LEMMA StepStatus ==
  /\ \A status \in MutatePhases \union {"pulling"} :
        StatusAt(status, "activate_stopping")
  /\ \A status \in MutatePhases :
        /\ StatusAt(status, "activate_migrating")
        /\ StatusAt(status, "activate_starting")
  /\ StatusAt("health_check", "succeed")
  /\ \A s \in RestoreSteps : StatusAt("rolling_back", s) /\ s \in EngineSteps
  /\ \A s \in RestartSteps : StatusAt("restarting", s) /\ s \in EngineSteps
  BY DEF StatusAt, EngineSteps, PrepareSteps, BeforeWriteSteps, MutateSteps,
     CheckSteps, RestoreSteps, RestartSteps, MutatePhases

\* The steps of the activation.
LEMMA ActivateTypes ==
  ASSUME TypeInv, Pull \/ WriteImage \/ Recreate \/ CheckDirectTarget
  PROVE  TypeInv'
<1>1. pc \in EngineSteps
  BY DEF Pull, WriteImage, Recreate, CheckDirectTarget, At, EngineSteps
<1> DEFINE status == jobs[mine].status
<1>2. /\ mine \in JobId /\ Versioned(jobs[mine]) /\ HostInv
      /\ StatusAt(status, pc)
  BY <1>1, MineIsActive DEF TypeInv, EngineInv
<1>3. "target_activation_failed" \in ErrorCode
        /\ "target_health_failed" \in ErrorCode
  BY DEF ErrorCode
<1>4. CASE Pull
  <2>1. status \in MutatePhases \union {"pulling"}
    BY <1>2, <1>4 DEF Pull, At, StatusAt, BeforeWriteSteps
  <2>2. Moves
    BY <1>3, <1>4, <2>1, StepStatus DEF Pull, NotActivated, Moves, fileVars,
       EngineSteps, UpgradePhases, MutatePhases
  <2> QED
    BY <1>1, <1>2, <1>4, <2>2, HostTypes
       DEF Pull, HostInv, hostVars, backupVars
<1>5. CASE WriteImage
  <2>1. status \in MutatePhases
    BY <1>2, <1>5 DEF WriteImage, At, StatusAt, MutateSteps
  <2>2. Moves
    BY <1>3, <1>5, <2>1, StepStatus
       DEF WriteImage, HalfActivated, Moves, fileVars, EngineSteps
  <2> QED
    BY <1>1, <1>2, <1>5, <2>2, HostTypes
       DEF WriteImage, HostInv, backupVars, Versioned
<1>6. CASE Recreate
  <2>1. status \in MutatePhases
    BY <1>2, <1>6 DEF Recreate, At, StatusAt, MutateSteps
  <2>2. Moves
    BY <1>3, <1>6, <2>1, StepStatus
       DEF Recreate, HalfActivated, Moves, fileVars, EngineSteps
  <2> QED
    BY <1>1, <1>2, <1>6, <2>2, HostTypes
       DEF Recreate, UpFails, HostInv, backupVars
<1>7. CASE CheckDirectTarget
  <2>1. status = "health_check"
    BY <1>2, <1>7 DEF CheckDirectTarget, At, StatusAt, CheckSteps
  <2>2. Moves
    BY <1>3, <1>7, <2>1, StepStatus
       DEF CheckDirectTarget, Moves, fileVars, EngineSteps
  <2> QED
    BY <1>1, <1>2, <1>7, <2>2, HostTypes
       DEF CheckDirectTarget, HostInv, hostVars, backupVars
<1> QED BY <1>4, <1>5, <1>6, <1>7

\* The steps of the restore.
LEMMA RestoreTypes ==
  ASSUME TypeInv,
         RestoreImage \/ RestoreStop \/ Wipe \/ RestoreData \/ RestoreUp
           \/ CheckRestored
  PROVE  TypeInv'
<1>1. pc \in EngineSteps /\ pc \in RestoreSteps
  BY DEF RestoreImage, RestoreStop, Wipe, RestoreData, RestoreUp,
     CheckRestored, At, EngineSteps, RestoreSteps
<1>2. /\ mine \in JobId /\ HostInv /\ jobs[mine].status = "rolling_back"
      /\ jobs[mine].rp # NoPoint
  <2>1. /\ mine \in JobId /\ HostInv /\ jobs[mine].status = "rolling_back"
        /\ normalizeAndValidate(jobs, desired) /\ jobs[mine].status # Absent
    BY <1>1, MineIsActive DEF TypeInv, FileInv, EngineInv, StatusAt
  <2>2. validateExecutionState(mine, jobs[mine])
    BY <2>1 DEF normalizeAndValidate
  <2> QED BY <2>1, <2>2 DEF validateExecutionState
<1>3. UNCHANGED fileVars /\ (\E s \in RestoreSteps : Goto(s)) => Moves
  BY <1>2, StepStatus DEF Moves, fileVars
<1>4. CASE RestoreImage
  <2>1. env' \in Version
    BY <1>2, <1>4 DEF RestoreImage, HostInv, RecoveryPoint
  <2> QED
    BY <1>1, <1>2, <1>3, <1>4, <2>1, HostTypes
       DEF RestoreImage, HostInv, backupVars, RestoreSteps
<1>5. CASE RestoreStop
  BY <1>1, <1>2, <1>3, <1>5, HostTypes
     DEF RestoreStop, HostInv, backupVars, RestoreSteps
<1>6. CASE Wipe
  BY <1>1, <1>2, <1>3, <1>6, HostTypes
     DEF Wipe, HostInv, backupVars, RestoreSteps, Data
<1>7. CASE RestoreData
  <2>1. slot.data \in Data
    BY <1>2 DEF HostInv, RecoveryPoint, NoPoint, Data
  <2> QED
    BY <1>1, <1>2, <1>3, <1>7, <2>1, HostTypes
       DEF RestoreData, HostInv, backupVars, RestoreSteps
<1>8. CASE RestoreUp
  BY <1>1, <1>2, <1>3, <1>8, HostTypes
     DEF RestoreUp, UpFails, HostInv, backupVars, RestoreSteps
<1>9. CASE CheckRestored
  BY <1>1, <1>2, <1>3, <1>9, HostTypes
     DEF CheckRestored, HostInv, hostVars, backupVars, RestoreSteps
<1> QED BY <1>4, <1>5, <1>6, <1>7, <1>8, <1>9

\* The steps of the restart.
LEMMA RestartTypes ==
  ASSUME TypeInv, RestartUp \/ RestartCheck
  PROVE  TypeInv'
<1>1. pc \in EngineSteps /\ pc \in RestartSteps
  BY DEF RestartUp, RestartCheck, At, EngineSteps, RestartSteps
<1>2. mine \in JobId /\ HostInv /\ jobs[mine].status = "restarting"
  BY <1>1, MineIsActive DEF TypeInv, EngineInv, StatusAt
<1>3. UNCHANGED fileVars /\ (\E s \in RestartSteps : Goto(s)) => Moves
  BY <1>2, StepStatus DEF Moves, fileVars
<1>4. CASE RestartUp
  BY <1>1, <1>2, <1>3, <1>4, HostTypes
     DEF RestartUp, UpFails, HostInv, backupVars, RestartSteps
<1>5. CASE RestartCheck
  BY <1>1, <1>2, <1>3, <1>5, HostTypes
     DEF RestartCheck, HostInv, hostVars, backupVars, RestartSteps
<1> QED BY <1>4, <1>5

-----------------------------------------------------------------------------
(***************************************************************************)
(* The checkpoint, the start of a run, the control routes and the          *)
(* environment.                                                            *)
(***************************************************************************)
\* The checkpoint changes the engine's job and takes the recovery points of the
\* finished ones.
LEMMA CheckpointTypes == ASSUME TypeInv, Checkpoint PROVE TypeInv'
<1> DEFINE point == [job |-> mine, ver |-> jobs[mine].cur, data |-> dumped]
           js == withRecoveryPoint(jobs, mine, point)
<1>1. pc = "checkpoint" /\ pc \in EngineSteps
  BY DEF Checkpoint, At, EngineSteps
<1>2. /\ mine \in JobId /\ Versioned(jobs[mine]) /\ dumped \in Data
      /\ Typed(jobs) /\ jobs[mine].status # Absent
      /\ faults \in Nat /\ desired \in DesiredState
  BY <1>1, MineIsActive DEF TypeInv, FileInv, EngineInv, HostInv
<1>3. point \in RecoveryPoint
  BY <1>2 DEF RecoveryPoint, Versioned
<1>4. /\ \A j \in JobId : js[j] \in Job /\ Versioned(jobs[j]) => Versioned(js[j])
      /\ js[mine].status = "pulling"
      /\ js \in [JobId -> Job]
      /\ \A j \in JobId : js[j].status # Absent => Versioned(js[j])
  <2>1. [jobs[mine] EXCEPT !.rp = point, !.status = "pulling",
                           !.step = "phase", !.svc = TRUE] \in Job
    <3>1. "pulling" \in JobStatus /\ "phase" \in JobStep
      BY DEF JobStatus, ActiveStatus, UpgradePhases, JobStep
    <3> QED BY <1>2, <1>3, <3>1 DEF Typed, Job
  <2>2. js[mine] = [jobs[mine] EXCEPT !.rp = point, !.status = "pulling",
                                      !.step = "phase", !.svc = TRUE]
    BY <1>2 DEF withRecoveryPoint
  <2>3. js[mine].status = "pulling" /\ Versioned(js[mine])
    <3>1. jobs[mine] \in Job
      BY <1>2 DEF Typed
    <3>2. ASSUME NEW job \in Job, NEW p
          PROVE  LET new == [job EXCEPT !.rp = p, !.status = "pulling",
                                        !.step = "phase", !.svc = TRUE]
                 IN  /\ new.status = "pulling"
                     /\ new.cur = job.cur /\ new.target = job.target
      BY DEF Job
    <3> HIDE DEF js, point
    <3> QED BY <1>2, <2>2, <3>1, <3>2 DEF Versioned
  <2>4. ASSUME NEW j \in JobId \ {mine}
        PROVE  /\ js[j] \in Job
               /\ js[j].status = jobs[j].status
               /\ js[j].cur = jobs[j].cur /\ js[j].target = jobs[j].target
    <3>1. js[j] = jobs[j] \/ js[j] = [jobs[j] EXCEPT !.rp = NoPoint]
      BY DEF withRecoveryPoint
    <3>2. jobs[j] \in Job
      BY <1>2 DEF Typed
    <3>3. [jobs[j] EXCEPT !.rp = NoPoint] \in Job
      BY <3>2 DEF Job
    <3> QED BY <3>1, <3>2, <3>3 DEF Job
  <2>5. js = [j \in JobId |-> js[j]]
    BY DEF withRecoveryPoint
  <2> QED
    BY <1>2, <2>1, <2>2, <2>3, <2>4, <2>5 DEF Typed, Versioned
<1>5. /\ \/ UNCHANGED fileVars
         \/ jobs' = js /\ desired' = desired /\ normalizeAndValidate(js, desired)
      /\ \/ Return
         \/ Goto("activate_pulling") /\ jobs' = js
      /\ faults' \in Nat
      /\ UNCHANGED <<hostVars, backupVars, request>>
  BY <1>2 DEF Checkpoint, Update, fileVars
<1>6. FileInv'
  <2>1. CASE UNCHANGED fileVars
    BY <2>1 DEF TypeInv, FileInv, fileVars, Typed, Versioned,
       normalizeAndValidate, hasActiveJob
  <2>2. CASE jobs' = js /\ desired' = desired /\ normalizeAndValidate(js, desired)
    <3>1. Typed(js)
      BY <1>4 DEF Typed
    <3> QED
      BY <1>2, <2>2, <3>1 DEF FileInv, Typed, normalizeAndValidate, hasActiveJob
  <2> QED BY <1>5, <2>1, <2>2
<1>7. Moves
  <2>1. StatusAt("pulling", "activate_pulling")
    BY DEF StatusAt, PrepareSteps, BeforeWriteSteps, MutateSteps, CheckSteps,
       RestoreSteps, RestartSteps
  <2> QED BY <1>4, <1>5, <2>1 DEF Moves, EngineSteps
<1>8. HostInv'
  BY <1>5 DEF TypeInv, HostInv, hostVars, backupVars, gateFree
<1> QED BY <1>1, <1>6, <1>7, <1>8, MovesEngine DEF TypeInv

\* RunActive resumes a job at a step its status belongs to.
LEMMA RunActiveTypes == ASSUME TypeInv, RunActive PROVE TypeInv'
<1>1. PICK j \in JobId : active(jobs[j]) /\ mine' = j /\ pc' = Resume(jobs[j])
  BY DEF RunActive
<1>2. Resume(jobs[j]) \in EngineSteps
        /\ StatusAt(jobs[j].status, Resume(jobs[j]))
  <2>1. jobs[j].status \in ActiveStatus
    BY <1>1 DEF active
  <2> QED
    BY <2>1 DEF Resume, ActiveStatus, UpgradePhases, StatusAt, EngineSteps,
       PrepareSteps, BeforeWriteSteps, MutateSteps, CheckSteps, RestoreSteps,
       RestartSteps, MutatePhases
<1>3. FileInv'
  BY DEF RunActive, TypeInv, FileInv, fileVars, Typed, Versioned,
     normalizeAndValidate, hasActiveJob
<1>4. EngineInv'
  BY <1>1, <1>2 DEF RunActive, TypeInv, EngineInv, fileVars
<1>5. HostInv'
  BY DEF RunActive, TypeInv, HostInv, hostVars, backupVars, gateFree
<1> QED BY <1>3, <1>4, <1>5 DEF TypeInv

\* A control route leaves the engine's job alone: while there is one, no other
\* job can be created or restarted.
LEMMA ControlTypes ==
  ASSUME TypeInv, ControlStep
  PROVE  TypeInv' /\ (pc \in EngineSteps => jobs'[mine] = jobs[mine])
<1>1. ASSUME UNCHANGED fileVars, controlUnchanged, faults' \in Nat,
             request' \in [waiting : BOOLEAN, target : Version \union {0},
                           cur : Version \union {0}],
             (request.cur = 0 => request'.target \in Version
                                  \/ request'.cur = 0)
                 /\ (request.cur # 0 =>
                       \/ request'.target = request.target
                       \/ request'.cur = 0)
      PROVE  TypeInv' /\ (pc \in EngineSteps => jobs'[mine] = jobs[mine])
  <2>1. FileInv'
    BY <1>1 DEF TypeInv, FileInv, fileVars, Typed, Versioned,
       normalizeAndValidate, hasActiveJob
  <2>2. EngineInv'
    BY <1>1 DEF TypeInv, EngineInv, fileVars, engineVars, controlUnchanged
  <2>3. HostInv'
    BY <1>1 DEF TypeInv, HostInv, hostVars, backupVars, controlUnchanged,
       gateFree
  <2> QED BY <1>1, <2>1, <2>2, <2>3 DEF TypeInv, fileVars
<1> DEFINE Request == [waiting : BOOLEAN, target : Version \union {0},
                        cur : Version \union {0}]
<1>r. request \in Request /\ faults \in Nat
  BY DEF TypeInv, HostInv
<1>f. /\ faults \in Nat /\ faults + 1 \in Nat
      /\ request \in Request
      /\ [request EXCEPT !.target = 0, !.cur = 0] \in Request
  <2>1. faults + 1 \in Nat
    BY <1>r
  <2>2. [request EXCEPT !.target = 0, !.cur = 0] \in Request
    BY <1>r, Zenon
  <2> QED BY <1>r, <2>1, <2>2
<1>2. CASE CreatePreflight
  <2>1. request' = [request EXCEPT !.waiting = TRUE]
    BY <1>2 DEF CreatePreflight
  <2>2. /\ request' \in Request
        /\ request'.target = request.target /\ request'.cur = request.cur
    BY <1>r, <2>1
  <2>3. UNCHANGED fileVars /\ controlUnchanged /\ faults' = faults
    BY <1>2 DEF CreatePreflight
  <2> QED
    BY <1>1, <1>r, <2>2, <2>3
<1>3. CASE CreateReadVersion
  <2>1. PICK t \in Version :
          request' = [request EXCEPT !.target = t, !.cur = env]
    BY <1>3 DEF CreateReadVersion
  <2>2. request.cur = 0 /\ UNCHANGED fileVars /\ controlUnchanged
          /\ faults' = faults /\ env \in Version
    BY <1>3 DEF CreateReadVersion, gateFree, TypeInv, HostInv
  <2>3. request' \in Request /\ request'.target = t
    BY <1>r, <2>1, <2>2
  <2> QED BY <1>1, <1>r, <2>2, <2>3
<1>4. ASSUME NEW j \in JobId, NEW STATE job, job \in Candidate,
             job.status # Absent, Versioned(job),
             NEW STATE want, want \in DesiredState,
             pc \in EngineSteps => mine # j,
             jobs' = [jobs EXCEPT ![j] = job], desired' = want,
             normalizeAndValidate([jobs EXCEPT ![j] = job], want),
             faults' \in Nat, controlUnchanged,
             request' = request \/ Answered
      PROVE  TypeInv' /\ (pc \in EngineSteps => jobs'[mine] = jobs[mine])
  <2>1. Typed([jobs EXCEPT ![j] = job])
    BY <1>4, OneJobSaved DEF TypeInv, FileInv
  <2>2. FileInv'
    BY <1>4, <2>1 DEF FileInv, Typed, normalizeAndValidate, hasActiveJob
  <2>3. pc \in EngineSteps => jobs'[mine] = jobs[mine]
    BY <1>4, MineIsActive DEF TypeInv, FileInv, Typed
  <2>4. EngineInv'
    BY <1>4, <2>3 DEF TypeInv, EngineInv, engineVars, controlUnchanged
  <2>5. HostInv'
    BY <1>4, <1>f DEF TypeInv, HostInv, hostVars, backupVars, controlUnchanged,
       gateFree, Answered
  <2> QED BY <2>2, <2>3, <2>4, <2>5 DEF TypeInv
<1>5. CASE CreateSave
  <2>1. CASE UNCHANGED fileVars
    <3>1. request' = [request EXCEPT !.target = 0, !.cur = 0]
            /\ faults' \in Nat /\ controlUnchanged
      BY <1>5, <1>f DEF CreateSave, Update, Answered
    <3>2. request'.cur = 0
      BY <3>1, <1>f
    <3> QED BY <1>1, <1>f, <2>1, <3>1, <3>2
  <2>2. CASE ~UNCHANGED fileVars
    <3> DEFINE new == newJob(request.cur, request.target)
    <3>1. PICK j \in JobId :
            /\ jobs' = [jobs EXCEPT ![j] = new] /\ desired' = "upgrading"
            /\ normalizeAndValidate([jobs EXCEPT ![j] = new], "upgrading")
            /\ faults' \in Nat /\ Answered /\ controlUnchanged
            /\ ~hasActiveJob(jobs)
      BY <1>5, <1>f, <2>2 DEF CreateSave, Update, fileVars
    <3>2. request.cur \in Version /\ request.target \in Version
      BY <1>5 DEF CreateSave, TypeInv, HostInv, gateFree
    <3>3. new \in Candidate /\ new.status # Absent /\ Versioned(new)
      <4>1. 0 \in Nat /\ "" \in ErrorCode
        BY DEF ErrorCode
      <4> QED
        BY <3>2, <4>1, Members DEF newJob, NoSuchJob, Candidate, Versioned
    <3>4. pc \notin EngineSteps
      BY <3>1, MineIsActive
    <3> QED
      BY <1>4, <3>1, <3>3, <3>4 DEF DesiredState
  <2> QED BY <2>1, <2>2
<1>6. CASE StartRestart
  <2>1. CASE UNCHANGED fileVars
    BY <1>1, <1>6, <1>f, <2>1
       DEF StartRestart, Update, gateFree, fileVars
  <2>2. CASE ~UNCHANGED fileVars
    <3> DEFINE new(j) == [jobs[j] EXCEPT !.status = "restarting",
                            !.step = "restart", !.svc = FALSE, !.attempts = 0]
    <3>1. PICK j \in JobId :
            /\ restartOffered(jobs[j])
            /\ jobs' = [jobs EXCEPT ![j] = new(j)] /\ desired' = "upgrading"
            /\ normalizeAndValidate([jobs EXCEPT ![j] = new(j)], "upgrading")
            /\ faults' \in Nat /\ request' = request /\ controlUnchanged
      BY <1>6, <1>f, <2>2 DEF StartRestart, Update, fileVars
    <3>2. jobs[j] \in Job /\ Versioned(jobs[j]) /\ jobs[j].status = "failed"
      BY <3>1 DEF TypeInv, FileInv, Typed, restartOffered, Absent
    <3>3. new(j) \in Candidate /\ new(j).status = "restarting"
            /\ Versioned(new(j))
      BY <3>2, JobIsCandidate, Members DEF Candidate, Versioned
    <3>4. pc \in EngineSteps => mine # j
      BY <3>2, MineIsActive DEF active, ActiveStatus, UpgradePhases
    <3> QED
      BY <1>4, <3>1, <3>3, <3>4 DEF DesiredState, Absent
  <2> QED BY <2>1, <2>2
<1>7. CASE setDesiredState
  <2>1. CASE UNCHANGED fileVars
    BY <1>1, <1>7, <1>f, <2>1
       DEF setDesiredState, Update, gateFree, fileVars
  <2>2. CASE ~UNCHANGED fileVars
    <3>1. /\ UNCHANGED jobs /\ desired' \in DesiredState
          /\ normalizeAndValidate(jobs, desired')
          /\ faults' \in Nat /\ request' = request /\ controlUnchanged
      BY <1>7, <1>f, <2>2 DEF setDesiredState, Update, fileVars
    <3>2. FileInv'
      BY <3>1 DEF TypeInv, FileInv, Typed, Versioned, normalizeAndValidate,
         hasActiveJob
    <3>3. EngineInv'
      BY <3>1 DEF TypeInv, EngineInv, engineVars, controlUnchanged
    <3>4. HostInv'
      BY <3>1 DEF TypeInv, HostInv, hostVars, backupVars, controlUnchanged,
         gateFree
    <3> QED BY <3>1, <3>2, <3>3, <3>4 DEF TypeInv
  <2> QED BY <2>1, <2>2
<1> QED BY <1>2, <1>3, <1>5, <1>6, <1>7 DEF ControlStep

\* The process and the server leave the file alone.
LEMMA EnvironmentTypes ==
  ASSUME TypeInv, Crash \/ Boot \/ ServerMigrates \/ UNCHANGED vars
  PROVE  TypeInv'
<1>1. FileInv'
  BY DEF Crash, Boot, ServerMigrates, vars, TypeInv, FileInv, fileVars, Typed,
     Versioned, normalizeAndValidate, hasActiveJob
<1>2. EngineInv'
  <2>1. "down" \notin EngineSteps /\ "idle" \notin EngineSteps
    BY DEF EngineSteps
  <2>2. "" \in ErrorCode /\ Mixed \in Data
    BY DEF ErrorCode, Data
  <2> QED
    BY <2>1, <2>2 DEF Crash, Boot, ServerMigrates, vars, TypeInv, EngineInv,
       fileVars, engineVars
<1>3. HostInv'
  <2>1. CASE Crash
    <3>1. NoRequest.cur = 0
            /\ NoRequest \in [waiting : BOOLEAN, target : Version \union {0},
                               cur : Version \union {0}]
      BY DEF NoRequest
    <3>2. faults' \in Nat
      <4>1. faults \in Nat /\ faults' = faults + 1
        BY <2>1 DEF Crash, TypeInv, HostInv
      <4> QED BY <4>1
    <3>3. UNCHANGED <<hostVars, backupVars>> /\ request' = NoRequest
      BY <2>1 DEF Crash
    <3> HIDE DEF NoRequest
    <3> QED
      BY <3>1, <3>2, <3>3 DEF TypeInv, HostInv, hostVars, backupVars, gateFree
  <2>2. CASE Boot
    BY <2>2 DEF Boot, TypeInv, HostInv, hostVars, gateFree
  <2>3. CASE ServerMigrates
    BY <2>3 DEF ServerMigrates, TypeInv, HostInv, backupVars, gateFree, Data
  <2>4. CASE UNCHANGED vars
    BY <2>4 DEF vars, TypeInv, HostInv, hostVars, backupVars, gateFree
  <2> QED BY <2>1, <2>2, <2>3, <2>4
<1> QED BY <1>1, <1>2, <1>3 DEF TypeInv

-----------------------------------------------------------------------------
(***************************************************************************)
(* The typing invariant and what follows from it.                          *)
(***************************************************************************)
\* The steps that are saves of the engine's job, in one place.
SavingStep ==
    \/ StartQueued \/ PrepareValidating \/ PrepareBackingUp
    \/ ActivatePulling \/ ActivateStopping \/ ActivateMigrating
    \/ ActivateStarting \/ Checking \/ Succeed \/ FailBeforeMutation
    \/ BeginRollback \/ CountRestore \/ Restored \/ RollBack
    \/ RecordRecoveryFailure \/ CountRestart \/ RestartDone \/ RestartFailed

\* Every engine step that saves the file does it as GoodSave says.
LEMMA SavingStepSaves == ASSUME TypeInv, SavingStep PROVE EngineSaves
  BY StartQueuedSaves, PrepareReports, ActivateReports, CheckingSaves,
     SucceedSaves, FailBeforeMutationSaves, BeginRollbackSaves,
     CountRestoreSaves, RestoredSaves, RollBackSaves, RecoveryFailureSaves,
     CountRestartSaves, RestartDoneSaves, RestartFailureSaves
     DEF SavingStep

\* The first state of the updater is typed and its file valid.
LEMMA InitTypes == Init => TypeInv
<1> SUFFICES ASSUME Init PROVE TypeInv
  OBVIOUS
<1>1. NoSuchJob \in Job
  BY DEF NoSuchJob, Job, JobStatus, JobStep, ErrorCode, maxRecoveryAttempts
<1>2. FileInv
  <2>1. \A j \in JobId : jobs[j] = NoSuchJob
    BY DEF Init
  <2>2. NoSuchJob.status = Absent /\ Absent \notin ActiveStatus
    BY DEF NoSuchJob, Absent, ActiveStatus, UpgradePhases
  <2>3. jobs \in [JobId -> Job]
    BY <1>1 DEF Init
  <2> QED
    BY <2>1, <2>2, <2>3 DEF Init, FileInv, Typed, normalizeAndValidate,
       hasActiveJob, active, DesiredState
<1>3. EngineInv
  BY DEF Init, EngineInv, EngineSteps, ErrorCode, Data
<1>4. HostInv
  BY DEF Init, HostInv, Data, NoRequest, gateFree
<1> QED BY <1>2, <1>3, <1>4 DEF TypeInv

\* Every step keeps the file valid and the engine at a step of its job.
LEMMA NextTypes == TypeInv /\ [Next]_vars => TypeInv'
<1> SUFFICES ASSUME TypeInv, [Next]_vars PROVE TypeInv'
  OBVIOUS
<1>1. CASE SavingStep
  BY <1>1, SavingStepSaves, SavesTypes
<1>2. CASE SourceReady \/ BeginAndStop \/ Dump \/ SourceRestored \/ Commit
  BY <1>2, PrepareTypes
<1>3. CASE Pull \/ WriteImage \/ Recreate \/ CheckDirectTarget
  BY <1>3, ActivateTypes
<1>4. CASE RestoreImage \/ RestoreStop \/ Wipe \/ RestoreData \/ RestoreUp
             \/ CheckRestored
  BY <1>4, RestoreTypes
<1>5. CASE RestartUp \/ RestartCheck
  BY <1>5, RestartTypes
<1>6. CASE Checkpoint
  BY <1>6, CheckpointTypes
<1>7. CASE RunActive
  BY <1>7, RunActiveTypes
<1>8. CASE ControlStep
  BY <1>8, ControlTypes
<1>9. CASE Crash \/ Boot \/ ServerMigrates \/ UNCHANGED vars
  BY <1>9, EnvironmentTypes
<1> QED
  BY <1>1, <1>2, <1>3, <1>4, <1>5, <1>6, <1>7, <1>8, <1>9
     DEF Next, EngineStep, PrepareStep, ActivateStep, RestoreStep, RestartStep,
         SavingStep

\* The inductive invariant holds in every reachable state.
LEMMA AlwaysTyped == Spec => []TypeInv
  BY InitTypes, NextTypes, PTL DEF Spec

\* The state file, the host, the backup slot and the engine's locals always
\* have their types, whatever fails and whenever the process stops.
THEOREM Typing == Spec => []TypeOK
<1>1. TypeInv => TypeOK
  BY DEF TypeInv, FileInv, Typed, EngineInv, HostInv, TypeOK
<1> QED BY <1>1, AlwaysTyped, PTL

-----------------------------------------------------------------------------
(***************************************************************************)
(* The recovery point.  A job may only pass its checkpoint with the backup *)
(* it names in the slot, so the invariant follows the contents from the    *)
(* health window of the source, through the archive, into the slot.        *)
(***************************************************************************)
\* Contents that a server of version v runs without migrating them first.
Fits(contents, v) == ~(contents \in Version /\ contents < v)

Held(j) ==
    LET point == jobs[j].rp
    IN  /\ point \in RecoveryPoint
        /\ point.job = j
        /\ point.ver = jobs[j].cur
        /\ slot = point
        /\ retiring = NoPoint
        /\ Fits(point.data, point.ver)

SourceStages == {"prepare_backing_up", "begin_stop", "dump"}
ArchiveStages == {"source_restored", "commit", "checkpoint"}

PointInv ==
    /\ \A j \in JobId : jobs[j].status \in PastCheckpoint => Held(j)
    /\ pc \in SourceStages => Fits(data, jobs[mine].cur)
    /\ pc \in ArchiveStages => Fits(dumped, jobs[mine].cur)
    /\ pc = "checkpoint" =>
          /\ slot = [job |-> mine, ver |-> jobs[mine].cur, data |-> dumped]
          /\ retiring = NoPoint

\* While a backup is prepared no job is past its checkpoint: the one active
\* job is not.
LEMMA NonePastCheckpoint ==
  ASSUME TypeInv, pc \in PrepareSteps
  PROVE  /\ pc \in EngineSteps
         /\ \A j \in JobId : jobs[j].status \notin PastCheckpoint
<1>1. pc \in EngineSteps
  BY DEF PrepareSteps, EngineSteps
<1>2. mine \in JobId /\ jobs[mine].status \in {"validating", "backing_up"}
        /\ active(jobs[mine])
  BY <1>1, MineIsActive DEF TypeInv, EngineInv, StatusAt
<1>3. \A j \in JobId : active(jobs[j]) => j = mine
  BY <1>2 DEF TypeInv, FileInv, normalizeAndValidate
<1>4. \A j \in JobId : jobs[j].status \in PastCheckpoint => active(jobs[j])
  BY DEF PastCheckpoint, active, ActiveStatus, UpgradePhases
<1>5. jobs[mine].status \notin PastCheckpoint
  BY <1>2 DEF PastCheckpoint
<1> QED BY <1>1, <1>3, <1>4, <1>5

\* A step that leaves the file and the slot alone and ends outside the backup.
LEMMA ElsewherePoint ==
  ASSUME PointInv, UNCHANGED <<fileVars, backupVars>>,
         pc' \notin SourceStages \union ArchiveStages
  PROVE  PointInv'
  BY DEF PointInv, Held, fileVars, backupVars, ArchiveStages

\* Of the saves only the report of "backing_up" goes on inside the backup.
LEMMA SavesEnd ==
  ASSUME SavingStep, ~PrepareBackingUp
  PROVE  pc' \notin SourceStages \union ArchiveStages
<1> USE DEF Goto, Return, FailBefore, Rollback, SourceStages, ArchiveStages,
            Update, updateJob
<1>1. CASE StartQueued \/ PrepareValidating
  BY <1>1 DEF StartQueued, PrepareValidating, progress, BackupFails
<1>2. CASE ActivatePulling \/ ActivateStopping \/ ActivateMigrating
             \/ ActivateStarting
  BY <1>2 DEF ActivatePulling, ActivateStopping, ActivateMigrating,
     ActivateStarting, progress, NotActivated, HalfActivated
<1>3. CASE Checking \/ Succeed \/ FailBeforeMutation
  BY <1>3 DEF Checking, Succeed, FailBeforeMutation
<1>4. CASE BeginRollback \/ CountRestore \/ Restored
  BY <1>4 DEF BeginRollback, CountRestore, Restored
<1>5. CASE RollBack \/ RecordRecoveryFailure
  BY <1>5 DEF RollBack, RecordRecoveryFailure
<1>6. CASE CountRestart \/ RestartDone \/ RestartFailed
  BY <1>6 DEF CountRestart, RestartDone, RestartFailed
<1> QED BY <1>1, <1>2, <1>3, <1>4, <1>5, <1>6 DEF SavingStep

\* A save of the engine's job keeps the point of a job past its checkpoint.
LEMMA SavesHeld ==
  ASSUME TypeInv, PointInv, EngineSaves
  PROVE  \A j \in JobId : jobs'[j].status \in PastCheckpoint => Held(j)'
<1> SUFFICES ASSUME NEW j \in JobId, jobs'[j].status \in PastCheckpoint
             PROVE  Held(j)'
  OBVIOUS
<1>1. PICK job \in Candidate, want \in DesiredState :
         GoodSave(job) /\ Saves(job, want)
  BY DEF EngineSaves
<1>2. mine \in JobId /\ jobs \in [JobId -> Job] /\ slot' = slot
        /\ retiring' = retiring
  BY MineIsActive DEF EngineSaves, backupVars, TypeInv, FileInv, Typed
<1>3. /\ jobs[j].status \in PastCheckpoint
      /\ jobs'[j].rp = jobs[j].rp /\ jobs'[j].cur = jobs[j].cur
  <2>1. CASE jobs'[j] = jobs[j]
    BY <2>1
  <2>2. CASE jobs'[j] # jobs[j]
    <3>1. j = mine /\ jobs'[j] = job
      BY <1>1, <1>2, <2>2 DEF Saves, fileVars
    <3> QED BY <1>1, <3>1 DEF GoodSave, KeepsPoint
  <2> QED BY <2>1, <2>2
<1>4. Held(j)
  BY <1>3 DEF PointInv
<1> QED BY <1>2, <1>3, <1>4 DEF Held

\* Every save of the engine's job preserves the invariant.
LEMMA SavingPoint ==
  ASSUME TypeInv, PointInv, SavingStep
  PROVE  PointInv'
<1>1. \A j \in JobId : jobs'[j].status \in PastCheckpoint => Held(j)'
  BY SavingStepSaves, SavesHeld
<1>2. CASE ~PrepareBackingUp
  BY <1>1, <1>2, SavesEnd DEF PointInv, ArchiveStages
<1>3. CASE PrepareBackingUp
  <2> DEFINE next == progressed(jobs[mine], "backing_up")
  <2>1. pc = "prepare_backing_up" /\ pc \in EngineSteps
    BY <1>3 DEF PrepareBackingUp, At, EngineSteps
  <2>2. mine \in JobId /\ jobs \in [JobId -> Job]
    BY <2>1, MineIsActive DEF TypeInv, FileInv, Typed
  <2>3. next.cur = jobs[mine].cur
    <3>1. jobs[mine] \in Candidate
      BY <2>1, MineIsActive
    <3> QED BY <3>1 DEF progressed, Candidate
  <2>4. pc' \in {"begin_stop", "fail_before_mutation"}
    BY <1>3 DEF PrepareBackingUp, progress, updateJob, Update, Goto,
       BackupFails, FailBefore
  <2>5. mine' = mine /\ data' = data
    BY <1>3 DEF PrepareBackingUp, progress, updateJob, Update, Goto,
       BackupFails, FailBefore, hostVars
  <2>6. jobs' = [jobs EXCEPT ![mine] = next] \/ jobs' = jobs
    BY <1>3 DEF PrepareBackingUp, progress, updateJob, Update, fileVars
  <2>7. jobs'[mine].cur = jobs[mine].cur
    BY <2>2, <2>3, <2>6
  <2>8. Fits(data, jobs[mine].cur)
    BY <2>1 DEF PointInv, SourceStages
  <2> QED
    BY <1>1, <2>4, <2>5, <2>7, <2>8 DEF PointInv, ArchiveStages, Fits
<1> QED BY <1>2, <1>3

\* The steps of the backup: a source that passed its health window is stopped,
\* archived and committed, and nothing in between changes its contents.
LEMMA PreparePoint ==
  ASSUME TypeInv, PointInv,
         SourceReady \/ BeginAndStop \/ Dump \/ SourceRestored \/ Commit
  PROVE  PointInv'
<1>1. pc \in PrepareSteps
  BY DEF SourceReady, BeginAndStop, Dump, SourceRestored, Commit, At,
     PrepareSteps
<1>2. jobs' = jobs /\ mine' = mine
  BY DEF SourceReady, BeginAndStop, Dump, SourceRestored, Commit, fileVars,
     ensureDirectSourceReady, Goto, BackupFails, FailBefore
<1>3. \A j \in JobId : jobs'[j].status \notin PastCheckpoint
  BY <1>1, <1>2, NonePastCheckpoint
<1> USE DEF PointInv, SourceStages, ArchiveStages, Goto, BackupFails,
            FailBefore
<1>4. CASE SourceReady
  <2>1. CASE pc' = "fail_before_mutation"
    BY <1>3, <2>1
  <2>2. CASE pc' # "fail_before_mutation"
    <3>1. pc' = "prepare_backing_up" /\ env = jobs[mine].cur
            /\ ~NeedsMigration(env) /\ data' = data
      BY <1>4, <2>2 DEF SourceReady, ensureDirectSourceReady
    <3> QED
      BY <1>2, <1>3, <3>1 DEF NeedsMigration, Fits
  <2> QED BY <2>1, <2>2
<1>5. CASE BeginAndStop
  <2>1. pc = "begin_stop" /\ data' = data
          /\ pc' \in {"fail_before_mutation", "dump"}
    BY <1>5 DEF BeginAndStop, At
  <2> QED BY <1>2, <1>3, <2>1 DEF Fits
<1>6. CASE Dump
  <2>1. pc = "dump" /\ pc' = "source_restored" /\ dumped' = data
    BY <1>6 DEF Dump, At
  <2> QED BY <1>2, <1>3, <2>1 DEF Fits
<1>7. CASE SourceRestored
  <2>1. pc = "source_restored" /\ dumped' = dumped
          /\ pc' \in {"fail_before_mutation", "commit"}
    BY <1>7 DEF SourceRestored, At, ensureDirectSourceReady
  <2> QED BY <1>2, <1>3, <2>1 DEF Fits
<1>8. CASE Commit
  <2>1. pc = "commit" /\ dumped' = dumped
    BY <1>8 DEF Commit, At
  <2>2. \/ pc' = "fail_before_mutation"
        \/ /\ pc' = "checkpoint" /\ retiring' = NoPoint
           /\ slot' = [job |-> mine, ver |-> jobs[mine].cur, data |-> dumped]
    BY <1>8 DEF Commit
  <2> QED BY <1>2, <1>3, <2>1, <2>2 DEF Fits
<1> QED BY <1>4, <1>5, <1>6, <1>7, <1>8

\* The checkpoint: the job passes it with the point that is in the slot.
LEMMA CheckpointPoint ==
  ASSUME TypeInv, PointInv, Checkpoint
  PROVE  PointInv'
<1> DEFINE point == [job |-> mine, ver |-> jobs[mine].cur, data |-> dumped]
           js == withRecoveryPoint(jobs, mine, point)
<1>1. pc = "checkpoint" /\ pc \in PrepareSteps /\ pc \in EngineSteps
  BY DEF Checkpoint, At, PrepareSteps, EngineSteps
<1>2. /\ mine \in JobId /\ jobs[mine] \in Candidate /\ dumped \in Data
      /\ jobs[mine].cur \in Version
  BY <1>1, MineIsActive DEF TypeInv, EngineInv, Versioned
<1>3. /\ slot = point /\ retiring = NoPoint /\ slot' = slot
      /\ retiring' = retiring /\ Fits(dumped, jobs[mine].cur)
  BY <1>1 DEF PointInv, ArchiveStages, Checkpoint, backupVars
<1>4. \A j \in JobId : jobs[j].status \notin PastCheckpoint
  BY <1>1, NonePastCheckpoint
<1>5. jobs' = js \/ jobs' = jobs
  BY DEF Checkpoint, Update, fileVars
<1>6. pc' \in {"activate_pulling", "idle"}
  BY DEF Checkpoint, Update, Goto, Return
<1>7. /\ js[mine].rp = point
      /\ js[mine].cur = jobs[mine].cur
  BY <1>2 DEF withRecoveryPoint, Candidate
<1>8. \A j \in JobId \ {mine} : js[j].status = jobs[j].status
  <2> TAKE j \in JobId \ {mine}
  <2>1. jobs[j] \in Job
    BY DEF TypeInv, FileInv, Typed
  <2> QED BY <2>1 DEF withRecoveryPoint, Job
<1>9. ASSUME NEW j \in JobId, jobs'[j].status \in PastCheckpoint
      PROVE  Held(j)'
  <2>1. j = mine /\ jobs' = js
    BY <1>4, <1>5, <1>8, <1>9
  <2>2. point \in RecoveryPoint /\ point.job = mine
          /\ point.ver = jobs[mine].cur /\ point.data = dumped
    BY <1>2 DEF RecoveryPoint
  <2>3. jobs'[j].rp = point /\ jobs'[j].cur = jobs[mine].cur
    BY <1>7, <2>1
  <2> HIDE DEF point, js
  <2> QED BY <1>3, <2>1, <2>2, <2>3 DEF Held, Fits
<1> HIDE DEF point, js
<1> QED
  BY <1>6, <1>9 DEF PointInv, SourceStages, ArchiveStages

\* The control routes bring no job past its checkpoint.
LEMMA ControlRecords ==
  ASSUME TypeInv, ControlStep, NEW j \in JobId,
         jobs'[j].status \in PastCheckpoint
  PROVE  jobs'[j] = jobs[j]
<1>0. jobs \in [JobId -> Job]
  BY DEF TypeInv, FileInv, Typed
<1>1. CASE jobs' = jobs
  BY <1>1
<1>2. CASE jobs' # jobs
  <2>1. CASE CreateSave
    <3>1. PICK i \in JobId : jobs' = [jobs EXCEPT ![i] =
                                newJob(request.cur, request.target)]
      BY <1>2, <2>1 DEF CreateSave, Update, fileVars
    <3>2. newJob(request.cur, request.target).status \notin PastCheckpoint
      BY DEF newJob, NoSuchJob, PastCheckpoint
    <3> QED BY <1>0, <3>1, <3>2
  <2>2. CASE StartRestart
    <3> DEFINE new(i) == [jobs[i] EXCEPT !.status = "restarting",
                           !.step = "restart", !.svc = FALSE, !.attempts = 0]
    <3>1. PICK i \in JobId : jobs' = [jobs EXCEPT ![i] = new(i)]
      BY <1>2, <2>2 DEF StartRestart, Update, fileVars
    <3>2. new(i).status \notin PastCheckpoint
      <4>1. jobs[i] \in Job
        BY <1>0
      <4> QED BY <4>1 DEF Job, PastCheckpoint
    <3> HIDE DEF new
    <3> QED BY <1>0, <3>1, <3>2
  <2> QED
    BY <1>2, <2>1, <2>2 DEF ControlStep, CreatePreflight, CreateReadVersion,
       setDesiredState, Update, fileVars
<1> QED BY <1>1, <1>2

\* The control routes neither touch the engine's job nor bring another one past
\* its checkpoint.
LEMMA ControlPoint ==
  ASSUME TypeInv, PointInv, ControlStep
  PROVE  PointInv'
<1>1. controlUnchanged
  BY DEF ControlStep, CreatePreflight, CreateReadVersion, CreateSave,
     StartRestart, setDesiredState
<1>2. pc \in EngineSteps => jobs'[mine] = jobs[mine]
  BY ControlTypes
<1>3. SourceStages \union ArchiveStages \subseteq EngineSteps
  BY DEF SourceStages, ArchiveStages, EngineSteps
<1>4. UNCHANGED <<pc, mine, data, dumped, slot, retiring>>
  BY <1>1 DEF controlUnchanged, hostVars, backupVars, engineVars
<1>5. ASSUME NEW j \in JobId, jobs'[j].status \in PastCheckpoint
      PROVE  Held(j)'
  BY <1>4, <1>5, ControlRecords DEF PointInv, Held
<1> QED
  BY <1>2, <1>3, <1>4, <1>5 DEF PointInv, ArchiveStages, Fits

\* The process: a start-up finds no interrupted rotation while a job is past
\* its checkpoint.  The server: it only moves its contents forward.
LEMMA EnvironmentPoint ==
  ASSUME TypeInv, PointInv, Crash \/ Boot \/ ServerMigrates \/ UNCHANGED vars
  PROVE  PointInv'
<1>1. CASE Crash
  BY <1>1, ElsewherePoint DEF Crash, SourceStages, ArchiveStages
<1>2. CASE Boot
  <2>1. pc' = "idle" /\ jobs' = jobs
    BY <1>2 DEF Boot, fileVars
  <2>2. retiring = NoPoint => slot' = slot /\ retiring' = retiring
    BY <1>2 DEF Boot
  <2> QED
    BY <2>1, <2>2 DEF PointInv, Held, SourceStages, ArchiveStages
<1>3. CASE ServerMigrates
  <2>1. data \in Version /\ data < running /\ data' = running
          /\ running \in Version
    BY <1>3 DEF ServerMigrates, NeedsMigration, TypeInv, HostInv
  <2>2. UNCHANGED <<jobs, pc, mine, dumped, slot, retiring>>
    BY <1>3 DEF ServerMigrates, fileVars, backupVars, engineVars
  <2>3. ASSUME pc \in SourceStages
        PROVE  Fits(data, jobs[mine].cur) => Fits(running, jobs[mine].cur)
    <3>1. jobs[mine].cur \in Version
      BY <2>3, MineIsActive DEF SourceStages, EngineSteps, Versioned
    <3>2. data \in Nat /\ running \in Nat /\ jobs[mine].cur \in Nat
      BY <2>1, <3>1, VersionAssumption
    <3> QED BY <2>1, <3>2 DEF Fits
  <2> QED
    BY <2>1, <2>2, <2>3 DEF PointInv, Held, Fits
<1>4. CASE UNCHANGED vars
  BY <1>4 DEF vars, PointInv, Held, Fits, fileVars, hostVars, backupVars,
     engineVars
<1> QED BY <1>1, <1>2, <1>3, <1>4

\* Every step preserves the invariant of the recovery point.
LEMMA NextPoint == TypeInv /\ PointInv /\ [Next]_vars => PointInv'
<1> SUFFICES ASSUME TypeInv, PointInv, [Next]_vars PROVE PointInv'
  OBVIOUS
<1>1. CASE SavingStep
  BY <1>1, SavingPoint
<1>2. CASE SourceReady \/ BeginAndStop \/ Dump \/ SourceRestored \/ Commit
  BY <1>2, PreparePoint
<1>3. CASE Checkpoint
  BY <1>3, CheckpointPoint
<1> USE DEF Goto, Rollback, FailBefore, SourceStages, ArchiveStages
<1>4. CASE Pull \/ WriteImage \/ Recreate \/ CheckDirectTarget
  <2>1. UNCHANGED <<fileVars, backupVars>>
    BY <1>4 DEF Pull, WriteImage, Recreate, CheckDirectTarget
  <2>2. pc' \notin SourceStages \union ArchiveStages
    BY <1>4 DEF Pull, WriteImage, Recreate, CheckDirectTarget, NotActivated,
       HalfActivated
  <2> QED BY <2>1, <2>2, ElsewherePoint
<1>5. CASE RestoreImage \/ RestoreStop \/ Wipe \/ RestoreData \/ RestoreUp
             \/ CheckRestored
  <2>1. UNCHANGED <<fileVars, backupVars>>
    BY <1>5 DEF RestoreImage, RestoreStop, Wipe, RestoreData, RestoreUp,
       CheckRestored
  <2>2. pc' \notin SourceStages \union ArchiveStages
    BY <1>5 DEF RestoreImage, RestoreStop, Wipe, RestoreData, RestoreUp,
       CheckRestored
  <2> QED BY <2>1, <2>2, ElsewherePoint
<1>6. CASE RestartUp \/ RestartCheck
  <2>1. UNCHANGED <<fileVars, backupVars>>
    BY <1>6 DEF RestartUp, RestartCheck
  <2>2. pc' \notin SourceStages \union ArchiveStages
    BY <1>6 DEF RestartUp, RestartCheck
  <2> QED BY <2>1, <2>2, ElsewherePoint
<1>7. CASE RunActive
  <2>1. UNCHANGED <<fileVars, backupVars>>
    BY <1>7 DEF RunActive
  <2>2. pc' \notin SourceStages \union ArchiveStages
    <3>1. PICK j \in JobId : active(jobs[j]) /\ pc' = Resume(jobs[j])
      BY <1>7 DEF RunActive
    <3> QED BY <3>1 DEF Resume, active, ActiveStatus, UpgradePhases
  <2> QED BY <2>1, <2>2, ElsewherePoint
<1>8. CASE ControlStep
  BY <1>8, ControlPoint
<1>9. CASE Crash \/ Boot \/ ServerMigrates \/ UNCHANGED vars
  BY <1>9, EnvironmentPoint
<1> QED
  BY <1>1, <1>2, <1>3, <1>4, <1>5, <1>6, <1>7, <1>8, <1>9
     DEF Next, EngineStep, PrepareStep, ActivateStep, RestoreStep, RestartStep,
         SavingStep

\* No job is past its checkpoint at first.
LEMMA InitPoint == Init => PointInv
<1>1. NoSuchJob.status = Absent
  BY DEF NoSuchJob
<1>2. Init => pc = "idle" /\ \A j \in JobId : jobs[j] = NoSuchJob
  BY DEF Init
<1> QED
  BY <1>1, <1>2
     DEF PointInv, PastCheckpoint, Absent, SourceStages, ArchiveStages

\* While a job may have touched the host or is being rolled back, the backup
\* its record names is in the slot, of its source version and ready to run.
THEOREM RecoveryPointAlwaysHeld == Spec => []RecoveryPointHeld
<1>1. PointInv => RecoveryPointHeld
  BY DEF PointInv, Held, Fits, RecoveryPointHeld
<1> QED
  BY <1>1, InitPoint, AlwaysTyped, NextPoint, PTL DEF Spec

-----------------------------------------------------------------------------
(***************************************************************************)
(* What one step may write into the file.                                  *)
(***************************************************************************)
OtherwiseSame(i, job) ==
    /\ jobs'[i] = job
    /\ \A j \in JobId \ {i} : jobs'[j] = jobs[j]

FileStep ==
    \/ jobs' = jobs
    \/ /\ pc \in EngineSteps
       /\ \E job \in Candidate : GoodSave(job) /\ OtherwiseSame(mine, job)
    \/ /\ pc = "checkpoint"
       /\ jobs' = withRecoveryPoint(jobs, mine,
                     [job |-> mine, ver |-> jobs[mine].cur, data |-> dumped])
    \/ \E i \in JobId :
          /\ jobs[i].status = Absent
          /\ jobs'[i].status = "queued"
          /\ OtherwiseSame(i, jobs'[i])
    \/ \E i \in JobId :
          /\ restartOffered(jobs[i])
          /\ jobs'[i].status = "restarting"
          /\ OtherwiseSame(i, jobs'[i])

\* Every step writes the file in one of these ways, or not at all.
LEMMA NextFile ==
  ASSUME TypeInv, [Next]_vars
  PROVE  FileStep
<1>0. jobs \in [JobId -> Job]
  BY DEF TypeInv, FileInv, Typed
<1>1. CASE SavingStep
  <2>1. PICK job \in Candidate, want \in DesiredState :
           GoodSave(job) /\ Saves(job, want)
    BY <1>1, SavingStepSaves DEF EngineSaves
  <2>2. pc \in EngineSteps
    BY <1>1, SavingStepSaves DEF EngineSaves
  <2>3. mine \in JobId
    BY <2>2, MineIsActive
  <2> QED
    BY <1>0, <2>1, <2>2, <2>3 DEF Saves, fileVars, FileStep, OtherwiseSame
<1>2. CASE Checkpoint
  <2>1. pc = "checkpoint"
    BY <1>2 DEF Checkpoint, At
  <2> QED BY <1>2, <2>1 DEF Checkpoint, Update, fileVars, FileStep
<1>3. CASE CreateSave
  <2>1. CASE jobs' = jobs
    BY <2>1 DEF FileStep
  <2>2. CASE jobs' # jobs
    <3>1. PICK i \in JobId :
             /\ jobs[i].status = Absent
             /\ jobs' = [jobs EXCEPT ![i] =
                            newJob(request.cur, request.target)]
      BY <1>3, <2>2 DEF CreateSave, Update, fileVars
    <3>2. newJob(request.cur, request.target).status = "queued"
      BY DEF newJob, NoSuchJob
    <3> QED BY <1>0, <3>1, <3>2 DEF FileStep, OtherwiseSame
  <2> QED BY <2>1, <2>2
<1>4. CASE StartRestart
  <2>1. CASE jobs' = jobs
    BY <2>1 DEF FileStep
  <2>2. CASE jobs' # jobs
    <3> DEFINE new(i) == [jobs[i] EXCEPT !.status = "restarting",
                            !.step = "restart", !.svc = FALSE, !.attempts = 0]
    <3>1. PICK i \in JobId :
             restartOffered(jobs[i]) /\ jobs' = [jobs EXCEPT ![i] = new(i)]
      BY <1>4, <2>2 DEF StartRestart, Update, fileVars
    <3>2. new(i).status = "restarting"
      <4>1. jobs[i] \in Job
        BY <1>0
      <4> QED BY <4>1 DEF Job
    <3> HIDE DEF new
    <3> QED BY <1>0, <3>1, <3>2 DEF FileStep, OtherwiseSame
  <2> QED BY <2>1, <2>2
<1>5. CASE CreatePreflight \/ CreateReadVersion \/ setDesiredState
  BY <1>5 DEF CreatePreflight, CreateReadVersion, setDesiredState, Update,
     fileVars, FileStep
<1>6. CASE \/ SourceReady \/ BeginAndStop \/ Dump \/ SourceRestored \/ Commit
           \/ Pull \/ WriteImage \/ Recreate \/ CheckDirectTarget
  BY <1>6 DEF SourceReady, BeginAndStop, Dump, SourceRestored, Commit, Pull,
     WriteImage, Recreate, CheckDirectTarget, fileVars, FileStep
<1>7. CASE \/ RestoreImage \/ RestoreStop \/ Wipe \/ RestoreData \/ RestoreUp
           \/ CheckRestored \/ RestartUp \/ RestartCheck \/ RunActive
  BY <1>7 DEF RestoreImage, RestoreStop, Wipe, RestoreData, RestoreUp,
     CheckRestored, RestartUp, RestartCheck, RunActive, fileVars, FileStep
<1>8. CASE Crash \/ Boot \/ ServerMigrates \/ UNCHANGED vars
  BY <1>8 DEF Crash, Boot, ServerMigrates, vars, fileVars, FileStep
<1> QED
  BY <1>1, <1>2, <1>3, <1>4, <1>5, <1>6, <1>7, <1>8
     DEF Next, EngineStep, PrepareStep, ActivateStep, RestoreStep, RestartStep,
         ControlStep, SavingStep

\* The record of each job after a checkpoint.
LEMMA CheckpointWrites ==
  ASSUME TypeInv, pc = "checkpoint", NEW j \in JobId, NEW STATE point,
         jobs' = withRecoveryPoint(jobs, mine, point)
  PROVE  /\ j # mine => \/ jobs'[j] = jobs[j]
                        \/ jobs'[j] = [jobs[j] EXCEPT !.rp = NoPoint]
         /\ j # mine => jobs'[j].status = jobs[j].status
         /\ jobs'[mine].status = "pulling"
<1>1. jobs[j] \in Job /\ mine \in JobId /\ jobs[mine] \in Candidate
  BY MineIsActive DEF TypeInv, FileInv, Typed, EngineSteps
<1> QED BY <1>1 DEF withRecoveryPoint, Job, Candidate

\* The rank of a phase does not go down.
PhaseKept(j) ==
    jobs[j].status \in UpgradePhases /\ jobs'[j].status \in UpgradePhases
      => upgradePhaseRank(jobs'[j].status) >= upgradePhaseRank(jobs[j].status)

\* No step takes the phase of a job back.
LEMMA StepMonotone ==
  ASSUME TypeInv, [Next]_vars, NEW j \in JobId
  PROVE  PhaseKept(j)
<1>1. ASSUME jobs'[j].status = jobs[j].status PROVE PhaseKept(j)
  <2>1. \A p \in UpgradePhases : upgradePhaseRank(p) \in Nat
    BY RankIsNumber
  <2> QED BY <1>1, <2>1 DEF PhaseKept
<1>2. CASE jobs' = jobs
  BY <1>1, <1>2
<1>3. ASSUME pc \in EngineSteps, NEW job \in Candidate, GoodSave(job),
             OtherwiseSame(mine, job)
      PROVE  PhaseKept(j)
  <2>1. CASE j = mine
    BY <1>3, <2>1 DEF GoodSave, KeepsPhase, OtherwiseSame, PhaseKept
  <2>2. CASE j # mine
    BY <1>1, <1>3, <2>2 DEF OtherwiseSame
  <2> QED BY <2>1, <2>2
<1>4. ASSUME pc = "checkpoint",
             jobs' = withRecoveryPoint(jobs, mine,
                   [job |-> mine, ver |-> jobs[mine].cur, data |-> dumped])
      PROVE  PhaseKept(j)
  <2>1. CASE j = mine
    <3>1. jobs[mine].status \in {"validating", "backing_up"}
      BY <1>4 DEF TypeInv, EngineInv, EngineSteps, StatusAt, PrepareSteps
    <3>2. jobs'[mine].status = "pulling"
      BY <1>4, <2>1, CheckpointWrites
    <3> QED BY <2>1, <3>1, <3>2 DEF upgradePhaseRank, PhaseKept
  <2>2. CASE j # mine
    BY <1>1, <1>4, <2>2, CheckpointWrites
  <2> QED BY <2>1, <2>2
<1>5. ASSUME NEW i \in JobId,
             jobs'[i].status \in {"queued", "restarting"},
             OtherwiseSame(i, jobs'[i])
      PROVE  PhaseKept(j)
  BY <1>1, <1>5 DEF OtherwiseSame, UpgradePhases, PhaseKept
<1> QED
  BY <1>2, <1>3, <1>4, <1>5, NextFile DEF FileStep

\* The phases a client polls never go backwards, whatever crashed and resumed.
THEOREM PhasesNeverGoBack == Spec => PhaseMonotone
<1>1. TypeInv /\ [Next]_vars => \A j \in JobId : PhaseKept(j)
  BY StepMonotone
<1> QED BY <1>1, AlwaysTyped, PTL DEF Spec, PhaseMonotone, PhaseKept

\* What may become of the record of a finished job.
FinalKept(j) ==
    jobs[j].status \in TerminalStatus =>
      \/ jobs'[j] = jobs[j]
      \/ jobs'[j] = [jobs[j] EXCEPT !.rp = NoPoint]
      \/ /\ jobs[j].status = "failed" /\ ~jobs[j].svc
         /\ jobs'[j].status = "restarting"

\* No step changes a finished job in another way.
LEMMA StepFinal ==
  ASSUME TypeInv, [Next]_vars, NEW j \in JobId
  PROVE  FinalKept(j)
<1> SUFFICES ASSUME jobs[j].status \in TerminalStatus PROVE FinalKept(j)
  BY DEF FinalKept
<1>1. CASE jobs' = jobs
  BY <1>1 DEF FinalKept
<1>2. ASSUME pc \in EngineSteps PROVE j # mine
  <2>1. jobs[mine].status \in ActiveStatus
    BY <1>2, MineIsActive DEF active
  <2>2. jobs[j].status \notin ActiveStatus
    BY DEF ActiveStatus, UpgradePhases, TerminalStatus
  <2> QED BY <2>1, <2>2
<1>3. ASSUME pc \in EngineSteps, NEW job \in Candidate,
             OtherwiseSame(mine, job)
      PROVE  FinalKept(j)
  BY <1>2, <1>3 DEF OtherwiseSame, FinalKept
<1>4. ASSUME pc = "checkpoint",
             jobs' = withRecoveryPoint(jobs, mine,
                   [job |-> mine, ver |-> jobs[mine].cur, data |-> dumped])
      PROVE  FinalKept(j)
  BY <1>2, <1>4, CheckpointWrites DEF EngineSteps, FinalKept
<1>5. ASSUME NEW i \in JobId, jobs[i].status = Absent,
             OtherwiseSame(i, jobs'[i])
      PROVE  FinalKept(j)
  BY <1>5 DEF OtherwiseSame, Absent, TerminalStatus, FinalKept
<1>6. ASSUME NEW i \in JobId, restartOffered(jobs[i]),
             jobs'[i].status = "restarting", OtherwiseSame(i, jobs'[i])
      PROVE  FinalKept(j)
  BY <1>6 DEF OtherwiseSame, restartOffered, FinalKept
<1> QED
  BY <1>1, <1>3, <1>4, <1>5, <1>6, NextFile DEF FileStep

\* A finished job never changes again, except that it loses a recovery point
\* that was rotated away, or is restarted when it failed without service.
THEOREM FinishedStaysFinished == Spec => TerminalIsFinal
<1>1. TypeInv /\ [Next]_vars => \A j \in JobId : FinalKept(j)
  BY StepFinal
<1> QED BY <1>1, AlwaysTyped, PTL DEF Spec, TerminalIsFinal, FinalKept

-----------------------------------------------------------------------------
(***************************************************************************)
(* The host at each stage.  What the record of a job promises of the host  *)
(* (JobFits) survives a stop; what the engine has done since (StageFits)   *)
(* is forgotten by one, and the resumed job only relies on the former.     *)
(***************************************************************************)
\* The host as the backup found it: nothing is left to migrate or restart.
AsBackedUp(job) ==
    /\ env = job.rp.ver
    /\ running = env
    /\ data = job.rp.data

JobFits(job) ==
    /\ job.status \in PastCheckpoint \ {"rolling_back"} =>
            env \in {job.cur, job.target}
    /\ job.status = "health_check" => env = job.target
    /\ job.status = "rolling_back" =>
            /\ job.step \in {"restore_backup", "check_restored"}
            /\ job.step = "check_restored" => AsBackedUp(job)

WrittenStages == {"activate_migrating", "recreate", "activate_starting",
                  "checking"}
RestoreStages == {"count_restore", "restore_image", "restore_stop", "wipe",
                  "restore_data", "restore_up", "restored"}
CountedStages == {"restore_image", "restore_stop", "wipe"}
ImageStages == {"restore_stop", "wipe", "restore_data", "restore_up"}
StoppedStages == {"wipe", "restore_data", "restore_up"}

StageFits(s, job) ==
    /\ s \in SourceStages \union ArchiveStages => env = job.cur
    /\ s \in WrittenStages => env = job.target
    /\ s = "succeed" => running = env /\ ~NeedsMigration(env)
    /\ s \in RestoreStages => job.step = "restore_backup"
    /\ s \in {"check_restored", "roll_back"} => job.step = "check_restored"
    /\ s \in CountedStages => job.attempts > 0
    /\ s \in ImageStages => env = job.rp.ver
    /\ s \in StoppedStages => running = 0
    /\ s = "restore_data" => data = Mixed
    /\ s = "restore_up" => data = job.rp.data
    /\ s = "restored" => AsBackedUp(job)

StageInv ==
    /\ \A j \in JobId : JobFits(jobs[j])
    /\ pc \in EngineSteps => StageFits(pc, jobs[mine])

\* Stages that rely on nothing the engine has done.
FreshStages == {"queued", "prepare_validating", "source_ready",
                "activate_pulling", "pull", "activate_stopping", "write_image",
                "check_target", "fail_before_mutation", "begin_rollback",
                "recovery_failed"} \union RestartSteps \union {"idle", "down"}

\* What a save of one record has to show.
LEMMA SaveFits ==
  ASSUME TypeInv, StageInv, pc \in EngineSteps, UNCHANGED hostVars,
         NEW STATE job, JobFits(job),
         jobs' \in {jobs, [jobs EXCEPT ![mine] = job]},
         \/ pc' \in FreshStages
         \/ /\ mine' = mine /\ jobs' = [jobs EXCEPT ![mine] = job]
            /\ StageFits(pc', job)
  PROVE  StageInv'
<1>1. mine \in JobId /\ jobs \in [JobId -> Job]
  BY MineIsActive DEF TypeInv, FileInv, Typed
<1>2. ASSUME NEW j \in JobId PROVE JobFits(jobs[j])'
  <2>1. jobs'[j] \in {jobs[j], job} /\ JobFits(jobs[j])
    BY <1>1 DEF StageInv
  <2> QED
    BY <2>1 DEF JobFits, AsBackedUp, hostVars
<1>3. pc' \in EngineSteps => StageFits(pc, jobs[mine])'
  <2>1. CASE pc' \in FreshStages
    BY <2>1
       DEF StageFits, FreshStages, RestartSteps, SourceStages, ArchiveStages,
           WrittenStages,
     RestoreStages, CountedStages, ImageStages, StoppedStages
  <2>2. CASE mine' = mine /\ jobs' = [jobs EXCEPT ![mine] = job]
            /\ StageFits(pc', job)
    <3>1. jobs'[mine'] = job
      BY <1>1, <2>2
    <3> QED
      BY <2>2, <3>1 DEF StageFits, AsBackedUp, NeedsMigration, hostVars
  <2> QED BY <2>1, <2>2
<1> QED BY <1>2, <1>3 DEF StageInv

\* A report of a phase keeps what the record promises of the host.
LEMMA ProgressFits ==
  ASSUME TypeInv, StageInv, pc \in EngineSteps,
         NEW next \in UpgradePhases \ {"health_check"},
         jobs[mine].status \in UpgradePhases,
         next \in PastCheckpoint => jobs[mine].status \in PastCheckpoint
  PROVE  /\ JobFits(progressed(jobs[mine], next))
         /\ progressed(jobs[mine], next).cur = jobs[mine].cur
         /\ progressed(jobs[mine], next).target = jobs[mine].target
<1> DEFINE old == jobs[mine]
           new == progressed(old, next)
<1>1. old \in Candidate /\ JobFits(old)
  BY MineIsActive DEF StageInv
<1>2. /\ new.status \in {old.status, next}
      /\ new.cur = old.cur /\ new.target = old.target
  BY <1>1 DEF progressed, Candidate
<1>3. new.status # "rolling_back" /\ old.status # "rolling_back"
  BY <1>2 DEF UpgradePhases
<1> HIDE DEF new, old
<1>4. JobFits(new)
  BY <1>1, <1>2, <1>3 DEF JobFits, old
<1> QED BY <1>2, <1>4 DEF new, old

\* The reports of a phase keep the host's invariant.
LEMMA ReportStage ==
  ASSUME TypeInv, StageInv,
         \/ PrepareValidating \/ PrepareBackingUp \/ ActivatePulling
         \/ ActivateStopping \/ ActivateMigrating \/ ActivateStarting
  PROVE  StageInv'
<1> DEFINE new(next) == progressed(jobs[mine], next)
<1>0. pc \in EngineSteps /\ UNCHANGED hostVars
  BY DEF PrepareValidating, PrepareBackingUp, ActivatePulling,
     ActivateStopping, ActivateMigrating, ActivateStarting, At, EngineSteps
<1>1. StatusAt(jobs[mine].status, pc) /\ StageFits(pc, jobs[mine])
  BY <1>0 DEF TypeInv, EngineInv, StageInv
<1>2. ASSUME NEW next \in {"validating", "backing_up", "pulling", "stopping",
                           "migrating", "starting"},
             NEW ok \in EngineSteps,
             jobs[mine].status \in UpgradePhases,
             next \in PastCheckpoint => jobs[mine].status \in PastCheckpoint,
             jobs' \in {jobs, [jobs EXCEPT ![mine] = new(next)]},
             \/ pc' \in FreshStages
             \/ /\ pc' = ok /\ mine' = mine
                /\ jobs' = [jobs EXCEPT ![mine] = new(next)]
                /\ ok \in FreshStages \/ StageFits(ok, new(next))
      PROVE  StageInv'
  <2>1. JobFits(new(next))
    BY <1>0, <1>2, ProgressFits DEF UpgradePhases
  <2> HIDE DEF new
  <2> QED BY <1>0, <1>2, <2>1, SaveFits
<1> USE DEF At, Goto, FailBefore, Rollback, progress, updateJob, Update, fileVars
<1>3. CASE PrepareValidating
  <2>1. /\ jobs' \in {jobs, [jobs EXCEPT ![mine] = new("validating")]}
        /\ pc' \in FreshStages
    BY <1>3 DEF PrepareValidating, BackupFails, FreshStages
  <2>2. jobs[mine].status \in {"validating", "backing_up"}
    BY <1>1, <1>3 DEF PrepareValidating, StatusAt, PrepareSteps
  <2> QED BY <1>2, <2>1, <2>2 DEF UpgradePhases, PastCheckpoint, EngineSteps
<1>4. CASE PrepareBackingUp
  <2>1. /\ jobs' \in {jobs, [jobs EXCEPT ![mine] = new("backing_up")]}
        /\ \/ pc' \in FreshStages
           \/ /\ pc' = "begin_stop" /\ mine' = mine
              /\ jobs' = [jobs EXCEPT ![mine] = new("backing_up")]
    BY <1>4 DEF PrepareBackingUp, BackupFails, FreshStages
  <2>2. jobs[mine].status \in {"validating", "backing_up"}
    BY <1>1, <1>4 DEF PrepareBackingUp, StatusAt, PrepareSteps
  <2>3. StageFits("begin_stop", new("backing_up"))
    <3>1. new("backing_up").cur = jobs[mine].cur /\ env = jobs[mine].cur
      BY <1>0, <1>1, <1>4, <2>2, ProgressFits DEF PrepareBackingUp,
         UpgradePhases, PastCheckpoint, StageFits, SourceStages, ArchiveStages
    <3> HIDE DEF new
    <3> QED BY <3>1 DEF StageFits, WrittenStages, RestoreStages, CountedStages,
               ImageStages, StoppedStages
  <2> HIDE DEF new
  <2> QED BY <1>2, <2>1, <2>2, <2>3 DEF UpgradePhases, PastCheckpoint, EngineSteps
<1>5. CASE ActivatePulling \/ ActivateStopping
  <2>1. PICK next \in {"pulling", "stopping"} :
           /\ jobs' \in {jobs, [jobs EXCEPT ![mine] = new(next)]}
           /\ pc' \in FreshStages
    BY <1>5 DEF ActivatePulling, ActivateStopping, NotActivated, FreshStages
  <2>2. jobs[mine].status \in MutatePhases \union {"pulling"}
    BY <1>1, <1>5 DEF ActivatePulling, ActivateStopping, StatusAt,
       BeforeWriteSteps
  <2> QED BY <1>2, <2>1, <2>2 DEF UpgradePhases, PastCheckpoint, EngineSteps,
             MutatePhases
<1>6. CASE ActivateMigrating \/ ActivateStarting
  <2>1. PICK next \in {"migrating", "starting"}, ok \in {"recreate", "checking"} :
           /\ jobs' \in {jobs, [jobs EXCEPT ![mine] = new(next)]}
           /\ \/ pc' \in FreshStages
              \/ /\ pc' = ok /\ mine' = mine
                 /\ jobs' = [jobs EXCEPT ![mine] = new(next)]
    BY <1>6 DEF ActivateMigrating, ActivateStarting, HalfActivated, FreshStages
  <2>2. jobs[mine].status \in MutatePhases
    BY <1>1, <1>6 DEF ActivateMigrating, ActivateStarting, StatusAt, MutateSteps
  <2>3. StageFits(ok, new(next))
    <3>1. new(next).target = jobs[mine].target /\ env = jobs[mine].target
      BY <1>0, <1>1, <1>6, <2>2, ProgressFits DEF ActivateMigrating,
         ActivateStarting, UpgradePhases, PastCheckpoint, MutatePhases,
         StageFits, WrittenStages
    <3> HIDE DEF new
    <3> QED BY <3>1 DEF StageFits, SourceStages, ArchiveStages, RestoreStages, CountedStages,
               ImageStages, StoppedStages
  <2> HIDE DEF new
  <2> QED BY <1>2, <2>1, <2>2, <2>3 DEF UpgradePhases, PastCheckpoint,
             EngineSteps, MutatePhases
<1> QED BY <1>3, <1>4, <1>5, <1>6

\* The saves that end the run of the engine, or that continue at a stage that
\* relies on nothing.
LEMMA FreshSaveStage ==
  ASSUME TypeInv, StageInv,
         \/ StartQueued \/ Checking \/ Succeed \/ FailBeforeMutation \/ RollBack
         \/ RecordRecoveryFailure \/ CountRestart \/ RestartDone
         \/ RestartFailed
  PROVE  StageInv'
<1> DEFINE old == jobs[mine]
<1>0. pc \in EngineSteps /\ UNCHANGED hostVars
  BY DEF StartQueued, Checking, Succeed, FailBeforeMutation, RollBack,
     RecordRecoveryFailure, CountRestart, RestartDone, RestartFailed, At,
     EngineSteps
<1>1. /\ old \in Candidate /\ JobFits(old)
      /\ StatusAt(old.status, pc) /\ StageFits(pc, old)
  BY <1>0, MineIsActive DEF TypeInv, EngineInv, StageInv
<1>2. ASSUME NEW STATE job, JobFits(job),
             jobs' \in {jobs, [jobs EXCEPT ![mine] = job]},
             pc' \in FreshStages
      PROVE  StageInv'
  BY <1>0, <1>2, SaveFits
<1> USE DEF At, Goto, Return, updateJob, Update, fileVars, FreshStages,
            RestartSteps
<1>3. CASE StartQueued
  <2> DEFINE job == [old EXCEPT !.status = "validating", !.step = "phase"]
  <2>1. jobs' \in {jobs, [jobs EXCEPT ![mine] = job]} /\ pc' \in FreshStages
    BY <1>3 DEF StartQueued
  <2>2. job.status = "validating"
    BY <1>1 DEF Candidate
  <2> HIDE DEF job
  <2>3. JobFits(job)
    BY <2>2 DEF JobFits, PastCheckpoint
  <2> QED BY <1>2, <2>1, <2>3
<1>4. CASE Checking
  <2> DEFINE job == [old EXCEPT !.status = "health_check", !.step = "phase",
                                !.svc = FALSE]
  <2>1. /\ jobs' \in {jobs, [jobs EXCEPT ![mine] = job]} /\ pc' \in FreshStages
        /\ pc = "checking"
    BY <1>4 DEF Checking
  <2>2. job.status = "health_check" /\ job.target = old.target
    BY <1>1 DEF Candidate
  <2>3. env = old.target
    BY <1>1, <2>1 DEF StageFits, WrittenStages
  <2> HIDE DEF job
  <2>4. JobFits(job)
    BY <2>2, <2>3 DEF JobFits
  <2> QED BY <1>2, <2>1, <2>4
<1>5. ASSUME NEW STATE job, job.status \in TerminalStatus,
             jobs' \in {jobs, [jobs EXCEPT ![mine] = job]},
             pc' = "idle"
      PROVE  StageInv'
  <2>1. JobFits(job)
    BY <1>5 DEF JobFits, TerminalStatus, PastCheckpoint
  <2> QED BY <1>2, <1>5, <2>1
<1>6. CASE Succeed
  <2> DEFINE job == [old EXCEPT
                      !.status = "succeeded", !.step = "complete",
                      !.svc = TRUE, !.cur = old.target, !.safe = old.target,
                      !.code = ""]
  <2>1. jobs' \in {jobs, [jobs EXCEPT ![mine] = job]} /\ pc' = "idle"
    BY <1>6 DEF Succeed
  <2>2. job.status \in TerminalStatus
    BY <1>1 DEF Candidate, TerminalStatus
  <2> HIDE DEF job
  <2> QED BY <1>5, <2>1, <2>2
<1>7. CASE FailBeforeMutation
  <2> DEFINE job == [old EXCEPT
                   !.status = "failed", !.step = "complete", !.svc = avail,
                   !.safe = old.cur, !.code = code]
  <2>1. jobs' \in {jobs, [jobs EXCEPT ![mine] = job]} /\ pc' = "idle"
    BY <1>7 DEF FailBeforeMutation
  <2>2. job.status \in TerminalStatus
    BY <1>1 DEF Candidate, TerminalStatus
  <2> HIDE DEF job
  <2> QED BY <1>5, <2>1, <2>2
<1>8. CASE RollBack
  <2> DEFINE v == old.rp.ver
             job == [old EXCEPT
                      !.status = "rolled_back", !.step = "complete",
                      !.svc = TRUE, !.safe = v, !.cur = v]
  <2>1. jobs' \in {jobs, [jobs EXCEPT ![mine] = job]} /\ pc' = "idle"
    BY <1>8 DEF RollBack
  <2>2. job.status \in TerminalStatus
    BY <1>1 DEF Candidate, TerminalStatus
  <2> HIDE DEF job
  <2> QED BY <1>5, <2>1, <2>2
<1>9. CASE RecordRecoveryFailure
  <2> DEFINE ended == [old EXCEPT
                        !.status = "failed", !.step = "complete",
                        !.svc = FALSE, !.code = "rollback_failed"]
             again == [old EXCEPT !.svc = FALSE, !.step = "restore_backup"]
  <2>1. /\ \/ jobs' \in {jobs, [jobs EXCEPT ![mine] = ended]}
           \/ jobs' \in {jobs, [jobs EXCEPT ![mine] = again]}
        /\ pc = "recovery_failed" /\ pc' = "idle"
    BY <1>9 DEF RecordRecoveryFailure
  <2>2. ended.status \in TerminalStatus
    BY <1>1 DEF Candidate, TerminalStatus
  <2>3. again.status = "rolling_back" /\ again.step = "restore_backup"
    BY <1>1, <2>1 DEF Candidate, StatusAt, RestoreSteps
  <2> HIDE DEF ended, again
  <2>4. JobFits(again)
    BY <2>3 DEF JobFits
  <2> QED BY <1>2, <1>5, <2>1, <2>2, <2>4
<1>10. CASE CountRestart
  <2> DEFINE job == [old EXCEPT !.attempts = @ + 1]
  <2>1. /\ jobs' \in {jobs, [jobs EXCEPT ![mine] = job]} /\ pc' \in FreshStages
        /\ pc = "count_restart"
    BY <1>10 DEF CountRestart
  <2>2. job.status = "restarting"
    BY <1>1, <2>1, Counted DEF StatusAt
  <2> HIDE DEF job
  <2>3. JobFits(job)
    BY <2>2 DEF JobFits, PastCheckpoint
  <2> QED BY <1>2, <2>1, <2>3
<1>11. CASE RestartDone
  <2> DEFINE job == [old EXCEPT
                   !.status = "failed", !.step = "complete", !.svc = TRUE]
  <2>1. jobs' \in {jobs, [jobs EXCEPT ![mine] = job]} /\ pc' = "idle"
    BY <1>11 DEF RestartDone
  <2>2. job.status \in TerminalStatus
    BY <1>1 DEF Candidate, TerminalStatus
  <2> HIDE DEF job
  <2> QED BY <1>5, <2>1, <2>2
<1>12. CASE RestartFailed
  <2> DEFINE ended == [old EXCEPT
                        !.status = "failed", !.step = "complete",
                        !.svc = FALSE, !.code = "restart_failed"]
             again == [old EXCEPT !.svc = FALSE]
  <2>1. /\ \/ jobs' \in {jobs, [jobs EXCEPT ![mine] = ended]}
           \/ jobs' \in {jobs, [jobs EXCEPT ![mine] = again]}
        /\ pc = "restart_failed" /\ pc' = "idle"
    BY <1>12 DEF RestartFailed
  <2>2. ended.status \in TerminalStatus
    BY <1>1 DEF Candidate, TerminalStatus
  <2>3. again.status = "restarting"
    BY <1>1, <2>1 DEF Candidate, StatusAt
  <2> HIDE DEF ended, again
  <2>4. JobFits(again)
    BY <2>3 DEF JobFits, PastCheckpoint
  <2> QED BY <1>2, <1>5, <2>1, <2>2, <2>4
<1> QED BY <1>3, <1>4, <1>6, <1>7, <1>8, <1>9, <1>10, <1>11, <1>12

\* The saves of the rollback that go on to touch the host or to look at it.
LEMMA RollbackSaveStage ==
  ASSUME TypeInv, StageInv, BeginRollback \/ CountRestore \/ Restored
  PROVE  StageInv'
<1> DEFINE old == jobs[mine]
<1>0. pc \in EngineSteps /\ UNCHANGED hostVars
  BY DEF BeginRollback, CountRestore, Restored, At, EngineSteps
<1>1. /\ old \in Candidate /\ JobFits(old)
      /\ StatusAt(old.status, pc) /\ StageFits(pc, old)
  BY <1>0, MineIsActive DEF TypeInv, EngineInv, StageInv
<1>2. ASSUME NEW STATE job, job.status = "rolling_back",
             \/ job.step = "restore_backup"
             \/ job.step = "check_restored" /\ AsBackedUp(job),
             jobs' \in {jobs, [jobs EXCEPT ![mine] = job]},
             \/ pc' = "idle"
             \/ /\ jobs' = [jobs EXCEPT ![mine] = job] /\ mine' = mine
                /\ StageFits(pc', job)
      PROVE  StageInv'
  <2>1. JobFits(job)
    BY <1>2 DEF JobFits
  <2> QED BY <1>0, <1>2, <2>1, SaveFits DEF FreshStages
<1> USE DEF At, Goto, Return, FailBefore, updateJob, Update, fileVars
<1>3. CASE BeginRollback
  <2> DEFINE job == [old EXCEPT !.status = "rolling_back",
                       !.step = "restore_backup", !.svc = FALSE, !.code = code]
  <2>1. CASE old.rp = NoPoint
    <3>1. jobs' = jobs /\ pc' = "fail_before_mutation"
      BY <1>3, <2>1 DEF BeginRollback
    <3> QED BY <1>0, <1>1, <3>1, SaveFits DEF FreshStages
  <2>2. CASE old.rp # NoPoint
    <3>1. /\ jobs' \in {jobs, [jobs EXCEPT ![mine] = job]}
          /\ \/ pc' = "idle"
             \/ /\ jobs' = [jobs EXCEPT ![mine] = job] /\ mine' = mine
                /\ pc' = "count_restore"
      BY <1>3, <2>2 DEF BeginRollback
    <3>2. job.status = "rolling_back" /\ job.step = "restore_backup"
      BY <1>1 DEF Candidate
    <3> HIDE DEF job
    <3>3. StageFits("count_restore", job)
      BY <3>2 DEF StageFits, SourceStages, ArchiveStages, WrittenStages,
         CountedStages, ImageStages, StoppedStages
    <3> QED BY <1>2, <3>1, <3>2, <3>3
  <2> QED BY <2>1, <2>2
<1>4. CASE CountRestore
  <2> DEFINE job == [old EXCEPT !.attempts = @ + 1]
  <2>1. /\ jobs' \in {jobs, [jobs EXCEPT ![mine] = job]}
        /\ \/ pc' = "idle"
           \/ /\ jobs' = [jobs EXCEPT ![mine] = job] /\ mine' = mine
              /\ pc' = "restore_image"
        /\ pc = "count_restore"
    BY <1>4 DEF CountRestore
  <2>2. job.status = "rolling_back" /\ job.step = "restore_backup"
    BY <1>1, <2>1, Counted DEF StatusAt, RestoreSteps, StageFits, RestoreStages
  <2>3. job.attempts = old.attempts + 1 /\ old.attempts \in Nat
    BY <1>1 DEF Candidate
  <2> HIDE DEF job
  <2>4. job.attempts > 0
    BY <2>3
  <2>5. StageFits("restore_image", job)
    BY <2>2, <2>4 DEF StageFits, SourceStages, ArchiveStages, WrittenStages,
       ImageStages, StoppedStages
  <2> QED BY <1>2, <2>1, <2>2, <2>5
<1>5. CASE Restored
  <2> DEFINE job == [old EXCEPT !.step = "check_restored"]
  <2>1. /\ jobs' \in {jobs, [jobs EXCEPT ![mine] = job]}
        /\ \/ pc' = "idle"
           \/ /\ jobs' = [jobs EXCEPT ![mine] = job] /\ mine' = mine
              /\ pc' = "check_restored"
        /\ pc = "restored"
    BY <1>5 DEF Restored
  <2>2. job.status = "rolling_back" /\ job.step = "check_restored"
          /\ job.rp = old.rp
    BY <1>1, <2>1 DEF Candidate, StatusAt, RestoreSteps
  <2>3. AsBackedUp(old)
    BY <1>1, <2>1 DEF StageFits
  <2> HIDE DEF job
  <2>4. AsBackedUp(job)
    BY <2>2, <2>3 DEF AsBackedUp
  <2>5. StageFits("check_restored", job)
    BY <2>2 DEF StageFits, SourceStages, ArchiveStages, WrittenStages,
       RestoreStages, CountedStages, ImageStages, StoppedStages
  <2> QED BY <1>2, <2>1, <2>2, <2>4, <2>5
<1> QED BY <1>3, <1>4, <1>5

\* Only the record of the engine's job promises anything of the host.
LEMMA OnlyMineFits ==
  ASSUME TypeInv, pc \in EngineSteps, jobs' = jobs, JobFits(jobs[mine])'
  PROVE  mine' = mine => \A j \in JobId : JobFits(jobs[j])'
<1> SUFFICES ASSUME mine' = mine, NEW j \in JobId, j # mine
             PROVE  JobFits(jobs[j])'
  OBVIOUS
<1>1. ~active(jobs[j])
  BY MineIsActive DEF TypeInv, FileInv, normalizeAndValidate
<1>2. jobs[j].status \notin PastCheckpoint
  BY <1>1 DEF active, PastCheckpoint, ActiveStatus, UpgradePhases
<1> QED BY <1>2 DEF JobFits, PastCheckpoint

\* The work of the backup and of the activation on the host.
LEMMA ForwardStage ==
  ASSUME TypeInv, StageInv,
         \/ SourceReady \/ BeginAndStop \/ Dump \/ SourceRestored \/ Commit
         \/ Pull \/ WriteImage \/ Recreate \/ CheckDirectTarget
  PROVE  StageInv'
<1> DEFINE job == jobs[mine]
<1>0. pc \in EngineSteps /\ jobs' = jobs /\ mine' = mine
  BY DEF SourceReady, BeginAndStop, Dump, SourceRestored, Commit, Pull,
     WriteImage, Recreate, CheckDirectTarget, At, EngineSteps, fileVars,
     ensureDirectSourceReady, Goto, BackupFails, FailBefore, NotActivated,
     HalfActivated, Rollback
<1>1. JobFits(job) /\ StatusAt(job.status, pc) /\ StageFits(pc, job)
  BY <1>0, MineIsActive DEF TypeInv, EngineInv, StageInv
<1>2. ASSUME JobFits(job)', StageFits(pc, job)'
      PROVE  StageInv'
  BY <1>0, <1>2, OnlyMineFits DEF StageInv
<1> USE DEF At, Goto, BackupFails, FailBefore, NotActivated, HalfActivated,
            Rollback, fileVars, hostVars
<1>3. CASE SourceReady \/ BeginAndStop \/ Dump \/ SourceRestored \/ Commit
  <2>1. JobFits(job)'
    <3>1. job.status \in {"validating", "backing_up"}
      BY <1>1, <1>3 DEF SourceReady, BeginAndStop, Dump, SourceRestored,
         Commit, StatusAt, PrepareSteps
    <3> QED BY <1>0, <3>1 DEF JobFits, PastCheckpoint
  <2>2. \/ pc' = "fail_before_mutation"
        \/ pc' \in SourceStages \union ArchiveStages /\ env' = job.cur
    <3> USE DEF StageFits, SourceStages, ArchiveStages
    <3>1. CASE SourceReady \/ SourceRestored
      BY <1>1, <1>3, <3>1 DEF SourceReady, SourceRestored,
         ensureDirectSourceReady
    <3>2. CASE BeginAndStop \/ Dump \/ Commit
      BY <1>1, <1>3, <3>2 DEF BeginAndStop, Dump, Commit
    <3> QED BY <1>3, <3>1, <3>2
  <2>3. StageFits(pc, job)'
    BY <1>0, <2>2 DEF StageFits, SourceStages, ArchiveStages, WrittenStages,
       RestoreStages, CountedStages, ImageStages, StoppedStages
  <2> QED BY <1>2, <2>1, <2>3
<1>4. CASE Pull \/ CheckDirectTarget
  <2>1. UNCHANGED <<env, running, data>>
    BY <1>4 DEF Pull, CheckDirectTarget
  <2>2. JobFits(job)'
    BY <1>0, <1>1, <2>1 DEF JobFits, AsBackedUp
  <2>3. \/ pc' \in {"activate_stopping", "fail_before_mutation",
                    "begin_rollback"}
        \/ /\ pc = "check_target" /\ pc' = "succeed" /\ Healthy(job.target)
    BY <1>4 DEF Pull, CheckDirectTarget
  <2>4. pc = "check_target" => env = job.target
    BY <1>1 DEF JobFits, StatusAt, CheckSteps
  <2>5. StageFits(pc, job)'
    BY <1>0, <2>1, <2>3, <2>4 DEF StageFits, SourceStages, ArchiveStages,
       WrittenStages, RestoreStages, CountedStages, ImageStages, StoppedStages,
       Healthy, NeedsMigration
  <2> QED BY <1>2, <2>2, <2>5
<1>5. CASE WriteImage \/ Recreate
  <2>1. job.status \in MutatePhases
    BY <1>1, <1>5 DEF WriteImage, Recreate, StatusAt, MutateSteps
  <2>2. env' \in {env, job.target}
    BY <1>5 DEF WriteImage, Recreate
  <2>3. JobFits(job)'
    BY <1>0, <1>1, <2>1, <2>2 DEF JobFits, MutatePhases, PastCheckpoint
  <2>4. \/ pc' = "begin_rollback"
        \/ pc' \in {"activate_migrating", "activate_starting"}
             /\ env' = job.target
    BY <1>1, <1>5 DEF WriteImage, Recreate, StageFits, WrittenStages
  <2>5. StageFits(pc, job)'
    BY <1>0, <2>4 DEF StageFits, SourceStages, ArchiveStages, WrittenStages,
       RestoreStages, CountedStages, ImageStages, StoppedStages
  <2> QED BY <1>2, <2>3, <2>5
<1> QED BY <1>3, <1>4, <1>5

\* The work of a restore: from the slot, which holds the job's own point.
LEMMA RestoreStage ==
  ASSUME TypeInv, PointInv, StageInv,
         \/ RestoreImage \/ RestoreStop \/ Wipe \/ RestoreData \/ RestoreUp
         \/ CheckRestored
  PROVE  StageInv'
<1> DEFINE job == jobs[mine]
<1>0. pc \in EngineSteps /\ jobs' = jobs /\ mine' = mine /\ slot' = slot
  BY DEF RestoreImage, RestoreStop, Wipe, RestoreData, RestoreUp,
     CheckRestored, At, EngineSteps, fileVars, backupVars, Goto
<1>1. /\ mine \in JobId
      /\ JobFits(job) /\ StatusAt(job.status, pc) /\ StageFits(pc, job)
  BY <1>0, MineIsActive DEF TypeInv, EngineInv, StageInv
<1>2. job.status = "rolling_back" /\ slot = job.rp
  <2>1. job.status = "rolling_back"
    BY <1>1 DEF RestoreImage, RestoreStop, Wipe, RestoreData, RestoreUp,
       CheckRestored, At, StatusAt, RestoreSteps
  <2> QED BY <1>1, <2>1 DEF PointInv, Held, PastCheckpoint
<1>3. ASSUME JobFits(job)', StageFits(pc, job)'
      PROVE  StageInv'
  BY <1>0, <1>3, OnlyMineFits DEF StageInv
<1> USE DEF At, Goto, fileVars, hostVars
<1>4. CASE CheckRestored
  <2>1. /\ UNCHANGED <<env, running, data>>
        /\ pc = "check_restored" /\ pc' \in {"roll_back", "recovery_failed"}
    BY <1>4 DEF CheckRestored
  <2>2. JobFits(job)'
    BY <1>0, <1>1, <2>1 DEF JobFits, AsBackedUp
  <2>3. StageFits(pc, job)'
    BY <1>0, <1>1, <2>1 DEF StageFits, SourceStages, ArchiveStages,
       WrittenStages, RestoreStages, CountedStages, ImageStages, StoppedStages
  <2> QED BY <1>3, <2>2, <2>3
<1>5. CASE ~CheckRestored
  <2>1. pc \in RestoreStages /\ job.step = "restore_backup"
    BY <1>1, <1>5 DEF RestoreImage, RestoreStop, Wipe, RestoreData, RestoreUp,
       StageFits, RestoreStages
  <2>2. JobFits(job)'
    BY <1>0, <1>2, <2>1 DEF JobFits
  <2>3. StageFits(pc, job)'
    <3> USE DEF StageFits, SourceStages, ArchiveStages, WrittenStages,
                RestoreStages, CountedStages, ImageStages, StoppedStages
    <3>1. CASE pc' = "recovery_failed"
      BY <3>1
    <3>2. CASE pc' # "recovery_failed"
      <4>1. CASE RestoreImage
        BY <1>0, <1>1, <1>2, <3>2, <4>1 DEF RestoreImage
      <4>2. CASE RestoreStop \/ Wipe
        BY <1>0, <1>1, <1>2, <3>2, <4>2 DEF RestoreStop, Wipe
      <4>3. CASE RestoreData
        BY <1>0, <1>1, <1>2, <3>2, <4>3 DEF RestoreData
      <4>4. CASE RestoreUp
        BY <1>0, <1>1, <1>2, <3>2, <4>4 DEF RestoreUp, AsBackedUp
      <4> QED BY <1>5, <4>1, <4>2, <4>3, <4>4
    <3> QED BY <3>1, <3>2
  <2> QED BY <1>3, <2>2, <2>3
<1> QED BY <1>4, <1>5

\* A manual restart relies on nothing, and promises nothing.
LEMMA RestartStage ==
  ASSUME TypeInv, StageInv, RestartUp \/ RestartCheck
  PROVE  StageInv'
<1>0. /\ pc \in {"restart_up", "restart_check"} /\ jobs' = jobs
      /\ mine' = mine
      /\ pc' \in {"restart_check", "restart_done", "restart_failed"}
  BY DEF RestartUp, RestartCheck, At, fileVars, Goto
<1>1. pc \in EngineSteps
  BY <1>0 DEF EngineSteps
<1>2. jobs[mine].status = "restarting"
  BY <1>0, <1>1 DEF TypeInv, EngineInv, StatusAt, RestartSteps
<1>3. JobFits(jobs[mine])'
  BY <1>0, <1>2 DEF JobFits, PastCheckpoint
<1>4. StageFits(pc, jobs[mine])'
  BY <1>0 DEF StageFits, SourceStages, ArchiveStages, WrittenStages,
     RestoreStages, CountedStages, ImageStages, StoppedStages
<1> QED BY <1>0, <1>1, <1>3, <1>4, OnlyMineFits DEF StageInv

\* A resumed job finds what its record promises.
LEMMA RunActiveStage == ASSUME TypeInv, StageInv, RunActive PROVE StageInv'
<1>1. PICK j \in JobId : /\ active(jobs[j]) /\ mine' = j
                         /\ pc' = Resume(jobs[j])
  BY DEF RunActive
<1>2. jobs' = jobs /\ UNCHANGED <<env, running, data>>
  BY DEF RunActive, fileVars, hostVars
<1>3. ASSUME NEW i \in JobId PROVE JobFits(jobs[i])'
  <2>1. JobFits(jobs[i])
    BY DEF StageInv
  <2> QED BY <1>2, <2>1 DEF JobFits, AsBackedUp
<1>4. JobFits(jobs[j])
  BY DEF StageInv
<1>5. /\ pc' = "check_restored" => jobs[j].step = "check_restored"
      /\ pc' = "count_restore" => jobs[j].step = "restore_backup"
  <2>1. CASE jobs[j].status = "rolling_back"
    <3>1. jobs[j].step \in {"restore_backup", "check_restored"}
      BY <1>4, <2>1 DEF JobFits
    <3>2. CASE jobs[j].step = "restore_backup"
      <4>1. Resume(jobs[j]) = "count_restore"
        BY <2>1, <3>2 DEF Resume
      <4> QED BY <1>1, <3>2, <4>1
    <3>3. CASE jobs[j].step = "check_restored"
      <4>1. Resume(jobs[j]) = "check_restored"
        BY <2>1, <3>3 DEF Resume
      <4> QED BY <1>1, <3>3, <4>1
    <3> QED BY <3>1, <3>2, <3>3
  <2>2. CASE jobs[j].status # "rolling_back"
    <3>1. Resume(jobs[j]) \notin {"check_restored", "count_restore"}
      BY <2>2 DEF Resume
    <3> QED BY <1>1, <3>1
  <2> QED BY <2>1, <2>2
<1>6. pc' \in FreshStages \union {"check_restored", "count_restore"}
  BY <1>1
     DEF Resume, FreshStages, RestartSteps, active, ActiveStatus, UpgradePhases
<1>7. StageFits(pc, jobs[mine])'
  BY <1>1, <1>2, <1>5, <1>6 DEF StageFits, FreshStages, RestartSteps,
     SourceStages, ArchiveStages, WrittenStages, RestoreStages, CountedStages,
     ImageStages, StoppedStages
<1> QED BY <1>3, <1>7 DEF StageInv

\* The checkpoint: the source that was backed up is still configured.
LEMMA CheckpointStage == ASSUME TypeInv, StageInv, Checkpoint PROVE StageInv'
<1> DEFINE point == [job |-> mine, ver |-> jobs[mine].cur, data |-> dumped]
           js == withRecoveryPoint(jobs, mine, point)
<1>1. pc = "checkpoint" /\ pc \in PrepareSteps /\ pc \in EngineSteps
  BY DEF Checkpoint, At, PrepareSteps, EngineSteps
<1>2. mine \in JobId /\ jobs[mine] \in Candidate /\ env = jobs[mine].cur
  <2>1. StageFits("checkpoint", jobs[mine])
    BY <1>1 DEF StageInv
  <2> QED BY <1>1, <2>1, MineIsActive DEF StageFits, ArchiveStages
<1>3. /\ jobs' = js \/ jobs' = jobs
      /\ UNCHANGED <<env, running, data>>
      /\ pc' \in {"activate_pulling", "idle"}
  BY DEF Checkpoint, Update, fileVars, hostVars, Goto, Return
<1>4. \A j \in JobId : jobs[j].status \notin PastCheckpoint
  BY <1>1, NonePastCheckpoint
<1>5. js[mine].status = "pulling" /\ js[mine].cur = jobs[mine].cur
  BY <1>2 DEF withRecoveryPoint, Candidate
<1>6. ASSUME NEW j \in JobId PROVE JobFits(jobs[j])'
  <2>1. CASE jobs' = jobs \/ j # mine
    <3>1. jobs'[j].status = jobs[j].status
      BY <1>1, <1>3, <2>1, CheckpointWrites
    <3> QED BY <1>4, <3>1 DEF JobFits, PastCheckpoint
  <2>2. CASE jobs' = js /\ j = mine
    <3> HIDE DEF js
    <3> QED BY <1>2, <1>3, <1>5, <2>2 DEF JobFits
  <2> QED BY <1>3, <2>1, <2>2
<1>7. StageFits(pc, jobs[mine])'
  BY <1>3 DEF StageFits, SourceStages, ArchiveStages, WrittenStages,
     RestoreStages, CountedStages, ImageStages, StoppedStages
<1> QED BY <1>6, <1>7 DEF StageInv

\* The control routes: a record they write promises nothing yet.
LEMMA ControlStage == ASSUME TypeInv, StageInv, ControlStep PROVE StageInv'
<1>1. UNCHANGED <<env, running, data, pc, mine>>
  BY DEF ControlStep, CreatePreflight, CreateReadVersion, CreateSave,
     StartRestart, setDesiredState, controlUnchanged, hostVars, engineVars
<1>2. pc \in EngineSteps => jobs'[mine] = jobs[mine]
  BY ControlTypes
<1>3. ASSUME NEW j \in JobId PROVE JobFits(jobs[j])'
  <2>1. CASE jobs'[j].status \in PastCheckpoint
    <3>1. jobs'[j] = jobs[j] /\ JobFits(jobs[j])
      BY <2>1, ControlRecords DEF StageInv
    <3> QED BY <1>1, <3>1 DEF JobFits, AsBackedUp
  <2>2. CASE jobs'[j].status \notin PastCheckpoint
    BY <2>2 DEF JobFits, PastCheckpoint
  <2> QED BY <2>1, <2>2
<1>4. pc \in EngineSteps => StageFits(pc, jobs[mine])'
  BY <1>1, <1>2 DEF StageInv, StageFits, AsBackedUp, NeedsMigration
<1> QED BY <1>1, <1>3, <1>4 DEF StageInv

\* The server has nothing to migrate where the engine relies on its contents.
LEMMA MigrationStage ==
  ASSUME TypeInv, PointInv, StageInv, ServerMigrates
  PROVE  StageInv'
<1>1. /\ running # 0 /\ NeedsMigration(running)
      /\ UNCHANGED <<jobs, pc, mine, env, running>>
  BY DEF ServerMigrates, fileVars, engineVars
<1>2. ASSUME NEW j \in JobId, jobs[j].status = "rolling_back"
      PROVE  ~AsBackedUp(jobs[j])
  <2>1. Fits(jobs[j].rp.data, jobs[j].rp.ver)
    BY <1>2 DEF PointInv, PastCheckpoint, Held
  <2> QED BY <1>1, <2>1 DEF AsBackedUp, Fits, NeedsMigration
<1>3. ASSUME NEW j \in JobId PROVE JobFits(jobs[j])'
  <2>1. JobFits(jobs[j])
    BY DEF StageInv
  <2> QED BY <1>1, <1>2, <2>1 DEF JobFits
<1>4. ASSUME pc \in EngineSteps PROVE StageFits(pc, jobs[mine])'
  <2>1. StageFits(pc, jobs[mine]) /\ StatusAt(jobs[mine].status, pc)
          /\ mine \in JobId
    BY <1>4 DEF StageInv, TypeInv, EngineInv
  <2>2. pc # "succeed"
    BY <1>1, <2>1 DEF StageFits
  <2>3. pc # "restored"
    BY <1>2, <2>1 DEF StageFits, StatusAt, RestoreSteps
  <2>4. pc \notin StoppedStages
    BY <1>1, <2>1 DEF StageFits
  <2> QED
    BY <1>1, <2>1, <2>2, <2>3, <2>4 DEF StageFits, StoppedStages
<1> QED BY <1>1, <1>3, <1>4 DEF StageInv

\* A stop of the process forgets its stage; a start-up has none.
LEMMA ProcessStage ==
  ASSUME TypeInv, StageInv, Crash \/ Boot \/ UNCHANGED vars
  PROVE  StageInv'
<1>1. UNCHANGED <<jobs, env, running, data>>
  BY DEF Crash, Boot, vars, fileVars, hostVars
<1>2. \A j \in JobId : JobFits(jobs[j])'
  BY <1>1 DEF StageInv, JobFits, AsBackedUp
<1>3. CASE Crash \/ Boot
  <2>1. pc' \in {"down", "idle"}
    BY <1>3 DEF Crash, Boot
  <2> QED BY <1>2, <2>1 DEF StageInv, EngineSteps
<1>4. CASE UNCHANGED vars
  <2>1. UNCHANGED <<pc, mine>>
    BY <1>4 DEF vars, engineVars
  <2> QED BY <1>1, <1>2, <2>1 DEF StageInv, StageFits, AsBackedUp, NeedsMigration
<1> QED BY <1>3, <1>4

\* Every step keeps the host at its stage.
LEMMA NextStage ==
  TypeInv /\ PointInv /\ StageInv /\ [Next]_vars => StageInv'
  BY ReportStage, FreshSaveStage, RollbackSaveStage, ForwardStage,
     RestoreStage, RestartStage, RunActiveStage, CheckpointStage, ControlStage,
     MigrationStage, ProcessStage
     DEF Next, EngineStep, PrepareStep, ActivateStep, RestoreStep, RestartStep

\* Nothing is promised of the first host.
LEMMA InitStage == Init => StageInv
<1>1. NoSuchJob.status = Absent
  BY DEF NoSuchJob
<1> QED BY <1>1 DEF Init, StageInv, JobFits, PastCheckpoint, Absent, EngineSteps

SafeInv == TypeInv /\ PointInv /\ StageInv

\* Every reachable state of the engine satisfies its three invariants.
LEMMA AlwaysSafe == Spec => []SafeInv
  BY InitTypes, InitPoint, InitStage, NextTypes, NextPoint, NextStage, PTL
     DEF Spec, SafeInv

-----------------------------------------------------------------------------
(***************************************************************************)
(* Emptied stores.  Only a restore empties them, with the server stopped,  *)
(* and until its job ends only the end of a restore starts the server: a   *)
(* job past its checkpoint that finds them empty is being rolled back.  A  *)
(* backup may archive what an earlier job left half-restored; its recovery *)
(* point is then no better, which the second part follows.                 *)
(***************************************************************************)
Emptied(j) ==
    /\ jobs[j].status \in PastCheckpoint
    /\ data = Mixed
    /\ jobs[j].rp.data # Mixed

DownInv ==
    /\ \A j \in JobId :
          Emptied(j) => jobs[j].status = "rolling_back" /\ running = 0
    /\ pc \in ArchiveStages /\ data = Mixed => dumped = Mixed

\* While the engine is at a step only its own job can be past its checkpoint.
LEMMA OnlyMinePast ==
  ASSUME TypeInv, pc \in EngineSteps,
         NEW j \in JobId, jobs[j].status \in PastCheckpoint
  PROVE  j = mine
<1>1. active(jobs[j])
  BY DEF active, PastCheckpoint, ActiveStatus, UpgradePhases
<1> QED
  BY <1>1, MineIsActive DEF TypeInv, FileInv, normalizeAndValidate

\* A step that leaves records, contents and server alone, outside the archive.
LEMMA ElsewhereDown ==
  ASSUME DownInv, UNCHANGED <<jobs, data, running>>, pc' \notin ArchiveStages
  PROVE  DownInv'
  BY DEF DownInv, Emptied

\* A job that is being rolled back goes on being so, or it ends.
LEMMA SavesRollingBack ==
  ASSUME TypeInv, SavingStep, jobs[mine].status = "rolling_back"
  PROVE  jobs'[mine].status \in {"rolling_back", "rolled_back", "failed"}
<1>1. pc \in EngineSteps /\ StatusAt("rolling_back", pc)
  BY SavingStepSaves DEF EngineSaves, TypeInv, EngineInv
<1>2. pc \in RestoreSteps
  BY <1>1 DEF StatusAt, EngineSteps, PrepareSteps, BeforeWriteSteps,
     MutateSteps, CheckSteps, RestoreSteps, RestartSteps, UpgradePhases,
     MutatePhases
<1>3. CountRestore \/ Restored \/ RollBack \/ RecordRecoveryFailure
  BY <1>2 DEF SavingStep, StartQueued, PrepareValidating, PrepareBackingUp,
     ActivatePulling, ActivateStopping, ActivateMigrating, ActivateStarting,
     Checking, Succeed, FailBeforeMutation, BeginRollback, CountRestart,
     RestartDone, RestartFailed, At, RestoreSteps
<1>4. /\ mine \in JobId /\ jobs[mine] \in Candidate
      /\ jobs \in [JobId -> Job]
  BY <1>1, MineIsActive DEF TypeInv, FileInv, Typed
<1> USE DEF updateJob, Update, fileVars
<1>5. CASE CountRestore \/ Restored
  <2> DEFINE counted == [jobs[mine] EXCEPT !.attempts = @ + 1]
             restored == [jobs[mine] EXCEPT !.step = "check_restored"]
  <2>1. \/ jobs' = jobs
        \/ jobs' = [jobs EXCEPT ![mine] = counted]
        \/ jobs' = [jobs EXCEPT ![mine] = restored]
    BY <1>5 DEF CountRestore, Restored
  <2>2. /\ counted.status = "rolling_back"
        /\ restored.status = "rolling_back"
    BY <1>4 DEF Candidate
  <2> HIDE DEF counted, restored
  <2> QED BY <1>4, <2>1, <2>2
<1>6. CASE RollBack
  <2> DEFINE v == jobs[mine].rp.ver
             done == [jobs[mine] EXCEPT
                        !.status = "rolled_back", !.step = "complete",
                        !.svc = TRUE, !.safe = v, !.cur = v]
  <2>1. jobs' = jobs \/ jobs' = [jobs EXCEPT ![mine] = done]
    BY <1>6 DEF RollBack
  <2>2. done.status = "rolled_back"
    BY <1>4 DEF Candidate
  <2> HIDE DEF done
  <2> QED BY <1>4, <2>1, <2>2
<1>7. CASE RecordRecoveryFailure
  <2> DEFINE ended == [jobs[mine] EXCEPT
                        !.status = "failed", !.step = "complete",
                        !.svc = FALSE, !.code = "rollback_failed"]
             again == [jobs[mine] EXCEPT !.svc = FALSE,
                                         !.step = "restore_backup"]
  <2>1. \/ jobs' = jobs
        \/ jobs' = [jobs EXCEPT ![mine] = ended]
        \/ jobs' = [jobs EXCEPT ![mine] = again]
    BY <1>7 DEF RecordRecoveryFailure
  <2>2. ended.status = "failed" /\ again.status = "rolling_back"
    BY <1>4 DEF Candidate
  <2> HIDE DEF ended, again
  <2> QED BY <1>4, <2>1, <2>2
<1> QED BY <1>3, <1>5, <1>6, <1>7

\* A save brings no job past its checkpoint, and leaves the host alone.
LEMMA SavingDown ==
  ASSUME TypeInv, DownInv, SavingStep
  PROVE  DownInv'
<1>1. /\ pc \in EngineSteps /\ mine \in JobId /\ jobs \in [JobId -> Job]
      /\ UNCHANGED <<data, running>>
  BY SavingStepSaves, MineIsActive
     DEF EngineSaves, hostVars, TypeInv, FileInv, Typed
<1>2. ASSUME NEW j \in JobId, Emptied(j)'
      PROVE  jobs'[j].status = "rolling_back" /\ running' = 0
  <2>1. PICK job \in Candidate, want \in DesiredState :
           GoodSave(job) /\ Saves(job, want)
    BY SavingStepSaves DEF EngineSaves
  <2>2. jobs[j].status \in PastCheckpoint /\ jobs'[j].rp = jobs[j].rp
    <3>1. CASE jobs'[j] = jobs[j]
      BY <1>2, <3>1 DEF Emptied
    <3>2. CASE jobs'[j] # jobs[j]
      <4>1. j = mine /\ jobs'[j] = job
        BY <1>1, <2>1, <3>2 DEF Saves, fileVars
      <4> QED BY <1>2, <2>1, <4>1 DEF Emptied, GoodSave, KeepsPoint
    <3> QED BY <3>1, <3>2
  <2>3. jobs[j].status = "rolling_back" /\ running = 0
    BY <1>1, <1>2, <2>2 DEF DownInv, Emptied
  <2>4. j = mine
    BY <1>1, <2>2, OnlyMinePast
  <2>5. jobs'[j].status \in {"rolling_back", "rolled_back", "failed"}
    BY <2>3, <2>4, SavesRollingBack
  <2> QED
    BY <1>1, <1>2, <2>3, <2>5 DEF Emptied, PastCheckpoint
<1>3. ASSUME pc' \in ArchiveStages PROVE FALSE
  <2>1. CASE PrepareBackingUp
    BY <1>3, <2>1 DEF PrepareBackingUp, progress, updateJob, Update, Goto,
       BackupFails, FailBefore, ArchiveStages
  <2> QED BY <1>3, <2>1, SavesEnd
<1> QED BY <1>2, <1>3 DEF DownInv

\* The backup archives what it finds, with no job past its checkpoint.
LEMMA PrepareDown ==
  ASSUME TypeInv, DownInv,
         SourceReady \/ BeginAndStop \/ Dump \/ SourceRestored \/ Commit
  PROVE  DownInv'
<1>1. pc \in PrepareSteps /\ jobs' = jobs
  BY DEF SourceReady, BeginAndStop, Dump, SourceRestored, Commit, At,
     PrepareSteps, fileVars, ensureDirectSourceReady
<1>2. \A j \in JobId : ~Emptied(j)'
  BY <1>1, NonePastCheckpoint DEF Emptied
<1>3. \/ pc' \notin ArchiveStages
      \/ data' = data /\ dumped' = data
      \/ pc \in ArchiveStages /\ data' = data /\ dumped' = dumped
  <2> USE DEF At, Goto, BackupFails, FailBefore, ArchiveStages, hostVars,
              ensureDirectSourceReady
  <2>1. CASE SourceReady \/ BeginAndStop
    BY <2>1 DEF SourceReady, BeginAndStop
  <2>2. CASE Dump
    BY <2>2 DEF Dump
  <2>3. CASE SourceRestored \/ Commit
    BY <2>3 DEF SourceRestored, Commit
  <2> QED BY <2>1, <2>2, <2>3
<1> QED BY <1>2, <1>3 DEF DownInv

\* The job passes its checkpoint with what was archived.
LEMMA CheckpointDown ==
  ASSUME TypeInv, DownInv, Checkpoint
  PROVE  DownInv'
<1> DEFINE point == [job |-> mine, ver |-> jobs[mine].cur, data |-> dumped]
           js == withRecoveryPoint(jobs, mine, point)
<1>1. pc = "checkpoint" /\ pc \in PrepareSteps /\ pc \in EngineSteps
  BY DEF Checkpoint, At, PrepareSteps, EngineSteps
<1>2. mine \in JobId /\ jobs[mine] \in Candidate
  BY <1>1, MineIsActive
<1>3. /\ jobs' = js \/ jobs' = jobs
      /\ UNCHANGED <<data, running>>
      /\ pc' \notin ArchiveStages
  BY DEF Checkpoint, Update, fileVars, hostVars, Goto, Return, ArchiveStages
<1>4. \A j \in JobId : jobs[j].status \notin PastCheckpoint
  BY <1>1, NonePastCheckpoint
<1>5. js[mine].rp.data = dumped
  BY <1>2 DEF withRecoveryPoint, Candidate
<1>6. ASSUME NEW j \in JobId PROVE ~Emptied(j)'
  <2>1. CASE jobs' = jobs \/ j # mine
    <3>1. jobs'[j].status = jobs[j].status
      BY <1>1, <1>3, <2>1, CheckpointWrites
    <3> QED BY <1>4, <3>1 DEF Emptied
  <2>2. CASE jobs' = js /\ j = mine
    <3>1. data = Mixed => dumped = Mixed
      BY <1>1 DEF DownInv, ArchiveStages
    <3> HIDE DEF js
    <3> QED BY <1>3, <1>5, <2>2, <3>1 DEF Emptied
  <2> QED BY <1>3, <2>1, <2>2
<1> QED BY <1>3, <1>6 DEF DownInv

\* An activation finds the stores filled, and a restart no job past its
\* checkpoint.
LEMMA ForwardDown ==
  ASSUME TypeInv, DownInv,
         \/ Pull \/ WriteImage \/ Recreate \/ CheckDirectTarget
         \/ RestartUp \/ RestartCheck
  PROVE  DownInv'
<1> USE DEF At, Goto, NotActivated, HalfActivated, FailBefore, Rollback,
            ArchiveStages, fileVars, hostVars
<1>1. CASE Pull \/ WriteImage \/ CheckDirectTarget \/ RestartCheck
  <2>1. UNCHANGED <<jobs, data, running>> /\ pc' \notin ArchiveStages
    BY <1>1 DEF Pull, WriteImage, CheckDirectTarget, RestartCheck
  <2> QED BY <2>1, ElsewhereDown
<1>2. CASE Recreate \/ RestartUp
  <2>1. /\ pc \in {"recreate", "restart_up"} /\ pc' \notin ArchiveStages
        /\ UNCHANGED <<jobs, data>>
    BY <1>2 DEF Recreate, RestartUp
  <2>2. pc \in EngineSteps /\ StatusAt(jobs[mine].status, pc)
    BY <2>1 DEF EngineSteps, TypeInv, EngineInv
  <2>3. jobs[mine].status # "rolling_back"
    BY <2>1, <2>2 DEF StatusAt, MutateSteps, MutatePhases, RestartSteps
  <2>4. ASSUME NEW j \in JobId PROVE ~Emptied(j)'
    <3> SUFFICES ASSUME Emptied(j) PROVE FALSE
      BY <2>1 DEF Emptied
    <3>1. jobs[j].status = "rolling_back"
      BY DEF DownInv
    <3> QED BY <2>2, <2>3, <3>1, OnlyMinePast DEF PastCheckpoint
  <2> QED BY <2>1, <2>4 DEF DownInv
<1> QED BY <1>1, <1>2

\* A restore empties the stores of a stopped server, and starts it on what the
\* recovery point holds.
LEMMA RestoreDown ==
  ASSUME SafeInv, DownInv,
         \/ RestoreImage \/ RestoreStop \/ Wipe \/ RestoreData \/ RestoreUp
         \/ CheckRestored
  PROVE  DownInv'
<1> USE DEF SafeInv
<1>1. /\ pc \in EngineSteps /\ pc \in RestoreSteps
      /\ UNCHANGED <<jobs, mine>> /\ pc' \notin ArchiveStages
  BY DEF RestoreImage, RestoreStop, Wipe, RestoreData, RestoreUp,
     CheckRestored, At, EngineSteps, RestoreSteps, fileVars, Goto,
     ArchiveStages
<1>2. /\ mine \in JobId /\ jobs[mine].status = "rolling_back"
      /\ StageFits(pc, jobs[mine])
  BY <1>1, MineIsActive DEF TypeInv, EngineInv, StatusAt, StageInv
<1>3. slot = jobs[mine].rp
  BY <1>2 DEF PointInv, Held, PastCheckpoint
<1>4. ASSUME Emptied(mine)' PROVE running' = 0
  <2> USE DEF At, hostVars, Emptied, Goto
  <2>1. CASE RestoreImage \/ RestoreStop \/ CheckRestored
    <3>1. data' = data /\ running' \in {running, 0}
      BY <2>1 DEF RestoreImage, RestoreStop, CheckRestored
    <3> QED BY <1>1, <1>2, <1>4, <3>1 DEF DownInv
  <2>2. CASE Wipe \/ RestoreData
    <3>1. running' = running /\ pc \in StoppedStages
      BY <2>2 DEF Wipe, RestoreData, StoppedStages
    <3> QED BY <1>2, <3>1 DEF StageFits
  <2>3. CASE RestoreUp
    <3>1. data' = data /\ data = jobs[mine].rp.data
      BY <1>2, <2>3 DEF RestoreUp, StageFits
    <3> QED BY <1>1, <1>4, <3>1
  <2> QED BY <2>1, <2>2, <2>3
<1>5. ASSUME NEW j \in JobId, Emptied(j)'
      PROVE  j = mine
  BY <1>1, <1>5, OnlyMinePast DEF Emptied
<1> QED BY <1>1, <1>2, <1>4, <1>5 DEF DownInv

\* The control routes, the process and the server.
LEMMA OutsideDown ==
  ASSUME TypeInv, DownInv,
         \/ RunActive \/ ControlStep \/ Crash \/ Boot \/ ServerMigrates
         \/ UNCHANGED vars
  PROVE  DownInv'
<1>1. CASE RunActive
  <2>1. PICK j \in JobId : active(jobs[j]) /\ pc' = Resume(jobs[j])
    BY <1>1 DEF RunActive
  <2>2. pc' \notin ArchiveStages
    BY <2>1 DEF Resume, active, ActiveStatus, UpgradePhases, ArchiveStages
  <2> QED
    BY <1>1, <2>2, ElsewhereDown DEF RunActive, fileVars, hostVars
<1>2. CASE ControlStep
  <2>1. UNCHANGED <<data, running, pc, dumped>>
    BY <1>2 DEF ControlStep, CreatePreflight, CreateReadVersion, CreateSave,
       StartRestart, setDesiredState, controlUnchanged, hostVars, engineVars
  <2>2. ASSUME NEW j \in JobId, Emptied(j)'
        PROVE  jobs'[j] = jobs[j] /\ Emptied(j)
    <3>1. jobs'[j] = jobs[j]
      BY <1>2, <2>2, ControlRecords DEF Emptied
    <3> QED BY <2>1, <2>2, <3>1 DEF Emptied
  <2> QED BY <2>1, <2>2 DEF DownInv
<1>3. CASE Crash \/ Boot
  BY <1>3, ElsewhereDown DEF Crash, Boot, fileVars, hostVars, ArchiveStages
<1>4. CASE ServerMigrates
  <2>1. data' # Mixed
    BY <1>4 DEF ServerMigrates, Mixed
  <2> QED BY <2>1 DEF DownInv, Emptied
<1>5. CASE UNCHANGED vars
  BY <1>5 DEF vars, fileVars, hostVars, engineVars, DownInv, Emptied
<1> QED BY <1>1, <1>2, <1>3, <1>4, <1>5

\* Every step keeps the server of a half-restored job down.
LEMMA NextDown == SafeInv /\ DownInv /\ [Next]_vars => DownInv'
  BY SavingDown, PrepareDown, CheckpointDown, ForwardDown, RestoreDown,
     OutsideDown
     DEF SafeInv, Next, EngineStep, PrepareStep, ActivateStep, RestoreStep,
         RestartStep, SavingStep

\* No job is past its checkpoint at first.
LEMMA InitDown == Init => DownInv
<1>1. NoSuchJob.status = Absent
  BY DEF NoSuchJob
<1> QED
  BY <1>1 DEF Init, DownInv, Emptied, PastCheckpoint, Absent, ArchiveStages

\* The invariant is what the property needs.
LEMMA DownIsDown == DownInv => HalfRestoredStaysDown
  BY DEF DownInv, Emptied, HalfRestoredStaysDown, PastCheckpoint

\* No server runs on stores that a restore has emptied and not filled again,
\* as long as that restore may be repeated.
THEOREM HalfRestoredIsDown == Spec => []HalfRestoredStaysDown
  BY InitDown, NextDown, DownIsDown, AlwaysSafe, PTL DEF Spec

-----------------------------------------------------------------------------
(***************************************************************************)
(* Which step ends a job, and how.                                         *)
(***************************************************************************)
\* A job ends in a step of the engine that was working on it.
LEMMA EndedByEngine ==
  ASSUME TypeInv, [Next]_vars, NEW j \in JobId, NEW s \in TerminalStatus,
         Becomes(j, s)
  PROVE  /\ j = mine /\ pc \in EngineSteps
         /\ s = "rolled_back" => RollBack
         /\ s = "succeeded" => Succeed
         /\ s = "failed" => \/ FailBeforeMutation \/ RecordRecoveryFailure
                            \/ RestartDone \/ RestartFailed
<1> DEFINE old == jobs[mine]
<1>0. jobs \in [JobId -> Job] /\ s \in {"rolled_back", "succeeded", "failed"}
  BY DEF TypeInv, FileInv, Typed, TerminalStatus
<1>1. jobs'[j].status = s /\ jobs[j].status # s
  BY DEF Becomes
<1>2. /\ s \notin UpgradePhases
      /\ s \notin {"queued", "restarting", "rolling_back", "pulling"}
  BY <1>0 DEF UpgradePhases
<1>3. ~Checkpoint /\ ~ControlStep /\ ~RunActive /\ jobs' # jobs
  <2>1. jobs' # jobs
    BY <1>1
  <2>2. ~Checkpoint
    <3>1. ASSUME Checkpoint PROVE FALSE
      <4>1. pc = "checkpoint"
        BY <3>1 DEF Checkpoint, At
      <4>2. jobs' = withRecoveryPoint(jobs, mine,
                     [job |-> mine, ver |-> jobs[mine].cur, data |-> dumped])
        BY <2>1, <3>1 DEF Checkpoint, Update, fileVars
      <4>3. jobs'[j].status \in {jobs[j].status, "pulling"}
        BY <4>1, <4>2, CheckpointWrites
      <4> QED BY <1>1, <1>2, <4>3
    <3> QED BY <3>1
  <2>3. ~ControlStep
    <3>1. ASSUME ControlStep PROVE FALSE
      <4>1. CASE CreateSave
        <5>1. PICK i \in JobId : jobs' = [jobs EXCEPT ![i] =
                                    newJob(request.cur, request.target)]
          BY <2>1, <4>1 DEF CreateSave, Update, fileVars
        <5>2. newJob(request.cur, request.target).status = "queued"
          BY DEF newJob, NoSuchJob
        <5> QED BY <1>0, <1>1, <1>2, <5>1, <5>2
      <4>2. CASE StartRestart
        <5> DEFINE new(i) == [jobs[i] EXCEPT !.status = "restarting",
                       !.step = "restart", !.svc = FALSE, !.attempts = 0]
        <5>1. PICK i \in JobId : jobs' = [jobs EXCEPT ![i] = new(i)]
          BY <2>1, <4>2 DEF StartRestart, Update, fileVars
        <5>2. new(i).status = "restarting"
          <6>1. jobs[i] \in Job
            BY <1>0
          <6> QED BY <6>1 DEF Job
        <5> HIDE DEF new
        <5> QED BY <1>0, <1>1, <1>2, <5>1, <5>2
      <4> QED
        BY <2>1, <3>1, <4>1, <4>2 DEF ControlStep, CreatePreflight,
           CreateReadVersion, setDesiredState, Update, fileVars
    <3> QED BY <3>1
  <2> QED BY <2>1, <2>2, <2>3 DEF RunActive, fileVars
<1>4. SavingStep
  <2> USE DEF fileVars
  <2>1. ~(SourceReady \/ BeginAndStop \/ Dump \/ SourceRestored \/ Commit)
    BY <1>3 DEF SourceReady, BeginAndStop, Dump, SourceRestored, Commit
  <2>2. ~(Pull \/ WriteImage \/ Recreate \/ CheckDirectTarget)
    BY <1>3 DEF Pull, WriteImage, Recreate, CheckDirectTarget
  <2>3. ~(RestoreImage \/ RestoreStop \/ Wipe \/ RestoreData \/ RestoreUp
             \/ CheckRestored \/ RestartUp \/ RestartCheck)
    BY <1>3 DEF RestoreImage, RestoreStop, Wipe, RestoreData, RestoreUp,
       CheckRestored, RestartUp, RestartCheck
  <2>4. ~(Crash \/ Boot \/ ServerMigrates \/ UNCHANGED vars)
    BY <1>3 DEF Crash, Boot, ServerMigrates, vars
  <2> QED
    BY <1>3, <2>1, <2>2, <2>3, <2>4 DEF Next, EngineStep, PrepareStep,
       ActivateStep, RestoreStep, RestartStep, SavingStep
<1>5. pc \in EngineSteps /\ mine \in JobId /\ old \in Candidate
        /\ j = mine
  <2>1. EngineSaves
    BY <1>4, SavingStepSaves
  <2>2. pc \in EngineSteps /\ mine \in JobId /\ old \in Candidate
    BY <2>1, MineIsActive DEF EngineSaves
  <2>3. jobs'[j] # jobs[j]
    BY <1>1
  <2> QED
    BY <1>0, <2>1, <2>2, <2>3 DEF EngineSaves, Saves, fileVars
<1>6. ~(\/ StartQueued \/ PrepareValidating \/ PrepareBackingUp
        \/ ActivatePulling \/ ActivateStopping \/ ActivateMigrating
        \/ ActivateStarting \/ Checking)
  <2>1. ASSUME NEW next \in UpgradePhases,
               jobs' = [jobs EXCEPT ![mine] = progressed(old, next)]
        PROVE  FALSE
    <3>1. progressed(old, next).status \in {old.status, next}
      BY <1>5 DEF progressed, Candidate
    <3> HIDE DEF old
    <3> QED BY <1>0, <1>1, <1>2, <1>5, <2>1, <3>1 DEF old
  <2>2. ASSUME NEW STATE job, job.status \in UpgradePhases,
               jobs' = [jobs EXCEPT ![mine] = job]
        PROVE  FALSE
    BY <1>0, <1>1, <1>2, <1>5, <2>2
  <2>3. ~(StartQueued \/ Checking)
    <3> DEFINE begun == [old EXCEPT !.status = "validating", !.step = "phase"]
               checked == [old EXCEPT !.status = "health_check",
                                      !.step = "phase", !.svc = FALSE]
    <3>1. begun.status \in UpgradePhases /\ checked.status \in UpgradePhases
      BY <1>5 DEF Candidate, UpgradePhases
    <3>2. StartQueued => jobs' = [jobs EXCEPT ![mine] = begun]
      BY <1>3 DEF StartQueued, updateJob, Update, fileVars
    <3>3. Checking => jobs' = [jobs EXCEPT ![mine] = checked]
      BY <1>3 DEF Checking, updateJob, Update, fileVars
    <3> HIDE DEF begun, checked
    <3> QED BY <2>2, <3>1, <3>2, <3>3
  <2> USE DEF progress, updateJob, Update, fileVars, UpgradePhases
  <2>4. ~(PrepareValidating \/ PrepareBackingUp)
    BY <1>3, <2>1 DEF PrepareValidating, PrepareBackingUp
  <2>5. ~(ActivatePulling \/ ActivateStopping)
    BY <1>3, <2>1 DEF ActivatePulling, ActivateStopping
  <2>6. ~(ActivateMigrating \/ ActivateStarting)
    BY <1>3, <2>1 DEF ActivateMigrating, ActivateStarting
  <2> QED BY <2>3, <2>4, <2>5, <2>6
<1>7. ~(BeginRollback \/ CountRestore \/ Restored \/ CountRestart)
  <2>1. ASSUME NEW STATE job, jobs' = [jobs EXCEPT ![mine] = job],
               job.status \in {"rolling_back", old.status}
        PROVE  FALSE
    BY <1>0, <1>1, <1>2, <1>5, <2>1
  <2> DEFINE begun == [old EXCEPT !.status = "rolling_back",
                         !.step = "restore_backup", !.svc = FALSE, !.code = code]
             counted == [old EXCEPT !.attempts = @ + 1]
             restored == [old EXCEPT !.step = "check_restored"]
  <2>2. /\ begun.status = "rolling_back"
        /\ counted.status = old.status
        /\ restored.status = old.status
    BY <1>5, Counted DEF Candidate
  <2> USE DEF updateJob, Update, fileVars
  <2>3. /\ BeginRollback => jobs' = [jobs EXCEPT ![mine] = begun]
        /\ CountRestore => jobs' = [jobs EXCEPT ![mine] = counted]
    BY <1>3 DEF BeginRollback, CountRestore
  <2>4. /\ Restored => jobs' = [jobs EXCEPT ![mine] = restored]
        /\ CountRestart => jobs' = [jobs EXCEPT ![mine] = counted]
    BY <1>3 DEF Restored, CountRestart
  <2> HIDE DEF begun, counted, restored
  <2> QED BY <2>1, <2>2, <2>3, <2>4
<1>8. /\ RollBack => s = "rolled_back"
      /\ Succeed => s = "succeeded"
      /\ FailBeforeMutation => s = "failed"
      /\ RecordRecoveryFailure \/ RestartDone \/ RestartFailed =>
            s \in {"failed", old.status}
  <2>1. old \in [status : JobStatus, step : JobStep, svc : BOOLEAN,
              cur : Version \union {0}, target : Version \union {0},
              safe : Version \union {0}, attempts : Nat,
              rp : RecoveryPoint \union {NoPoint}, code : ErrorCode]
    BY <1>5 DEF Candidate
  <2>2. jobs'[mine].status = s /\ jobs' # jobs
    BY <1>1, <1>3, <1>5
  <2> USE DEF updateJob, Update, fileVars
  <2>3. RollBack => s = "rolled_back"
    <3> DEFINE job == [old EXCEPT
                         !.status = "rolled_back", !.step = "complete",
                         !.svc = TRUE, !.safe = old.rp.ver, !.cur = old.rp.ver]
    <3>1. RollBack => jobs' = [jobs EXCEPT ![mine] = job]
      BY <2>2 DEF RollBack
    <3>2. job.status = "rolled_back"
      BY <2>1
    <3> HIDE DEF job
    <3> QED BY <1>0, <1>5, <2>2, <3>1, <3>2
  <2>4. Succeed => s = "succeeded"
    <3> DEFINE job == [old EXCEPT
                         !.status = "succeeded", !.step = "complete",
                         !.svc = TRUE, !.cur = old.target, !.safe = old.target,
                         !.code = ""]
    <3>1. Succeed => jobs' = [jobs EXCEPT ![mine] = job]
      BY <2>2 DEF Succeed
    <3>2. job.status = "succeeded"
      BY <2>1
    <3> HIDE DEF job
    <3> QED BY <1>0, <1>5, <2>2, <3>1, <3>2
  <2>5. FailBeforeMutation => s = "failed"
    <3> DEFINE job == [old EXCEPT
                         !.status = "failed", !.step = "complete",
                         !.svc = avail, !.safe = old.cur, !.code = code]
    <3>1. FailBeforeMutation => jobs' = [jobs EXCEPT ![mine] = job]
      BY <2>2 DEF FailBeforeMutation
    <3>2. job.status = "failed"
      BY <2>1
    <3> HIDE DEF job
    <3> QED BY <1>0, <1>5, <2>2, <3>1, <3>2
  <2>6. ASSUME NEW c \in {"rollback_failed", "restart_failed"}
        PROVE  LET ended == [old EXCEPT !.status = "failed",
                               !.step = "complete", !.svc = FALSE, !.code = c]
               IN  ended.status = "failed"
    BY <2>1
  <2>7. /\ [old EXCEPT !.svc = FALSE, !.step = "restore_backup"].status
             = old.status
        /\ [old EXCEPT !.svc = FALSE].status = old.status
        /\ [old EXCEPT !.status = "failed", !.step = "complete",
              !.svc = TRUE].status = "failed"
    BY <2>1
  <2>8. RecordRecoveryFailure => \E job :
           /\ jobs' = [jobs EXCEPT ![mine] = job]
           /\ job.status \in {"failed", old.status}
    BY <2>2, <2>6, <2>7 DEF RecordRecoveryFailure
  <2>9. RestartDone \/ RestartFailed => \E job :
           /\ jobs' = [jobs EXCEPT ![mine] = job]
           /\ job.status \in {"failed", old.status}
    BY <2>2, <2>6, <2>7 DEF RestartDone, RestartFailed
  <2>10. RecordRecoveryFailure \/ RestartDone \/ RestartFailed =>
            s \in {"failed", old.status}
    BY <1>0, <1>5, <2>2, <2>8, <2>9
  <2> QED BY <2>3, <2>4, <2>5, <2>10
<1>9. s # old.status
  BY <1>1, <1>5
<1> QED BY <1>4, <1>5, <1>6, <1>7, <1>8, <1>9 DEF SavingStep

-----------------------------------------------------------------------------
(***************************************************************************)
(* What one step may do to the host and to the results.                    *)
(***************************************************************************)
\* A result is reported in the step of the engine that has seen it hold.
LEMMA StepReports ==
  ASSUME SafeInv, [Next]_vars, NEW j \in JobId
  PROVE  /\ Becomes(j, "rolled_back") => AsBackedUp(jobs[j])
         /\ Becomes(j, "succeeded") =>
              env = jobs[j].target /\ running = env /\ ~NeedsMigration(env)
<1> USE DEF SafeInv
<1>1. ASSUME Becomes(j, "rolled_back") PROVE AsBackedUp(jobs[j])
  <2>1. j = mine /\ RollBack /\ pc \in EngineSteps
    BY <1>1, EndedByEngine DEF TerminalStatus
  <2>2. pc = "roll_back"
    BY <2>1 DEF RollBack, At
  <2>3. jobs[j].status = "rolling_back" /\ jobs[j].step = "check_restored"
    BY <2>1, <2>2 DEF StageInv, StageFits, TypeInv, EngineInv, StatusAt,
       RestoreSteps
  <2> QED BY <2>3 DEF StageInv, JobFits
<1>2. ASSUME Becomes(j, "succeeded")
      PROVE  env = jobs[j].target /\ running = env /\ ~NeedsMigration(env)
  <2>1. j = mine /\ Succeed /\ pc \in EngineSteps
    BY <1>2, EndedByEngine DEF TerminalStatus
  <2>2. pc = "succeed"
    BY <2>1 DEF Succeed, At
  <2>3. jobs[j].status = "health_check"
    BY <2>1, <2>2 DEF TypeInv, EngineInv, StatusAt, CheckSteps
  <2> QED BY <2>1, <2>2, <2>3 DEF StageInv, StageFits, JobFits
<1> QED BY <1>1, <1>2

\* Only an activation and a restore configure an image, and only a restore
\* empties the stores.
LEMMA StepMutates ==
  ASSUME SafeInv, [Next]_vars
  PROVE  /\ env' # env => \E j \in JobId :
               /\ jobs[j].status \in PastCheckpoint \ {"pulling"}
               /\ jobs[j].rp = slot
               /\ env' < env => jobs[j].status = "rolling_back"
                                /\ env' = jobs[j].cur
         /\ data' = Mixed /\ data # Mixed => \E j \in JobId :
               /\ jobs[j].status = "rolling_back"
               /\ jobs[j].attempts > 0
               /\ jobs[j].rp = slot
<1> USE DEF SafeInv
<1>1. CASE WriteImage
  <2>1. pc = "write_image" /\ pc \in EngineSteps
    BY <1>1 DEF WriteImage, At, EngineSteps
  <2>2. mine \in JobId /\ jobs[mine].status \in MutatePhases
    BY <2>1, MineIsActive DEF TypeInv, EngineInv, StatusAt, MutateSteps
  <2>3. jobs[mine].rp = slot
    BY <2>2 DEF PointInv, Held, PastCheckpoint, MutatePhases
  <2>4. env' \in {env, jobs[mine].target} /\ data' = data
    BY <1>1 DEF WriteImage
  <2>5. env \in {jobs[mine].cur, jobs[mine].target}
    BY <2>2 DEF StageInv, JobFits, PastCheckpoint, MutatePhases
  <2>6. jobs[mine].cur <= jobs[mine].target
    BY <2>1, <2>2, MineIsActive DEF TypeInv, FileInv, normalizeAndValidate
  <2>7. jobs[mine].cur \in Nat /\ jobs[mine].target \in Nat
    BY <2>1, MineIsActive, VersionAssumption DEF Versioned
  <2>8. ~(env' < env)
    BY <2>4, <2>5, <2>6, <2>7
  <2> QED
    BY <2>2, <2>3, <2>4, <2>8 DEF MutatePhases, PastCheckpoint
<1>2. CASE RestoreImage \/ Wipe \/ RestoreData
  <2>1. pc \in EngineSteps
    BY <1>2 DEF RestoreImage, Wipe, RestoreData, At, EngineSteps
  <2>2. mine \in JobId /\ jobs[mine].status = "rolling_back"
    BY <1>2, <2>1, MineIsActive DEF TypeInv, EngineInv, StatusAt,
       RestoreSteps, RestoreImage, Wipe, RestoreData, At
  <2>3. jobs[mine].rp = slot /\ slot.ver = jobs[mine].cur
    BY <2>2 DEF PointInv, Held, PastCheckpoint
  <2>4. StageFits(pc, jobs[mine])
    BY <2>1 DEF StageInv
  <2>5. env' # env => env' = jobs[mine].cur
    BY <1>2, <2>3 DEF RestoreImage, Wipe, RestoreData
  <2>6. data' = Mixed /\ data # Mixed => jobs[mine].attempts > 0
    BY <1>2, <2>4 DEF RestoreImage, Wipe, RestoreData, At, StageFits,
       CountedStages, Goto
  <2> QED
    BY <2>2, <2>3, <2>5, <2>6 DEF PastCheckpoint
<1>3. CASE ServerMigrates
  <2>1. env' = env /\ data' # Mixed
    BY <1>3 DEF ServerMigrates, Mixed
  <2> QED BY <2>1
<1>4. ASSUME ~(WriteImage \/ RestoreImage \/ Wipe \/ RestoreData
                 \/ ServerMigrates)
      PROVE  UNCHANGED <<env, data>>
  <2> USE DEF hostVars
  <2>1. CASE SavingStep \/ Checkpoint
    BY <2>1, SavingStepSaves DEF EngineSaves, Checkpoint
  <2>2. CASE SourceReady \/ BeginAndStop \/ Dump \/ SourceRestored \/ Commit
    BY <2>2 DEF SourceReady, BeginAndStop, Dump, SourceRestored, Commit
  <2>3. CASE Pull \/ Recreate \/ CheckDirectTarget
    BY <2>3 DEF Pull, Recreate, CheckDirectTarget
  <2>4. CASE RestoreStop \/ RestoreUp \/ CheckRestored \/ RestartUp
               \/ RestartCheck
    BY <2>4 DEF RestoreStop, RestoreUp, CheckRestored, RestartUp, RestartCheck
  <2>5. CASE RunActive \/ Crash \/ Boot \/ UNCHANGED vars
    BY <2>5 DEF RunActive, Crash, Boot, vars
  <2>6. CASE ControlStep
    BY <2>6 DEF ControlStep, CreatePreflight, CreateReadVersion, CreateSave,
       StartRestart, setDesiredState, controlUnchanged
  <2> QED
    BY <1>4, <2>1, <2>2, <2>3, <2>4, <2>5, <2>6 DEF Next, EngineStep,
       PrepareStep, ActivateStep, RestoreStep, RestartStep, SavingStep
<1> QED BY <1>1, <1>2, <1>3, <1>4

\* A failure is recorded with a way out: the state "running", which the
\* watchdog serves, or a record that offers a restart.
LEMMA StepAttends ==
  ASSUME SafeInv, [Next]_vars, NEW j \in JobId, Becomes(j, "failed")
  PROVE  restartOffered(jobs'[j]) \/ desired' = "running"
<1> USE DEF SafeInv
<1>1. /\ j = mine /\ pc \in EngineSteps
      /\ \/ FailBeforeMutation \/ RecordRecoveryFailure
         \/ RestartDone \/ RestartFailed
  BY EndedByEngine DEF TerminalStatus
<1>2. /\ mine \in JobId /\ jobs[mine] \in Candidate
      /\ jobs \in [JobId -> Job]
  BY <1>1, MineIsActive DEF TypeInv, FileInv, Typed
<1>3. jobs'[j].status = "failed" /\ jobs' # jobs
  BY <1>1, <1>2 DEF Becomes
<1>4. jobs[mine].status # "failed"
  BY <1>1 DEF Becomes
<1> USE DEF updateJob, Update, fileVars
<1>5. CASE FailBeforeMutation \/ RestartDone
  BY <1>3, <1>5 DEF FailBeforeMutation, RestartDone
<1>6. CASE RecordRecoveryFailure
  <2> DEFINE ended == [jobs[mine] EXCEPT
                        !.status = "failed", !.step = "complete",
                        !.svc = FALSE, !.code = "rollback_failed"]
             again == [jobs[mine] EXCEPT !.svc = FALSE,
                                         !.step = "restore_backup"]
  <2>1. \/ jobs' = [jobs EXCEPT ![mine] = ended]
        \/ jobs' = [jobs EXCEPT ![mine] = again]
    BY <1>3, <1>6 DEF RecordRecoveryFailure
  <2>2. ended.status = "failed" /\ ~ended.svc /\ again.status = jobs[mine].status
    BY <1>2 DEF Candidate
  <2> HIDE DEF ended, again
  <2> QED BY <1>1, <1>2, <1>3, <1>4, <2>1, <2>2 DEF restartOffered
<1>7. CASE RestartFailed
  <2> DEFINE ended == [jobs[mine] EXCEPT
                        !.status = "failed", !.step = "complete",
                        !.svc = FALSE, !.code = "restart_failed"]
             again == [jobs[mine] EXCEPT !.svc = FALSE]
  <2>1. \/ jobs' = [jobs EXCEPT ![mine] = ended]
        \/ jobs' = [jobs EXCEPT ![mine] = again]
    BY <1>3, <1>7 DEF RestartFailed
  <2>2. ended.status = "failed" /\ ~ended.svc /\ again.status = jobs[mine].status
    BY <1>2 DEF Candidate
  <2> HIDE DEF ended, again
  <2> QED BY <1>1, <1>2, <1>3, <1>4, <2>1, <2>2 DEF restartOffered
<1> QED BY <1>1, <1>5, <1>6, <1>7

\* Reported results are true of the host, whatever crashed or failed before.
THEOREM ReportsAlwaysTrue == Spec => ReportsAreTrue
<1>1. SafeInv /\ [Next]_vars =>
        \A j \in JobId :
          /\ Becomes(j, "rolled_back") =>
                env = jobs[j].rp.ver /\ running = env /\ data = jobs[j].rp.data
          /\ Becomes(j, "succeeded") =>
                env = jobs[j].target /\ running = env /\ ~NeedsMigration(env)
  BY StepReports DEF AsBackedUp
<1> QED BY <1>1, AlwaysSafe, PTL DEF Spec, ReportsAreTrue

\* The host is changed only under a persisted phase that says so, with the
\* recovery point committed, and its version goes down only by a restore.
THEOREM MutatesAfterCheckpoint == Spec => CheckpointBeforeMutation
<1>1. SafeInv /\ [Next]_vars =>
       /\ env' # env => \E j \in JobId :
             /\ jobs[j].status \in PastCheckpoint \ {"pulling"}
             /\ jobs[j].rp = slot
             /\ env' < env => jobs[j].status = "rolling_back"
                              /\ env' = jobs[j].cur
       /\ data' = Mixed /\ data # Mixed => \E j \in JobId :
             /\ jobs[j].status = "rolling_back"
             /\ jobs[j].attempts > 0
             /\ jobs[j].rp = slot
  BY StepMutates
<1> QED BY <1>1, AlwaysSafe, PTL DEF Spec, CheckpointBeforeMutation

\* No failure leaves the server down and unattended.
THEOREM FailuresAreAttended == Spec => FailureIsAttended
<1>1. SafeInv /\ [Next]_vars =>
        \A j \in JobId :
          Becomes(j, "failed") /\ running = 0
            => restartOffered(jobs'[j]) \/ desired' = "running"
  BY StepAttends
<1> QED BY <1>1, AlwaysSafe, PTL DEF Spec, FailureIsAttended

-----------------------------------------------------------------------------
(***************************************************************************)
(* The engine never stalls.  What it does with an active job is ranked: by *)
(* the faults that were spent, the attempts that were counted and the place*)
(* of the step.  All three are bounded, so a step that lowers none of what *)
(* is left, and there is only one, is the only way to stay for ever.       *)
(***************************************************************************)
\* A step has a higher place than those that lead to it, unless they count.
place == [
    queued |-> 1, prepare_validating |-> 3, source_ready |-> 4,
    prepare_backing_up |-> 5, begin_stop |-> 6, dump |-> 7,
    source_restored |-> 8, commit |-> 9, checkpoint |-> 10,
    activate_pulling |-> 11, pull |-> 12, activate_stopping |-> 13,
    write_image |-> 14, activate_migrating |-> 15, recreate |-> 16,
    activate_starting |-> 17, checking |-> 18, check_target |-> 19,
    succeed |-> 20, begin_rollback |-> 20, fail_before_mutation |-> 21,
    restore_image |-> 22, restore_stop |-> 23, wipe |-> 24,
    restore_data |-> 25, restore_up |-> 26, restored |-> 27,
    check_restored |-> 28, roll_back |-> 29, recovery_failed |-> 29,
    restart_up |-> 26, restart_check |-> 27, restart_done |-> 28,
    restart_failed |-> 28, count_restore |-> 31, count_restart |-> 31 ]

\* The place of a job's engine; between two runs, just before the resumption.
Place(j) ==
    IF pc \in EngineSteps THEN place[pc]
    ELSE place[Resume(jobs[j])] - (IF pc = "idle" THEN 1 ELSE 2)

\* A count that would exceed its bound is not saved.
Refused(j) ==
    /\ pc \in {"count_restore", "count_restart"}
    /\ jobs[j].attempts = maxRecoveryAttempts
    /\ pc' = "idle"

\* A fault was spent, or an attempt, or the engine is further.
Advances(j) ==
    \/ faults' > faults
    \/ /\ faults' = faults
       /\ \/ jobs'[j].attempts > jobs[j].attempts
          \/ jobs'[j].attempts = jobs[j].attempts /\ Place(j)' > Place(j)

\* A step that leaves a job active is one of another party, which leaves engine
\* and job alone, or advances, or is a refused count.
OnlyRefusedCountsStall ==
    [][\A j \in JobId : active(jobs[j]) /\ active(jobs'[j]) =>
          \/ ~EngineStep /\ UNCHANGED <<jobs[j], engineVars>>
          \/ Advances(j)
          \/ Refused(j)]_vars

\* A failure that is about to be saved, and a restart of a failed job, have the
\* code of the failure; without one the save would not validate.
CodedSteps == {"fail_before_mutation", "begin_rollback"}

CodeInv ==
    /\ pc \in CodedSteps => code # ""
    /\ \A j \in JobId : jobs[j].status = "restarting" => jobs[j].code # ""

KeepsCodes ==
    /\ pc' \in CodedSteps => code' # ""
    /\ \A j \in JobId : jobs'[j].status = "restarting" =>
          jobs[j].status = "restarting" /\ jobs'[j].code = jobs[j].code

\* An engine step, by what it does to its own job.
EngineAdvances ==
    \/ faults' > faults
    \/ Refused(mine)
    \/ /\ faults' = faults
       /\ \/ ~active(jobs'[mine])
          \/ jobs'[mine].attempts > jobs[mine].attempts
          \/ /\ jobs'[mine].attempts = jobs[mine].attempts
             /\ \/ pc' \in EngineSteps /\ place[pc'] > place[pc]
                \/ pc' = "idle" /\ place[Resume(jobs'[mine])] - 1 > place[pc]

\* A valid record of the engine's job makes a valid file.
LEMMA ValidSave ==
  ASSUME TypeInv, pc \in EngineSteps, NEW job \in Candidate, NEW want,
         validateExecutionState(mine, job), job.cur <= job.target,
         active(job) => want = desired,
         ~active(job) => want # "upgrading"
  PROVE  normalizeAndValidate([jobs EXCEPT ![mine] = job], want)
<1> DEFINE js == [jobs EXCEPT ![mine] = job]
<1>1. /\ mine \in JobId /\ active(jobs[mine]) /\ jobs \in [JobId -> Job]
      /\ normalizeAndValidate(jobs, desired)
  BY MineIsActive DEF TypeInv, FileInv, Typed
<1>2. js[mine] = job /\ \A j \in JobId \ {mine} : js[j] = jobs[j]
  BY <1>1
<1> HIDE DEF js
<1>3. \A j \in JobId : active(jobs[j]) => j = mine
  BY <1>1 DEF normalizeAndValidate
<1>4. desired = "upgrading"
  BY <1>1 DEF normalizeAndValidate, hasActiveJob
<1>5. \A j \in JobId : active(js[j]) => j = mine /\ active(job)
  BY <1>2, <1>3
<1>6. want = "upgrading" <=> hasActiveJob(js)
  BY <1>1, <1>2, <1>4, <1>5 DEF hasActiveJob
<1>7. \A j \in JobId : js[j].status # Absent =>
            validateExecutionState(j, js[j]) /\ js[j].cur <= js[j].target
  BY <1>1, <1>2 DEF normalizeAndValidate
<1>8. normalizeAndValidate(js, want)
  BY <1>5, <1>6, <1>7 DEF normalizeAndValidate
<1> QED BY <1>8 DEF js

\* Every step has a place, also those at which a job is resumed.
LEMMA Places ==
  /\ \A s \in EngineSteps : place[s] \in Nat
  /\ \A job : Resume(job) \in EngineSteps
<1>1. \A s \in EngineSteps : place[s] \in Nat
  BY DEF place, EngineSteps
<1>2. \A job : Resume(job) \in EngineSteps
  BY DEF Resume, EngineSteps
<1> QED BY <1>1, <1>2

\* The places, one by one.
LEMMA PlaceIs ==
  /\ place["queued"] = 1 /\ place["prepare_validating"] = 3
  /\ place["source_ready"] = 4 /\ place["prepare_backing_up"] = 5
  /\ place["begin_stop"] = 6 /\ place["dump"] = 7
  /\ place["source_restored"] = 8 /\ place["commit"] = 9
  /\ place["checkpoint"] = 10 /\ place["activate_pulling"] = 11
  /\ place["pull"] = 12 /\ place["activate_stopping"] = 13
  /\ place["write_image"] = 14 /\ place["activate_migrating"] = 15
  /\ place["recreate"] = 16 /\ place["activate_starting"] = 17
  /\ place["checking"] = 18 /\ place["check_target"] = 19
  /\ place["succeed"] = 20 /\ place["begin_rollback"] = 20
  /\ place["fail_before_mutation"] = 21 /\ place["restore_image"] = 22
  /\ place["restore_stop"] = 23 /\ place["wipe"] = 24
  /\ place["restore_data"] = 25 /\ place["restore_up"] = 26
  /\ place["restored"] = 27 /\ place["check_restored"] = 28
  /\ place["roll_back"] = 29 /\ place["recovery_failed"] = 29
  /\ place["restart_up"] = 26 /\ place["restart_check"] = 27
  /\ place["restart_done"] = 28 /\ place["restart_failed"] = 28
  /\ place["count_restore"] = 31 /\ place["count_restart"] = 31
  BY DEF place

\* A step t that is ahead of s.
Ahead(s, t) == t \in EngineSteps /\ place[t] > place[s]

\* Where each step may lead, unless RunActive returns.
LEMMA StepsAhead ==
  /\ Ahead("source_ready", "prepare_backing_up")
  /\ Ahead("source_ready", "fail_before_mutation")
  /\ Ahead("begin_stop", "dump")
  /\ Ahead("begin_stop", "fail_before_mutation")
  /\ Ahead("dump", "source_restored") /\ Ahead("source_restored", "commit")
  /\ Ahead("source_restored", "fail_before_mutation")
  /\ Ahead("commit", "checkpoint") /\ Ahead("commit", "fail_before_mutation")
  /\ Ahead("pull", "activate_stopping")
  /\ Ahead("pull", "fail_before_mutation")
  /\ Ahead("write_image", "activate_migrating")
  /\ Ahead("write_image", "begin_rollback")
  /\ Ahead("recreate", "activate_starting")
  /\ Ahead("recreate", "begin_rollback") /\ Ahead("check_target", "succeed")
  /\ Ahead("check_target", "begin_rollback")
  /\ Ahead("restore_image", "restore_stop")
  /\ Ahead("restore_image", "recovery_failed")
  /\ Ahead("restore_stop", "wipe") /\ Ahead("restore_stop", "recovery_failed")
  /\ Ahead("wipe", "restore_data") /\ Ahead("wipe", "recovery_failed")
  /\ Ahead("restore_data", "restore_up")
  /\ Ahead("restore_data", "recovery_failed")
  /\ Ahead("restore_up", "restored") /\ Ahead("restore_up", "recovery_failed")
  /\ Ahead("check_restored", "roll_back")
  /\ Ahead("check_restored", "recovery_failed")
  /\ Ahead("restart_up", "restart_check")
  /\ Ahead("restart_up", "restart_failed")
  /\ Ahead("restart_check", "restart_done")
  /\ Ahead("restart_check", "restart_failed")
  /\ Ahead("queued", "prepare_validating")
  /\ Ahead("prepare_validating", "source_ready")
  /\ Ahead("prepare_backing_up", "begin_stop")
  /\ Ahead("checkpoint", "activate_pulling")
  /\ Ahead("activate_pulling", "pull")
  /\ Ahead("activate_stopping", "write_image")
  /\ Ahead("activate_migrating", "recreate")
  /\ Ahead("activate_starting", "checking")
  /\ Ahead("checking", "check_target")
  /\ Ahead("begin_rollback", "count_restore")
  /\ Ahead("begin_rollback", "fail_before_mutation")
  /\ Ahead("restored", "check_restored")
  BY PlaceIs DEF Ahead, EngineSteps

\* A step that works on the host: it saves nothing, and a failure has a code.
Works(s, ok, failed) ==
    /\ pc = s
    /\ pc' \in {ok, failed}
    /\ pc' \in CodedSteps => code' # ""
    /\ UNCHANGED <<jobs, faults>>

\* What such a step does to the ranking and the codes.
LEMMA WorkAdvances ==
  ASSUME NEW s, NEW ok, NEW failed, Works(s, ok, failed),
         Ahead(s, ok), Ahead(s, failed)
  PROVE  EngineAdvances /\ KeepsCodes
  BY DEF Works, Ahead, EngineAdvances, KeepsCodes, CodedSteps

\* The work of the preparation saves nothing and goes on.
LEMMA PrepareWork ==
  ASSUME SourceReady \/ BeginAndStop \/ Dump \/ SourceRestored \/ Commit
  PROVE  EngineAdvances /\ KeepsCodes
<1>1. CASE SourceReady
  <2>1. Works("source_ready", "prepare_backing_up", "fail_before_mutation")
    BY <1>1
       DEF SourceReady, ensureDirectSourceReady, BackupFails, FailBefore, Goto,
           At, fileVars, Works, CodedSteps
  <2> QED BY <2>1, StepsAhead, WorkAdvances
<1>2. CASE BeginAndStop
  <2>1. Works("begin_stop", "dump", "fail_before_mutation")
    BY <1>2
       DEF BeginAndStop, BackupFails, FailBefore, Goto, At, fileVars, Works,
           CodedSteps
  <2> QED BY <2>1, StepsAhead, WorkAdvances
<1>3. CASE Dump
  <2>1. Works("dump", "source_restored", "source_restored")
    BY <1>3 DEF Dump, At, fileVars, Works, CodedSteps
  <2> QED BY <2>1, StepsAhead, WorkAdvances
<1>4. CASE SourceRestored
  <2>1. Works("source_restored", "commit", "fail_before_mutation")
    BY <1>4
       DEF SourceRestored, ensureDirectSourceReady, BackupFails, FailBefore,
           Goto, At, fileVars, Works, CodedSteps
  <2> QED BY <2>1, StepsAhead, WorkAdvances
<1>5. CASE Commit
  <2>1. Works("commit", "checkpoint", "fail_before_mutation")
    BY <1>5
       DEF Commit, BackupFails, FailBefore, Goto, At, fileVars, Works,
           CodedSteps
  <2> QED BY <2>1, StepsAhead, WorkAdvances
<1> QED BY <1>1, <1>2, <1>3, <1>4, <1>5

\* So does the work of the activation.
LEMMA ActivateWork ==
  ASSUME Pull \/ WriteImage \/ Recreate \/ CheckDirectTarget
  PROVE  EngineAdvances /\ KeepsCodes
<1>1. CASE Pull
  <2>1. Works("pull", "activate_stopping", "fail_before_mutation")
    BY <1>1
       DEF Pull, NotActivated, FailBefore, Goto, At, fileVars, Works,
           CodedSteps
  <2> QED BY <2>1, StepsAhead, WorkAdvances
<1>2. CASE WriteImage
  <2>1. Works("write_image", "activate_migrating", "begin_rollback")
    BY <1>2
       DEF WriteImage, HalfActivated, Rollback, Goto, At, fileVars, Works,
           CodedSteps
  <2> QED BY <2>1, StepsAhead, WorkAdvances
<1>3. CASE Recreate
  <2>1. Works("recreate", "activate_starting", "begin_rollback")
    BY <1>3
       DEF Recreate, HalfActivated, Rollback, Goto, At, fileVars, Works,
           CodedSteps
  <2> QED BY <2>1, StepsAhead, WorkAdvances
<1>4. CASE CheckDirectTarget
  <2>1. Works("check_target", "succeed", "begin_rollback")
    BY <1>4
       DEF CheckDirectTarget, Rollback, Goto, At, fileVars, Works, CodedSteps
  <2> QED BY <2>1, StepsAhead, WorkAdvances
<1> QED BY <1>1, <1>2, <1>3, <1>4

\* So does the work of a restore or a restart.
LEMMA RecoveryWork ==
  ASSUME RestoreImage \/ RestoreStop \/ Wipe \/ RestoreData \/ RestoreUp \/ CheckRestored \/ RestartUp \/ RestartCheck
  PROVE  EngineAdvances /\ KeepsCodes
<1>1. CASE RestoreImage
  <2>1. Works("restore_image", "restore_stop", "recovery_failed")
    BY <1>1 DEF RestoreImage, Goto, At, fileVars, Works, CodedSteps
  <2> QED BY <2>1, StepsAhead, WorkAdvances
<1>2. CASE RestoreStop
  <2>1. Works("restore_stop", "wipe", "recovery_failed")
    BY <1>2 DEF RestoreStop, Goto, At, fileVars, Works, CodedSteps
  <2> QED BY <2>1, StepsAhead, WorkAdvances
<1>3. CASE Wipe
  <2>1. Works("wipe", "restore_data", "recovery_failed")
    BY <1>3 DEF Wipe, Goto, At, fileVars, Works, CodedSteps
  <2> QED BY <2>1, StepsAhead, WorkAdvances
<1>4. CASE RestoreData
  <2>1. Works("restore_data", "restore_up", "recovery_failed")
    BY <1>4 DEF RestoreData, Goto, At, fileVars, Works, CodedSteps
  <2> QED BY <2>1, StepsAhead, WorkAdvances
<1>5. CASE RestoreUp
  <2>1. Works("restore_up", "restored", "recovery_failed")
    BY <1>5 DEF RestoreUp, Goto, At, fileVars, Works, CodedSteps
  <2> QED BY <2>1, StepsAhead, WorkAdvances
<1>6. CASE CheckRestored
  <2>1. Works("check_restored", "roll_back", "recovery_failed")
    BY <1>6 DEF CheckRestored, Goto, At, fileVars, Works, CodedSteps
  <2> QED BY <2>1, StepsAhead, WorkAdvances
<1>7. CASE RestartUp
  <2>1. Works("restart_up", "restart_check", "restart_failed")
    BY <1>7 DEF RestartUp, Goto, At, fileVars, Works, CodedSteps
  <2> QED BY <2>1, StepsAhead, WorkAdvances
<1>8. CASE RestartCheck
  <2>1. Works("restart_check", "restart_done", "restart_failed")
    BY <1>8 DEF RestartCheck, Goto, At, fileVars, Works, CodedSteps
  <2> QED BY <2>1, StepsAhead, WorkAdvances
<1> QED BY <1>1, <1>2, <1>3, <1>4, <1>5, <1>6, <1>7, <1>8

-----------------------------------------------------------------------------
\* The engine's job is valid as it is.
LEMMA MineIsValid ==
  ASSUME TypeInv, pc \in EngineSteps
  PROVE  /\ jobs[mine] \in Job /\ jobs[mine] \in Candidate
         /\ validateExecutionState(mine, jobs[mine])
         /\ jobs[mine].cur <= jobs[mine].target
         /\ jobs[mine].attempts \in 0..maxRecoveryAttempts
         /\ mine \in JobId /\ jobs \in [JobId -> Job]
         /\ desired \in DesiredState
         /\ StatusAt(jobs[mine].status, pc)
         /\ faults \in Nat
<1>1. mine \in JobId /\ jobs[mine].status # Absent /\ jobs[mine] \in Candidate
  BY MineIsActive
<1>2. jobs \in [JobId -> Job] /\ normalizeAndValidate(jobs, desired)
  BY DEF TypeInv, FileInv, Typed
<1>3. /\ validateExecutionState(mine, jobs[mine])
      /\ jobs[mine].cur <= jobs[mine].target
  BY <1>1, <1>2 DEF normalizeAndValidate
<1> QED
  BY <1>1, <1>2, <1>3
     DEF Job, TypeInv, EngineInv, FileInv, HostInv

\* A step that saves its job and goes on, unless the save fails.
Written(job, next) ==
    \/ /\ faults' > faults
       /\ jobs' = jobs \/ jobs' = [jobs EXCEPT ![mine] = job]
       /\ pc' \in CodedSteps => code' # ""
    \/ /\ faults' = faults
       /\ jobs' = [jobs EXCEPT ![mine] = job]
       /\ pc' = next

\* The record that is saved keeps the attempts and the code.
SameBudget(job) ==
    /\ job.attempts = jobs[mine].attempts
    /\ job.status # "restarting"

\* What such a save does to the ranking and the codes.
LEMMA SaveAdvances ==
  ASSUME TypeInv, pc \in EngineSteps, NEW STATE job, NEW next,
         Written(job, next), SameBudget(job), Ahead(pc, next),
         next \notin CodedSteps
  PROVE  EngineAdvances /\ KeepsCodes
<1>1. mine \in JobId /\ jobs \in [JobId -> Job]
  BY MineIsValid
<1>2. \A j \in JobId : jobs'[j] = jobs[j] \/ (j = mine /\ jobs'[j] = job)
  BY <1>1 DEF Written
<1>3. EngineAdvances
  BY <1>1 DEF Written, SameBudget, Ahead, EngineAdvances
<1>4. KeepsCodes
  BY <1>2 DEF Written, SameBudget, KeepsCodes
<1> QED BY <1>3, <1>4

\* A report of a phase is valid and keeps the attempts.
LEMMA ReportValid ==
  ASSUME TypeInv, pc \in EngineSteps,
         NEW next \in UpgradePhases, jobs[mine].status \in UpgradePhases
  PROVE  /\ normalizeAndValidate(
               [jobs EXCEPT ![mine] = progressed(jobs[mine], next)], desired)
         /\ SameBudget(progressed(jobs[mine], next))
<1> DEFINE old == jobs[mine]
           new == [old EXCEPT !.status = next, !.step = "phase",
                              !.svc = availableIn(next, old.svc)]
           job == progressed(old, next)
<1>1. /\ old \in Candidate /\ validateExecutionState(mine, old)
      /\ old.cur <= old.target
  BY MineIsValid
<1>2. availableIn(next, old.svc) \in BOOLEAN
  BY <1>1 DEF availableIn, Candidate
<1>3. /\ new \in Candidate
      /\ new.status = next /\ new.rp = old.rp /\ new.cur = old.cur
      /\ new.target = old.target /\ new.attempts = old.attempts
  BY <1>1, <1>2 DEF Candidate, JobStatus, ActiveStatus, JobStep
<1>4. job = old \/ job = new
  BY DEF progressed
<1>5. next \notin TerminalStatus \union {"restarting", "rolling_back"}
        /\ next \in ActiveStatus
        /\ "restarting" \notin UpgradePhases
  BY DEF UpgradePhases, TerminalStatus, ActiveStatus
<1> HIDE DEF new, job
<1>6. /\ validateExecutionState(mine, new) /\ new.cur <= new.target
      /\ active(new)
  BY <1>1, <1>3, <1>5
     DEF validateExecutionState, active, TerminalStatus
<1>7. active(old)
  BY MineIsActive
<1>8. /\ job \in Candidate /\ validateExecutionState(mine, job)
      /\ job.cur <= job.target /\ active(job)
  BY <1>1, <1>3, <1>4, <1>6, <1>7
<1>9. normalizeAndValidate([jobs EXCEPT ![mine] = job], desired)
  BY <1>8, ValidSave
<1>10. SameBudget(job)
  BY <1>3, <1>4, <1>5 DEF SameBudget
<1> QED BY <1>9, <1>10 DEF job

\* The reports go on, unless their save fails.
LEMMA ReportAdvances ==
  ASSUME TypeInv, \/ PrepareValidating \/ PrepareBackingUp \/ ActivatePulling
                  \/ ActivateStopping \/ ActivateMigrating \/ ActivateStarting
  PROVE  EngineAdvances /\ KeepsCodes
<1>0. faults \in Nat /\ faults + 1 > faults
  BY DEF TypeInv, HostInv
<1>1. CASE PrepareValidating
  <2> DEFINE job == progressed(jobs[mine], "validating")
  <2>1. /\ pc = "prepare_validating" /\ pc \in EngineSteps
        /\ "validating" \in UpgradePhases
    BY <1>1 DEF PrepareValidating, At, EngineSteps, UpgradePhases
  <2>2. jobs[mine].status \in UpgradePhases
    BY <2>1, MineIsValid DEF StatusAt, PrepareSteps, BeforeWriteSteps,
       MutateSteps, MutatePhases, UpgradePhases
  <2>3. /\ normalizeAndValidate([jobs EXCEPT ![mine] = job], desired)
        /\ SameBudget(job)
    BY <2>1, <2>2, ReportValid
  <2> HIDE DEF job
  <2>4. Written(job, "source_ready")
    BY <1>0, <1>1, <2>3
       DEF PrepareValidating, progress, updateJob, Update, fileVars,
       Goto, BackupFails, FailBefore, CodedSteps, Written, job
  <2>5. "source_ready" \notin CodedSteps
    BY DEF CodedSteps
  <2> QED BY <2>1, <2>3, <2>4, <2>5, StepsAhead, SaveAdvances
<1>2. CASE PrepareBackingUp
  <2> DEFINE job == progressed(jobs[mine], "backing_up")
  <2>1. /\ pc = "prepare_backing_up" /\ pc \in EngineSteps
        /\ "backing_up" \in UpgradePhases
    BY <1>2 DEF PrepareBackingUp, At, EngineSteps, UpgradePhases
  <2>2. jobs[mine].status \in UpgradePhases
    BY <2>1, MineIsValid DEF StatusAt, PrepareSteps, BeforeWriteSteps,
       MutateSteps, MutatePhases, UpgradePhases
  <2>3. /\ normalizeAndValidate([jobs EXCEPT ![mine] = job], desired)
        /\ SameBudget(job)
    BY <2>1, <2>2, ReportValid
  <2> HIDE DEF job
  <2>4. Written(job, "begin_stop")
    BY <1>0, <1>2, <2>3
       DEF PrepareBackingUp, progress, updateJob, Update, fileVars,
       Goto, BackupFails, FailBefore, CodedSteps, Written, job
  <2>5. "begin_stop" \notin CodedSteps
    BY DEF CodedSteps
  <2> QED BY <2>1, <2>3, <2>4, <2>5, StepsAhead, SaveAdvances
<1>3. CASE ActivatePulling
  <2> DEFINE job == progressed(jobs[mine], "pulling")
  <2>1. /\ pc = "activate_pulling" /\ pc \in EngineSteps
        /\ "pulling" \in UpgradePhases
    BY <1>3 DEF ActivatePulling, At, EngineSteps, UpgradePhases
  <2>2. jobs[mine].status \in UpgradePhases
    BY <2>1, MineIsValid DEF StatusAt, PrepareSteps, BeforeWriteSteps,
       MutateSteps, MutatePhases, UpgradePhases
  <2>3. /\ normalizeAndValidate([jobs EXCEPT ![mine] = job], desired)
        /\ SameBudget(job)
    BY <2>1, <2>2, ReportValid
  <2> HIDE DEF job
  <2>4. Written(job, "pull")
    BY <1>0, <1>3, <2>3
       DEF ActivatePulling, progress, updateJob, Update, fileVars,
       Goto, NotActivated, FailBefore, CodedSteps, Written, job
  <2>5. "pull" \notin CodedSteps
    BY DEF CodedSteps
  <2> QED BY <2>1, <2>3, <2>4, <2>5, StepsAhead, SaveAdvances
<1>4. CASE ActivateStopping
  <2> DEFINE job == progressed(jobs[mine], "stopping")
  <2>1. /\ pc = "activate_stopping" /\ pc \in EngineSteps
        /\ "stopping" \in UpgradePhases
    BY <1>4 DEF ActivateStopping, At, EngineSteps, UpgradePhases
  <2>2. jobs[mine].status \in UpgradePhases
    BY <2>1, MineIsValid DEF StatusAt, PrepareSteps, BeforeWriteSteps,
       MutateSteps, MutatePhases, UpgradePhases
  <2>3. /\ normalizeAndValidate([jobs EXCEPT ![mine] = job], desired)
        /\ SameBudget(job)
    BY <2>1, <2>2, ReportValid
  <2> HIDE DEF job
  <2>4. Written(job, "write_image")
    BY <1>0, <1>4, <2>3
       DEF ActivateStopping, progress, updateJob, Update, fileVars,
       Goto, NotActivated, FailBefore, CodedSteps, Written, job
  <2>5. "write_image" \notin CodedSteps
    BY DEF CodedSteps
  <2> QED BY <2>1, <2>3, <2>4, <2>5, StepsAhead, SaveAdvances
<1>5. CASE ActivateMigrating
  <2> DEFINE job == progressed(jobs[mine], "migrating")
  <2>1. /\ pc = "activate_migrating" /\ pc \in EngineSteps
        /\ "migrating" \in UpgradePhases
    BY <1>5 DEF ActivateMigrating, At, EngineSteps, UpgradePhases
  <2>2. jobs[mine].status \in UpgradePhases
    BY <2>1, MineIsValid DEF StatusAt, PrepareSteps, BeforeWriteSteps,
       MutateSteps, MutatePhases, UpgradePhases
  <2>3. /\ normalizeAndValidate([jobs EXCEPT ![mine] = job], desired)
        /\ SameBudget(job)
    BY <2>1, <2>2, ReportValid
  <2> HIDE DEF job
  <2>4. Written(job, "recreate")
    BY <1>0, <1>5, <2>3
       DEF ActivateMigrating, progress, updateJob, Update, fileVars,
       Goto, HalfActivated, Rollback, CodedSteps, Written, job
  <2>5. "recreate" \notin CodedSteps
    BY DEF CodedSteps
  <2> QED BY <2>1, <2>3, <2>4, <2>5, StepsAhead, SaveAdvances
<1>6. CASE ActivateStarting
  <2> DEFINE job == progressed(jobs[mine], "starting")
  <2>1. /\ pc = "activate_starting" /\ pc \in EngineSteps
        /\ "starting" \in UpgradePhases
    BY <1>6 DEF ActivateStarting, At, EngineSteps, UpgradePhases
  <2>2. jobs[mine].status \in UpgradePhases
    BY <2>1, MineIsValid DEF StatusAt, PrepareSteps, BeforeWriteSteps,
       MutateSteps, MutatePhases, UpgradePhases
  <2>3. /\ normalizeAndValidate([jobs EXCEPT ![mine] = job], desired)
        /\ SameBudget(job)
    BY <2>1, <2>2, ReportValid
  <2> HIDE DEF job
  <2>4. Written(job, "checking")
    BY <1>0, <1>6, <2>3
       DEF ActivateStarting, progress, updateJob, Update, fileVars,
       Goto, HalfActivated, Rollback, CodedSteps, Written, job
  <2>5. "checking" \notin CodedSteps
    BY DEF CodedSteps
  <2> QED BY <2>1, <2>3, <2>4, <2>5, StepsAhead, SaveAdvances
<1> QED BY <1>1, <1>2, <1>3, <1>4, <1>5, <1>6

\* A queued job starts.
LEMMA StartQueuedAdvances ==
  ASSUME TypeInv, StartQueued
  PROVE  EngineAdvances /\ KeepsCodes
<1> DEFINE old == jobs[mine]
           job == [old EXCEPT !.status = "validating", !.step = "phase"]
<1>1. pc = "queued" /\ pc \in EngineSteps
  BY DEF StartQueued, At, EngineSteps
<1>2. /\ old \in Candidate /\ validateExecutionState(mine, old)
      /\ old.cur <= old.target /\ StatusAt(old.status, pc)
      /\ faults \in Nat /\ faults + 1 > faults
  BY <1>1, MineIsValid
<1>3. /\ job \in Candidate
      /\ job.status = "validating" /\ job.target = old.target
      /\ job.cur = old.cur /\ job.rp = old.rp /\ job.attempts = old.attempts
  BY <1>1, <1>2, Members DEF Candidate, StatusAt, RestoreSteps
<1>4. /\ validateExecutionState(mine, job) /\ job.cur <= job.target
      /\ active(job)
  BY <1>1, <1>2, <1>3 DEF validateExecutionState, active, TerminalStatus,
     ActiveStatus, UpgradePhases, StatusAt, RestoreSteps
<1> HIDE DEF job
<1>5. normalizeAndValidate([jobs EXCEPT ![mine] = job], desired)
  BY <1>1, <1>3, <1>4, ValidSave
<1>6. SameBudget(job)
  BY <1>3 DEF SameBudget
<1>7. Written(job, "prepare_validating")
  BY <1>2, <1>5 DEF StartQueued, updateJob, Update, fileVars, Goto, Return,
     CodedSteps, Written, job
<1>8. "prepare_validating" \notin CodedSteps
  BY DEF CodedSteps
<1> QED BY <1>1, <1>6, <1>7, <1>8, StepsAhead, SaveAdvances

\* The health check begins.
LEMMA CheckingAdvances ==
  ASSUME TypeInv, Checking
  PROVE  EngineAdvances /\ KeepsCodes
<1> DEFINE old == jobs[mine]
           job == [old EXCEPT !.status = "health_check", !.step = "phase",
                         !.svc = FALSE]
<1>1. pc = "checking" /\ pc \in EngineSteps
  BY DEF Checking, At, EngineSteps
<1>2. /\ old \in Candidate /\ validateExecutionState(mine, old)
      /\ old.cur <= old.target /\ StatusAt(old.status, pc)
      /\ faults \in Nat /\ faults + 1 > faults
  BY <1>1, MineIsValid
<1>3. /\ job \in Candidate
      /\ job.status = "health_check" /\ job.target = old.target
      /\ job.cur = old.cur /\ job.rp = old.rp /\ job.attempts = old.attempts
  BY <1>1, <1>2, Members DEF Candidate, StatusAt, RestoreSteps
<1>4. /\ validateExecutionState(mine, job) /\ job.cur <= job.target
      /\ active(job)
  BY <1>1, <1>2, <1>3 DEF validateExecutionState, active, TerminalStatus,
     ActiveStatus, UpgradePhases, StatusAt, RestoreSteps
<1> HIDE DEF job
<1>5. normalizeAndValidate([jobs EXCEPT ![mine] = job], desired)
  BY <1>1, <1>3, <1>4, ValidSave
<1>6. SameBudget(job)
  BY <1>3 DEF SameBudget
<1>7. Written(job, "check_target")
  BY <1>2, <1>5 DEF Checking, updateJob, Update, fileVars, Goto, Return,
     CodedSteps, Written, job
<1>8. "check_target" \notin CodedSteps
  BY DEF CodedSteps
<1> QED BY <1>1, <1>6, <1>7, <1>8, StepsAhead, SaveAdvances

\* A restore is done.
LEMMA RestoredAdvances ==
  ASSUME TypeInv, Restored
  PROVE  EngineAdvances /\ KeepsCodes
<1> DEFINE old == jobs[mine]
           job == [old EXCEPT !.step = "check_restored"]
<1>1. pc = "restored" /\ pc \in EngineSteps
  BY DEF Restored, At, EngineSteps
<1>2. /\ old \in Candidate /\ validateExecutionState(mine, old)
      /\ old.cur <= old.target /\ StatusAt(old.status, pc)
      /\ faults \in Nat /\ faults + 1 > faults
  BY <1>1, MineIsValid
<1>3. /\ job \in Candidate
      /\ job.status = "rolling_back" /\ job.target = old.target
      /\ job.cur = old.cur /\ job.rp = old.rp /\ job.attempts = old.attempts
  BY <1>1, <1>2, Members DEF Candidate, StatusAt, RestoreSteps
<1>4. /\ validateExecutionState(mine, job) /\ job.cur <= job.target
      /\ active(job)
  BY <1>1, <1>2, <1>3 DEF validateExecutionState, active, TerminalStatus,
     ActiveStatus, UpgradePhases, StatusAt, RestoreSteps
<1> HIDE DEF job
<1>5. normalizeAndValidate([jobs EXCEPT ![mine] = job], desired)
  BY <1>1, <1>3, <1>4, ValidSave
<1>6. SameBudget(job)
  BY <1>3 DEF SameBudget
<1>7. Written(job, "check_restored")
  BY <1>2, <1>5 DEF Restored, updateJob, Update, fileVars, Goto, Return,
     CodedSteps, Written, job
<1>8. "check_restored" \notin CodedSteps
  BY DEF CodedSteps
<1> QED BY <1>1, <1>6, <1>7, <1>8, StepsAhead, SaveAdvances

\* The rollback begins, or a job without a recovery point fails.
LEMMA BeginRollbackAdvances ==
  ASSUME TypeInv, CodeInv, BeginRollback
  PROVE  EngineAdvances /\ KeepsCodes
<1> DEFINE old == jobs[mine]
           job == [old EXCEPT !.status = "rolling_back",
                              !.step = "restore_backup", !.svc = FALSE,
                              !.code = code]
<1>1. pc = "begin_rollback" /\ pc \in EngineSteps
  BY DEF BeginRollback, At, EngineSteps
<1>2. /\ old \in Candidate /\ validateExecutionState(mine, old)
      /\ old.cur <= old.target /\ StatusAt(old.status, pc)
      /\ faults \in Nat /\ faults + 1 > faults
  BY <1>1, MineIsValid
<1>c. code \in ErrorCode /\ code # ""
  BY <1>1 DEF TypeInv, EngineInv, CodeInv, CodedSteps
<1>3. CASE old.rp = NoPoint
  <2>1. Works("begin_rollback", "fail_before_mutation", "fail_before_mutation")
    BY <1>1, <1>2, <1>c, <1>3
       DEF BeginRollback, FailBefore, fileVars, CodedSteps,
       Works
  <2> QED BY <2>1, StepsAhead, WorkAdvances
<1>4. CASE old.rp # NoPoint
  <2>1. /\ job \in Candidate
        /\ job.status = "rolling_back" /\ job.target = old.target
        /\ job.cur = old.cur /\ job.rp = old.rp
        /\ job.attempts = old.attempts
    BY <1>2, <1>c, Members DEF Candidate
  <2>2. /\ validateExecutionState(mine, job) /\ job.cur <= job.target
        /\ active(job)
    BY <1>2, <1>4, <2>1 DEF validateExecutionState, active, TerminalStatus,
       ActiveStatus
  <2> HIDE DEF job
  <2>3. normalizeAndValidate([jobs EXCEPT ![mine] = job], desired)
    BY <1>1, <2>1, <2>2, ValidSave
  <2>4. SameBudget(job)
    BY <2>1 DEF SameBudget
  <2>5. Written(job, "count_restore")
    BY <1>2, <1>4, <2>3 DEF BeginRollback, updateJob, Update, fileVars, Goto,
       Return, CodedSteps, Written, job
  <2>6. "count_restore" \notin CodedSteps
    BY DEF CodedSteps
  <2> QED BY <1>1, <2>4, <2>5, <2>6, StepsAhead, SaveAdvances
<1> QED BY <1>3, <1>4

\* The count is valid exactly while an attempt is left.
LEMMA CountValid ==
  ASSUME NEW j, NEW old, NEW job, validateExecutionState(j, old),
         old.status \in {"rolling_back", "restarting"},
         old.attempts \in 0..maxRecoveryAttempts,
         job.attempts = old.attempts + 1, job.status = old.status,
         job.step = old.step, job.rp = old.rp
  PROVE  validateExecutionState(j, job) <=> old.attempts < maxRecoveryAttempts
<1>1. job.attempts <= maxRecoveryAttempts <=> old.attempts < maxRecoveryAttempts
  BY DEF maxRecoveryAttempts
<1>2. /\ job.status = "rolling_back" => job.rp # NoPoint
      /\ job.status = "restarting" => job.step = "restart"
      /\ job.rp # NoPoint => job.rp.job = j
      /\ job.status \notin TerminalStatus
      /\ job.status \notin {"succeeded", "failed"}
  BY DEF validateExecutionState, TerminalStatus
<1> QED BY <1>1, <1>2 DEF validateExecutionState

\* An attempt is counted, or the count would exceed its bound and is refused.
LEMMA CountAdvances ==
  ASSUME TypeInv, CodeInv, CountRestore \/ CountRestart
  PROVE  EngineAdvances /\ KeepsCodes
<1> DEFINE old == jobs[mine]
           job == [old EXCEPT !.attempts = @ + 1]
           js == [jobs EXCEPT ![mine] = job]
<1>1. pc \in {"count_restore", "count_restart"} /\ pc \in EngineSteps
  BY DEF CountRestore, CountRestart, At, EngineSteps
<1>2. /\ old \in Candidate /\ validateExecutionState(mine, old)
      /\ old.cur <= old.target /\ StatusAt(old.status, pc)
      /\ faults \in Nat /\ faults + 1 > faults
      /\ mine \in JobId /\ jobs \in [JobId -> Job]
      /\ old.attempts \in 0..maxRecoveryAttempts /\ active(old)
  BY <1>1, MineIsValid, MineIsActive
<1>s. old.status \in {"rolling_back", "restarting"}
  BY <1>1, <1>2 DEF StatusAt, RestoreSteps, RestartSteps
<1>3. /\ job \in Candidate /\ job.code = old.code
      /\ job.status = old.status /\ job.target = old.target
      /\ job.cur = old.cur /\ job.rp = old.rp /\ job.step = old.step
      /\ job.attempts = old.attempts + 1
  BY <1>2, Counted DEF Candidate
<1> HIDE DEF job
<1>4. CASE old.attempts < maxRecoveryAttempts
  <2>1. /\ validateExecutionState(mine, job) /\ job.cur <= job.target
        /\ active(job)
    <3>1. validateExecutionState(mine, job)
      BY <1>2, <1>s, <1>3, <1>4, CountValid
    <3> QED BY <1>2, <1>3, <3>1 DEF active
  <2>2. normalizeAndValidate(js, desired)
    BY <1>1, <1>3, <2>1, ValidSave
  <2> HIDE DEF js
  <2>3. \/ /\ faults' > faults /\ (jobs' = jobs \/ jobs' = js)
           /\ pc' \notin CodedSteps
        \/ faults' = faults /\ jobs' = js /\ pc' \notin CodedSteps
    BY <1>2, <2>2 DEF CountRestore, CountRestart, updateJob, Update, fileVars,
       Goto, Return, CodedSteps, job, js
  <2>4. \A j \in JobId : js[j] = jobs[j] \/ (j = mine /\ js[j] = job)
    BY <1>2 DEF js
  <2>5. js[mine] = job
    BY <1>2 DEF js
  <2>6. EngineAdvances
    BY <1>2, <1>3, <2>3, <2>5 DEF EngineAdvances
  <2>7. KeepsCodes
    BY <1>3, <2>3, <2>4 DEF KeepsCodes
  <2> QED BY <2>6, <2>7
<1>5. CASE old.attempts >= maxRecoveryAttempts
  <2>1. ~normalizeAndValidate(js, desired)
    <3>1. js[mine] = job /\ job.status # Absent
      BY <1>2, <1>3, <1>1, MineIsActive
    <3>2. ~(old.attempts < maxRecoveryAttempts)
      BY <1>2, <1>5 DEF maxRecoveryAttempts
    <3>3. ~validateExecutionState(mine, job)
      BY <1>2, <1>s, <1>3, <3>2, CountValid
    <3> QED BY <1>2, <3>1, <3>3 DEF normalizeAndValidate
  <2> HIDE DEF js
  <2>2. jobs' = jobs /\ pc' = "idle"
    BY <2>1 DEF CountRestore, CountRestart, updateJob, Update, fileVars,
       Return, job, js
  <2>3. old.attempts = maxRecoveryAttempts
    BY <1>2, <1>5 DEF maxRecoveryAttempts
  <2> QED
    BY <1>1, <2>2, <2>3 DEF EngineAdvances, Refused, KeepsCodes, CodedSteps
<1> QED BY <1>2, <1>4, <1>5 DEF maxRecoveryAttempts

\* A step that saves its job and returns, whether the save fails or not.
Ends(job) ==
    \/ /\ faults' > faults
       /\ jobs' = jobs \/ jobs' = [jobs EXCEPT ![mine] = job]
       /\ pc' = "idle"
    \/ /\ faults' = faults
       /\ jobs' = [jobs EXCEPT ![mine] = job]
       /\ pc' = "idle"

\* What the end of a job does to them.
LEMMA EndAdvances ==
  ASSUME TypeInv, pc \in EngineSteps, NEW STATE job,
         Ends(job), ~active(job)
  PROVE  EngineAdvances /\ KeepsCodes
<1>1. mine \in JobId /\ jobs \in [JobId -> Job]
  BY MineIsValid
<1>2. \A j \in JobId : jobs'[j] = jobs[j] \/ (j = mine /\ jobs'[j] = job)
  BY <1>1 DEF Ends
<1>3. job.status # "restarting"
  BY DEF active, ActiveStatus
<1>4. EngineAdvances
  BY <1>1 DEF Ends, EngineAdvances
<1>5. KeepsCodes
  BY <1>2, <1>3 DEF Ends, KeepsCodes, CodedSteps
<1> QED BY <1>4, <1>5

\* A success ends the job.
LEMMA SucceedAdvances ==
  ASSUME TypeInv, Succeed
  PROVE  EngineAdvances /\ KeepsCodes
<1> DEFINE old == jobs[mine]
           job == [old EXCEPT !.status = "succeeded", !.step = "complete",
                         !.svc = TRUE, !.cur = old.target,
                         !.safe = old.target, !.code = ""]
<1>1. pc = "succeed" /\ pc \in EngineSteps
  BY DEF Succeed, At, EngineSteps
<1>2. /\ old \in Candidate /\ validateExecutionState(mine, old)
      /\ old.cur <= old.target /\ StatusAt(old.status, pc)
      /\ old.cur \in Version /\ old.target \in Version
      /\ faults \in Nat /\ faults + 1 > faults
      /\ avail \in BOOLEAN /\ code \in ErrorCode
  BY <1>1, MineIsValid, MineIsActive DEF Versioned, TypeInv, EngineInv
<1>3. /\ job \in Candidate
      /\ job.status = "succeeded" /\ job.step = "complete"
      /\ job.target = old.target /\ job.rp = old.rp
      /\ job.attempts = old.attempts
      /\ job.cur = old.target
  BY <1>2, Members DEF Candidate
<1>s. job.svc = TRUE /\ job.code = ""
  BY <1>2 DEF Candidate
<1> HIDE DEF job
<1>4. /\ validateExecutionState(mine, job) /\ job.cur <= job.target
      /\ ~active(job)
  <2>1. validateExecutionState(mine, job)
    BY <1>2, <1>3, <1>s DEF validateExecutionState, TerminalStatus
  <2>2. \A v \in Version : v <= v
    BY VersionAssumption
  <2>3. job.cur <= job.target
    BY <1>2, <1>3, <2>2
  <2>4. ~active(job)
    BY <1>3 DEF active, ActiveStatus, UpgradePhases
  <2> QED BY <2>1, <2>3, <2>4
<1>5. normalizeAndValidate([jobs EXCEPT ![mine] = job], "running")
  BY <1>1, <1>3, <1>4, ValidSave
<1>6. Ends(job)
  BY <1>2, <1>5 DEF Succeed, Update, fileVars, Return, Ends, job
<1> QED BY <1>1, <1>4, <1>6, EndAdvances

\* So does a failure before the mutation, which has a code.
LEMMA FailBeforeMutationAdvances ==
  ASSUME TypeInv, CodeInv, FailBeforeMutation
  PROVE  EngineAdvances /\ KeepsCodes
<1> DEFINE old == jobs[mine]
           job == [old EXCEPT !.status = "failed", !.step = "complete",
                         !.svc = avail, !.safe = old.cur, !.code = code]
<1>1. pc = "fail_before_mutation" /\ pc \in EngineSteps
  BY DEF FailBeforeMutation, At, EngineSteps
<1>2. /\ old \in Candidate /\ validateExecutionState(mine, old)
      /\ old.cur <= old.target /\ StatusAt(old.status, pc)
      /\ old.cur \in Version /\ old.target \in Version
      /\ faults \in Nat /\ faults + 1 > faults
      /\ avail \in BOOLEAN /\ code \in ErrorCode
  BY <1>1, MineIsValid, MineIsActive DEF Versioned, TypeInv, EngineInv
<1>3. code # ""
  BY <1>1 DEF CodeInv, CodedSteps
<1>4. /\ job \in Candidate
      /\ job.status = "failed" /\ job.step = "complete"
      /\ job.target = old.target /\ job.rp = old.rp
      /\ job.attempts = old.attempts
      /\ job.code = code /\ job.cur = old.cur
  BY <1>2, <1>3, Members DEF Candidate
<1>5. /\ validateExecutionState(mine, job) /\ job.cur <= job.target
      /\ ~active(job)
  BY <1>2, <1>3, <1>4, VersionAssumption
     DEF validateExecutionState, active, ActiveStatus, UpgradePhases
<1> HIDE DEF job
<1>6. normalizeAndValidate([jobs EXCEPT ![mine] = job], "running")
  BY <1>1, <1>4, <1>5, ValidSave
<1>7. Ends(job)
  BY <1>2, <1>6 DEF FailBeforeMutation, Update, fileVars, Return, Ends, job
<1> QED BY <1>1, <1>5, <1>7, EndAdvances

\* So does a rollback, which ends at the version of the recovery point.
LEMMA RollBackAdvances ==
  ASSUME TypeInv, PointInv, RollBack
  PROVE  EngineAdvances /\ KeepsCodes
<1> DEFINE old == jobs[mine]
           job == [old EXCEPT !.status = "rolled_back", !.step = "complete",
                         !.svc = TRUE, !.safe = old.rp.ver,
                         !.cur = old.rp.ver]
<1>1. pc = "roll_back" /\ pc \in EngineSteps
  BY DEF RollBack, At, EngineSteps
<1>2. /\ old \in Candidate /\ validateExecutionState(mine, old)
      /\ old.cur <= old.target /\ StatusAt(old.status, pc)
      /\ old.cur \in Version /\ old.target \in Version
      /\ faults \in Nat /\ faults + 1 > faults
      /\ avail \in BOOLEAN /\ code \in ErrorCode
  BY <1>1, MineIsValid, MineIsActive DEF Versioned, TypeInv, EngineInv
<1>3. old.rp.ver = old.cur
  <2>1. old.status = "rolling_back" /\ mine \in JobId
    BY <1>1, <1>2, MineIsValid DEF StatusAt, RestoreSteps
  <2> QED BY <2>1 DEF PointInv, Held, PastCheckpoint
<1>4. /\ job \in Candidate
      /\ job.status = "rolled_back" /\ job.step = "complete"
      /\ job.target = old.target /\ job.rp = old.rp
      /\ job.attempts = old.attempts
      /\ job.cur = old.cur
  BY <1>2, <1>3, Members DEF Candidate
<1>5. /\ validateExecutionState(mine, job) /\ job.cur <= job.target
      /\ ~active(job)
  BY <1>2, <1>3, <1>4, VersionAssumption
     DEF validateExecutionState, active, ActiveStatus, UpgradePhases
<1> HIDE DEF job
<1>6. normalizeAndValidate([jobs EXCEPT ![mine] = job], "running")
  BY <1>1, <1>4, <1>5, ValidSave
<1>7. Ends(job)
  BY <1>2, <1>6 DEF RollBack, Update, fileVars, Return, Ends, job
<1> QED BY <1>1, <1>5, <1>7, EndAdvances

\* So does a restart, with the code of the failure it followed.
LEMMA RestartDoneAdvances ==
  ASSUME TypeInv, CodeInv, RestartDone
  PROVE  EngineAdvances /\ KeepsCodes
<1> DEFINE old == jobs[mine]
           job == [old EXCEPT !.status = "failed", !.step = "complete",
                         !.svc = TRUE]
<1>1. pc = "restart_done" /\ pc \in EngineSteps
  BY DEF RestartDone, At, EngineSteps
<1>2. /\ old \in Candidate /\ validateExecutionState(mine, old)
      /\ old.cur <= old.target /\ StatusAt(old.status, pc)
      /\ old.cur \in Version /\ old.target \in Version
      /\ faults \in Nat /\ faults + 1 > faults
      /\ avail \in BOOLEAN /\ code \in ErrorCode
  BY <1>1, MineIsValid, MineIsActive DEF Versioned, TypeInv, EngineInv
<1>3. old.code # ""
  BY <1>1, <1>2, MineIsValid DEF StatusAt, RestartSteps, CodeInv
<1>4. /\ job \in Candidate
      /\ job.status = "failed" /\ job.step = "complete"
      /\ job.target = old.target /\ job.rp = old.rp
      /\ job.attempts = old.attempts
      /\ job.code = old.code /\ job.cur = old.cur
  BY <1>2, <1>3, Members DEF Candidate
<1>5. /\ validateExecutionState(mine, job) /\ job.cur <= job.target
      /\ ~active(job)
  BY <1>2, <1>3, <1>4, VersionAssumption
     DEF validateExecutionState, active, ActiveStatus, UpgradePhases
<1> HIDE DEF job
<1>6. normalizeAndValidate([jobs EXCEPT ![mine] = job], "running")
  BY <1>1, <1>4, <1>5, ValidSave
<1>7. Ends(job)
  BY <1>2, <1>6 DEF RestartDone, Update, fileVars, Return, Ends, job
<1> QED BY <1>1, <1>5, <1>7, EndAdvances

\* A recovery attempt that failed ends the job, or resumes it at the next count.
LEMMA RecordRecoveryFailureAdvances ==
  ASSUME TypeInv, CodeInv, RecordRecoveryFailure
  PROVE  EngineAdvances /\ KeepsCodes
<1> DEFINE old == jobs[mine]
           ended == [old EXCEPT !.status = "failed", !.step = "complete",
                                !.svc = FALSE, !.code = "rollback_failed"]
           again == [old EXCEPT !.svc = FALSE, !.step = "restore_backup"]
<1>1. pc = "recovery_failed" /\ pc \in EngineSteps
  BY DEF RecordRecoveryFailure, At, EngineSteps
<1>2. /\ old \in Candidate /\ validateExecutionState(mine, old)
      /\ old.cur <= old.target /\ StatusAt(old.status, pc)
      /\ faults \in Nat /\ faults + 1 > faults
      /\ mine \in JobId /\ jobs \in [JobId -> Job]
  BY <1>1, MineIsValid
<1>3. old.status = "rolling_back"
  BY <1>1, <1>2 DEF StatusAt, RestoreSteps
<1>4. /\ ended \in Candidate /\ again \in Candidate
      /\ ended.status = "failed" /\ ended.step = "complete"
      /\ ended.code = "rollback_failed"
      /\ ended.attempts = old.attempts /\ again.attempts = old.attempts
      /\ ended.cur = old.cur /\ ended.target = old.target
      /\ ended.rp = old.rp /\ again.rp = old.rp
      /\ again.cur = old.cur /\ again.target = old.target
      /\ again.status = old.status /\ again.code = old.code
      /\ again.step = "restore_backup"
  BY <1>2, Members DEF Candidate
<1>5. /\ validateExecutionState(mine, ended) /\ ended.cur <= ended.target
      /\ ~active(ended)
  BY <1>2, <1>4
     DEF validateExecutionState, active, ActiveStatus, UpgradePhases
<1>6. /\ validateExecutionState(mine, again) /\ again.cur <= again.target
      /\ active(again)
  BY <1>2, <1>3, <1>4
     DEF validateExecutionState, active, ActiveStatus, TerminalStatus
<1> HIDE DEF ended, again
<1>7. CASE old.attempts >= maxRecoveryAttempts
  <2>1. normalizeAndValidate([jobs EXCEPT ![mine] = ended], "maintenance")
    BY <1>1, <1>4, <1>5, ValidSave
  <2>2. Ends(ended)
    BY <1>2, <1>7, <2>1
       DEF RecordRecoveryFailure, Update, fileVars, Return, Ends, ended
  <2> QED BY <1>1, <1>5, <2>2, EndAdvances
<1>8. CASE ~(old.attempts >= maxRecoveryAttempts)
  <2>1. normalizeAndValidate([jobs EXCEPT ![mine] = again], desired)
    BY <1>1, <1>4, <1>6, ValidSave
  <2>2. Ends(again)
    BY <1>2, <1>8, <2>1
       DEF RecordRecoveryFailure, updateJob, Update, fileVars, Return,
       Ends, again
  <2>3. \A j \in JobId : jobs'[j] = jobs[j] \/ (j = mine /\ jobs'[j] = again)
    BY <1>2, <2>2 DEF Ends
  <2>4. place[Resume(again)] - 1 > place[pc]
    <3>1. Resume(again) = "count_restore"
      BY <1>3, <1>4, <1>6 DEF Resume, validateExecutionState
    <3> QED BY <1>1, <3>1, PlaceIs
  <2>5. EngineAdvances
    BY <1>2, <1>4, <2>2, <2>4 DEF Ends, EngineAdvances
  <2>6. KeepsCodes
    BY <1>4, <2>2, <2>3 DEF Ends, KeepsCodes, CodedSteps
  <2> QED BY <2>5, <2>6
<1> QED BY <1>7, <1>8

\* A restart attempt that failed ends the job, or resumes it at the next count.
LEMMA RestartFailedAdvances ==
  ASSUME TypeInv, CodeInv, RestartFailed
  PROVE  EngineAdvances /\ KeepsCodes
<1> DEFINE old == jobs[mine]
           ended == [old EXCEPT !.status = "failed", !.step = "complete",
                                !.svc = FALSE, !.code = "restart_failed"]
           again == [old EXCEPT !.svc = FALSE]
<1>1. pc = "restart_failed" /\ pc \in EngineSteps
  BY DEF RestartFailed, At, EngineSteps
<1>2. /\ old \in Candidate /\ validateExecutionState(mine, old)
      /\ old.cur <= old.target /\ StatusAt(old.status, pc)
      /\ faults \in Nat /\ faults + 1 > faults
      /\ mine \in JobId /\ jobs \in [JobId -> Job]
  BY <1>1, MineIsValid
<1>3. old.status = "restarting"
  BY <1>1, <1>2 DEF StatusAt, RestartSteps
<1>4. /\ ended \in Candidate /\ again \in Candidate
      /\ ended.status = "failed" /\ ended.step = "complete"
      /\ ended.code = "restart_failed"
      /\ ended.attempts = old.attempts /\ again.attempts = old.attempts
      /\ ended.cur = old.cur /\ ended.target = old.target
      /\ ended.rp = old.rp /\ again.rp = old.rp
      /\ again.cur = old.cur /\ again.target = old.target
      /\ again.status = old.status /\ again.code = old.code
      /\ again.step = old.step
  BY <1>2, Members DEF Candidate
<1>5. /\ validateExecutionState(mine, ended) /\ ended.cur <= ended.target
      /\ ~active(ended)
  BY <1>2, <1>4
     DEF validateExecutionState, active, ActiveStatus, UpgradePhases
<1>6. /\ validateExecutionState(mine, again) /\ again.cur <= again.target
      /\ active(again)
  BY <1>2, <1>3, <1>4
     DEF validateExecutionState, active, ActiveStatus, TerminalStatus
<1> HIDE DEF ended, again
<1>7. CASE old.attempts >= maxRecoveryAttempts
  <2>1. normalizeAndValidate([jobs EXCEPT ![mine] = ended], "maintenance")
    BY <1>1, <1>4, <1>5, ValidSave
  <2>2. Ends(ended)
    BY <1>2, <1>7, <2>1 DEF RestartFailed, Update, fileVars, Return, Ends, ended
  <2> QED BY <1>1, <1>5, <2>2, EndAdvances
<1>8. CASE ~(old.attempts >= maxRecoveryAttempts)
  <2>1. normalizeAndValidate([jobs EXCEPT ![mine] = again], desired)
    BY <1>1, <1>4, <1>6, ValidSave
  <2>2. Ends(again)
    BY <1>2, <1>8, <2>1 DEF RestartFailed, updateJob, Update, fileVars, Return,
       Ends, again
  <2>3. \A j \in JobId : jobs'[j] = jobs[j] \/ (j = mine /\ jobs'[j] = again)
    BY <1>2, <2>2 DEF Ends
  <2>4. place[Resume(again)] - 1 > place[pc]
    <3>1. Resume(again) = "count_restart"
      BY <1>3, <1>4, <1>6 DEF Resume, validateExecutionState
    <3> QED BY <1>1, <3>1, PlaceIs
  <2>5. EngineAdvances
    BY <1>2, <1>4, <2>2, <2>4 DEF Ends, EngineAdvances
  <2>6. KeepsCodes
    BY <1>4, <2>2, <2>3 DEF Ends, KeepsCodes, CodedSteps
  <2> QED BY <2>5, <2>6
<1> QED BY <1>7, <1>8

\* The checkpoint of the engine's job, with the other jobs' points removed, is
\* valid.
LEMMA CheckpointAdvances ==
  ASSUME TypeInv, CodeInv, Checkpoint
  PROVE  EngineAdvances /\ KeepsCodes
<1> DEFINE point == [job |-> mine, ver |-> jobs[mine].cur, data |-> dumped]
           js == withRecoveryPoint(jobs, mine, point)
<1>1. pc = "checkpoint" /\ pc \in EngineSteps
  BY DEF Checkpoint, At, EngineSteps
<1>2. /\ jobs[mine] \in Candidate /\ validateExecutionState(mine, jobs[mine])
      /\ jobs[mine].cur <= jobs[mine].target
      /\ mine \in JobId /\ jobs \in [JobId -> Job]
      /\ faults \in Nat /\ faults + 1 > faults
      /\ jobs[mine].status \in {"validating", "backing_up"}
  BY <1>1, MineIsValid DEF StatusAt, PrepareSteps
<1>3. normalizeAndValidate(jobs, desired) /\ active(jobs[mine])
  BY <1>1, MineIsActive DEF TypeInv, FileInv
<1>4. /\ js[mine] = [jobs[mine] EXCEPT !.rp = point, !.status = "pulling",
                                      !.step = "phase", !.svc = TRUE]
      /\ \A j \in JobId \ {mine} :
            js[j] = IF active(jobs[j]) THEN jobs[j]
                    ELSE [jobs[j] EXCEPT !.rp = NoPoint]
  BY <1>2 DEF withRecoveryPoint
<1> DEFINE new == js[mine]
<1> HIDE DEF js
<1>5. /\ new.status = "pulling" /\ new.rp = point /\ new.step = "phase"
      /\ new.cur = jobs[mine].cur /\ new.target = jobs[mine].target
      /\ new.attempts = jobs[mine].attempts
  BY <1>2, <1>4 DEF Candidate
<1>6. /\ validateExecutionState(mine, new) /\ new.cur <= new.target
      /\ active(new)
  <2>1. point.job = mine
    OBVIOUS
  <2> HIDE DEF new, point
  <2>2. validateExecutionState(mine, new)
    BY <1>2, <1>5, <2>1 DEF validateExecutionState, TerminalStatus
  <2> QED BY <1>2, <1>5, <2>2 DEF active, ActiveStatus, UpgradePhases
<1>7. ASSUME NEW j \in JobId \ {mine}
      PROVE  /\ js[j].status = jobs[j].status /\ js[j].code = jobs[j].code
             /\ js[j].status # Absent => validateExecutionState(j, js[j])
                                       /\ js[j].cur <= js[j].target
  <2>1. jobs[j] \in Job
    BY <1>2
  <2>2. jobs[j].status # Absent => validateExecutionState(j, jobs[j])
                                     /\ jobs[j].cur <= jobs[j].target
    BY <1>3 DEF normalizeAndValidate
  <2>3. CASE active(jobs[j])
    BY <1>4, <2>2, <2>3
  <2>4. CASE ~active(jobs[j])
    <3>1. /\ js[j].status = jobs[j].status /\ js[j].code = jobs[j].code
          /\ js[j].cur = jobs[j].cur /\ js[j].target = jobs[j].target
          /\ js[j].step = jobs[j].step /\ js[j].svc = jobs[j].svc
          /\ js[j].attempts = jobs[j].attempts /\ js[j].rp = NoPoint
      BY <1>4, <2>1, <2>4 DEF Job
    <3>2. jobs[j].status # "rolling_back"
      BY <2>4 DEF active, ActiveStatus
    <3> QED BY <2>2, <3>1, <3>2 DEF validateExecutionState
  <2> QED BY <2>3, <2>4
<1>8. normalizeAndValidate(js, desired)
  <2>1. \A j \in JobId : active(js[j]) <=> active(jobs[j])
    BY <1>3, <1>6, <1>7 DEF active
  <2> QED BY <1>3, <1>6, <1>7, <2>1 DEF normalizeAndValidate, hasActiveJob
<1>9. \/ /\ faults' > faults /\ (jobs' = jobs \/ jobs' = js)
         /\ pc' = "idle"
      \/ faults' = faults /\ jobs' = js /\ pc' = "activate_pulling"
  BY <1>2, <1>8 DEF Checkpoint, Update, fileVars, Goto, Return, js
<1>10. Ahead("checkpoint", "activate_pulling")
  BY StepsAhead
<1>11. EngineAdvances
  BY <1>1, <1>5, <1>9, <1>10 DEF Ahead, EngineAdvances
<1>12. KeepsCodes
  <2>1. \A j \in JobId : js[j].status = "restarting" =>
           jobs[j].status = "restarting" /\ js[j].code = jobs[j].code
    BY <1>5, <1>7
  <2> QED BY <1>9, <2>1 DEF KeepsCodes, CodedSteps
<1> QED BY <1>11, <1>12

-----------------------------------------------------------------------------
\* Every step of the engine advances its job.
LEMMA EngineStepAdvances ==
  ASSUME TypeInv, PointInv, CodeInv, EngineStep, ~RunActive
  PROVE  EngineAdvances /\ KeepsCodes /\ pc \in EngineSteps
<1>1. EngineAdvances /\ KeepsCodes
  BY PrepareWork, ActivateWork, RecoveryWork, ReportAdvances,
     StartQueuedAdvances, CheckingAdvances, RestoredAdvances,
     BeginRollbackAdvances, CountAdvances, SucceedAdvances,
     FailBeforeMutationAdvances, RollBackAdvances, RestartDoneAdvances,
     RecordRecoveryFailureAdvances, RestartFailedAdvances, CheckpointAdvances
     DEF EngineStep, PrepareStep, ActivateStep, RestoreStep, RestartStep
<1>2. pc \in EngineSteps
  <2>1. CASE StartQueued \/ PrepareStep
    BY <2>1 DEF StartQueued, PrepareStep, PrepareValidating, SourceReady,
       PrepareBackingUp, BeginAndStop, Dump, SourceRestored, Commit,
       Checkpoint, At, EngineSteps
  <2>2. CASE ActivateStep
    BY <2>2 DEF ActivateStep, ActivatePulling, Pull, ActivateStopping,
       WriteImage, ActivateMigrating, Recreate, ActivateStarting, Checking,
       CheckDirectTarget, Succeed, FailBeforeMutation, At, EngineSteps
  <2>3. CASE RestoreStep
    BY <2>3 DEF RestoreStep, BeginRollback, CountRestore, RestoreImage,
       RestoreStop, Wipe, RestoreData, RestoreUp, Restored, CheckRestored,
       RollBack, RecordRecoveryFailure, At, EngineSteps
  <2>4. CASE RestartStep
    BY <2>4 DEF RestartStep, CountRestart, RestartUp, RestartCheck,
       RestartDone, RestartFailed, At, EngineSteps
  <2> QED BY <2>1, <2>2, <2>3, <2>4 DEF EngineStep
<1> QED BY <1>1, <1>2

\* RunActive resumes the active job one place further.
LEMMA RunActiveAdvances ==
  ASSUME TypeInv, RunActive, NEW j \in JobId, active(jobs[j])
  PROVE  Advances(j) /\ KeepsCodes
<1>1. PICK i \in JobId : active(jobs[i]) /\ mine' = i /\ pc' = Resume(jobs[i])
  BY DEF RunActive
<1>2. pc = "idle" /\ jobs' = jobs /\ faults' = faults
  BY DEF RunActive, At, fileVars
<1>3. i = j
  BY <1>1 DEF TypeInv, FileInv, normalizeAndValidate
<1>4. pc' \in EngineSteps /\ place[pc'] \in Nat
  BY <1>1, Places
<1>5. pc' \notin CodedSteps
  BY <1>1 DEF Resume, CodedSteps
<1>6. "idle" \notin EngineSteps
  BY DEF EngineSteps
<1>7. Place(j) = place[pc'] - 1 /\ Place(j)' = place[pc']
  BY <1>1, <1>2, <1>3, <1>4, <1>6 DEF Place
<1>8. Advances(j)
  BY <1>2, <1>4, <1>7 DEF Advances
<1> QED BY <1>2, <1>5, <1>8 DEF KeepsCodes

\* The control routes do not touch an active job, and a restart has the code of
\* the failure.
LEMMA ControlKeeps ==
  ASSUME TypeInv, CodeInv, ControlStep
  PROVE  /\ \A j \in JobId : active(jobs[j]) => jobs'[j] = jobs[j]
         /\ UNCHANGED engineVars
         /\ CodeInv'
<1>0. jobs \in [JobId -> Job] /\ normalizeAndValidate(jobs, desired)
  BY DEF TypeInv, FileInv, Typed
<1>1. UNCHANGED engineVars
  BY DEF ControlStep, CreatePreflight, CreateReadVersion, CreateSave,
     StartRestart, setDesiredState, controlUnchanged
<1>2. pc' = pc /\ code' = code
  BY <1>1 DEF engineVars
<1>3. CASE jobs' = jobs
  BY <1>1, <1>2, <1>3 DEF CodeInv
<1>4. CASE jobs' # jobs
  <2>1. CASE CreateSave
    <3>1. PICK i \in JobId :
             /\ jobs[i].status = Absent
             /\ jobs' = [jobs EXCEPT ![i] =
                            newJob(request.cur, request.target)]
      BY <1>4, <2>1 DEF CreateSave, Update, fileVars
    <3>2. newJob(request.cur, request.target).status = "queued"
      BY DEF newJob, NoSuchJob
    <3>3. \A j \in JobId : j # i => jobs'[j] = jobs[j]
      BY <1>0, <3>1
    <3>4. jobs'[i].status = "queued" /\ ~active(jobs[i])
      BY <1>0, <3>1, <3>2 DEF active, ActiveStatus, UpgradePhases, Absent
    <3> QED BY <1>1, <1>2, <3>3, <3>4 DEF CodeInv
  <2>2. CASE StartRestart
    <3> DEFINE new(i) == [jobs[i] EXCEPT !.status = "restarting",
                            !.step = "restart", !.svc = FALSE, !.attempts = 0]
    <3>1. PICK i \in JobId :
             restartOffered(jobs[i]) /\ jobs' = [jobs EXCEPT ![i] = new(i)]
      BY <1>4, <2>2 DEF StartRestart, Update, fileVars
    <3>2. new(i).code = jobs[i].code
      <4>1. jobs[i] \in Job
        BY <1>0
      <4> QED BY <4>1 DEF Job
    <3>3. jobs[i].status = "failed" /\ jobs[i].status # Absent
      BY <3>1 DEF restartOffered, Absent
    <3>4. jobs[i].code # ""
      BY <1>0, <3>3 DEF normalizeAndValidate, validateExecutionState
    <3>5. ~active(jobs[i])
      BY <3>3 DEF active, ActiveStatus, UpgradePhases
    <3> HIDE DEF new
    <3>6. \A j \in JobId : j # i => jobs'[j] = jobs[j]
      BY <1>0, <3>1
    <3>7. jobs'[i].code # ""
      BY <1>0, <3>1, <3>2, <3>4
    <3> QED BY <1>1, <1>2, <3>5, <3>6, <3>7 DEF CodeInv
  <2> QED
    BY <1>4, <2>1, <2>2 DEF ControlStep, CreatePreflight, CreateReadVersion,
       setDesiredState, Update, fileVars
<1> QED BY <1>3, <1>4

\* Codes are kept by every step.
LEMMA NextCode ==
  ASSUME TypeInv, PointInv, CodeInv, [Next]_vars
  PROVE  CodeInv'
<1>1. ASSUME KeepsCodes PROVE CodeInv'
  BY <1>1 DEF KeepsCodes, CodeInv
<1>2. CASE EngineStep /\ ~RunActive
  BY <1>1, <1>2, EngineStepAdvances
<1>3. CASE RunActive
  <2>1. PICK j \in JobId : active(jobs[j])
    BY <1>3 DEF RunActive
  <2> QED BY <1>1, <1>3, <2>1, RunActiveAdvances
<1>4. CASE ControlStep
  BY <1>4, ControlKeeps
<1>5. CASE Crash \/ Boot
  BY <1>5 DEF Crash, Boot, fileVars, CodeInv, CodedSteps
<1>6. CASE ServerMigrates \/ UNCHANGED vars
  BY <1>6 DEF ServerMigrates, vars, fileVars, engineVars, CodeInv
<1> QED BY <1>2, <1>3, <1>4, <1>5, <1>6 DEF Next

\* What the property says of one step and one job.
Moved(j) ==
    active(jobs[j]) /\ active(jobs'[j]) =>
        \/ ~EngineStep /\ UNCHANGED <<jobs[j], engineVars>>
        \/ Advances(j)
        \/ Refused(j)

\* Every step does so.
LEMMA StepMoves ==
  ASSUME TypeInv, PointInv, CodeInv, [Next]_vars, NEW j \in JobId
  PROVE  Moved(j)
<1> SUFFICES ASSUME active(jobs[j]), active(jobs'[j])
             PROVE  \/ ~EngineStep /\ UNCHANGED <<jobs[j], engineVars>>
                    \/ Advances(j)
                    \/ Refused(j)
  BY DEF Moved
<1>1. CASE EngineStep /\ ~RunActive
  <2>1. EngineAdvances /\ pc \in EngineSteps
    BY <1>1, EngineStepAdvances
  <2>2. j = mine
    BY <2>1, MineIsActive DEF TypeInv, FileInv, normalizeAndValidate
  <2>3. Place(j) = place[pc]
    BY <2>1 DEF Place
  <2>4. pc' \in EngineSteps => Place(j)' = place[pc']
    BY DEF Place
  <2>5. pc' = "idle" => Place(j)' = place[Resume(jobs'[j])] - 1
    BY DEF Place, EngineSteps
  <2> QED
    BY <2>1, <2>2, <2>3, <2>4, <2>5 DEF EngineAdvances, Advances
<1>2. CASE RunActive
  BY <1>2, RunActiveAdvances
<1>3. CASE ControlStep /\ ~EngineStep
  BY <1>3, ControlKeeps
<1>4. CASE Crash
  <2>1. faults \in Nat
    BY DEF TypeInv, HostInv
  <2>2. faults' = faults + 1
    BY <1>4 DEF Crash
  <2> QED BY <2>1, <2>2 DEF Advances
<1>5. CASE Boot
  <2>1. /\ pc = "down" /\ pc' = "idle" /\ jobs' = jobs /\ faults' = faults
    BY <1>5 DEF Boot, fileVars
  <2>2. place[Resume(jobs[j])] \in Nat
    BY Places
  <2>3. Place(j) = place[Resume(jobs[j])] - 2
    BY <2>1 DEF Place, EngineSteps
  <2>4. Place(j)' = place[Resume(jobs[j])] - 1
    BY <2>1 DEF Place, EngineSteps
  <2> QED BY <2>1, <2>2, <2>3, <2>4 DEF Advances
<1>6. CASE (ServerMigrates \/ UNCHANGED vars) /\ ~EngineStep
  BY <1>6 DEF ServerMigrates, vars, fileVars, engineVars
<1> QED BY <1>1, <1>2, <1>3, <1>4, <1>5, <1>6 DEF Next

\* Nothing has a code at the start.
LEMMA InitCode == Init => CodeInv
<1>1. NoSuchJob.status = Absent
  BY DEF NoSuchJob
<1> QED BY <1>1 DEF Init, CodeInv, CodedSteps, Absent

\* Whatever fails, the engine never stalls: a step that leaves a job active is
\* one of another party and leaves engine and job alone, or is a crash or a failed
\* save, or counts an attempt, or comes nearer to an end, unless it is a count
\* that the bound refuses.  Faults, attempts and places are bounded, so with
\* finitely many faults a job ends, or its counts are refused (EveryJobEnds).
THEOREM OnlyRefusalsStall == Spec => OnlyRefusedCountsStall
<1>1. SafeInv /\ CodeInv /\ [Next]_vars => [\A j \in JobId : Moved(j)]_vars
  BY StepMoves DEF SafeInv
<1>2. SafeInv /\ CodeInv /\ [Next]_vars => CodeInv'
  BY NextCode DEF SafeInv
<1> QED BY <1>1, <1>2, InitCode, AlwaysSafe, PTL
        DEF Spec, OnlyRefusedCountsStall, Moved


-----------------------------------------------------------------------------
(***************************************************************************)
(* HostSystem.  Who has the host, and what the others leave alone.         *)
(***************************************************************************)
\* Who holds the gate, and what a repair under it relies on.
RepairInv ==
    /\ wpc \in {"idle", "confirm", "repair", "window"}
    /\ Holding => gateFree
    /\ wpc \in {"repair", "window"} => desired = "running"

SystemInv == TypeInv /\ RepairInv /\ StoresAreQuiet

\* While the engine is at a step there is an active job, so the file says
\* "upgrading".
LEMMA EngineOwnsHost ==
  ASSUME TypeInv, pc \in EngineSteps
  PROVE  desired = "upgrading"
<1>1. mine \in JobId /\ active(jobs[mine])
  BY MineIsActive
<1> QED
  BY <1>1 DEF TypeInv, FileInv, normalizeAndValidate, hasActiveJob

\* An engine's save leaves the host alone, and ends the job's state if any.
LEMMA SavingIntent ==
  ASSUME TypeInv, SavingStep \/ Checkpoint
  PROVE  /\ pc \in EngineSteps
         /\ UNCHANGED <<env, running, request>>
         /\ desired' \in {desired, "running", "maintenance"}
         /\ pc' \notin {"dump", "wipe", "restore_data"}
<1> USE DEF At, Goto, Return, FailBefore, Rollback, Update, updateJob, progress,
            fileVars, hostVars, EngineSteps, BackupFails, NotActivated,
            HalfActivated
<1>1. CASE StartQueued \/ PrepareValidating \/ PrepareBackingUp
  BY <1>1 DEF StartQueued, PrepareValidating, PrepareBackingUp
<1>2. CASE Checkpoint
  BY <1>2 DEF Checkpoint
<1>3. CASE ActivatePulling \/ ActivateStopping \/ ActivateMigrating
              \/ ActivateStarting \/ Checking
  BY <1>3 DEF ActivatePulling, ActivateStopping, ActivateMigrating,
     ActivateStarting, Checking
<1>4. CASE Succeed \/ FailBeforeMutation
  BY <1>4 DEF Succeed, FailBeforeMutation
<1>5. CASE BeginRollback \/ CountRestore \/ Restored
  BY <1>5 DEF BeginRollback, CountRestore, Restored
<1>6. CASE RollBack \/ RecordRecoveryFailure
  BY <1>6 DEF RollBack, RecordRecoveryFailure
<1>7. CASE CountRestart \/ RestartDone \/ RestartFailed
  BY <1>7 DEF CountRestart, RestartDone, RestartFailed
<1> QED
  BY <1>1, <1>2, <1>3, <1>4, <1>5, <1>6, <1>7 DEF SavingStep

\* Its work on the host keeps the file, and the server stays down from the stop
\* to the end of the archiving, and from the stop to the end of the restore.
LEMMA WorkIntent ==
  ASSUME SystemInv, EngineStep, ~(SavingStep \/ Checkpoint \/ RunActive)
  PROVE  /\ pc \in EngineSteps
         /\ UNCHANGED <<desired, request>>
         /\ StoresAreQuiet'
<1> USE DEF At, Goto, FailBefore, Rollback, fileVars, hostVars, EngineSteps,
            BackupFails, NotActivated, HalfActivated, StoresAreQuiet, SystemInv
<1>1. CASE SourceReady \/ SourceRestored
  BY <1>1 DEF SourceReady, SourceRestored, ensureDirectSourceReady
<1>2. CASE BeginAndStop \/ Dump \/ Commit
  BY <1>2 DEF BeginAndStop, Dump, Commit
<1>3. CASE Pull \/ WriteImage \/ Recreate \/ CheckDirectTarget
  BY <1>3 DEF Pull, WriteImage, Recreate, CheckDirectTarget
<1>4. CASE RestoreImage \/ RestoreStop \/ Wipe \/ RestoreData
  BY <1>4 DEF RestoreImage, RestoreStop, Wipe, RestoreData
<1>5. CASE RestoreUp \/ CheckRestored \/ RestartUp \/ RestartCheck
  BY <1>5 DEF RestoreUp, CheckRestored, RestartUp, RestartCheck
<1> QED
  BY <1>1, <1>2, <1>3, <1>4, <1>5
     DEF EngineStep, PrepareStep, ActivateStep, RestoreStep, RestartStep,
         SavingStep

-----------------------------------------------------------------------------
Repairing == wpc \in {"repair", "window"}

\* One step of the system, as it looks from outside.
IntentStep ==
    Intent!Next \/ UNCHANGED <<desired, Repairing, <<env, running>>>>

\* Nobody holds the host when the process first starts.
LEMMA InitSystem == SystemInit => SystemInv /\ Intent!Init
<1> SUFFICES ASSUME SystemInit PROVE SystemInv /\ Intent!Init
  OBVIOUS
<1>1. TypeInv
  BY InitTypes DEF SystemInit
<1>2. wpc = "idle" /\ desired = "running" /\ pc = "idle"
  BY DEF SystemInit, Init
<1>3. RepairInv /\ StoresAreQuiet
  BY <1>2 DEF RepairInv, Holding, StoresAreQuiet
<1>4. Intent!Init
  BY <1>2 DEF Intent!Init
<1> QED BY <1>1, <1>3, <1>4 DEF SystemInv

\* A step of the engine is its own work on the host, or ends the job.
LEMMA EngineKeeps ==
  ASSUME SystemInv, EngineStep, wpc' = wpc
  PROVE  SystemInv' /\ IntentStep
<1>1. TypeInv'
  BY NextTypes DEF SystemInv, Next
<1>2. CASE RunActive
  <2>1. /\ UNCHANGED <<desired, env, running, request>>
        /\ pc' \notin {"dump", "wipe", "restore_data"}
    BY <1>2 DEF RunActive, At, fileVars, hostVars, Resume
  <2> QED
    BY <1>1, <2>1 DEF SystemInv, RepairInv, Holding, gateFree, StoresAreQuiet,
       IntentStep, Repairing
<1>3. CASE SavingStep \/ Checkpoint
  <2>1. /\ UNCHANGED <<env, running, request>>
        /\ desired' \in {desired, "running", "maintenance"}
        /\ pc' \notin {"dump", "wipe", "restore_data"}
    BY <1>3, SavingIntent DEF SystemInv
  <2>2. desired = "upgrading"
    BY <1>3, SavingIntent, EngineOwnsHost DEF SystemInv
  <2>3. SystemInv'
    BY <1>1, <2>1, <2>2
       DEF SystemInv, RepairInv, Holding, gateFree, StoresAreQuiet
  <2>4. IntentStep
    BY <2>1, <2>2 DEF IntentStep, Repairing, Intent!Next, Intent!EndUpgrade
  <2> QED BY <2>3, <2>4
<1>4. CASE ~(SavingStep \/ Checkpoint \/ RunActive)
  <2>1. UNCHANGED <<desired, request>> /\ StoresAreQuiet'
    BY <1>4, WorkIntent
  <2>2. desired = "upgrading"
    BY <1>4, WorkIntent, EngineOwnsHost DEF SystemInv
  <2>3. SystemInv'
    BY <1>1, <2>1, <2>2 DEF SystemInv, RepairInv, Holding, gateFree
  <2>4. IntentStep
    BY <2>1, <2>2 DEF IntentStep, Repairing, Intent!Next, Intent!Work
  <2> QED BY <2>3, <2>4
<1> QED BY <1>2, <1>3, <1>4

\* A route changes the desired state only under the gate, and only when there
\* is no active job.
LEMMA RoutesKeep ==
  ASSUME SystemInv, GatedRoutes
  PROVE  SystemInv' /\ IntentStep
<1>1. ControlStep /\ wpc' = wpc
  BY DEF GatedRoutes, ControlStep
<1>2. TypeInv'
  BY <1>1, NextTypes DEF SystemInv, Next
<1>3. UNCHANGED <<env, running, pc>>
  BY <1>1 DEF ControlStep, CreatePreflight, CreateReadVersion, CreateSave,
     StartRestart, setDesiredState, controlUnchanged, hostVars, engineVars
<1>4. Holding => UNCHANGED desired /\ gateFree'
  <2>1. CASE CreatePreflight
    BY <2>1 DEF CreatePreflight, fileVars, SystemInv, RepairInv, gateFree,
       TypeInv, HostInv
  <2>2. CASE CreateSave
    BY <2>2 DEF CreateSave, SystemInv, RepairInv
  <2> QED BY <2>1, <2>2 DEF GatedRoutes
<1>5. \/ desired' = desired
      \/ desired # "upgrading" /\ desired' \in DesiredState
  <2>1. hasActiveJob(jobs) <=> desired = "upgrading"
    BY DEF SystemInv, TypeInv, FileInv, normalizeAndValidate
  <2>2. CASE CreatePreflight \/ CreateReadVersion
    BY <2>2 DEF CreatePreflight, CreateReadVersion, fileVars
  <2>3. CASE CreateSave
    BY <2>1, <2>3 DEF CreateSave, Update, fileVars, DesiredState
  <2>4. CASE setDesiredState
    BY <2>1, <2>4 DEF setDesiredState, Update, fileVars
  <2>5. CASE StartRestart
    <3>1. desired' \in {desired, "upgrading"}
      BY <2>5 DEF StartRestart, Update, fileVars
    <3> QED BY <3>1 DEF DesiredState
  <2> QED BY <1>1, <2>2, <2>3, <2>4, <2>5 DEF ControlStep
<1>6. SystemInv'
  BY <1>1, <1>2, <1>3, <1>4
     DEF SystemInv, RepairInv, Holding, StoresAreQuiet
<1>7. IntentStep
  <2>1. CASE desired' = desired
    BY <1>1, <1>3, <2>1 DEF IntentStep, Repairing
  <2>2. CASE desired' # desired
    BY <1>1, <1>3, <1>4, <1>5, <2>2
       DEF IntentStep, Repairing, Holding, DesiredState, Intent!Next,
           Intent!BeginUpgrade, Intent!SetDesired, Intent!Free
  <2> QED BY <2>1, <2>2
<1> QED BY <1>6, <1>7

\* A repair begins under the gate, for a service that is meant to run.
LEMMA ReconcileKeeps ==
  ASSUME SystemInv, Reconcile
  PROVE  SystemInv' /\ IntentStep
<1>1. CASE RepairWatchdog
  <2>1. desired = "running" /\ pc \notin EngineSteps
    BY <1>1, EngineOwnsHost DEF RepairWatchdog, SystemInv, RepairInv
  <2>2. TypeInv'
    BY <1>1 DEF RepairWatchdog, UpFails, SystemInv, TypeInv, FileInv, EngineInv,
       HostInv, fileVars, backupVars, engineVars, gateFree, Typed, Versioned,
       normalizeAndValidate, hasActiveJob
  <2>3. UNCHANGED <<desired, request, pc>>
    BY <1>1 DEF RepairWatchdog, fileVars, engineVars
  <2>4. SystemInv'
    BY <1>1, <2>1, <2>2, <2>3
       DEF RepairWatchdog, WatchdogGoto, SystemInv, RepairInv, Holding, gateFree,
           StoresAreQuiet, EngineSteps
  <2>5. IntentStep
    BY <1>1, <2>3 DEF RepairWatchdog, WatchdogGoto, IntentStep, Repairing,
       Intent!Next, Intent!Work
  <2> QED BY <2>4, <2>5
<1>2. CASE TakeGate \/ Confirm \/ ReleaseRepair
  <2>1. UNCHANGED vars
    BY <1>2 DEF TakeGate, Confirm, ReleaseRepair
  <2>2. TypeInv' /\ StoresAreQuiet'
    BY <2>1, NextTypes DEF SystemInv, StoresAreQuiet, vars, engineVars, hostVars
  <2>3. UNCHANGED <<desired, request, env, running>>
    BY <2>1 DEF vars, fileVars, hostVars
  <2>4. RepairInv'
    BY <1>2, <2>3 DEF TakeGate, Confirm, ReleaseRepair,
       WatchdogGoto, SystemInv, RepairInv, Holding, gateFree
  <2>5. IntentStep
    BY <1>2, <2>3 DEF TakeGate, Confirm, ReleaseRepair,
       WatchdogGoto, IntentStep, Repairing, Intent!Next, Intent!BeginRepair,
       Intent!EndRepair
  <2> QED BY <2>2, <2>4, <2>5 DEF SystemInv
<1> QED BY <1>1, <1>2 DEF Reconcile

\* Every step of the system is one of the intent, or none of its business.
LEMMA SystemKeeps ==
  ASSUME SystemInv, [SystemNext]_systemVars
  PROVE  SystemInv' /\ IntentStep
<1>1. CASE (ServerMigrates \/ Boot) /\ UNCHANGED wpc
  <2>1. TypeInv'
    BY <1>1, NextTypes DEF SystemInv, Next
  <2>2. UNCHANGED <<desired, request, env, running>> /\ pc' \in {pc, "idle"}
    BY <1>1 DEF ServerMigrates, Boot, fileVars, hostVars, engineVars
  <2> QED
    BY <1>1, <2>1, <2>2 DEF SystemInv, RepairInv, Holding, gateFree,
       StoresAreQuiet, IntentStep, Repairing
<1>2. CASE Crash /\ WatchdogGoto("idle")
  <2>1. TypeInv'
    BY <1>2, NextTypes DEF SystemInv, Next
  <2>2. UNCHANGED <<desired, env, running>> /\ pc' = "down" /\ wpc' = "idle"
    BY <1>2 DEF Crash, WatchdogGoto, fileVars, hostVars
  <2> QED
    BY <2>1, <2>2 DEF SystemInv, RepairInv, Holding, StoresAreQuiet, IntentStep,
       Repairing, Intent!Next, Intent!EndRepair
<1>3. CASE UNCHANGED systemVars
  <2>1. TypeInv'
    BY <1>3, NextTypes DEF SystemInv, systemVars
  <2>2. UNCHANGED <<desired, request, env, running, pc, wpc>>
    BY <1>3 DEF systemVars, vars, fileVars, hostVars, engineVars
  <2> QED
    BY <2>1, <2>2 DEF SystemInv, RepairInv, Holding, gateFree, StoresAreQuiet,
       IntentStep, Repairing
<1> QED
  BY <1>1, <1>2, <1>3, EngineKeeps, RoutesKeep, ReconcileKeeps DEF SystemNext

-----------------------------------------------------------------------------
\* No repair starts the server while its stores are archived, emptied or
\* restored, although the watchdog sees a failing service just then.
THEOREM BackupsAreQuiet == SystemSpec => []StoresAreQuiet
<1>1. SystemInv => StoresAreQuiet
  BY DEF SystemInv
<1> QED
  BY <1>1, InitSystem, SystemKeeps, PTL DEF SystemSpec

\* Engine, routes and watchdog together implement the intent: one owner of the
\* host at a time, and none that the desired state does not name.
THEOREM SystemKeepsIntent == SystemSpec => IntentIsKept
<1>1. ASSUME SystemInv, [SystemNext]_systemVars
      PROVE  [Intent!Next]_(Intent!vars)
  BY <1>1, SystemKeeps DEF IntentStep, Repairing, Intent!vars
<1> QED
  BY <1>1, InitSystem, SystemKeeps, PTL
     DEF SystemSpec, IntentIsKept, Intent!Spec

-----------------------------------------------------------------------------
(***************************************************************************)
(* What JobEngine promises without a watchdog holds beside one: a step of  *)
(* the system is one of JobEngine, or a repair, which only starts a server *)
(* while no job is active.                                                 *)
(***************************************************************************)
SystemSafe == SystemInv /\ SafeInv

\* A repair finds no job that relies on the host.
LEMMA RepairIsIdle ==
  ASSUME SystemInv, RepairWatchdog
  PROVE  /\ pc \notin EngineSteps
         /\ \A j \in JobId : ~active(jobs[j])
         /\ UNCHANGED <<jobs, desired, env, data, slot, retiring, pc, mine>>
<1>1. desired = "running"
  BY DEF RepairWatchdog, SystemInv, RepairInv
<1>2. pc \notin EngineSteps
  BY <1>1, EngineOwnsHost DEF SystemInv
<1>3. \A j \in JobId : ~active(jobs[j])
  BY <1>1 DEF SystemInv, TypeInv, FileInv, normalizeAndValidate, hasActiveJob
<1>4. UNCHANGED <<jobs, desired, env, data, slot, retiring, pc, mine>>
  BY DEF RepairWatchdog, fileVars, backupVars, engineVars
<1> QED BY <1>2, <1>3, <1>4

\* The two kinds of step.
LEMMA SystemStepKinds ==
  ASSUME [SystemNext]_systemVars
  PROVE  [Next]_vars \/ RepairWatchdog
<1>1. CASE Reconcile
  BY <1>1 DEF Reconcile, TakeGate, Confirm, ReleaseRepair
<1>2. CASE GatedRoutes
  BY <1>2 DEF GatedRoutes, Next, ControlStep
<1>3. CASE (EngineStep \/ ServerMigrates \/ Boot) \/ Crash
  BY <1>3 DEF Next
<1>4. CASE UNCHANGED systemVars
  BY <1>4 DEF systemVars
<1> QED BY <1>1, <1>2, <1>3, <1>4 DEF SystemNext

\* Every step keeps the invariants of the engine.
LEMMA SystemStaysSafe ==
  ASSUME SystemSafe, [SystemNext]_systemVars
  PROVE  SystemSafe'
<1>1. SystemInv'
  BY SystemKeeps DEF SystemSafe
<1>2. CASE [Next]_vars
  BY <1>1, <1>2, NextPoint, NextStage DEF SystemSafe, SafeInv, SystemInv
<1>3. CASE RepairWatchdog
  <2>1. /\ pc \notin EngineSteps
        /\ \A j \in JobId : ~active(jobs[j])
        /\ UNCHANGED <<jobs, desired, env, data, slot, retiring, pc, mine>>
    BY <1>3, RepairIsIdle DEF SystemSafe
  <2>2. \A j \in JobId : jobs[j].status \notin PastCheckpoint
    BY <2>1 DEF active, PastCheckpoint, ActiveStatus, UpgradePhases
  <2>3. PointInv'
    BY <2>1, <2>2 DEF PointInv, SourceStages, ArchiveStages, EngineSteps
  <2>4. StageInv'
    BY <2>1, <2>2 DEF StageInv, JobFits, PastCheckpoint
  <2> QED BY <1>1, <2>3, <2>4 DEF SystemSafe, SafeInv, SystemInv
<1> QED BY <1>2, <1>3, SystemStepKinds

\* Every reachable state of the system satisfies them.
LEMMA SystemAlwaysSafe == SystemSpec => []SystemSafe
<1>1. SystemInit => SystemSafe
  BY InitSystem, InitTypes, InitPoint, InitStage
     DEF SystemInit, SystemSafe, SafeInv
<1> QED BY <1>1, SystemStaysSafe, PTL DEF SystemSpec

\* Beside the watchdog, too, the state stays typed, and a job past its checkpoint
\* has its recovery point in the slot.
THEOREM SystemHoldsInvariants ==
  SystemSpec => [](TypeOK /\ RecoveryPointHeld)
<1>1. SystemSafe => TypeOK /\ RecoveryPointHeld
  <2>1. TypeInv => TypeOK
    BY DEF TypeInv, FileInv, Typed, EngineInv, HostInv, TypeOK
  <2>2. PointInv => RecoveryPointHeld
    BY DEF PointInv, Held, Fits, RecoveryPointHeld
  <2> QED BY <2>1, <2>2 DEF SystemSafe, SafeInv
<1> QED BY <1>1, SystemAlwaysSafe, PTL

\* A repair is a third one that could start a server on emptied stores, after a
\* crash or between two attempts of a restore: it does not, as no job is active.
THEOREM SystemHalfRestoredIsDown == SystemSpec => []HalfRestoredStaysDown
<1>1. SystemInit => DownInv
  BY InitDown DEF SystemInit
<1>2. ASSUME SystemSafe, DownInv, [SystemNext]_systemVars
      PROVE  DownInv'
  <2>1. CASE [Next]_vars
    BY <1>2, <2>1, NextDown DEF SystemSafe
  <2>2. CASE RepairWatchdog
    <3>1. /\ \A j \in JobId : ~active(jobs[j])
          /\ UNCHANGED <<jobs, data, pc>>
      BY <1>2, <2>2, RepairIsIdle DEF SystemSafe
    <3>2. UNCHANGED dumped
      BY <2>2 DEF RepairWatchdog, engineVars
    <3>3. \A j \in JobId : ~Emptied(j)'
      BY <3>1 DEF Emptied, active, PastCheckpoint, ActiveStatus, UpgradePhases
    <3> QED BY <1>2, <3>1, <3>2, <3>3 DEF DownInv
  <2> QED BY <1>2, <2>1, <2>2, SystemStepKinds
<1> QED
  BY <1>1, <1>2, DownIsDown, SystemAlwaysSafe, PTL DEF SystemSpec

\* Beside the watchdog, too, results are reported only when they hold, and the
\* host is changed only after the checkpoint.
THEOREM SystemReportsTrue ==
  SystemSpec => ReportsAreTrue /\ CheckpointBeforeMutation
<1> DEFINE Reports ==
       \A j \in JobId :
          /\ Becomes(j, "rolled_back") =>
                env = jobs[j].rp.ver /\ running = env /\ data = jobs[j].rp.data
          /\ Becomes(j, "succeeded") =>
                env = jobs[j].target /\ running = env /\ ~NeedsMigration(env)
       Mutates ==
          /\ env' # env => \E j \in JobId :
               /\ jobs[j].status \in PastCheckpoint \ {"pulling"}
               /\ jobs[j].rp = slot
               /\ env' < env => jobs[j].status = "rolling_back"
                                /\ env' = jobs[j].cur
          /\ data' = Mixed /\ data # Mixed => \E j \in JobId :
               /\ jobs[j].status = "rolling_back"
               /\ jobs[j].attempts > 0
               /\ jobs[j].rp = slot
<1>1. ASSUME SystemSafe, [SystemNext]_systemVars
      PROVE  Reports /\ Mutates
  <2>1. CASE [Next]_vars
    BY <1>1, <2>1, StepReports, StepMutates DEF SystemSafe, AsBackedUp
  <2>2. CASE RepairWatchdog
    BY <1>1, <2>2, RepairIsIdle DEF SystemSafe, Becomes
  <2> QED BY <1>1, <2>1, <2>2, SystemStepKinds
<1>2. SystemSafe /\ [SystemNext]_systemVars => [Reports]_vars /\ [Mutates]_vars
  BY <1>1
<1> QED
  BY <1>2, SystemAlwaysSafe, PTL
     DEF SystemSpec, ReportsAreTrue, CheckpointBeforeMutation

\* Beside the watchdog, too, phases and finished jobs never go back, and no
\* failure leaves the server down and unattended.
THEOREM SystemEndsJobs ==
  SystemSpec => PhaseMonotone /\ TerminalIsFinal /\ FailureIsAttended
<1> DEFINE Phases == \A j \in JobId : PhaseKept(j)
           Finals == \A j \in JobId : FinalKept(j)
           Attends ==
             \A j \in JobId :
               Becomes(j, "failed") /\ running = 0
                 => restartOffered(jobs'[j]) \/ desired' = "running"
<1>1. ASSUME SystemSafe, [SystemNext]_systemVars
      PROVE  Phases /\ Finals /\ Attends
  <2>1. CASE [Next]_vars
    BY <1>1, <2>1, StepMonotone, StepFinal, StepAttends DEF SystemSafe, SafeInv
  <2>2. CASE RepairWatchdog
    <3>1. jobs' = jobs
      BY <1>1, <2>2, RepairIsIdle DEF SystemSafe
    <3>2. \A p \in UpgradePhases : upgradePhaseRank(p) \in Nat
      BY RankIsNumber
    <3> QED BY <3>1, <3>2 DEF PhaseKept, FinalKept, Becomes
  <2> QED BY <1>1, <2>1, <2>2, SystemStepKinds
<1>2. SystemSafe /\ [SystemNext]_systemVars =>
        [Phases]_vars /\ [Finals]_vars /\ [Attends]_vars
  BY <1>1
<1> QED
  BY <1>2, SystemAlwaysSafe, PTL
     DEF SystemSpec, PhaseMonotone, TerminalIsFinal, FailureIsAttended,
         PhaseKept, FinalKept

\* And beside the watchdog, whose repairs find no active job.
THEOREM SystemOnlyRefusalsStall == SystemSpec => OnlyRefusedCountsStall
<1>1. ASSUME SystemSafe, CodeInv, [SystemNext]_systemVars
      PROVE  (\A j \in JobId : Moved(j)) /\ CodeInv'
  <2>1. CASE [Next]_vars
    BY <1>1, <2>1, StepMoves, NextCode DEF SystemSafe, SafeInv
  <2>2. CASE RepairWatchdog
    <3>1. jobs' = jobs /\ \A j \in JobId : ~active(jobs[j])
      BY <1>1, <2>2, RepairIsIdle DEF SystemSafe
    <3>2. UNCHANGED engineVars
      BY <2>2 DEF RepairWatchdog
    <3> QED BY <1>1, <3>1, <3>2 DEF Moved, CodeInv, engineVars
  <2> QED BY <1>1, <2>1, <2>2, SystemStepKinds
<1>2. SystemSafe /\ CodeInv /\ [SystemNext]_systemVars =>
        [\A j \in JobId : Moved(j)]_vars /\ CodeInv'
  BY <1>1
<1>3. SystemInit => CodeInv
  BY InitCode DEF SystemInit
<1> QED
  BY <1>2, <1>3, SystemAlwaysSafe, PTL
     DEF SystemSpec, OnlyRefusedCountsStall, Moved

-----------------------------------------------------------------------------
(***************************************************************************)
(* LegacyJob.  The plan: the versions of its chain are different ones.     *)
(***************************************************************************)
\* A sequence of n elements has length n.
LEMMA ChainLength ==
  ASSUME NEW S, NEW n \in Nat, NEW s \in [1..n -> S]
  PROVE  Len(s) = n
<1>1. s \in Seq(S)
  BY SeqDef
<1>2. Len(s) \in Nat /\ DOMAIN s = 1..Len(s) /\ DOMAIN s = 1..n
  BY <1>1, LenProperties
<1>3. \A m \in Nat : 1..m = 1..n => m = n
  OBVIOUS
<1> QED BY <1>1, <1>2, <1>3

\* A plan has a source and a chain of at least one version.
LEMMA PlanShape ==
  ASSUME NEW p \in Plan
  PROVE  /\ Len(p.chain) \in Nat \ {0}
         /\ p.chain \in [1..Len(p.chain) -> Version]
         /\ p.source \in Version
         /\ p # NoPlan
<1>1. /\ p.source \in Version
      /\ p.chain \in UNION {[1..n -> Version] : n \in 1..MaxHops}
  BY DEF Plan
<1>2. PICK n \in 1..MaxHops : p.chain \in [1..n -> Version]
  BY <1>1
<1>3. Len(p.chain) = n /\ n \in Nat \ {0}
  BY <1>2, ChainLength, MaxHopsAssumption
<1>4. p # NoPlan
  BY <1>1, VersionAssumption DEF NoPlan
<1> QED BY <1>1, <1>2, <1>3, <1>4

\* A job without a plan has no hops.
LEMMA NoPlanShape == Len(NoPlan.chain) = 0
  BY EmptySeq DEF NoPlan

\* Each complete hop has a version.
LEMMA VersionsOfHops ==
  ASSUME plan \in Plan, NEW n \in 0..Len(plan.chain)
  PROVE  versionAfter(n) \in Version
  BY PlanShape DEF versionAfter

\* No version is reached twice, so a version tells the hop.
LEMMA VersionTellsHop ==
  ASSUME plan \in Plan,
         NEW m \in 0..Len(plan.chain), NEW n \in 0..Len(plan.chain),
         versionAfter(m) = versionAfter(n)
  PROVE  m = n
<1>1. /\ Len(plan.chain) \in Nat /\ plan.source \in Nat
      /\ \A i \in 1..Len(plan.chain) : plan.chain[i] \in Nat
  BY PlanShape, VersionAssumption
<1>2. \A i \in 1..Len(plan.chain) :
        /\ plan.source < plan.chain[i]
        /\ \A k \in 1..i - 1 : plan.chain[k] < plan.chain[i]
  BY DEF Plan
<1>3. ASSUME NEW i \in 0..Len(plan.chain), NEW k \in 0..Len(plan.chain), k < i
      PROVE  versionAfter(k) # versionAfter(i)
  BY <1>1, <1>2, <1>3 DEF versionAfter
<1> QED BY <1>1, <1>3

-----------------------------------------------------------------------------
(***************************************************************************)
(* The invariant of the hops.                                              *)
(***************************************************************************)
\* Before the target of the hop is configured.
EarlyPhases == {"queued", "validating", "backing_up", "pulling"}
HopPhases == UpgradePhases \union {"queued", "rolling_back"}

\* The record belongs to the hop; so does the configured version, until the
\* target is activated and once it is checked.
HopFits(job) ==
    /\ job.cur = versionAfter(hop)
    /\ job.target = versionAfter(Len(plan.chain))
    /\ job.status \in HopPhases => hop < Len(plan.chain)
    /\ job.status \in EarlyPhases => env = versionAfter(hop)
    /\ job.status = "health_check" => env = versionAfter(hop + 1)

\* Where the engine may be when it does not execute the plan.
ClosedStages == {"idle", "down", "queued", "fail_before_mutation",
                 "begin_rollback"} \union RestoreSteps \union RestartSteps

HopStage ==
    /\ pc \in WrittenStages => env = versionAfter(hop + 1)
    /\ pc = "succeed" => running = env /\ ~NeedsMigration(env)
    /\ ~bound =>
          /\ pc \in ClosedStages
          /\ pc = "fail_before_mutation" => env = plan.source

HopTyped ==
    /\ plan \in Plan \union {NoPlan}
    /\ hop \in 0..Len(plan.chain)
    /\ bound \in BOOLEAN
    /\ ~bound => Len(plan.chain) = 1

\* The plan is that of the one job there is.
HopInv ==
    /\ HopTyped
    /\ HasPlan =>
          /\ HopStage
          /\ \A j \in JobId : jobs[j].status # Absent =>
                /\ HopFits(jobs[j])
                /\ \A i \in JobId : jobs[i].status # Absent => i = j

LegacyInv == TypeInv /\ PointInv /\ HopInv

\* What HopInv says when there is a plan.
LEMMA PlanFacts ==
  ASSUME HopInv, HasPlan
  PROVE  /\ plan \in Plan
         /\ hop \in 0..Len(plan.chain) /\ Len(plan.chain) \in Nat \ {0}
         /\ versionAfter(hop) \in Version
         /\ HopStage
<1>1. plan \in Plan /\ hop \in 0..Len(plan.chain) /\ HopStage
  BY DEF HopInv, HopTyped, HasPlan
<1> QED BY <1>1, PlanShape, VersionsOfHops

\* The engine's job is the plan's.
LEMMA MineHasPlan ==
  ASSUME TypeInv, HopInv, HasPlan, pc \in EngineSteps
  PROVE  /\ mine \in JobId /\ jobs[mine] \in Candidate
         /\ HopFits(jobs[mine])
         /\ StatusAt(jobs[mine].status, pc)
         /\ \A j \in JobId : jobs[j].status # Absent => j = mine
<1>1. /\ mine \in JobId /\ jobs[mine] \in Candidate
      /\ jobs[mine].status # Absent
      /\ StatusAt(jobs[mine].status, pc)
  BY MineIsActive DEF TypeInv, EngineInv
<1> QED BY <1>1 DEF HopInv

\* Without a digest there is one hop, and it is not complete while the job is
\* in a phase of it.
LEMMA UnboundHop ==
  ASSUME HopInv, ~bound
  PROVE  /\ HasPlan /\ Len(plan.chain) = 1
         /\ hop < Len(plan.chain) => hop = 0 /\ versionAfter(hop) = plan.source
<1>1. Len(plan.chain) = 1 /\ hop \in 0..Len(plan.chain)
  BY DEF HopInv, HopTyped
<1>2. HasPlan
  BY <1>1, NoPlanShape DEF HasPlan
<1> QED BY <1>1, <1>2 DEF versionAfter

-----------------------------------------------------------------------------
(***************************************************************************)
(* The steps that JobEngine has too.                                       *)
(***************************************************************************)
\* What such a step may make of a record, as far as the hop is concerned.
StatusStep(s, t) ==
    /\ t \in HopPhases => s \in HopPhases
    /\ t \in EarlyPhases => s \in EarlyPhases
    /\ t = "health_check" => s = "health_check" \/ pc = "checking"

RecordStep(old, new) ==
    /\ new.cur = old.cur /\ new.target = old.target
    /\ StatusStep(old.status, new.status)

HopRecords ==
    \A j \in JobId : jobs'[j].status # Absent =>
        jobs[j].status # Absent /\ RecordStep(jobs[j], jobs'[j])

\* A step that keeps the hop and the configured version.
LEMMA SameHop ==
  ASSUME TypeInv, HopInv, HasPlan, UNCHANGED <<plan, hop>>, HopTyped',
         HopStage', HopRecords,
         \/ env' = env
         \/ \A j \in JobId :
               jobs'[j].status \notin EarlyPhases \union {"health_check"}
  PROVE  HopInv'
<1>1. \A n : versionAfter(n)' = versionAfter(n)
  BY DEF versionAfter
<1>2. pc = "checking" => env = versionAfter(hop + 1)
  BY DEF HopInv, HopStage, WrittenStages
<1>3. ASSUME NEW j \in JobId, jobs'[j].status # Absent
      PROVE  /\ HopFits(jobs[j])'
             /\ \A i \in JobId : jobs'[i].status # Absent => i = j
  <2>1. jobs[j].status # Absent /\ RecordStep(jobs[j], jobs'[j])
    BY <1>3 DEF HopRecords
  <2>2. /\ HopFits(jobs[j])
        /\ \A i \in JobId : jobs[i].status # Absent => i = j
    BY <2>1 DEF HopInv
  <2>3. versionAfter(hop)' = versionAfter(hop)
          /\ versionAfter(hop + 1)' = versionAfter(hop + 1)
          /\ versionAfter(Len(plan.chain))' = versionAfter(Len(plan.chain))
    BY DEF versionAfter
  <2>4. HopFits(jobs[j])'
    BY <1>2, <2>1, <2>2, <2>3 DEF RecordStep, StatusStep, HopFits
  <2> QED BY <1>3, <2>2, <2>4 DEF HopRecords
<1> QED BY <1>3 DEF HopInv, HasPlan

\* A save of the engine's record.
LEMMA OneRecord ==
  ASSUME TypeInv, pc \in EngineSteps, NEW job, RecordStep(jobs[mine], job),
         jobs' \in {jobs, [jobs EXCEPT ![mine] = job]}
  PROVE  HopRecords
<1>1. /\ jobs \in [JobId -> Job] /\ mine \in JobId
      /\ jobs[mine].status # Absent
  BY MineIsActive DEF TypeInv, FileInv, Typed
<1>2. \A j \in JobId : RecordStep(jobs[j], jobs[j])
  BY DEF RecordStep, StatusStep
<1>3. \A j \in JobId : \/ jobs'[j] = jobs[j]
                       \/ j = mine /\ jobs'[j] = job
  BY <1>1
<1> QED BY <1>1, <1>2, <1>3 DEF HopRecords

\* A step that leaves the file alone.
LEMMA SameRecords == jobs' = jobs => HopRecords
  BY DEF HopRecords, RecordStep, StatusStep

\* The reports of a phase.
LEMMA ReportRecords ==
  ASSUME TypeInv,
         \/ PrepareValidating \/ PrepareBackingUp \/ ActivatePulling
         \/ ActivateStopping \/ ActivateMigrating \/ ActivateStarting
  PROVE  HopRecords
<1> DEFINE old == jobs[mine]
           new(next) == progressed(old, next)
<1>1. pc \in EngineSteps
  BY DEF PrepareValidating, PrepareBackingUp, ActivatePulling,
     ActivateStopping, ActivateMigrating, ActivateStarting, At, EngineSteps
<1>2. old \in Candidate /\ StatusAt(old.status, pc)
  BY <1>1, MineIsActive DEF TypeInv, EngineInv
<1>3. ASSUME NEW next \in UpgradePhases \ {"health_check"},
             old.status \in UpgradePhases,
             next \in PastCheckpoint => old.status \in PastCheckpoint,
             next \in EarlyPhases => \/ old.status \in EarlyPhases
                                     \/ upgradePhaseRank(old.status) >
                                          upgradePhaseRank(next),
             jobs' \in {jobs, [jobs EXCEPT ![mine] = new(next)]}
      PROVE  HopRecords
  <2>1. new(next).status = IF upgradePhaseRank(old.status) >
                                upgradePhaseRank(next)
                           THEN old.status ELSE next
    BY <1>1, <1>3, ProgressedGood
  <2>2. new(next).cur = old.cur /\ new(next).target = old.target
    BY <1>2 DEF progressed, Candidate
  <2>3. RecordStep(old, new(next))
    <3> HIDE DEF new
    <3> QED BY <1>3, <2>1, <2>2 DEF RecordStep, StatusStep, HopPhases
  <2> HIDE DEF new
  <2> QED BY <1>1, <1>3, <2>3, OneRecord
<1> USE DEF At, progress, updateJob, Update, fileVars
<1>4. CASE PrepareValidating \/ PrepareBackingUp
  <2>1. PICK next \in {"validating", "backing_up"} :
           jobs' \in {jobs, [jobs EXCEPT ![mine] = new(next)]}
    BY <1>4 DEF PrepareValidating, PrepareBackingUp
  <2>2. old.status \in {"validating", "backing_up"}
    BY <1>2, <1>4 DEF PrepareValidating, PrepareBackingUp, StatusAt,
       PrepareSteps
  <2> HIDE DEF new, old
  <2> QED BY <1>3, <2>1, <2>2 DEF UpgradePhases, PastCheckpoint, EarlyPhases
<1>5. CASE ActivatePulling \/ ActivateStopping
  <2>1. PICK next \in {"pulling", "stopping"} :
           jobs' \in {jobs, [jobs EXCEPT ![mine] = new(next)]}
    BY <1>5 DEF ActivatePulling, ActivateStopping
  <2>2. old.status \in MutatePhases \union {"pulling"}
    BY <1>2, <1>5 DEF ActivatePulling, ActivateStopping, StatusAt,
       BeforeWriteSteps
  <2> HIDE DEF new, old
  <2> QED BY <1>3, <2>1, <2>2 DEF UpgradePhases, PastCheckpoint, EarlyPhases,
             MutatePhases, upgradePhaseRank
<1>6. CASE ActivateMigrating \/ ActivateStarting
  <2>1. PICK next \in {"migrating", "starting"} :
           jobs' \in {jobs, [jobs EXCEPT ![mine] = new(next)]}
    BY <1>6 DEF ActivateMigrating, ActivateStarting
  <2>2. old.status \in MutatePhases
    BY <1>2, <1>6 DEF ActivateMigrating, ActivateStarting, StatusAt, MutateSteps
  <2> HIDE DEF new, old
  <2> QED BY <1>3, <2>1, <2>2 DEF UpgradePhases, PastCheckpoint, EarlyPhases,
             MutatePhases
<1> QED BY <1>4, <1>5, <1>6

\* The other saves of the engine's record.
LEMMA SaveRecords ==
  ASSUME TypeInv,
         \/ Checking \/ FailBeforeMutation \/ BeginRollback \/ CountRestore
         \/ Restored \/ RecordRecoveryFailure \/ CountRestart \/ RestartDone
         \/ RestartFailed
  PROVE  HopRecords
<1> DEFINE old == jobs[mine]
<1>1. pc \in EngineSteps
  BY DEF Checking, FailBeforeMutation, BeginRollback, CountRestore, Restored,
     RecordRecoveryFailure, CountRestart, RestartDone, RestartFailed, At,
     EngineSteps
<1>2. old \in Candidate /\ StatusAt(old.status, pc)
  BY <1>1, MineIsActive DEF TypeInv, EngineInv
<1>3. ASSUME NEW job, job.cur = old.cur, job.target = old.target,
             StatusStep(old.status, job.status),
             jobs' \in {jobs, [jobs EXCEPT ![mine] = job]}
      PROVE  HopRecords
  BY <1>1, <1>3, OneRecord DEF RecordStep
<1>4. CASE jobs' = jobs
  BY <1>4, SameRecords
<1>5. ASSUME jobs' # jobs
      PROVE  HopRecords
  <2> USE DEF At, updateJob, Update, fileVars
  <2>1. CASE Checking
    <3> DEFINE job == [old EXCEPT !.status = "health_check", !.step = "phase",
                                  !.svc = FALSE]
    <3>1. jobs' = [jobs EXCEPT ![mine] = job] /\ pc = "checking"
      BY <1>5, <2>1 DEF Checking
    <3>2. job.cur = old.cur /\ job.target = old.target
            /\ job.status = "health_check"
      BY <1>2 DEF Candidate
    <3>3. StatusStep(old.status, job.status)
      BY <1>2, <3>1, <3>2 DEF StatusStep, StatusAt, MutateSteps, MutatePhases,
         HopPhases, UpgradePhases, EarlyPhases
    <3> HIDE DEF job
    <3> QED BY <1>3, <3>1, <3>2, <3>3
  <2>2. ASSUME NEW job, job.cur = old.cur, job.target = old.target,
               job.status \notin HopPhases,
               jobs' = [jobs EXCEPT ![mine] = job]
        PROVE  HopRecords
    <3>1. StatusStep(old.status, job.status)
      BY <2>2 DEF StatusStep, HopPhases, UpgradePhases, EarlyPhases
    <3> QED BY <1>3, <2>2, <3>1
  <2>3. ASSUME NEW job, job.cur = old.cur, job.target = old.target,
               job.status = "rolling_back",
               old.status \in HopPhases, jobs' = [jobs EXCEPT ![mine] = job]
        PROVE  HopRecords
    <3>1. StatusStep(old.status, job.status)
      BY <2>3 DEF StatusStep, EarlyPhases
    <3> QED BY <1>3, <2>3, <3>1
  <2>4. CASE FailBeforeMutation
    <3> DEFINE job == [old EXCEPT !.status = "failed", !.step = "complete",
                         !.svc = avail, !.safe = old.cur, !.code = code]
    <3>1. jobs' = [jobs EXCEPT ![mine] = job]
      BY <1>5, <2>4 DEF FailBeforeMutation
    <3>2. job.cur = old.cur /\ job.target = old.target
            /\ job.status \notin HopPhases
      BY <1>2 DEF Candidate, HopPhases, UpgradePhases
    <3> HIDE DEF job
    <3> QED BY <2>2, <3>1, <3>2
  <2>5. CASE BeginRollback
    <3> DEFINE job == [old EXCEPT !.status = "rolling_back",
                         !.step = "restore_backup", !.svc = FALSE,
                         !.code = code]
    <3>1. jobs' = [jobs EXCEPT ![mine] = job] /\ pc = "begin_rollback"
      BY <1>5, <2>5 DEF BeginRollback
    <3>2. job.cur = old.cur /\ job.target = old.target
            /\ job.status = "rolling_back"
            /\ old.status \in HopPhases
      BY <1>2, <3>1 DEF Candidate, HopPhases, UpgradePhases, StatusAt,
         MutatePhases
    <3> HIDE DEF job
    <3> QED BY <2>3, <3>1, <3>2
  <2>6. CASE CountRestore \/ Restored
    <3>1. \/ jobs' = [jobs EXCEPT ![mine] = [old EXCEPT !.attempts = @ + 1]]
          \/ jobs' = [jobs EXCEPT ![mine] =
                          [old EXCEPT !.step = "check_restored"]]
      BY <1>5, <2>6 DEF CountRestore, Restored
    <3>2. old.status = "rolling_back"
      BY <1>2, <2>6 DEF CountRestore, Restored, StatusAt, RestoreSteps
    <3>3. PICK job : /\ jobs' = [jobs EXCEPT ![mine] = job]
                     /\ job.cur = old.cur /\ job.target = old.target
                     /\ job.status = old.status
      BY <1>2, <3>1 DEF Candidate
    <3> QED BY <2>3, <3>2, <3>3 DEF HopPhases
  <2>7. CASE RecordRecoveryFailure
    <3> DEFINE ended == [old EXCEPT !.status = "failed", !.step = "complete",
                            !.svc = FALSE, !.code = "rollback_failed"]
               again == [old EXCEPT !.svc = FALSE, !.step = "restore_backup"]
    <3>1. \/ jobs' = [jobs EXCEPT ![mine] = ended]
          \/ jobs' = [jobs EXCEPT ![mine] = again]
      BY <1>5, <2>7 DEF RecordRecoveryFailure
    <3>2. old.status = "rolling_back"
      BY <1>2, <2>7 DEF RecordRecoveryFailure, StatusAt, RestoreSteps
    <3>3. /\ ended.cur = old.cur /\ ended.target = old.target
          /\ ended.status = "failed"
          /\ again.cur = old.cur /\ again.target = old.target
          /\ again.status = old.status
      BY <1>2 DEF Candidate
    <3>4. "failed" \notin HopPhases /\ "rolling_back" \in HopPhases
      BY DEF HopPhases, UpgradePhases
    <3> HIDE DEF ended, again, old
    <3> QED BY <2>2, <2>3, <3>1, <3>2, <3>3, <3>4
  <2>8. CASE CountRestart \/ RestartDone \/ RestartFailed
    <3> DEFINE counted == [old EXCEPT !.attempts = @ + 1]
               done == [old EXCEPT !.status = "failed", !.step = "complete",
                           !.svc = TRUE]
               ended == [old EXCEPT !.status = "failed", !.step = "complete",
                            !.svc = FALSE, !.code = "restart_failed"]
               again == [old EXCEPT !.svc = FALSE]
    <3>1. \/ jobs' = [jobs EXCEPT ![mine] = counted]
          \/ jobs' = [jobs EXCEPT ![mine] = done]
          \/ jobs' = [jobs EXCEPT ![mine] = ended]
          \/ jobs' = [jobs EXCEPT ![mine] = again]
      BY <1>5, <2>8 DEF CountRestart, RestartDone, RestartFailed
    <3>2. old.status = "restarting"
      BY <1>2, <2>8 DEF CountRestart, RestartDone, RestartFailed, StatusAt,
         RestartSteps
    <3>3. /\ counted.cur = old.cur /\ counted.target = old.target
          /\ counted.status = old.status
          /\ done.cur = old.cur /\ done.target = old.target
          /\ done.status = "failed"
          /\ ended.cur = old.cur /\ ended.target = old.target
          /\ ended.status = "failed"
          /\ again.cur = old.cur /\ again.target = old.target
          /\ again.status = old.status
      BY <1>2 DEF Candidate
    <3>4. {"failed", "restarting"} \intersect HopPhases = {}
      BY DEF HopPhases, UpgradePhases
    <3> HIDE DEF counted, done, ended, again, old
    <3> QED BY <2>2, <3>1, <3>2, <3>3, <3>4
  <2> QED BY <2>1, <2>4, <2>5, <2>6, <2>7, <2>8
<1> QED BY <1>4, <1>5

\* The checkpoint, and the restart of a failed job.
LEMMA OtherRecords ==
  ASSUME TypeInv, Checkpoint \/ StartRestart \/ setDesiredState
  PROVE  HopRecords
<1>0. jobs \in [JobId -> Job]
  BY DEF TypeInv, FileInv, Typed
<1>1. CASE jobs' = jobs
  BY <1>1, SameRecords
<1>2. CASE Checkpoint /\ jobs' # jobs
  <2> DEFINE point == [job |-> mine, ver |-> jobs[mine].cur, data |-> dumped]
  <2>1. pc = "checkpoint" /\ jobs' = withRecoveryPoint(jobs, mine, point)
    BY <1>2 DEF Checkpoint, At, Update, fileVars
  <2>2. mine \in JobId /\ jobs[mine].status \in {"validating", "backing_up"}
          /\ jobs[mine].status # Absent
    BY <2>1, MineIsActive DEF TypeInv, EngineInv, StatusAt, PrepareSteps,
       EngineSteps
  <2>3. ASSUME NEW j \in JobId
        PROVE  /\ jobs'[j].cur = jobs[j].cur
               /\ jobs'[j].target = jobs[j].target
               /\ jobs'[j].status = IF j = mine THEN "pulling"
                                    ELSE jobs[j].status
    <3>1. jobs[j] \in Job
      BY <1>0
    <3> QED BY <2>1, <3>1 DEF withRecoveryPoint, Job
  <2> HIDE DEF point
  <2> QED BY <2>2, <2>3 DEF HopRecords, RecordStep, StatusStep, HopPhases,
             UpgradePhases, EarlyPhases
<1>3. CASE StartRestart /\ jobs' # jobs
  <2> DEFINE new(i) == [jobs[i] EXCEPT !.status = "restarting",
                          !.step = "restart", !.svc = FALSE, !.attempts = 0]
  <2>1. PICK i \in JobId :
           restartOffered(jobs[i]) /\ jobs' = [jobs EXCEPT ![i] = new(i)]
    BY <1>3 DEF StartRestart, Update, fileVars
  <2>2. jobs[i].status # Absent /\ new(i).status = "restarting"
          /\ new(i).cur = jobs[i].cur /\ new(i).target = jobs[i].target
    <3>1. jobs[i] \in Job
      BY <1>0
    <3> QED BY <2>1, <3>1 DEF Job, restartOffered, Absent
  <2> HIDE DEF new
  <2>3. \A j \in JobId : jobs'[j] = IF j = i THEN new(i) ELSE jobs[j]
    BY <1>0, <2>1
  <2> QED BY <2>2, <2>3 DEF HopRecords, RecordStep, StatusStep, HopPhases,
             UpgradePhases, EarlyPhases
<1>4. CASE setDesiredState
  BY <1>4, SameRecords DEF setDesiredState, Update, fileVars
<1> QED BY <1>1, <1>2, <1>3, <1>4

\* The steps of JobEngine that a job with a plan takes as they are.
SharedSaves ==
    \/ PrepareValidating \/ PrepareBackingUp \/ ActivatePulling
    \/ ActivateStopping \/ ActivateMigrating \/ ActivateStarting
    \/ Checking \/ FailBeforeMutation \/ BeginRollback \/ CountRestore
    \/ Restored \/ RecordRecoveryFailure \/ CountRestart \/ RestartDone
    \/ RestartFailed \/ Checkpoint

SharedWork ==
    \/ SourceReady \/ BeginAndStop \/ Dump \/ SourceRestored \/ Commit
    \/ Pull \/ Recreate \/ RestoreImage \/ RestoreStop \/ Wipe
    \/ RestoreData \/ RestoreUp \/ CheckRestored \/ RestartUp
    \/ RestartCheck

SharedRoutes == StartRestart \/ setDesiredState

\* Every one of them keeps the records at their hop.
LEMMA SharedRecords ==
  ASSUME TypeInv,
         \/ SharedSaves \/ SharedWork \/ SharedRoutes
         \/ Crash \/ Boot \/ ServerMigrates
  PROVE  HopRecords
<1>1. CASE SharedSaves
  BY <1>1, ReportRecords, SaveRecords, OtherRecords DEF SharedSaves
<1>2. CASE SharedRoutes
  BY <1>2, OtherRecords DEF SharedRoutes
<1>3. CASE SharedWork
  <2>1. jobs' = jobs
    BY <1>3 DEF SharedWork, SourceReady, BeginAndStop, Dump, SourceRestored,
       Commit, Pull, Recreate, RestoreImage, RestoreStop, Wipe, RestoreData,
       RestoreUp, CheckRestored, RestartUp, RestartCheck, fileVars
  <2> QED BY <2>1, SameRecords
<1>4. CASE Crash \/ Boot \/ ServerMigrates
  BY <1>4, SameRecords DEF Crash, Boot, ServerMigrates, fileVars
<1> QED BY <1>1, <1>2, <1>3, <1>4

\* Where the saves continue.
LEMMA SavesStage ==
  ASSUME SharedSaves
  PROVE  /\ UNCHANGED hostVars
         /\ pc' \in WrittenStages => pc \in WrittenStages
         /\ pc' # "succeed"
         /\ pc \in ClosedStages => pc' \in ClosedStages
         /\ pc' = "fail_before_mutation" /\ pc \in ClosedStages =>
               pc = "begin_rollback" /\ jobs[mine].rp = NoPoint
<1> USE DEF At, Goto, Return, FailBefore, Rollback, Update, updateJob,
            progress, BackupFails, NotActivated, HalfActivated, WrittenStages,
            ClosedStages, RestoreSteps, RestartSteps
<1>1. CASE PrepareValidating \/ PrepareBackingUp \/ ActivatePulling
             \/ ActivateStopping \/ ActivateMigrating \/ ActivateStarting
  BY <1>1 DEF PrepareValidating, PrepareBackingUp, ActivatePulling,
     ActivateStopping, ActivateMigrating, ActivateStarting
<1>2. CASE Checking \/ FailBeforeMutation \/ BeginRollback \/ CountRestore
             \/ Restored
  BY <1>2 DEF Checking, FailBeforeMutation, BeginRollback, CountRestore,
     Restored
<1>3. CASE RecordRecoveryFailure \/ CountRestart \/ RestartDone
             \/ RestartFailed \/ Checkpoint
  BY <1>3 DEF RecordRecoveryFailure, CountRestart, RestartDone, RestartFailed,
     Checkpoint
<1> QED BY <1>1, <1>2, <1>3 DEF SharedSaves

\* Where the host commands continue.  Only a restore configures a version.
LEMMA WorkStage ==
  ASSUME SharedWork
  PROVE  /\ pc' \in WrittenStages => pc \in WrittenStages /\ env' = env
         /\ pc' # "succeed"
         /\ pc \in ClosedStages => pc' \in ClosedStages
         /\ ~(pc' = "fail_before_mutation" /\ pc \in ClosedStages)
         /\ env' # env => /\ pc = "restore_image"
                          /\ slot = jobs[mine].rp /\ env' = slot.ver
<1> USE DEF At, Goto, FailBefore, Rollback, BackupFails, NotActivated,
            HalfActivated, WrittenStages, ClosedStages, RestoreSteps,
            RestartSteps, hostVars, ensureDirectSourceReady
<1>1. CASE SourceReady \/ BeginAndStop \/ Dump \/ SourceRestored \/ Commit
             \/ Pull \/ Recreate
  BY <1>1 DEF SourceReady, BeginAndStop, Dump, SourceRestored, Commit, Pull,
     Recreate
<1>2. CASE RestoreImage \/ RestoreStop \/ Wipe \/ RestoreData \/ RestoreUp
             \/ CheckRestored \/ RestartUp \/ RestartCheck
  BY <1>2 DEF RestoreImage, RestoreStop, Wipe, RestoreData, RestoreUp,
     CheckRestored, RestartUp, RestartCheck
<1> QED BY <1>1, <1>2 DEF SharedWork

\* The point that a rollback restores is of the hop's source.
LEMMA PointOfHop ==
  ASSUME PointInv, HopInv, HasPlan, NEW j \in JobId,
         jobs[j].status \in PastCheckpoint
  PROVE  /\ jobs[j].rp # NoPoint
         /\ jobs[j].rp.ver = versionAfter(hop)
<1>1. jobs[j].rp \in RecoveryPoint /\ jobs[j].rp.ver = jobs[j].cur
  BY DEF PointInv, Held
<1>2. jobs[j].cur = versionAfter(hop)
  BY DEF HopInv, HopFits, PastCheckpoint, Absent
<1>3. NoPoint \notin RecoveryPoint
  BY JobIdAssumption DEF NoPoint, RecoveryPoint
<1> QED BY <1>1, <1>2, <1>3

\* The shared steps keep the engine's place in the hop.
LEMMA SharedStage ==
  ASSUME LegacyInv, HasPlan, UNCHANGED <<plan, hop>>,
         \/ /\ SharedSaves \/ SharedWork \/ SharedRoutes \/ ServerMigrates
            /\ bound' = bound
         \/ Crash \/ Boot
  PROVE  HopStage'
<1>1. HopStage
  BY PlanFacts DEF LegacyInv
<1>2. versionAfter(hop + 1)' = versionAfter(hop + 1)
  BY DEF versionAfter
<1>3. CASE Crash \/ Boot
  <2>1. pc' \in {"down", "idle"}
    BY <1>3 DEF Crash, Boot
  <2> QED BY <2>1 DEF HopStage, WrittenStages, ClosedStages
<1>4. CASE SharedSaves /\ bound' = bound
  <2>1. ~(pc = "begin_rollback" /\ jobs[mine].rp = NoPoint)
    <3> SUFFICES ASSUME pc = "begin_rollback" PROVE jobs[mine].rp # NoPoint
      OBVIOUS
    <3>1. mine \in JobId /\ jobs[mine].status \in PastCheckpoint
      BY MineHasPlan DEF LegacyInv, EngineSteps, StatusAt, MutatePhases,
         PastCheckpoint
    <3> QED BY <3>1, PointOfHop DEF LegacyInv
  <2>2. UNCHANGED <<env, running, data>>
    BY <1>4, SavesStage DEF hostVars
  <2> QED BY <1>1, <1>2, <1>4, <2>1, <2>2, SavesStage DEF HopStage
<1>5. CASE SharedWork /\ bound' = bound
  BY <1>1, <1>2, <1>5, WorkStage DEF HopStage
<1>6. CASE SharedRoutes /\ bound' = bound
  <2>1. UNCHANGED <<pc, env, running, data>>
    BY <1>6 DEF SharedRoutes, StartRestart, setDesiredState, controlUnchanged,
       hostVars, engineVars
  <2> QED BY <1>1, <1>2, <1>6, <2>1 DEF HopStage, NeedsMigration
<1>7. CASE ServerMigrates /\ bound' = bound
  <2>1. UNCHANGED <<pc, env, running>> /\ NeedsMigration(running)
    BY <1>7 DEF ServerMigrates, engineVars
  <2> QED BY <1>1, <1>2, <1>7, <2>1 DEF HopStage
<1> QED BY <1>3, <1>4, <1>5, <1>6, <1>7

\* No shared step leaves the hop.
LEMMA SharedHop ==
  ASSUME LegacyInv, HasPlan, UNCHANGED <<plan, hop>>, HopTyped',
         \/ /\ SharedSaves \/ SharedWork \/ SharedRoutes \/ ServerMigrates
            /\ bound' = bound
         \/ Crash \/ Boot
  PROVE  HopInv'
<1>1. HopStage' /\ HopRecords
  BY SharedStage, SharedRecords DEF LegacyInv
<1>2. CASE env' = env
  BY <1>1, <1>2, SameHop DEF LegacyInv
<1>3. CASE env' # env
  <2>1. SharedWork /\ pc = "restore_image"
    <3>1. ~SharedSaves /\ ~SharedRoutes /\ ~ServerMigrates /\ ~Crash /\ ~Boot
      <4>1. ~SharedSaves
        BY <1>3, SavesStage DEF hostVars
      <4> QED
        BY <1>3, <4>1 DEF SharedRoutes, StartRestart, setDesiredState,
           controlUnchanged, hostVars, ServerMigrates, Crash, Boot
    <3> QED BY <1>3, <3>1, WorkStage
  <2>2. /\ mine \in JobId /\ jobs[mine].status = "rolling_back"
        /\ \A j \in JobId : jobs[j].status # Absent => j = mine
    BY <2>1, MineHasPlan DEF LegacyInv, EngineSteps, StatusAt, RestoreSteps
  <2>3. jobs' = jobs
    BY <1>3, <2>1 DEF SharedWork, SourceReady, BeginAndStop, Dump,
       SourceRestored, Commit, Pull, Recreate, RestoreImage, RestoreStop, Wipe,
       RestoreData, RestoreUp, CheckRestored, RestartUp, RestartCheck, fileVars
  <2>4. \A j \in JobId :
          jobs'[j].status \notin EarlyPhases \union {"health_check"}
    BY <2>2, <2>3 DEF EarlyPhases, Absent
  <2> QED BY <1>1, <2>4, SameHop DEF LegacyInv
<1> QED BY <1>2, <1>3

-----------------------------------------------------------------------------
(***************************************************************************)
(* The steps of a job with a plan that are its own.                        *)
(***************************************************************************)
\* A save of the engine's record after which RunActive returns keeps what is
\* proved of JobEngine, whatever phase it saves.
LEMMA ReturnSaves ==
  ASSUME TypeInv, PointInv, pc \in EngineSteps, Return,
         NEW job \in Candidate, Versioned(job), job.status # Absent,
         KeepsPoint(job),
         NEW want \in DesiredState, Saves(job, want),
         UNCHANGED <<hostVars, backupVars, request>>, faults' \in Nat
  PROVE  TypeInv' /\ PointInv'
<1>1. mine \in JobId /\ jobs \in [JobId -> Job] /\ Typed(jobs)
  BY MineIsActive DEF TypeInv, FileInv, Typed
<1>2. FileInv'
  <2>1. CASE UNCHANGED fileVars
    BY <2>1 DEF TypeInv, FileInv, fileVars, Typed, Versioned,
       normalizeAndValidate, hasActiveJob
  <2>2. CASE ~UNCHANGED fileVars
    <3>1. /\ jobs' = [jobs EXCEPT ![mine] = job] /\ desired' = want
          /\ normalizeAndValidate([jobs EXCEPT ![mine] = job], want)
      BY <2>2 DEF Saves
    <3>2. Typed([jobs EXCEPT ![mine] = job])
      BY <1>1, <3>1, OneJobSaved
    <3> QED
      BY <3>1, <3>2 DEF FileInv, Typed, normalizeAndValidate, hasActiveJob
  <2> QED BY <2>1, <2>2
<1>3. EngineInv'
  BY MovesEngine DEF Moves
<1>4. HostInv'
  BY DEF TypeInv, HostInv, hostVars, backupVars, gateFree
<1>5. ASSUME NEW j \in JobId, jobs'[j].status \in PastCheckpoint
      PROVE  Held(j)'
  <2>1. \/ jobs'[j] = jobs[j]
        \/ j = mine /\ jobs'[j] = job
    BY <1>1 DEF Saves, fileVars
  <2>2. /\ jobs[j].status \in PastCheckpoint
        /\ jobs'[j].rp = jobs[j].rp /\ jobs'[j].cur = jobs[j].cur
    BY <1>5, <2>1 DEF KeepsPoint
  <2> QED BY <2>2 DEF PointInv, Held, backupVars
<1>6. PointInv'
  BY <1>5 DEF Return, PointInv, SourceStages, ArchiveStages
<1> QED BY <1>2, <1>3, <1>4, <1>6 DEF TypeInv

\* A step that leaves every other record alone, and the engine's at its hop.
LEMMA MineKeepsHop ==
  ASSUME TypeInv, HopInv, HasPlan, pc \in EngineSteps,
         HopTyped', plan' = plan, HopStage',
         \A j \in JobId : j = mine \/ jobs'[j] = jobs[j],
         NEW m \in JobId, m = mine, HopFits(jobs[m])'
  PROVE  HopInv'
<1>1. ASSUME NEW j \in JobId, jobs'[j].status # Absent PROVE j = m
  BY <1>1, MineHasPlan
<1> QED BY <1>1 DEF HopInv, HasPlan

\* RunActive, for a job with a plan: a job whose plan is not executed has its
\* source configured when it is failed.
LEMMA RunLegacyKeeps ==
  ASSUME LegacyInv, HasPlan, RunLegacy, UNCHANGED <<plan, bound>>
  PROVE  LegacyInv'
<1>1. PICK j \in JobId : /\ active(jobs[j]) /\ mine' = j
                         /\ pc' = resumeLegacy(jobs[j])
                         /\ avail' = jobs[j].svc
  BY DEF RunLegacy
<1>2. /\ jobs' = jobs /\ desired' = desired /\ hop' = hop
      /\ UNCHANGED <<env, running, data, slot, retiring, request, faults>>
      /\ dumped' = dumped /\ dumpOK' = dumpOK /\ code' = "backup_failed"
  BY DEF RunLegacy, fileVars, hostVars, backupVars
<1>3. jobs[j].status \in ActiveStatus /\ jobs[j] \in Job
  BY <1>1 DEF active, LegacyInv, TypeInv, FileInv, Typed
<1>4. /\ Resume(jobs[j]) \in EngineSteps
      /\ StatusAt(jobs[j].status, Resume(jobs[j]))
      /\ Resume(jobs[j]) \notin SourceStages \union ArchiveStages
                                 \union WrittenStages \union {"succeed"}
      /\ jobs[j].status \notin UpgradePhases =>
            /\ Resume(jobs[j]) \in ClosedStages
            /\ Resume(jobs[j]) # "fail_before_mutation"
  BY <1>3 DEF Resume, ActiveStatus, UpgradePhases, StatusAt, EngineSteps,
     PrepareSteps, BeforeWriteSteps, MutateSteps, CheckSteps, RestoreSteps,
     RestartSteps, MutatePhases, SourceStages, ArchiveStages, WrittenStages,
     ClosedStages
<1>5. /\ pc' \in EngineSteps /\ StatusAt(jobs[j].status, pc')
      /\ pc' \notin SourceStages \union ArchiveStages
                     \union WrittenStages \union {"succeed"}
      /\ ~bound => pc' \in ClosedStages
      /\ ~bound /\ pc' = "fail_before_mutation" =>
            /\ jobs[j].status \in UpgradePhases
            /\ jobs[j].rp = NoPoint \/ jobs[j].status \notin Mutating
  BY <1>1, <1>4 DEF resumeLegacy, StatusAt, EngineSteps, PrepareSteps,
     BeforeWriteSteps, MutateSteps, CheckSteps, RestoreSteps, RestartSteps,
     MutatePhases, SourceStages, ArchiveStages, WrittenStages, ClosedStages,
     Mutating
<1>6. TypeInv'
  <2>1. FileInv'
    BY <1>2 DEF LegacyInv, TypeInv, FileInv, Typed, Versioned,
       normalizeAndValidate, hasActiveJob
  <2>2. EngineInv'
    <3>1. avail' \in BOOLEAN /\ code' \in ErrorCode
      BY <1>1, <1>2, <1>3 DEF Job, ErrorCode
    <3> QED
      BY <1>1, <1>2, <1>5, <3>1 DEF LegacyInv, TypeInv, EngineInv
  <2>3. HostInv'
    BY <1>2 DEF LegacyInv, TypeInv, HostInv, gateFree
  <2> QED BY <2>1, <2>2, <2>3 DEF TypeInv
<1>7. PointInv'
  BY <1>2, <1>5, ElsewherePoint DEF LegacyInv, fileVars, backupVars
<1>8. ~bound /\ pc' = "fail_before_mutation" => env = plan.source
  <2> SUFFICES ASSUME ~bound, pc' = "fail_before_mutation"
               PROVE  env = plan.source
    OBVIOUS
  <2>1. jobs[j].status \in UpgradePhases /\ jobs[j].status # Absent
    BY <1>5 DEF UpgradePhases, Absent
  <2>2. HopFits(jobs[j])
    BY <2>1 DEF LegacyInv, HopInv
  <2>3. versionAfter(hop) = plan.source
    BY <2>1, <2>2, UnboundHop DEF LegacyInv, HopFits, HopPhases
  <2>4. jobs[j].status \in EarlyPhases
    <3>1. jobs[j].status \in PastCheckpoint => jobs[j].rp # NoPoint
      BY PointOfHop DEF LegacyInv
    <3> QED BY <1>5, <2>1, <3>1 DEF Mutating, PastCheckpoint, EarlyPhases,
               UpgradePhases
  <2> QED BY <2>2, <2>3, <2>4 DEF HopFits
<1>9. HopInv'
  <2>1. HopTyped'
    BY <1>2 DEF LegacyInv, HopInv, HopTyped
  <2>2. HopStage'
    BY <1>2, <1>5, <1>8 DEF HopStage
  <2> QED
    BY <1>2, <2>1, <2>2, SameRecords, SameHop DEF LegacyInv
<1> QED BY <1>6, <1>7, <1>9 DEF LegacyInv

\* The saves of a job with a plan end the run.
LEMMA ReturnStage ==
  ASSUME Return
  PROVE  HopStage'
  BY DEF Return, HopStage, WrittenStages, ClosedStages

\* A queued job is validated first.
LEMMA LegacyQueuedKeeps ==
  ASSUME LegacyInv, HasPlan, LegacyQueued, UNCHANGED <<plan, bound>>
  PROVE  LegacyInv'
<1> DEFINE old == jobs[mine]
           job == [old EXCEPT !.status = "validating", !.step = "phase"]
<1>1. pc = "queued" /\ pc \in EngineSteps /\ Return /\ hop' = hop
  BY DEF LegacyQueued, At, EngineSteps, updateJob, Update
<1>2. /\ old \in Candidate /\ Versioned(old) /\ StatusAt(old.status, pc)
      /\ desired \in DesiredState /\ faults \in Nat
      /\ mine \in JobId /\ jobs \in [JobId -> Job]
  BY <1>1, MineIsActive DEF LegacyInv, TypeInv, FileInv, HostInv, EngineInv,
     Typed
<1>3. /\ job \in Candidate /\ job.status = "validating"
      /\ job.cur = old.cur /\ job.target = old.target
  BY <1>2, Members DEF Candidate
<1> HIDE DEF job
<1>4. Saves(job, desired) /\ faults' \in Nat
        /\ UNCHANGED <<hostVars, backupVars, request>>
  BY <1>2 DEF LegacyQueued, updateJob, Update, Saves, fileVars, job
<1>5. Versioned(job) /\ job.status # Absent /\ KeepsPoint(job)
  BY <1>2, <1>3 DEF Versioned, Absent, KeepsPoint, PastCheckpoint
<1>6. TypeInv' /\ PointInv'
  BY <1>1, <1>2, <1>3, <1>4, <1>5, ReturnSaves DEF LegacyInv
<1>7. HopInv'
  <2>1. old.status = "queued"
    BY <1>1, <1>2 DEF StatusAt
  <2>2. RecordStep(old, job)
    BY <1>3, <2>1 DEF RecordStep, StatusStep, HopPhases, UpgradePhases,
       EarlyPhases
  <2>3. HopRecords
    BY <1>1, <1>4, <2>2, OneRecord DEF LegacyInv, Saves, fileVars
  <2>4. HopTyped' /\ env' = env
    BY <1>1, <1>4 DEF LegacyInv, HopInv, HopTyped, hostVars
  <2> QED BY <1>1, <2>3, <2>4, ReturnStage, SameHop DEF LegacyInv
<1> QED BY <1>6, <1>7 DEF LegacyInv

\* The image that is configured is that of the hop.
LEMMA WriteHopImageKeeps ==
  ASSUME LegacyInv, HasPlan, WriteHopImage, UNCHANGED <<plan, bound>>
  PROVE  LegacyInv'
<1> DEFINE v == versionAfter(hop + 1)
<1>1. pc = "write_image" /\ pc \in EngineSteps
  BY DEF WriteHopImage, At, EngineSteps
<1>2. /\ mine \in JobId /\ HopFits(jobs[mine])
      /\ jobs[mine].status \in MutatePhases
  BY <1>1, MineHasPlan DEF LegacyInv, StatusAt, MutateSteps
<1>3. hop + 1 \in 0..Len(plan.chain)
  BY <1>2, PlanFacts DEF LegacyInv, HopFits, HopPhases, MutatePhases,
     UpgradePhases
<1>4. v \in Version
  BY <1>3, PlanFacts, VersionsOfHops DEF LegacyInv
<1>5. /\ env' \in {env, v} /\ hop' = hop
      /\ UNCHANGED <<jobs, desired, running, data, slot, retiring, request,
                     faults>>
      /\ \/ env' = v /\ Goto("activate_migrating")
         \/ HalfActivated
  BY DEF WriteHopImage, fileVars, backupVars
<1>6. TypeInv'
  <2>1. Moves
    <3>1. "target_activation_failed" \in ErrorCode
      BY DEF ErrorCode
    <3> QED BY <1>2, <1>5, <3>1, StepStatus DEF HalfActivated, Moves,
               EngineSteps
  <2>2. env' \in Version /\ HostInv
    BY <1>4, <1>5 DEF LegacyInv, TypeInv, HostInv
  <2> QED
    BY <1>1, <1>5, <2>1, <2>2, HostTypes DEF LegacyInv, HostInv, fileVars
<1>7. PointInv'
  <2>1. pc' \in {"activate_migrating", "begin_rollback"}
    BY <1>5 DEF Goto, HalfActivated, Rollback
  <2> QED BY <1>5, <2>1, ElsewherePoint DEF LegacyInv, fileVars, backupVars,
             SourceStages, ArchiveStages
<1>8. HopInv'
  <2>1. mine' = mine /\ versionAfter(hop)' = versionAfter(hop)
          /\ versionAfter(hop + 1)' = v
          /\ versionAfter(Len(plan.chain))' = versionAfter(Len(plan.chain))
    BY <1>5 DEF versionAfter, Goto, HalfActivated, Rollback
  <2>2. HopTyped'
    BY <1>5 DEF LegacyInv, HopInv, HopTyped
  <2>3. bound
    <3>1. pc \notin ClosedStages
      BY <1>1 DEF ClosedStages, RestoreSteps, RestartSteps
    <3> QED BY <3>1, PlanFacts DEF LegacyInv, HopStage, HopInv, HopTyped
  <2>4. HopStage'
    BY <1>5, <2>1, <2>3 DEF HopStage, Goto, HalfActivated, Rollback,
       WrittenStages
  <2>5. HopFits(jobs[mine])'
    BY <1>2, <1>5, <2>1 DEF HopFits, MutatePhases, EarlyPhases
  <2> QED
    BY <1>1, <1>2, <1>5, <2>1, <2>2, <2>4, <2>5, MineKeepsHop DEF LegacyInv
<1> QED BY <1>6, <1>7, <1>8 DEF LegacyInv

\* The health window expects the version of the hop, which is configured.
LEMMA CheckTargetKeeps ==
  ASSUME LegacyInv, HasPlan, CheckTarget, UNCHANGED <<plan, bound>>
  PROVE  LegacyInv'
<1>1. pc = "check_target" /\ pc \in EngineSteps
  BY DEF CheckTarget, At, EngineSteps
<1>2. /\ mine \in JobId /\ HopFits(jobs[mine])
      /\ jobs[mine].status = "health_check"
  BY <1>1, MineHasPlan DEF LegacyInv, StatusAt, CheckSteps
<1>3. /\ UNCHANGED <<jobs, desired, env, running, data, slot, retiring,
                      request, faults, hop>>
      /\ \/ Healthy(versionAfter(hop + 1)) /\ Goto("succeed")
         \/ Rollback("target_health_failed")
  BY DEF CheckTarget, fileVars, hostVars, backupVars
<1>4. TypeInv'
  <2>1. Moves
    <3>1. "target_health_failed" \in ErrorCode
      BY DEF ErrorCode
    <3> QED BY <1>2, <1>3, <3>1, StepStatus DEF Moves, EngineSteps
  <2>2. HostInv
    BY DEF LegacyInv, TypeInv
  <2> QED
    BY <1>1, <1>3, <2>1, <2>2, HostTypes DEF LegacyInv, HostInv, fileVars
<1>5. pc' \in {"succeed", "begin_rollback"}
  BY <1>3 DEF Goto, Rollback
<1>6. PointInv'
  BY <1>3, <1>5, ElsewherePoint DEF LegacyInv, fileVars, backupVars,
     SourceStages, ArchiveStages
<1>7. HopInv'
  <2>1. HopTyped'
    BY <1>3 DEF LegacyInv, HopInv, HopTyped
  <2>2. bound
    <3>1. pc \notin ClosedStages
      BY <1>1 DEF ClosedStages, RestoreSteps, RestartSteps
    <3> QED BY <3>1, PlanFacts DEF LegacyInv, HopStage, HopInv, HopTyped
  <2>3. env = versionAfter(hop + 1)
    BY <1>2 DEF HopFits
  <2>4. HopStage'
    BY <1>3, <1>5, <2>2, <2>3 DEF HopStage, Healthy, NeedsMigration, Goto,
       Rollback, WrittenStages
  <2> QED
    BY <1>3, <2>1, <2>4, SameRecords, SameHop DEF LegacyInv
<1> QED BY <1>4, <1>6, <1>7 DEF LegacyInv

\* What a save of the record and the hop counter does.
HopSaves(job, n, want) ==
    \/ UNCHANGED <<fileVars, hop>>
    \/ /\ jobs' = [jobs EXCEPT ![mine] = job] /\ desired' = want /\ hop' = n
       /\ validHop(job, n)
       /\ normalizeAndValidate([jobs EXCEPT ![mine] = job], want)

\* It returns, and has saved both or neither.
LEMMA UpdateHopSaves ==
  ASSUME TypeInv, NEW job, NEW n, NEW want, UpdateHop(job, n, want)
  PROVE  HopSaves(job, n, want) /\ Return /\ faults' \in Nat
                                /\ Saves(job, want)
<1>1. faults \in Nat
  BY DEF TypeInv, HostInv
<1> QED BY <1>1 DEF UpdateHop, HopSaves, Saves, fileVars

\* The record that NextHop saves.
NextHopJob ==
    LET v == versionAfter(hop + 1)
        final == hop + 1 = Len(plan.chain)
    IN  [jobs[mine] EXCEPT !.svc = TRUE, !.cur = v, !.safe = v, !.code = "",
            !.status = IF final THEN "succeeded" ELSE "validating",
            !.step = IF final THEN "complete" ELSE "phase"]
NextHopWant == IF hop + 1 = Len(plan.chain) THEN "running" ELSE desired

\* What is true of the hop when it is complete.
LEMMA NextHopFacts ==
  ASSUME LegacyInv, HasPlan, NextHop
  PROVE  /\ pc = "succeed" /\ pc \in EngineSteps /\ mine \in JobId
         /\ hop < Len(plan.chain) /\ hop + 1 \in 0..Len(plan.chain)
         /\ env = versionAfter(hop + 1) /\ running = env
         /\ ~NeedsMigration(env)
         /\ NextHopJob \in Candidate /\ Versioned(NextHopJob)
         /\ NextHopJob.cur = versionAfter(hop + 1)
         /\ NextHopJob.target = versionAfter(Len(plan.chain))
         /\ NextHopJob.status = IF hop + 1 = Len(plan.chain) THEN "succeeded"
                                ELSE "validating"
         /\ UpdateHop(NextHopJob, hop + 1, NextHopWant)
         /\ HopSaves(NextHopJob, hop + 1, NextHopWant) /\ Return
         /\ Saves(NextHopJob, NextHopWant) /\ faults' \in Nat
         /\ NextHopWant \in DesiredState
         /\ UNCHANGED <<hostVars, backupVars, request>>
<1>1. pc = "succeed" /\ pc \in EngineSteps
  BY DEF NextHop, At, EngineSteps
<1>2. /\ mine \in JobId /\ HopFits(jobs[mine]) /\ jobs[mine] \in Candidate
      /\ jobs[mine].status = "health_check" /\ Versioned(jobs[mine])
  BY <1>1, MineHasPlan, MineIsActive DEF LegacyInv, StatusAt, CheckSteps
<1>3. hop < Len(plan.chain) /\ hop + 1 \in 0..Len(plan.chain)
  BY <1>2, PlanFacts DEF LegacyInv, HopFits, HopPhases, UpgradePhases
<1>4. env = versionAfter(hop + 1) /\ versionAfter(hop + 1) \in Version
  BY <1>2, <1>3, PlanFacts, VersionsOfHops DEF LegacyInv, HopFits
<1>5. running = env /\ ~NeedsMigration(env)
        /\ jobs[mine].target = versionAfter(Len(plan.chain))
  BY <1>1, <1>2, PlanFacts DEF LegacyInv, HopStage, HopFits
<1>6. /\ NextHopJob \in Candidate /\ Versioned(NextHopJob)
      /\ NextHopJob.cur = versionAfter(hop + 1)
      /\ NextHopJob.target = jobs[mine].target
      /\ NextHopJob.status = IF hop + 1 = Len(plan.chain) THEN "succeeded"
                             ELSE "validating"
  <2> DEFINE final == hop + 1 = Len(plan.chain)
             status == IF final THEN "succeeded" ELSE "validating"
             step == IF final THEN "complete" ELSE "phase"
             v == versionAfter(hop + 1)
  <2>1. status \in JobStatus /\ step \in JobStep /\ "" \in ErrorCode
          /\ v \in Version
    BY <1>4, Members
  <2>2. NextHopJob = [jobs[mine] EXCEPT !.svc = TRUE, !.cur = v, !.safe = v,
                         !.code = "", !.status = status, !.step = step]
    BY DEF NextHopJob
  <2> HIDE DEF status, step, v
  <2>3. NextHopJob \in Candidate /\ NextHopJob.cur = v
          /\ NextHopJob.target = jobs[mine].target
          /\ NextHopJob.status = status
    BY <1>2, <2>1, <2>2 DEF Candidate
  <2> QED BY <1>2, <2>1, <2>3 DEF Versioned, v, status
<1>7. UpdateHop(NextHopJob, hop + 1, NextHopWant)
        /\ UNCHANGED <<hostVars, backupVars, request>>
  BY DEF NextHop, NextHopJob, NextHopWant
<1>8. NextHopWant \in DesiredState
  BY DEF LegacyInv, TypeInv, FileInv, NextHopWant, DesiredState
<1> QED
  BY <1>1, <1>2, <1>3, <1>4, <1>5, <1>6, <1>7, <1>8, UpdateHopSaves
     DEF LegacyInv

\* One hop ends and the next begins, or the job succeeds.
LEMMA NextHopKeeps ==
  ASSUME LegacyInv, HasPlan, NextHop, UNCHANGED <<plan, bound>>
  PROVE  LegacyInv'
<1>1. NextHopJob.status # Absent /\ KeepsPoint(NextHopJob)
  BY NextHopFacts DEF Absent, KeepsPoint, PastCheckpoint
<1>2. TypeInv' /\ PointInv'
  BY <1>1, NextHopFacts, ReturnSaves DEF LegacyInv
<1>3. HopStage' /\ env' = env
  BY NextHopFacts, ReturnStage DEF hostVars
<1>4. CASE UNCHANGED <<fileVars, hop>>
  <2>1. HopTyped'
    BY <1>4 DEF LegacyInv, HopInv, HopTyped
  <2> QED
    BY <1>2, <1>3, <1>4, <2>1, SameRecords, SameHop DEF LegacyInv, fileVars
<1>5. CASE ~UNCHANGED <<fileVars, hop>>
  <2>1. /\ jobs' = [jobs EXCEPT ![mine] = NextHopJob] /\ hop' = hop + 1
        /\ validHop(NextHopJob, hop + 1)
    BY <1>5, NextHopFacts DEF HopSaves
  <2>2. HopTyped'
    BY <2>1, NextHopFacts DEF LegacyInv, HopInv, HopTyped
  <2>3. versionAfter(hop)' = versionAfter(hop + 1)
          /\ versionAfter(Len(plan.chain))' = versionAfter(Len(plan.chain))
    BY <2>1 DEF versionAfter
  <2>4. jobs \in [JobId -> Job] /\ mine \in JobId
    BY NextHopFacts DEF LegacyInv, TypeInv, FileInv, Typed
  <2>5. PICK m \in JobId : m = mine
    BY <2>4
  <2>6. HopFits(jobs[m])'
    <3>1. jobs'[m] = NextHopJob
      BY <2>1, <2>4, <2>5
    <3>2. NextHopJob.status = "validating" => hop + 1 < Len(plan.chain)
      BY <2>1 DEF validHop, UpgradePhases
    <3> QED BY <1>3, <2>1, <2>3, <3>1, <3>2, NextHopFacts
            DEF HopFits, HopPhases, UpgradePhases, EarlyPhases
  <2>7. \A j \in JobId : j = mine \/ jobs'[j] = jobs[j]
    BY <2>1, <2>4
  <2>8. HopInv'
    BY <1>3, <2>2, <2>5, <2>6, <2>7, NextHopFacts, MineKeepsHop DEF LegacyInv
  <2> QED BY <1>2, <2>8 DEF LegacyInv
<1> QED BY <1>4, <1>5

\* The record that a rollback saves: of the last complete hop, which is the one
\* the version of the recovery point tells.
RollBackJob ==
    LET v == jobs[mine].rp.ver
    IN  [jobs[mine] EXCEPT !.status = "rolled_back", !.step = "complete",
            !.svc = TRUE, !.safe = v, !.cur = v]

\* It is in the candidate's type, keeps version and point, and ends the transaction.
LEMMA RollBackFacts ==
  ASSUME LegacyInv, HasPlan, RollBackHop
  PROVE  /\ pc = "roll_back" /\ pc \in EngineSteps /\ mine \in JobId
         /\ RollBackJob \in Candidate /\ Versioned(RollBackJob)
         /\ RollBackJob.cur = jobs[mine].cur
         /\ RollBackJob.target = jobs[mine].target
         /\ RollBackJob.status = "rolled_back"
         /\ UpdateHop(RollBackJob, hop, "running")
         /\ HopSaves(RollBackJob, hop, "running") /\ Return
         /\ Saves(RollBackJob, "running") /\ faults' \in Nat
         /\ hop' = hop
         /\ UNCHANGED <<hostVars, backupVars, request>>
<1>1. pc = "roll_back" /\ pc \in EngineSteps
  BY DEF RollBackHop, At, EngineSteps
<1>2. /\ mine \in JobId /\ HopFits(jobs[mine]) /\ jobs[mine] \in Candidate
      /\ jobs[mine].status = "rolling_back" /\ Versioned(jobs[mine])
  BY <1>1, MineHasPlan, MineIsActive DEF LegacyInv, StatusAt, RestoreSteps
<1> DEFINE v == jobs[mine].rp.ver
<1>3. v = versionAfter(hop) /\ v = jobs[mine].cur
  BY <1>2, PointOfHop DEF LegacyInv, PastCheckpoint, HopFits
<1>4. completedHopForVersion(v) = hop
  <2>1. hop \in 0..Len(plan.chain) /\ versionAfter(hop) = v /\ plan \in Plan
    BY <1>3, PlanFacts DEF LegacyInv
  <2> DEFINE n == completedHopForVersion(v)
  <2>2. n \in 0..Len(plan.chain) /\ versionAfter(n) = v
    BY <2>1 DEF completedHopForVersion
  <2> HIDE DEF n
  <2> QED BY <2>1, <2>2, VersionTellsHop DEF n
<1>5. /\ RollBackJob \in Candidate /\ Versioned(RollBackJob)
      /\ RollBackJob.cur = v /\ RollBackJob.status = "rolled_back"
      /\ RollBackJob.target = jobs[mine].target
  <2>1. "rolled_back" \in JobStatus /\ "complete" \in JobStep
    BY Members
  <2>2. v \in Version
    BY <1>2, <1>3 DEF Versioned
  <2>3. RollBackJob = [jobs[mine] EXCEPT !.status = "rolled_back",
                          !.step = "complete", !.svc = TRUE, !.safe = v,
                          !.cur = v]
    BY DEF RollBackJob
  <2> HIDE DEF v
  <2>4. RollBackJob \in Candidate /\ RollBackJob.cur = v
          /\ RollBackJob.target = jobs[mine].target
          /\ RollBackJob.status = "rolled_back"
    BY <1>2, <2>1, <2>2, <2>3 DEF Candidate
  <2> QED BY <1>2, <2>2, <2>4 DEF Versioned
<1>6. UpdateHop(RollBackJob, hop, "running")
        /\ UNCHANGED <<hostVars, backupVars, request>>
  BY <1>4 DEF RollBackHop, RollBackJob
<1>7. HopSaves(RollBackJob, hop, "running") /\ Return /\ faults' \in Nat
        /\ Saves(RollBackJob, "running")
  BY <1>6, UpdateHopSaves DEF LegacyInv
<1>8. hop' = hop
  BY <1>7 DEF HopSaves
<1> QED BY <1>1, <1>2, <1>3, <1>5, <1>6, <1>7, <1>8

\* A rollback ends at the hop it began in.
LEMMA RollBackHopKeeps ==
  ASSUME LegacyInv, HasPlan, RollBackHop, UNCHANGED <<plan, bound>>
  PROVE  LegacyInv'
<1>1. RollBackJob.status # Absent /\ KeepsPoint(RollBackJob)
        /\ "running" \in DesiredState
  BY RollBackFacts DEF Absent, KeepsPoint, PastCheckpoint, DesiredState
<1>2. TypeInv' /\ PointInv'
  BY <1>1, RollBackFacts, ReturnSaves DEF LegacyInv
<1>3. RecordStep(jobs[mine], RollBackJob)
  BY RollBackFacts DEF RecordStep, StatusStep, HopPhases, UpgradePhases,
     EarlyPhases
<1>4. HopRecords
  BY <1>3, RollBackFacts, OneRecord DEF LegacyInv, Saves, fileVars
<1>5. HopTyped' /\ HopStage' /\ env' = env
  BY RollBackFacts, ReturnStage DEF LegacyInv, HopInv, HopTyped, hostVars
<1>6. HopInv'
  BY <1>4, <1>5, RollBackFacts, SameHop DEF LegacyInv
<1> QED BY <1>2, <1>6 DEF LegacyInv

-----------------------------------------------------------------------------
(***************************************************************************)
(* The invariant of every behaviour.                                       *)
(***************************************************************************)
\* The steps of LegacyNext, for a job with a plan and for the others.
OwnSteps ==
    RunLegacy \/ LegacyQueued \/ WriteHopImage \/ CheckTarget \/ NextHop
        \/ RollBackHop

PlanStep ==
    \/ OwnSteps /\ UNCHANGED <<plan, bound>>
    \/ /\ SharedSaves \/ SharedWork \/ SharedRoutes \/ Crash \/ ServerMigrates
       /\ UNCHANGED <<plan, hop, bound>>
    \/ BootLegacy

\* A step is one of a job with a plan, or one of JobEngine, or a start-up.
LEMMA StepKinds ==
  ASSUME LegacyNext
  PROVE  \/ HasPlan /\ PlanStep
         \/ ~HasPlan /\ Next /\ UNCHANGED <<plan, hop>> /\ bound' = bound
         \/ ~HasPlan /\ BootLegacy
<1>1. CASE LegacyEngine /\ HasPlan
  <2>1. UNCHANGED <<plan, bound>>
    BY <1>1 DEF LegacyEngine
  <2>2. OwnSteps \/ ((SharedSaves \/ SharedWork) /\ hop' = hop)
    BY <1>1 DEF LegacyEngine, PrepareBackup, Prepared, ActivateTarget,
       Activated, Recover, RestartStep, OwnSteps, SharedSaves, SharedWork
  <2> QED BY <1>1, <2>1, <2>2 DEF PlanStep
<1>2. CASE LegacyEngine /\ ~HasPlan
  BY <1>2 DEF LegacyEngine, Next
<1>3. CASE Control \/ Outside
  BY <1>3 DEF Control, Outside, PlanStep, SharedRoutes, Next
<1>4. CASE BootLegacy
  BY <1>4 DEF PlanStep
<1> QED BY <1>1, <1>2, <1>3, <1>4 DEF LegacyNext

\* Every shared step is one of JobEngine's.
LEMMA SharedIsNext ==
  ASSUME \/ SharedSaves \/ SharedWork \/ SharedRoutes
         \/ Crash \/ Boot \/ ServerMigrates
  PROVE  Next
  BY DEF SharedSaves, SharedWork, SharedRoutes, Next, EngineStep, PrepareStep,
     ActivateStep, RestoreStep, RestartStep, ControlStep

\* A start-up only takes the digests of a plan of one step.
LEMMA BootBinds ==
  ASSUME BootLegacy
  PROVE  bound' = bound \/ (Len(plan.chain) = 1 /\ bound' = FALSE)
  BY DEF BootLegacy

\* Every step keeps the invariant.
LEMMA NextLegacy == LegacyInv /\ [LegacyNext]_legacyVars => LegacyInv'
<1> SUFFICES ASSUME LegacyInv, [LegacyNext]_legacyVars PROVE LegacyInv'
  OBVIOUS
<1>1. ASSUME HasPlan, PlanStep PROVE LegacyInv'
  <2>1. CASE OwnSteps /\ UNCHANGED <<plan, bound>>
    BY <1>1, <2>1, RunLegacyKeeps, LegacyQueuedKeeps, WriteHopImageKeeps,
       CheckTargetKeeps, NextHopKeeps, RollBackHopKeeps DEF OwnSteps
  <2>2. CASE /\ SharedSaves \/ SharedWork \/ SharedRoutes \/ Crash
                   \/ ServerMigrates
             /\ UNCHANGED <<plan, hop, bound>>
    <3>1. TypeInv' /\ PointInv'
      BY <2>2, SharedIsNext, NextTypes, NextPoint DEF LegacyInv
    <3>2. HopTyped'
      BY <2>2 DEF LegacyInv, HopInv, HopTyped
    <3> QED BY <1>1, <2>2, <3>1, <3>2, SharedHop DEF LegacyInv
  <2>3. CASE BootLegacy
    <3>1. Boot /\ plan' = plan /\ hop' = hop
      BY <2>3 DEF BootLegacy
    <3>2. TypeInv' /\ PointInv'
      BY <3>1, SharedIsNext, NextTypes, NextPoint DEF LegacyInv
    <3>3. bound' \in BOOLEAN /\ (~bound' => Len(plan.chain) = 1)
      BY <2>3, BootBinds DEF LegacyInv, HopInv, HopTyped
    <3>4. HopTyped'
      BY <3>1, <3>3 DEF LegacyInv, HopInv, HopTyped
    <3> QED BY <1>1, <3>1, <3>2, <3>4, SharedHop DEF LegacyInv
  <2> QED BY <1>1, <2>1, <2>2, <2>3 DEF PlanStep
<1>2. ASSUME ~HasPlan, Next, UNCHANGED <<plan, hop>>, bound' = bound
      PROVE  LegacyInv'
  <2>1. TypeInv' /\ PointInv'
    BY <1>2, NextTypes, NextPoint DEF LegacyInv
  <2>2. HopInv'
    BY <1>2 DEF LegacyInv, HopInv, HopTyped, HasPlan
  <2> QED BY <2>1, <2>2 DEF LegacyInv
<1>3. ASSUME ~HasPlan, BootLegacy PROVE LegacyInv'
  <2>1. Len(plan.chain) = 0
    BY <1>3, NoPlanShape DEF HasPlan
  <2>2. Next /\ UNCHANGED <<plan, hop>> /\ bound' = bound
    BY <1>3, <2>1 DEF BootLegacy, Next
  <2> QED BY <1>2, <1>3, <2>2
<1>4. CASE UNCHANGED legacyVars
  <2>1. UNCHANGED vars /\ UNCHANGED <<plan, hop, bound>>
    BY <1>4 DEF legacyVars
  <2>2. TypeInv' /\ PointInv'
    BY <2>1, NextTypes, NextPoint DEF LegacyInv
  <2>3. HopInv'
    BY <2>1 DEF vars, fileVars, hostVars, engineVars, LegacyInv, HopInv,
       HopTyped, HasPlan, HopStage, HopFits, NeedsMigration, versionAfter
  <2> QED BY <2>2, <2>3 DEF LegacyInv
<1> QED BY <1>1, <1>2, <1>3, <1>4, StepKinds

\* A job that is made for two versions has them.
LEMMA NewJobIsJob ==
  ASSUME NEW c \in Version, NEW t \in Version
  PROVE  LET new == newJob(c, t)
         IN  /\ new \in Job /\ new.status = "queued" /\ new.cur = c
             /\ new.target = t /\ new.rp = NoPoint /\ new.attempts = 0
<1>1. NoSuchJob \in Job
  BY DEF NoSuchJob, Job, JobStatus, JobStep, ErrorCode, maxRecoveryAttempts
<1>2. NoSuchJob.rp = NoPoint /\ NoSuchJob.attempts = 0
  BY DEF NoSuchJob
<1>3. "queued" \in JobStatus /\ "phase" \in JobStep
  BY Members
<1> HIDE DEF NoSuchJob
<1> QED BY <1>1, <1>2, <1>3 DEF newJob, Job

\* The host of an older updater, with a job that is queued.
LEMMA InitLegacy == LegacyInit \/ DirectInit => LegacyInv
<1>1. ASSUME DirectInit PROVE LegacyInv
  <2>1. TypeInv /\ PointInv
    BY <1>1, InitTypes, InitPoint DEF DirectInit
  <2>2. HopInv
    BY <1>1, NoPlanShape DEF DirectInit, HopInv, HopTyped, HasPlan
  <2> QED BY <2>1, <2>2 DEF LegacyInv
<1>2. ASSUME LegacyInit PROVE LegacyInv
  <2> DEFINE last == plan.chain[Len(plan.chain)]
             new == newJob(plan.source, last)
  <2>1. plan \in Plan /\ hop = 0 /\ bound = TRUE
    BY <1>2 DEF LegacyInit
  <2>2. /\ plan.source \in Version /\ last \in Version
        /\ plan.source < last /\ Len(plan.chain) \in Nat \ {0}
        /\ versionAfter(hop) = plan.source
        /\ versionAfter(Len(plan.chain)) = last
    BY <2>1, PlanShape DEF Plan, versionAfter
  <2>3. PICK l \in JobId :
           jobs = [j \in JobId |-> IF j = l THEN new ELSE NoSuchJob]
    BY <1>2 DEF LegacyInit
  <2>4. /\ NoSuchJob \in Job /\ NoSuchJob.status = Absent
    BY DEF NoSuchJob, Job, JobStatus, JobStep, ErrorCode, maxRecoveryAttempts
  <2>5. /\ new \in Job /\ new.status = "queued" /\ new.cur = plan.source
        /\ new.target = last /\ new.rp = NoPoint /\ new.attempts = 0
    <3> HIDE DEF last
    <3> QED BY <2>2, NewJobIsJob
  <2> HIDE DEF new, last
  <2>6. \A j \in JobId : jobs[j] = IF j = l THEN new ELSE NoSuchJob
    BY <2>3
  <2>7. desired = "upgrading" /\ pc = "down" /\ mine = NoJob
    BY <1>2 DEF LegacyInit
  <2>8. FileInv
    <3>1. Typed(jobs)
      BY <2>2, <2>3, <2>4, <2>5, <2>6 DEF Typed, Versioned
    <3>2. validateExecutionState(l, new) /\ new.cur <= new.target
      <4>1. new.cur \in Nat /\ new.target \in Nat /\ new.cur < new.target
        BY <2>2, <2>5, VersionAssumption
      <4> QED BY <2>5, <4>1 DEF validateExecutionState, TerminalStatus,
                 maxRecoveryAttempts
    <3>3. active(new) /\ ~active(NoSuchJob)
      BY <2>4, <2>5 DEF active, ActiveStatus, UpgradePhases, Absent
    <3>4. normalizeAndValidate(jobs, desired)
      BY <2>4, <2>6, <2>7, <3>2, <3>3 DEF normalizeAndValidate, hasActiveJob
    <3> QED BY <2>7, <3>1, <3>4 DEF FileInv, DesiredState
  <2>9. EngineInv
    BY <1>2, <2>7 DEF LegacyInit, EngineInv, EngineSteps, ErrorCode, Data
  <2>10. HostInv
    BY <1>2, <2>2 DEF LegacyInit, HostInv, Data, NoRequest, gateFree
  <2>11. PointInv
    BY <2>4, <2>5, <2>6, <2>7 DEF PointInv, PastCheckpoint, Absent,
       SourceStages, ArchiveStages
  <2>12. HopInv
    <3>1. HopTyped /\ HopStage
      BY <2>1, <2>2, <2>7 DEF HopTyped, HopStage, WrittenStages
    <3>2. env = plan.source
      BY <1>2 DEF LegacyInit
    <3>3. HopFits(new)
      BY <2>1, <2>2, <2>5, <3>2 DEF HopFits, HopPhases, EarlyPhases
    <3>4. \A j \in JobId : jobs[j].status # Absent => j = l /\ jobs[j] = new
      BY <2>4, <2>6
    <3> QED BY <3>1, <3>3, <3>4 DEF HopInv
  <2> QED BY <2>8, <2>9, <2>10, <2>11, <2>12 DEF LegacyInv, TypeInv
<1> QED BY <1>1, <1>2

\* The invariant holds in every reachable state.
LEMMA AlwaysLegacy == LegacySpec => []LegacyInv
  BY InitLegacy, NextLegacy, PTL DEF LegacySpec

-----------------------------------------------------------------------------
(***************************************************************************)
(* The results.                                                            *)
(***************************************************************************)
\* While a hop may have touched the host or is being rolled back, its recovery
\* point is in the slot and of the release before the hop.
THEOREM HopPointAlwaysHeld == LegacySpec => []HopPointHeld
<1>1. LegacyInv => HopPointHeld
  <2> SUFFICES ASSUME LegacyInv PROVE HopPointHeld
    OBVIOUS
  <2>1. TypeOK
    BY DEF LegacyInv, TypeInv, FileInv, Typed, EngineInv, HostInv, TypeOK
  <2>2. HopTypeOK
    BY <2>1 DEF LegacyInv, HopInv, HopTyped, HopTypeOK, HopFits
  <2>3. RecoveryPointHeld
    BY DEF LegacyInv, PointInv, Held, Fits, RecoveryPointHeld
  <2> QED BY <2>2, <2>3, PointOfHop DEF LegacyInv, HopPointHeld
<1> QED BY <1>1, AlwaysLegacy, PTL

\* Which steps configure another version, and which.
LEMMA EnvStep ==
  ASSUME LegacyInv, HasPlan, PlanStep, env' # env
  PROVE  \/ /\ pc = "write_image" /\ bound
            /\ mine \in JobId /\ jobs[mine].status \in Mutating
            /\ env' = versionAfter(hop + 1)
         \/ /\ mine \in JobId /\ jobs[mine].status = "rolling_back"
            /\ env' = versionAfter(hop) /\ hop < Len(plan.chain)
<1>1. CASE WriteHopImage
  <2>1. pc = "write_image" /\ pc \in EngineSteps
          /\ env' = versionAfter(hop + 1)
    BY <1>1 DEF WriteHopImage, At, EngineSteps
  <2>2. pc \notin ClosedStages
    BY <2>1 DEF ClosedStages, RestoreSteps, RestartSteps
  <2>3. bound
    BY <2>2, PlanFacts DEF LegacyInv, HopStage, HopInv, HopTyped
  <2>4. mine \in JobId /\ jobs[mine].status \in Mutating
    BY <2>1, MineHasPlan DEF LegacyInv, StatusAt, MutateSteps, MutatePhases,
       Mutating
  <2> QED BY <2>1, <2>3, <2>4
<1>2. CASE SharedWork
  <2>1. pc = "restore_image" /\ pc \in EngineSteps
          /\ env' = slot.ver /\ slot = jobs[mine].rp
    BY <1>2, WorkStage DEF EngineSteps
  <2>2. /\ mine \in JobId /\ jobs[mine].status = "rolling_back"
        /\ HopFits(jobs[mine])
    BY <2>1, MineHasPlan DEF LegacyInv, StatusAt, RestoreSteps
  <2>3. jobs[mine].rp.ver = versionAfter(hop)
    BY <2>2, PointOfHop DEF LegacyInv, PastCheckpoint
  <2> QED BY <2>1, <2>2, <2>3 DEF HopFits, HopPhases
<1>3. CASE ~WriteHopImage /\ ~SharedWork
  <2>1. ~SharedSaves
    BY SavesStage DEF hostVars
  <2>2. ~OwnSteps
    BY <1>3 DEF OwnSteps, RunLegacy, LegacyQueued, CheckTarget, NextHop,
       RollBackHop, hostVars
  <2> QED
    BY <1>3, <2>1, <2>2 DEF PlanStep, SharedRoutes, StartRestart,
       setDesiredState, controlUnchanged, hostVars, ServerMigrates, Crash,
       BootLegacy, Boot
<1> QED BY <1>1, <1>2, <1>3

\* No release is skipped, and no rollback goes behind the last complete hop.
THEOREM NoHopIsSkipped == LegacySpec => OneEdgeAtATime
<1>1. LegacyInv /\ [LegacyNext]_legacyVars =>
        (HasPlan /\ env' # env => \E j \in JobId :
          \/ jobs[j].status \in Mutating /\ env' = versionAfter(hop + 1)
          \/ jobs[j].status = "rolling_back" /\ env' = versionAfter(hop))
  <2> SUFFICES ASSUME LegacyInv, [LegacyNext]_legacyVars, HasPlan, env' # env
               PROVE  \E j \in JobId :
          \/ jobs[j].status \in Mutating /\ env' = versionAfter(hop + 1)
          \/ jobs[j].status = "rolling_back" /\ env' = versionAfter(hop)
    OBVIOUS
  <2>1. PlanStep
    BY StepKinds DEF legacyVars, vars, hostVars
  <2> QED BY <2>1, EnvStep
<1> QED BY <1>1, AlwaysLegacy, PTL DEF LegacySpec, OneEdgeAtATime

\* A plan without source digests never activates its release, and a job that
\* fails without rollback left the source configured.
THEOREM UnboundPlansFailClosed == LegacySpec => FailsClosed
<1>1. LegacyInv /\ [LegacyNext]_legacyVars =>
        (~bound =>
          /\ env' # env => env' = plan.source
          /\ \A j \in JobId :
                At("fail_before_mutation") /\ Becomes(j, "failed")
                    => env = plan.source)
  <2> SUFFICES ASSUME LegacyInv, [LegacyNext]_legacyVars, ~bound
               PROVE  /\ env' # env => env' = plan.source
                      /\ At("fail_before_mutation") => env = plan.source
    OBVIOUS
  <2>1. HasPlan /\ (hop < Len(plan.chain) => versionAfter(hop) = plan.source)
    BY UnboundHop DEF LegacyInv
  <2>2. At("fail_before_mutation") => env = plan.source
    BY <2>1, PlanFacts DEF LegacyInv, HopStage, At
  <2>3. ASSUME env' # env PROVE env' = plan.source
    <3>1. PlanStep
      BY <2>1, <2>3, StepKinds DEF legacyVars, vars, hostVars
    <3> QED BY <2>1, <2>3, <3>1, EnvStep
  <2> QED BY <2>2, <2>3
<1> QED BY <1>1, AlwaysLegacy, PTL DEF LegacySpec, FailsClosed

\* A step that keeps the hop keeps the phases in order.
LEMMA HopMonotone ==
  ASSUME LegacyInv, [LegacyNext]_legacyVars, hop' = hop, NEW j \in JobId
  PROVE  PhaseKept(j)
<1>0. TypeInv /\ jobs \in [JobId -> Job]
  BY DEF LegacyInv, TypeInv, FileInv, Typed
<1>1. ASSUME jobs'[j].status = jobs[j].status \/
             jobs'[j].status \notin UpgradePhases \/
             jobs[j].status \notin UpgradePhases
      PROVE  PhaseKept(j)
  <2>1. \A p \in UpgradePhases : upgradePhaseRank(p) \in Nat
    BY RankIsNumber
  <2> QED BY <1>1, <2>1 DEF PhaseKept
<1>2. ASSUME [Next]_vars PROVE PhaseKept(j)
  BY <1>0, <1>2, StepMonotone
<1>3. CASE HasPlan /\ OwnSteps
  <2>1. CASE RunLegacy \/ WriteHopImage \/ CheckTarget
    BY <1>1, <2>1 DEF RunLegacy, WriteHopImage, CheckTarget, fileVars
  <2>2. CASE LegacyQueued
    <3>1. pc = "queued" /\ pc \in EngineSteps
      BY <2>2 DEF LegacyQueued, At, EngineSteps
    <3>2. mine \in JobId /\ jobs[mine].status = "queued"
      BY <1>3, <3>1, MineHasPlan DEF LegacyInv, StatusAt
    <3>3. j = mine \/ jobs'[j] = jobs[j]
      BY <1>0, <2>2, <3>2 DEF LegacyQueued, updateJob, Update, fileVars
    <3> QED BY <1>1, <3>2, <3>3 DEF UpgradePhases
  <2>3. CASE NextHop
    <3>1. jobs' = jobs
      <4>1. hop + 1 # hop
        BY <1>3, PlanFacts DEF LegacyInv
      <4> QED BY <1>3, <2>3, <4>1, NextHopFacts DEF HopSaves, fileVars
    <3> QED BY <1>1, <3>1
  <2>4. CASE RollBackHop
    <3>1. \/ jobs' = jobs
          \/ jobs' = [jobs EXCEPT ![mine] = RollBackJob]
      BY <1>3, <2>4, RollBackFacts DEF HopSaves, fileVars
    <3>2. RollBackJob.status \notin UpgradePhases /\ mine \in JobId
      BY <1>3, <2>4, RollBackFacts DEF UpgradePhases
    <3>3. jobs'[j] \in {jobs[j], RollBackJob}
      BY <1>0, <3>1, <3>2
    <3> QED BY <1>1, <3>2, <3>3
  <2> QED BY <1>3, <2>1, <2>2, <2>3, <2>4 DEF OwnSteps
<1>4. CASE UNCHANGED legacyVars
  BY <1>2, <1>4 DEF legacyVars
<1>5. CASE BootLegacy
  BY <1>2, <1>5 DEF BootLegacy, Next
<1> QED
  BY <1>2, <1>3, <1>4, <1>5, StepKinds, SharedIsNext DEF PlanStep

\* A hop counts as complete only when its release is configured, runs and has
\* migrated the stores, one after the other; and phases never go back in it.
THEOREM HopsOnlyGoForward == LegacySpec => HopsGoForward
<1>1. LegacyInv /\ [LegacyNext]_legacyVars =>
        (hop' # hop =>
             /\ hop' = hop + 1
             /\ env = versionAfter(hop') /\ running = env
             /\ ~NeedsMigration(env))
  <2> SUFFICES ASSUME LegacyInv, [LegacyNext]_legacyVars, hop' # hop
               PROVE  /\ hop' = hop + 1
                      /\ env = versionAfter(hop') /\ running = env
                      /\ ~NeedsMigration(env)
    OBVIOUS
  <2>1. HasPlan /\ OwnSteps
    BY StepKinds DEF legacyVars, PlanStep, BootLegacy
  <2>2. NextHop
    BY <2>1, RollBackFacts DEF OwnSteps, RunLegacy, LegacyQueued,
       WriteHopImage, CheckTarget
  <2> QED BY <2>1, <2>2, NextHopFacts DEF HopSaves
<1>2. LegacyInv /\ [LegacyNext]_legacyVars =>
        \A j \in JobId :
             /\ hop' = hop
             /\ jobs[j].status \in UpgradePhases
             /\ jobs'[j].status \in UpgradePhases
             => upgradePhaseRank(jobs'[j].status)
                    >= upgradePhaseRank(jobs[j].status)
  BY HopMonotone DEF PhaseKept
<1> QED BY <1>1, <1>2, AlwaysLegacy, PTL DEF LegacySpec, HopsGoForward

-----------------------------------------------------------------------------
(***************************************************************************)
(* A job with a plan does not stall either: its complete hops are counted  *)
(* between the attempts and the place of the step.                         *)
(***************************************************************************)
HopPlace(j) ==
    IF pc \in EngineSteps THEN place[pc]
    ELSE place[resumeLegacy(jobs[j])] - (IF pc = "idle" THEN 1 ELSE 2)

\* A fault was spent, or an attempt, or a hop is complete, or the engine is
\* further.
HopAdvances(j) ==
    \/ faults' > faults
    \/ /\ faults' = faults
       /\ \/ jobs'[j].attempts > jobs[j].attempts
          \/ /\ jobs'[j].attempts = jobs[j].attempts
             /\ \/ hop' > hop
                \/ hop' = hop /\ HopPlace(j)' > HopPlace(j)

\* A step that leaves a job active is one of another party, which leaves engine,
\* job and hop alone, or advances, or is a refused count.
OnlyRefusedCountsStallHops ==
    [][\A j \in JobId : active(jobs[j]) /\ active(jobs'[j]) =>
          \/ ~LegacyEngine /\ UNCHANGED <<jobs[j], engineVars, hop>>
          \/ HopAdvances(j)
          \/ Refused(j)]_legacyVars

\* What it says of one step and one job.
HopMoved(j) ==
    active(jobs[j]) /\ active(jobs'[j]) =>
        \/ ~LegacyEngine /\ UNCHANGED <<jobs[j], engineVars, hop>>
        \/ HopAdvances(j)
        \/ Refused(j)

\* A plan that is not executed is resumed no earlier than one that is.
LEMMA ResumeAhead ==
  ASSUME NEW job
  PROVE  /\ resumeLegacy(job) \in EngineSteps
         /\ place[resumeLegacy(job)] \in Nat
         /\ place[resumeLegacy(job)] >= place[Resume(job)]
         /\ bound => resumeLegacy(job) = Resume(job)
<1>1. /\ Resume(job) \in EngineSteps /\ place[Resume(job)] \in Nat
  BY Places
<1>2. "fail_before_mutation" \in EngineSteps /\ "begin_rollback" \in EngineSteps
  BY DEF EngineSteps
<1>3. job.status \in UpgradePhases =>
        Resume(job) \in {"prepare_validating", "activate_pulling",
                         "check_target"}
  BY DEF Resume, UpgradePhases
<1>4. CASE bound \/ job.status \notin UpgradePhases
  BY <1>1, <1>4 DEF resumeLegacy
<1>5. CASE ~(bound \/ job.status \notin UpgradePhases)
  <2>1. resumeLegacy(job) \in {"fail_before_mutation", "begin_rollback"}
    BY <1>5 DEF resumeLegacy
  <2> QED BY <1>2, <1>3, <1>5, <2>1, PlaceIs
<1> QED BY <1>4, <1>5

\* A version of the plan is no older than those before it.
LEMMA VersionsGrow ==
  ASSUME plan \in Plan, NEW n \in 1..Len(plan.chain)
  PROVE  versionAfter(n) <= versionAfter(Len(plan.chain))
<1>1. /\ Len(plan.chain) \in Nat
      /\ \A i \in 1..Len(plan.chain) : plan.chain[i] \in Nat
  BY PlanShape, VersionAssumption
<1>2. \A i \in 1..Len(plan.chain) :
        \A k \in 1..i - 1 : plan.chain[k] < plan.chain[i]
  BY DEF Plan
<1>3. CASE n = Len(plan.chain)
  BY <1>1, <1>3 DEF versionAfter
<1>4. CASE n # Len(plan.chain)
  <2>1. Len(plan.chain) \in 1..Len(plan.chain)
          /\ n \in 1..Len(plan.chain) - 1
    BY <1>1, <1>4
  <2>2. plan.chain[n] < plan.chain[Len(plan.chain)]
    BY <1>2, <2>1
  <2> QED BY <1>1, <2>1, <2>2 DEF versionAfter
<1> QED BY <1>3, <1>4

\* A queued job starts with the validation.
LEMMA LegacyQueuedAdvances ==
  ASSUME TypeInv, LegacyQueued
  PROVE  EngineAdvances /\ KeepsCodes /\ pc \in EngineSteps
<1> DEFINE old == jobs[mine]
           job == [old EXCEPT !.status = "validating", !.step = "phase"]
<1>1. pc = "queued" /\ pc \in EngineSteps
  BY DEF LegacyQueued, At, EngineSteps
<1>2. /\ old \in Candidate /\ validateExecutionState(mine, old)
      /\ old.cur <= old.target /\ StatusAt(old.status, pc)
      /\ faults \in Nat /\ faults + 1 > faults
      /\ mine \in JobId /\ jobs \in [JobId -> Job]
  BY <1>1, MineIsValid
<1>3. /\ job \in Candidate
      /\ job.status = "validating" /\ job.target = old.target
      /\ job.cur = old.cur /\ job.rp = old.rp /\ job.attempts = old.attempts
  BY <1>1, <1>2, Members DEF Candidate, StatusAt, RestoreSteps
<1>4. /\ validateExecutionState(mine, job) /\ job.cur <= job.target
      /\ active(job)
  BY <1>1, <1>2, <1>3 DEF validateExecutionState, active, TerminalStatus,
     ActiveStatus, UpgradePhases, StatusAt, RestoreSteps
<1> HIDE DEF job
<1>5. normalizeAndValidate([jobs EXCEPT ![mine] = job], desired)
  BY <1>1, <1>3, <1>4, ValidSave
<1>6. Ends(job)
  BY <1>2, <1>5 DEF LegacyQueued, updateJob, Update, fileVars, Return, Ends, job
<1>7. \A j \in JobId : jobs'[j] = jobs[j] \/ (j = mine /\ jobs'[j] = job)
  BY <1>2, <1>6 DEF Ends
<1>8. place[Resume(job)] - 1 > place[pc]
  BY <1>1, <1>3, PlaceIs DEF Resume
<1>9. EngineAdvances
  BY <1>2, <1>3, <1>6, <1>8 DEF Ends, EngineAdvances
<1>10. KeepsCodes
  BY <1>3, <1>6, <1>7 DEF Ends, KeepsCodes, CodedSteps
<1> QED BY <1>1, <1>9, <1>10

\* The activation of a hop's release and its health window go on, or roll back.
LEMMA HopWork ==
  ASSUME WriteHopImage \/ CheckTarget
  PROVE  EngineAdvances /\ KeepsCodes /\ pc \in EngineSteps
<1>1. CASE WriteHopImage
  <2>1. Works("write_image", "activate_migrating", "begin_rollback")
    BY <1>1
       DEF WriteHopImage, HalfActivated, Rollback, Goto, At, fileVars, Works,
           CodedSteps
  <2>2. pc \in EngineSteps
    BY <2>1 DEF Works, EngineSteps
  <2> QED BY <2>1, <2>2, StepsAhead, WorkAdvances
<1>2. CASE CheckTarget
  <2>1. Works("check_target", "succeed", "begin_rollback")
    BY <1>2
       DEF CheckTarget, Rollback, Goto, At, fileVars, Works, CodedSteps
  <2>2. pc \in EngineSteps
    BY <2>1 DEF Works, EngineSteps
  <2> QED BY <2>1, <2>2, StepsAhead, WorkAdvances
<1> QED BY <1>1, <1>2

\* A rollback ends the job, at the version of its last complete hop.
LEMMA RollBackHopAdvances ==
  ASSUME LegacyInv, HasPlan, RollBackHop
  PROVE  EngineAdvances /\ KeepsCodes /\ pc \in EngineSteps
<1> DEFINE old == jobs[mine]
<1>1. pc = "roll_back" /\ pc \in EngineSteps
  BY RollBackFacts
<1>2. /\ old \in Candidate /\ validateExecutionState(mine, old)
      /\ old.cur <= old.target /\ faults \in Nat /\ faults + 1 > faults
      /\ old.rp.ver \in Version \union {0}
  <2>1. /\ old \in Candidate /\ validateExecutionState(mine, old)
        /\ old.cur <= old.target /\ faults \in Nat /\ faults + 1 > faults
    BY <1>1, MineIsValid DEF LegacyInv
  <2>2. RollBackJob.cur = old.cur
    BY RollBackFacts
  <2>3. old.rp.ver \in Version \union {0}
    BY <2>1 DEF Candidate, RecoveryPoint, NoPoint
  <2> QED BY <2>1, <2>3
<1>3. /\ RollBackJob \in Candidate /\ RollBackJob.status = "rolled_back"
      /\ RollBackJob.cur = old.cur /\ RollBackJob.target = old.target
  BY RollBackFacts
<1>4. /\ RollBackJob.step = "complete" /\ RollBackJob.rp = old.rp
      /\ RollBackJob.attempts = old.attempts
  BY <1>2 DEF RollBackJob, Candidate
<1>5. /\ validateExecutionState(mine, RollBackJob)
      /\ RollBackJob.cur <= RollBackJob.target
      /\ ~active(RollBackJob)
  BY <1>2, <1>3, <1>4
     DEF validateExecutionState, active, ActiveStatus, UpgradePhases
<1>6. normalizeAndValidate([jobs EXCEPT ![mine] = RollBackJob], "running")
  BY <1>1, <1>3, <1>5, ValidSave DEF LegacyInv
<1>7. validHop(RollBackJob, hop)
  <2>1. RollBackJob.cur = versionAfter(hop)
    BY <1>1, <1>3, MineHasPlan DEF LegacyInv, HopFits
  <2> QED BY <1>3, <2>1 DEF validHop, UpgradePhases
<1>8. Ends(RollBackJob)
  BY <1>2, <1>6, <1>7, RollBackFacts DEF UpdateHop, fileVars, Return, Ends
<1> QED BY <1>1, <1>5, <1>8, EndAdvances DEF LegacyInv

\* A hop that is complete is saved as such, unless the save fails.
LEMMA NextHopAdvances ==
  ASSUME LegacyInv, HasPlan, NextHop
  PROVE  /\ \/ faults' > faults
            \/ /\ faults' = faults /\ hop' > hop
               /\ jobs'[mine].attempts = jobs[mine].attempts
         /\ KeepsCodes /\ pc \in EngineSteps
<1> DEFINE old == jobs[mine]
           final == hop + 1 = Len(plan.chain)
           js == [jobs EXCEPT ![mine] = NextHopJob]
<1>1. pc = "succeed" /\ pc \in EngineSteps
  BY NextHopFacts
<1>2. /\ old \in Candidate /\ validateExecutionState(mine, old)
      /\ faults \in Nat /\ faults + 1 > faults
      /\ mine \in JobId /\ jobs \in [JobId -> Job]
      /\ desired = "upgrading"
  <2>1. desired = "upgrading"
    BY <1>1, EngineOwnsHost DEF LegacyInv
  <2> QED BY <1>1, <2>1, MineIsValid DEF LegacyInv
<1>3. /\ NextHopJob \in Candidate
      /\ NextHopJob.cur = versionAfter(hop + 1)
      /\ NextHopJob.target = versionAfter(Len(plan.chain))
      /\ NextHopJob.status = IF final THEN "succeeded" ELSE "validating"
      /\ hop < Len(plan.chain) /\ hop + 1 \in 0..Len(plan.chain)
  BY NextHopFacts
<1>4. /\ NextHopJob.rp = old.rp /\ NextHopJob.attempts = old.attempts
      /\ NextHopJob.step = IF final THEN "complete" ELSE "phase"
      /\ NextHopJob.svc = TRUE /\ NextHopJob.code = ""
  BY <1>2 DEF NextHopJob, Candidate
<1>5. hop \in Nat /\ Len(plan.chain) \in Nat /\ hop + 1 \in 1..Len(plan.chain)
  BY <1>3, PlanFacts DEF LegacyInv
<1>6. NextHopJob.cur <= NextHopJob.target
  BY <1>3, <1>5, PlanFacts, VersionsGrow DEF LegacyInv
<1>7. validateExecutionState(mine, NextHopJob)
  BY <1>2, <1>3, <1>4 DEF validateExecutionState, TerminalStatus
<1>8. active(NextHopJob) <=> ~final
  BY <1>3 DEF active, ActiveStatus, UpgradePhases
<1>9. normalizeAndValidate(js, NextHopWant)
  <2>1. /\ active(NextHopJob) => NextHopWant = desired
        /\ ~active(NextHopJob) => NextHopWant # "upgrading"
    BY <1>8 DEF NextHopWant
  <2> QED BY <1>1, <1>3, <1>6, <1>7, <2>1, ValidSave DEF LegacyInv
<1>10. validHop(NextHopJob, hop + 1)
  <2>1. ~final => hop + 1 < Len(plan.chain)
    BY <1>5
  <2> QED BY <1>3, <2>1 DEF validHop, UpgradePhases
<1> HIDE DEF js, final
<1>11. \/ faults' > faults /\ (jobs' = jobs \/ jobs' = js) /\ pc' = "idle"
       \/ faults' = faults /\ jobs' = js /\ hop' = hop + 1 /\ pc' = "idle"
  BY <1>2, <1>9, <1>10, NextHopFacts DEF UpdateHop, fileVars, Return, js
<1>12. /\ js[mine] = NextHopJob
       /\ \A j \in JobId : js[j] = jobs[j] \/ (j = mine /\ js[j] = NextHopJob)
  BY <1>2 DEF js
<1>13. KeepsCodes
  <2>1. NextHopJob.status # "restarting"
    BY <1>3
  <2> QED BY <1>11, <1>12, <2>1 DEF KeepsCodes, CodedSteps
<1>14. hop + 1 > hop
  BY <1>5
<1> QED BY <1>1, <1>4, <1>11, <1>12, <1>13, <1>14

\* RunActive resumes the job one place further, with a code.
LEMMA RunLegacyAdvances ==
  ASSUME TypeInv, RunLegacy, bound' = bound, NEW j \in JobId, active(jobs[j])
  PROVE  HopAdvances(j) /\ KeepsCodes
<1>1. PICK i \in JobId :
         active(jobs[i]) /\ mine' = i /\ pc' = resumeLegacy(jobs[i])
  BY DEF RunLegacy
<1>2. pc = "idle" /\ jobs' = jobs /\ faults' = faults /\ hop' = hop
  BY DEF RunLegacy, At, fileVars
<1>3. i = j
  BY <1>1 DEF TypeInv, FileInv, normalizeAndValidate
<1>4. pc' \in EngineSteps /\ place[pc'] \in Nat
  BY <1>1, ResumeAhead
<1>5. code' # ""
  BY DEF RunLegacy
<1>6. "idle" \notin EngineSteps
  BY DEF EngineSteps
<1>7. HopPlace(j) = place[pc'] - 1 /\ HopPlace(j)' = place[pc']
  BY <1>1, <1>2, <1>3, <1>4, <1>6 DEF HopPlace
<1>8. HopAdvances(j)
  BY <1>2, <1>4, <1>7 DEF HopAdvances
<1>9. KeepsCodes
  BY <1>2, <1>5 DEF KeepsCodes
<1> QED BY <1>8, <1>9

\* The steps that JobEngine has too advance the job.
LEMMA SharedAdvances ==
  ASSUME TypeInv, PointInv, CodeInv, SharedSaves \/ SharedWork
  PROVE  EngineAdvances /\ KeepsCodes /\ pc \in EngineSteps
<1>1. EngineStep
  BY DEF SharedSaves, SharedWork, EngineStep, PrepareStep, ActivateStep,
     RestoreStep, RestartStep
<1>2. pc # "idle"
  BY DEF SharedSaves, SharedWork, PrepareValidating, SourceReady,
     PrepareBackingUp, BeginAndStop, Dump, SourceRestored, Commit, Checkpoint,
     ActivatePulling, Pull, ActivateStopping, ActivateMigrating, Recreate,
     ActivateStarting, Checking, FailBeforeMutation, BeginRollback,
     CountRestore, RestoreImage, RestoreStop, Wipe, RestoreData, RestoreUp,
     Restored, CheckRestored, RecordRecoveryFailure, CountRestart, RestartUp,
     RestartCheck, RestartDone, RestartFailed, At
<1>3. ~RunActive
  BY <1>2 DEF RunActive, At
<1> QED BY <1>1, <1>3, EngineStepAdvances

\* A step of the engine that advances its job in JobEngine's order does so in
\* this one.
LEMMA MineAdvances ==
  ASSUME TypeInv, EngineAdvances, pc \in EngineSteps, UNCHANGED <<hop, bound>>,
         NEW j \in JobId, active(jobs[j]), active(jobs'[j])
  PROVE  HopAdvances(j) \/ Refused(j)
<1>1. j = mine
  BY MineIsActive DEF TypeInv, FileInv, normalizeAndValidate
<1>2. HopPlace(j) = place[pc]
  BY DEF HopPlace
<1>3. pc' \in EngineSteps => HopPlace(j)' = place[pc']
  BY DEF HopPlace
<1>4. pc' = "idle" => HopPlace(j)' = place[resumeLegacy(jobs'[j])] - 1
  BY DEF HopPlace, EngineSteps, resumeLegacy
<1>5. /\ place[resumeLegacy(jobs'[j])] \in Nat /\ place[pc] \in Nat
      /\ place[Resume(jobs'[j])] \in Nat
      /\ place[resumeLegacy(jobs'[j])] >= place[Resume(jobs'[j])]
  BY ResumeAhead, Places
<1> QED
  BY <1>1, <1>2, <1>3, <1>4, <1>5 DEF EngineAdvances, HopAdvances

\* A start-up resumes the job, with the digests of its plan or without.
LEMMA BootAdvances ==
  ASSUME BootLegacy, NEW j \in JobId
  PROVE  HopAdvances(j)
<1>1. /\ pc = "down" /\ pc' = "idle" /\ jobs' = jobs /\ faults' = faults
      /\ hop' = hop /\ (bound' = bound \/ ~bound')
  BY BootBinds DEF BootLegacy, Boot, fileVars
<1>2. HopPlace(j) = place[resumeLegacy(jobs[j])] - 2
  BY <1>1 DEF HopPlace, EngineSteps
<1>3. HopPlace(j)' = place[resumeLegacy(jobs[j])'] - 1
  BY <1>1 DEF HopPlace, EngineSteps
<1>4. /\ place[resumeLegacy(jobs[j])] \in Nat
      /\ place[resumeLegacy(jobs[j])'] \in Nat
      /\ place[resumeLegacy(jobs[j])'] >= place[resumeLegacy(jobs[j])]
  <2>1. CASE bound' = bound \/ ~bound
    <3>1. resumeLegacy(jobs[j])' = resumeLegacy(jobs[j])
      BY <1>1, <2>1 DEF resumeLegacy
    <3> QED BY <3>1, ResumeAhead
  <2>2. CASE bound /\ ~bound'
    <3>1. resumeLegacy(jobs[j]) = Resume(jobs[j])
      BY <2>2, ResumeAhead
    <3>2. place[Resume(jobs[j])] \in Nat
      BY Places
    <3>3. CASE jobs[j].status \notin UpgradePhases
      <4>1. resumeLegacy(jobs[j])' = Resume(jobs[j])
        BY <1>1, <3>3 DEF resumeLegacy
      <4> QED BY <3>1, <3>2, <4>1
    <3>4. CASE jobs[j].status \in UpgradePhases
      <4>1. resumeLegacy(jobs[j])' \in {"fail_before_mutation",
                                        "begin_rollback"}
        BY <1>1, <2>2, <3>4 DEF resumeLegacy
      <4>2. Resume(jobs[j]) \in {"prepare_validating", "activate_pulling",
                                 "check_target"}
        BY <3>4 DEF Resume, UpgradePhases
      <4> QED BY <3>1, <4>1, <4>2, PlaceIs
    <3> QED BY <3>3, <3>4
  <2> QED BY <1>1, <2>1, <2>2
<1> QED BY <1>1, <1>2, <1>3, <1>4 DEF HopAdvances

\* Every step of a job with a plan moves it, and keeps the codes.
LEMMA PlanMoves ==
  ASSUME LegacyInv, CodeInv, HasPlan, PlanStep
  PROVE  CodeInv' /\ \A j \in JobId : HopMoved(j)
<1>1. ASSUME KeepsCodes PROVE CodeInv'
  BY <1>1 DEF KeepsCodes, CodeInv
<1>2. CASE RunLegacy /\ UNCHANGED <<plan, bound>>
  <2>1. PICK i \in JobId : active(jobs[i])
    BY <1>2 DEF RunLegacy
  <2>2. CodeInv'
    BY <1>1, <1>2, <2>1, RunLegacyAdvances DEF LegacyInv
  <2>3. \A j \in JobId : HopMoved(j)
    BY <1>2, RunLegacyAdvances DEF LegacyInv, HopMoved
  <2> QED BY <2>2, <2>3
<1>3. CASE /\ \/ (SharedSaves \/ SharedWork) /\ hop' = hop
              \/ LegacyQueued \/ WriteHopImage \/ CheckTarget \/ RollBackHop
           /\ UNCHANGED <<plan, bound>>
  <2>1. EngineAdvances /\ KeepsCodes /\ pc \in EngineSteps
    BY <1>3, SharedAdvances, LegacyQueuedAdvances, HopWork,
       RollBackHopAdvances DEF LegacyInv
  <2>2. UNCHANGED <<hop, bound>>
    BY <1>3, RollBackFacts DEF LegacyQueued, WriteHopImage, CheckTarget
  <2>3. \A j \in JobId : HopMoved(j)
    BY <2>1, <2>2, MineAdvances DEF LegacyInv, HopMoved
  <2> QED BY <1>1, <2>1, <2>3
<1>4. CASE NextHop
  <2>1. /\ \/ faults' > faults
           \/ /\ faults' = faults /\ hop' > hop
              /\ jobs'[mine].attempts = jobs[mine].attempts
        /\ KeepsCodes /\ pc \in EngineSteps
    BY <1>4, NextHopAdvances
  <2>2. \A j \in JobId : active(jobs[j]) => j = mine
    BY <2>1, MineIsActive DEF LegacyInv, TypeInv, FileInv, normalizeAndValidate
  <2>3. \A j \in JobId : HopMoved(j)
    BY <2>1, <2>2 DEF HopMoved, HopAdvances
  <2> QED BY <1>1, <2>1, <2>3
<1>5. CASE SharedRoutes /\ UNCHANGED <<plan, hop, bound>> /\ ~LegacyEngine
  <2>1. ControlStep
    BY <1>5 DEF SharedRoutes, ControlStep
  <2>2. /\ \A j \in JobId : active(jobs[j]) => jobs'[j] = jobs[j]
        /\ UNCHANGED engineVars /\ CodeInv'
    BY <2>1, ControlKeeps DEF LegacyInv
  <2> QED BY <1>5, <2>2 DEF HopMoved
<1>6. CASE Crash
  <2>1. faults \in Nat /\ faults' = faults + 1
    BY <1>6 DEF Crash, LegacyInv, TypeInv, HostInv
  <2>2. CodeInv'
    BY <1>6 DEF Crash, fileVars, CodeInv, CodedSteps
  <2> QED BY <2>1, <2>2 DEF HopMoved, HopAdvances
<1>7. CASE ServerMigrates /\ UNCHANGED <<plan, hop, bound>> /\ ~LegacyEngine
  BY <1>7 DEF ServerMigrates, fileVars, engineVars, CodeInv, HopMoved
<1>8. CASE BootLegacy
  <2>1. CodeInv'
    BY <1>8 DEF BootLegacy, Boot, fileVars, CodeInv, CodedSteps
  <2> QED BY <1>8, <2>1, BootAdvances DEF HopMoved
<1>9. CASE LegacyEngine
  <2>1. \/ (OwnSteps \/ ((SharedSaves \/ SharedWork) /\ hop' = hop))
              /\ UNCHANGED <<plan, bound>>
    BY <1>9 DEF LegacyEngine, PrepareBackup, Prepared, ActivateTarget,
       Activated, Recover, RestartStep, OwnSteps, SharedSaves, SharedWork
  <2> QED BY <1>2, <1>3, <1>4, <2>1 DEF OwnSteps
<1> QED
  BY <1>2, <1>3, <1>4, <1>5, <1>6, <1>7, <1>8, <1>9 DEF PlanStep, OwnSteps

\* A job without a plan moves as it does in JobEngine.
LEMMA NoPlanMoves ==
  ASSUME LegacyInv, CodeInv, ~HasPlan, [Next]_vars,
         LegacyEngine => EngineStep, UNCHANGED <<plan, hop>>, bound' = bound
  PROVE  CodeInv' /\ \A j \in JobId : HopMoved(j)
<1>1. CodeInv' /\ \A j \in JobId : Moved(j)
  BY NextCode, StepMoves DEF LegacyInv
<1>2. bound
  BY UnboundHop DEF LegacyInv
<1>3. ASSUME NEW j \in JobId
      PROVE  HopPlace(j) = Place(j) /\ HopPlace(j)' = Place(j)'
  <2>1. resumeLegacy(jobs[j]) = Resume(jobs[j])
    BY <1>2 DEF resumeLegacy
  <2>2. resumeLegacy(jobs[j])' = Resume(jobs[j])'
    BY <1>2 DEF resumeLegacy
  <2> QED BY <2>1, <2>2 DEF HopPlace, Place
<1>4. \A j \in JobId : Advances(j) => HopAdvances(j)
  BY <1>3 DEF Advances, HopAdvances
<1> QED BY <1>1, <1>4 DEF Moved, HopMoved

\* Every step moves every job that it leaves active.
LEMMA LegacyMoves ==
  ASSUME LegacyInv, CodeInv, [LegacyNext]_legacyVars
  PROVE  CodeInv' /\ \A j \in JobId : HopMoved(j)
<1>1. CASE HasPlan /\ PlanStep
  BY <1>1, PlanMoves
<1>2. CASE ~HasPlan /\ LegacyNext
  <2>1. /\ LegacyEngine => EngineStep
        /\ Next \/ BootLegacy
        /\ UNCHANGED <<plan, hop>>
    BY <1>2 DEF LegacyNext, LegacyEngine, Control, Outside, BootLegacy, Next
  <2>2. Len(plan.chain) = 0
    BY <1>2, NoPlanShape DEF HasPlan
  <2>3. Next /\ bound' = bound
    BY <1>2, <2>2 DEF LegacyNext, LegacyEngine, Control, Outside, BootLegacy,
       Next
  <2> QED BY <1>2, <2>1, <2>3, NoPlanMoves
<1>3. CASE UNCHANGED legacyVars /\ ~LegacyNext
  <2>1. UNCHANGED vars /\ hop' = hop
    BY <1>3 DEF legacyVars
  <2>2. jobs' = jobs /\ pc' = pc /\ code' = code /\ UNCHANGED engineVars
    BY <2>1 DEF vars, fileVars, engineVars
  <2> QED BY <1>3, <2>1, <2>2 DEF LegacyNext, HopMoved, CodeInv
<1> QED BY <1>1, <1>2, <1>3, StepKinds

\* Neither a queued job nor a host without jobs has a code to keep.
LEMMA InitLegacyCode == LegacyInit \/ DirectInit => CodeInv
<1>1. NoSuchJob.status = Absent
  BY DEF NoSuchJob
<1>2. \A c, t : newJob(c, t).status = "queued"
  BY DEF newJob, NoSuchJob
<1>3. ASSUME LegacyInit PROVE CodeInv
  <2>1. PICK l \in JobId :
           jobs = [j \in JobId |-> IF j = l
                     THEN newJob(plan.source, plan.chain[Len(plan.chain)])
                     ELSE NoSuchJob]
    BY <1>3 DEF LegacyInit
  <2>2. \A j \in JobId : jobs[j].status \in {"queued", Absent}
    BY <1>1, <1>2, <2>1
  <2>3. pc = "down"
    BY <1>3 DEF LegacyInit
  <2> QED BY <2>2, <2>3 DEF CodeInv, CodedSteps, Absent
<1>4. ASSUME DirectInit PROVE CodeInv
  BY <1>4, InitCode DEF DirectInit
<1> QED BY <1>3, <1>4

\* A job with a plan never stalls either, whatever fails and whichever updater
\* resumes it: every step that leaves it active spends a fault, counts an attempt,
\* completes a hop or is further in one, unless its count is refused.
THEOREM LegacyOnlyRefusalsStall == LegacySpec => OnlyRefusedCountsStallHops
<1>1. LegacyInv /\ CodeInv /\ [LegacyNext]_legacyVars =>
        [\A j \in JobId : HopMoved(j)]_legacyVars
  BY LegacyMoves
<1>2. LegacyInv /\ CodeInv /\ [LegacyNext]_legacyVars => CodeInv'
  BY LegacyMoves
<1> QED BY <1>1, <1>2, InitLegacyCode, AlwaysLegacy, PTL
        DEF LegacySpec, OnlyRefusedCountsStallHops, HopMoved
=============================================================================
