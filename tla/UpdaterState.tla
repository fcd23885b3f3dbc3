---------------------------- MODULE UpdaterState ----------------------------
(***************************************************************************)
(* The persisted runtime state (runtime.json) as the upgrade transaction   *)
(* reads and writes it: the job record, the desired state, and the         *)
(* validation that every save and every load applies.                      *)
(*                                                                         *)
(* Left out of the record: the wording of messages and the counters derived*)
(* from the status (completed_steps, current_hop of a one-hop job).        *)
(***************************************************************************)
EXTENDS Naturals

CONSTANTS
    JobId,      \* identifiers of the jobs that may ever be created
    NoJob,      \* "no such job"
    Version     \* release versions, ordered as numbers

ASSUME JobIdAssumption == NoJob \notin JobId
ASSUME VersionAssumption == Version \subseteq Nat \ {0}

(***************************************************************************)
(* Contents of the message-server's stores: the version whose schema they  *)
(* have, or Mixed while a restore has removed some of it and not finished. *)
(***************************************************************************)
Mixed == 0
Data == Version \union {Mixed}

(***************************************************************************)
(* The identity of a committed backup, as far as it matters here: the job  *)
(* it was made for, the source version and the contents that were archived.*)
(***************************************************************************)
NoPoint == [job |-> NoJob, ver |-> 0, data |-> Mixed]
RecoveryPoint == [job : JobId, ver : Version, data : Data]

UpgradePhases == {"validating", "backing_up", "pulling", "stopping",
                  "migrating", "starting", "health_check"}
TerminalStatus == {"succeeded", "failed", "rolled_back"}
ActiveStatus == UpgradePhases \union {"queued", "rolling_back", "restarting"}
Absent == "absent"                          \* the id is not in state.Jobs
JobStatus == ActiveStatus \union TerminalStatus \union {Absent}

upgradePhaseRank(s) ==
    CASE s = "validating" -> 0
      [] s = "backing_up" -> 1
      [] s = "pulling"    -> 2
      [] s = "stopping"   -> 3
      [] s = "migrating"  -> 4
      [] s = "starting"   -> 5
      [] OTHER            -> 6              \* health_check

(***************************************************************************)
(* current_step. An upgrade phase is its own step ("phase"); a rollback has*)
(* two steps, and which of them is persisted decides what is replayed.     *)
(***************************************************************************)
JobStep == {"phase", "restore_backup", "check_restored", "restart", "complete"}

ErrorCode == {"", "backup_failed", "target_activation_failed",
              "target_health_failed", "rollback_failed", "restart_failed"}

maxRecoveryAttempts == 3

Job == [status   : JobStatus,
        step     : JobStep,
        svc      : BOOLEAN,                 \* service_available
        cur      : Version \union {0},      \* current_version
        target   : Version \union {0},
        safe     : Version \union {0},      \* last_safe_version
        attempts : 0..maxRecoveryAttempts,  \* recovery_attempts
        rp       : RecoveryPoint \union {NoPoint},
        code     : ErrorCode]

NoSuchJob == [status |-> Absent, step |-> "complete", svc |-> TRUE, cur |-> 0,
              target |-> 0, safe |-> 0, attempts |-> 0, rp |-> NoPoint,
              code |-> ""]

DesiredState == {"running", "upgrading", "maintenance", "deprovisioned"}

active(job) == job.status \in ActiveStatus

hasActiveJob(js) == \E j \in JobId : active(js[j])

(***************************************************************************)
(* Job.validateExecutionState                                              *)
(***************************************************************************)
validateUnbounded(j, job) ==                \* mutant: attempts unchecked
    job.status \in TerminalStatus => job.step = "complete"

validateExecutionState(j, job) ==
    /\ job.attempts <= maxRecoveryAttempts
    /\ job.status = "rolling_back" => job.rp # NoPoint
    /\ job.status = "restarting" => job.step = "restart"
    /\ job.rp # NoPoint => job.rp.job = j
    /\ job.status \in TerminalStatus => job.step = "complete"
    /\ job.status = "succeeded" =>
            job.svc /\ job.code = "" /\ job.cur = job.target
    /\ job.status = "failed" => job.code # ""

(***************************************************************************)
(* RuntimeState.normalizeAndValidate, for the jobs and the desired state.  *)
(***************************************************************************)
validateOneByOne(js, want) ==               \* mutant: jobs not compared
    /\ \A j \in JobId : js[j].status # Absent =>
            validateExecutionState(j, js[j]) /\ js[j].cur <= js[j].target
    /\ want = "upgrading" <=> hasActiveJob(js)

normalizeAndValidate(js, want) ==
    /\ \A j \in JobId : js[j].status # Absent =>
            validateExecutionState(j, js[j]) /\ js[j].cur <= js[j].target
    /\ \A i, j \in JobId : active(js[i]) /\ active(js[j]) => i = j
    /\ want = "upgrading" <=> hasActiveJob(js)

\* The operations the public job view offers.
restartAlways(job) == job.status \in TerminalStatus      \* mutant
restartOffered(job) == job.status = "failed" /\ ~job.svc
=============================================================================
