------------------------------ MODULE LegacyJob ------------------------------
(***************************************************************************)
(* RunActive for a job that an older updater persisted with a plan: several*)
(* releases in a row, each with its own backup, activation and health      *)
(* window, and the backup of the next release taken over the previous one. *)
(*                                                                         *)
(* Host, saves, rollback and restart are JobEngine's; this module adds the *)
(* plan, the hop counter and what depends on them.  A job without a plan is*)
(* a direct one and takes JobEngine's steps.  The error code               *)
(* "backup_failed" also stands for "source_image_digest_untrusted": no     *)
(* property tells them apart.                                              *)
(***************************************************************************)
EXTENDS JobEngine, Sequences

CONSTANT MaxHops
ASSUME MaxHopsAssumption == MaxHops \in Nat \ {0}

VARIABLES
    plan,       \* the persisted plan: source version and release chain
    hop,        \* current_hop: releases of the chain that are complete
    bound       \* the plan's steps name their source image digests

legacyVars == <<vars, plan, hop, bound>>

\* Every release of the chain is newer than those before it.
Plan == {p \in [source : Version,
                chain : UNION {[1..n -> Version] : n \in 1..MaxHops}] :
            \A n \in 1..Len(p.chain) :
                /\ p.source < p.chain[n]
                /\ \A m \in 1..n - 1 : p.chain[m] < p.chain[n]}

NoPlan == [source |-> 0, chain |-> <<>>]    \* of a direct job
HasPlan == plan # NoPlan

\* The version a job has after n complete hops.
versionAfter(n) == IF n = 0 THEN plan.source ELSE plan.chain[n]

completedHopIndex(v) ==                     \* mutant: the step's index
    CHOOSE n \in 0..Len(plan.chain) - 1 :
        IF v = plan.source THEN n = 0 ELSE plan.chain[n + 1] = v
\* Only versions of the plan are looked up; for another the code returns 0.
completedHopForVersion(v) ==
    CHOOSE n \in 0..Len(plan.chain) : versionAfter(n) = v

HopTypeOK ==
    /\ TypeOK
    /\ plan \in Plan \union {NoPlan}
    /\ hop \in 0..Len(plan.chain)
    /\ bound \in BOOLEAN
    /\ HasPlan => \A j \in JobId :
          jobs[j].status # Absent => jobs[j].cur = versionAfter(hop)

\* The host of an older updater, with a job it has accepted and not begun; or
\* a host without jobs.
LegacyInit ==
    /\ plan \in Plan
    /\ hop = 0
    /\ bound = TRUE
    /\ \E l \in JobId :
          jobs = [j \in JobId |-> IF j = l
                     THEN newJob(plan.source, plan.chain[Len(plan.chain)])
                     ELSE NoSuchJob]
    /\ desired = "upgrading"
    /\ env = plan.source /\ running = env /\ data = env
    /\ slot = NoPoint /\ retiring = NoPoint
    /\ pc = "down" /\ mine = NoJob /\ code = "" /\ avail = TRUE
    /\ dumped = Mixed /\ dumpOK = TRUE
    /\ request = NoRequest
    /\ faults = 0
DirectInit == Init /\ plan = NoPlan /\ hop = 0 /\ bound = TRUE

-----------------------------------------------------------------------------
(***************************************************************************)
(* What validation adds for a job with a plan: it has the version of its   *)
(* last complete hop, and a hop left to do while it upgrades.              *)
(***************************************************************************)
validHop(job, n) ==
    /\ job.cur = versionAfter(n)
    /\ job.status \in UpgradePhases \union {"queued"} => n < Len(plan.chain)
    /\ job.status = "succeeded" => n = Len(plan.chain)

\* A save of the job together with its hop counter.
UpdateHop(job, n, want) ==
    /\ Return
    /\ LET js == [jobs EXCEPT ![mine] = job]
       IN  IF validHop(job, n) /\ normalizeAndValidate(js, want)
           THEN \/ jobs' = js /\ desired' = want /\ hop' = n /\ UNCHANGED faults
                \/ /\ faults < MaxFaults
                   /\ faults' = faults + 1
                   /\ \/ UNCHANGED <<fileVars, hop>>
                      \/ jobs' = js /\ desired' = want /\ hop' = n
           ELSE UNCHANGED <<fileVars, hop, faults>>

-----------------------------------------------------------------------------
(***************************************************************************)
(* RunActive.  A plan whose steps name no source digest is not executed by *)
(* this updater: the job is rolled back once it may have touched the host, *)
(* and failed before that.                                                 *)
(***************************************************************************)
Mutating == {"stopping", "migrating", "starting", "health_check"}

\* Mutant: a job that has its recovery point goes on.
resumeLegacyBound(job) ==
    IF ~bound /\ job.status \in UpgradePhases /\ job.rp = NoPoint
    THEN "fail_before_mutation" ELSE Resume(job)
resumeLegacy(job) ==
    IF bound \/ job.status \notin UpgradePhases THEN Resume(job)
    ELSE IF job.rp # NoPoint /\ job.status \in Mutating THEN "begin_rollback"
    ELSE "fail_before_mutation"

RunLegacy ==
    /\ At("idle")
    /\ \E j \in JobId :
        /\ active(jobs[j])
        /\ mine' = j
        /\ pc' = resumeLegacy(jobs[j])
        /\ code' = "backup_failed"
        /\ avail' = jobs[j].svc
    /\ UNCHANGED <<dumped, dumpOK, fileVars, hostVars, backupVars, request,
                   faults, hop>>

LegacyQueued ==
    /\ At("queued")
    /\ updateJob([jobs[mine] EXCEPT !.status = "validating", !.step = "phase"],
                 Return, Return)
    /\ UNCHANGED <<hostVars, backupVars, request, hop>>

PrepareBackup ==
    /\ \/ PrepareValidating \/ SourceReady \/ PrepareBackingUp \/ BeginAndStop
       \/ Dump \/ SourceRestored \/ Commit
    /\ UNCHANGED hop

\* The hop's recovery point is the job's, or its preparation failed.
Prepared == (Checkpoint \/ FailBeforeMutation) /\ UNCHANGED hop

\* ActivateTarget of the hop's release: writePinnedImage names that release.
WriteFinalImage ==                          \* mutant: the job's last release
    /\ At("write_image")
    /\ env' = jobs[mine].target /\ Goto("activate_migrating")
    /\ UNCHANGED <<fileVars, running, data, backupVars, request, faults, hop>>
WriteHopImage ==
    /\ At("write_image")
    /\ LET v == versionAfter(hop + 1)
       IN  \/ env' = v /\ Goto("activate_migrating")
           \/ env' \in {env, v} /\ HalfActivated
    /\ UNCHANGED <<fileVars, running, data, backupVars, request, faults, hop>>

ActivateTarget ==
    \/ WriteHopImage
    \/ /\ \/ ActivatePulling \/ Pull \/ ActivateStopping \/ ActivateMigrating
          \/ Recreate \/ ActivateStarting
       /\ UNCHANGED hop

Activated == (Checking \/ BeginRollback) /\ UNCHANGED hop

CheckTarget ==
    /\ At("check_target")
    /\ \/ Healthy(versionAfter(hop + 1)) /\ Goto("succeed")
       \/ Rollback("target_health_failed")
    /\ UNCHANGED <<fileVars, hostVars, backupVars, request, faults, hop>>

\* The hop is complete: the last one ends the job, another one begins.
NextHopUnsaved ==                           \* mutant: no backup of its own
    /\ At("succeed")
    /\ LET v == versionAfter(hop + 1)
           final == hop + 1 = Len(plan.chain)
           job == [jobs[mine] EXCEPT !.svc = TRUE, !.cur = v, !.safe = v,
                      !.code = "",
                      !.status = IF final THEN "succeeded" ELSE "pulling",
                      !.step = IF final THEN "complete" ELSE "phase"]
       IN  UpdateHop(job, hop + 1, IF final THEN "running" ELSE desired)
    /\ UNCHANGED <<hostVars, backupVars, request>>
NextHop ==
    /\ At("succeed")
    /\ LET v == versionAfter(hop + 1)
           final == hop + 1 = Len(plan.chain)
           job == [jobs[mine] EXCEPT !.svc = TRUE, !.cur = v, !.safe = v,
                      !.code = "",
                      !.status = IF final THEN "succeeded" ELSE "validating",
                      !.step = IF final THEN "complete" ELSE "phase"]
       IN  UpdateHop(job, hop + 1, IF final THEN "running" ELSE desired)
    /\ UNCHANGED <<hostVars, backupVars, request>>

\* resumeRollback: the restored version decides which hops are complete.
RollBackHop ==
    /\ At("roll_back")
    /\ LET v == jobs[mine].rp.ver
       IN  UpdateHop([jobs[mine] EXCEPT !.status = "rolled_back",
                          !.step = "complete", !.svc = TRUE, !.safe = v,
                          !.cur = v],
                     completedHopForVersion(v), "running")
    /\ UNCHANGED <<hostVars, backupVars, request>>

Recover ==
    \/ RollBackHop
    \/ /\ \/ CountRestore \/ RestoreImage \/ RestoreStop
          \/ Wipe \/ RestoreData \/ RestoreUp \/ Restored \/ CheckRestored
          \/ RecordRecoveryFailure \/ RestartStep
       /\ UNCHANGED hop

\* RunActive, for a job with a plan and for one without.
LegacyEngine ==
    /\ \/ /\ HasPlan
          /\ RunLegacy \/ LegacyQueued \/ PrepareBackup \/ Prepared
               \/ ActivateTarget \/ Activated \/ CheckTarget \/ NextHop \/ Recover
       \/ ~HasPlan /\ EngineStep /\ UNCHANGED hop
    /\ UNCHANGED <<plan, bound>>

\* createJob makes direct jobs.
Control ==
    /\ \/ HasPlan /\ (StartRestart \/ setDesiredState)
       \/ ~HasPlan /\ ControlStep
    /\ UNCHANGED <<plan, hop, bound>>
Outside == (Crash \/ ServerMigrates) /\ UNCHANGED <<plan, hop, bound>>

\* The older updater starts again, or this one in its place: it migrates a plan
\* without a release chain to one step that names no source digest.
BootLegacy ==
    /\ Boot
    /\ \/ UNCHANGED bound
       \/ Len(plan.chain) = 1 /\ bound' = FALSE
    /\ UNCHANGED <<plan, hop>>

LegacyNext == LegacyEngine \/ Control \/ Outside \/ BootLegacy

LegacySpec == (LegacyInit \/ DirectInit) /\ [][LegacyNext]_legacyVars

\* As for JobEngine: commands run under timeouts, and the ticker fires.
LegacyFairSpec ==
    LegacySpec /\ WF_legacyVars(LegacyEngine) /\ WF_legacyVars(BootLegacy)

-----------------------------------------------------------------------------
(***************************************************************************)
(* Properties, besides RecoveryDecides of JobEngine: every job ends, with a*)
(* plan or without.                                                        *)
(***************************************************************************)
\* While a job may have touched the host or is being rolled back, its recovery
\* point is the backup in the slot and of the release before the current hop: a
\* second backup replaces the first, and then the counter and the version that
\* the record names go with it.
HopPointHeld ==
    /\ HopTypeOK
    /\ RecoveryPointHeld
    /\ \A j \in JobId :
          HasPlan /\ jobs[j].status \in PastCheckpoint =>
              jobs[j].rp.ver = versionAfter(hop)

\* Progress over the whole chain never goes back: not when a hop is resumed
\* after a crash, not from one hop to the next, not by a rollback, which ends
\* at the last complete hop.  A hop counts as complete only when its own release
\* is configured, running and has migrated the stores, one after the other.
HopsGoForward ==
    [][/\ hop' # hop =>
             /\ hop' = hop + 1
             /\ env = versionAfter(hop') /\ running = env
             /\ ~NeedsMigration(env)
       /\ \A j \in JobId :
             /\ hop' = hop
             /\ jobs[j].status \in UpgradePhases
             /\ jobs'[j].status \in UpgradePhases
             => upgradePhaseRank(jobs'[j].status)
                    >= upgradePhaseRank(jobs[j].status)]_legacyVars

\* Configured versions are those of the current hop, whatever is resumed: no
\* release is skipped, and no rollback goes behind the last complete hop.
OneEdgeAtATime ==
    [][HasPlan /\ env' # env => \E j \in JobId :
          \/ jobs[j].status \in Mutating /\ env' = versionAfter(hop + 1)
          \/ jobs[j].status = "rolling_back" /\ env' = versionAfter(hop)]_legacyVars

\* A plan without source digests never activates its release after the updater
\* was replaced, and a job it fails without rollback left the source configured
\* (TestJobEngineFailsClosedWhenLegacyPersistedPlanResumesAfterBackup).
FailsClosed ==
    [][~bound =>
          /\ env' # env => env' = plan.source
          /\ \A j \in JobId :
                At("fail_before_mutation") /\ Becomes(j, "failed")
                    => env = plan.source]_legacyVars
=============================================================================
