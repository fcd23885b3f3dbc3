# dirextalk-updater in TLA+

`dirextalk-updater` is a host daemon that upgrades one Docker Compose service,
the message-server. It takes a backup, switches the configured image, checks
the result, and rolls back on failure. Between upgrades it watches the service
and repairs it. Everything it must remember is one JSON file
(`runtime.json`), one env file (`MESSAGE_SERVER_IMAGE`), and one backup
directory, so most of what can go wrong happens between two writes: a crash, a
failed command, a save that failed after its rename, a second goroutine.

This directory models that behaviour in TLA+, checks it with TLC and proves
its safety with TLAPS. `PROJECT.json` lists components, runs, mutants, the
definition-to-source map, findings, hazards and theorems.

## Inventory

| Part | Source (`src/`) | State | Operations | Modelled in |
|---|---|---|---|---|
| Upgrade transaction | `internal/updater/execution.go` | job record: status, step, attempts, recovery point | `RunActive`, `runDirectActive`, `resumeRollback`, `resumeRestart` | `JobEngine` |
| Legacy jobs | `execution.go`, `host_runtime.go` | persisted plan, hop counter | `RunActive` for a job with a plan | `LegacyJob` |
| Compose host | `host_runtime.go` | env file, container, PostgreSQL and three stores | `PrepareDirectBackup`, `ActivateDirectTarget`, `RestoreBackup`, `RestartCurrent`, watchdog observation and repair | `JobEngine`, `LegacyJob`, `Watchdog` |
| Health windows | `host_runtime.go` | none | `checkCurrentHealthWithMode` and its callers | `HealthWindow` |
| Initial pinning | `host_runtime.go` | env file | `PinInitialLatest` | `InitialPin` |
| Runtime state | `state.go` | the record in `runtime.json` | validation, migration | `UpdaterState`, `Watchdog`, `LegacyJob` |
| State store | `state.go` | `runtime.json`, its temporary file, one mutex | `Load`, `Update` | `StateFile`, `StateRegister` |
| Backup store | `backup.go` | `current`, `.retiring`, `.staging-*` | `Begin`, `Commit`, `Recover`, `Discard` | `BackupStore`, `RecoverySlot` |
| Watchdog | `watchdog.go` | status, failures, attempts, cooldown | `Reconcile` | `Watchdog` |
| Host gate | `host_gate.go` | operation mutex, active repair session | `BeginRepair`, `BeginMutation` | `Watchdog` |
| Control routes | `http.go`, `desired_state.go` | tickets (bearer hashes), idempotency keys | `createJob`, `replayJobTicket`, `startJobOperation`, `setDesiredState` | `JobTicket`; effect on host and watchdog in `JobEngine`, `Watchdog` |
| Job runner | `http.go`, `execution.go` | one buffered signal | `RunJobs`, `wakeJobRunner` | `JobTicket` |
| Release index | `release_index.go`, `manifest.go` | none | `Validate`, `UpgradePath` | `ReleaseIndex` |
| All on one host | | | | `HostSystem`, `SystemIntent` |
| Server | `cmd/dirextalk-updater/main.go` | none | recover, then runner, watchdog and API | `Crash`/`Boot` of each module |
| Read-only routes | `status.go`, `http.go` | none | `getStatus`, `getJob` | not modelled |
| Configuration, direct contract, build tools | `config*.go`, `direct_contract.go`, `releaseartifact/` ... | none | parsing and checks | not modelled |

How they interact:

* A control route loads and saves the state through `StateStore.Update`; the
  engine and the watchdog use the same store from goroutines of their own. The
  store's mutex makes each update atomic and nothing wider.
* Routes that change the desired state, and the watchdog's repairs, share
  `HostOperationGate`. The engine never takes it.
* The engine's only link to the routes is the state file (and a wake-up signal
  that the ten-second ticker makes redundant).
* The engine commits a backup through the backup store, then names it in the
  job record; a rollback compares the two.

What is hard here, and what makes each part correct:

* *Crash and resume.* Every phase is saved before the host is touched, and a
  restart resumes from the saved phase. Correct: no mutation without a
  checkpoint, no phase going backwards, a restore that is finished or repeated,
  attempts that are counted before they are made.
* *Two durable places that must agree*: the backup slot and the job record, the
  slot's directory and what a power loss leaves of it.
* *Partial failure*: a rename that happened although the save is reported as
  failed; `docker compose up` that failed half-way; a rotation that is undone.
* *Interleaving*: a request that checked an old snapshot; a repair that started
  before the desired state changed; a cancellation that missed its session; a
  host that changes between the five reads of one health check.
* *Repetition*: a request that is sent again because its answer was lost, while
  the first one is still at the gate or its job already over.
* *Time*: a budget over a sliding window, with a clock that is read early and
  may be set back.
* *Versions that differ in kind*: the adopted `v0.15.2`, whose answers are only
  accepted in the legacy mode; jobs that an older updater persisted.

`PROJECT.json` lists each of these as a hazard, at its line, with the
properties that would catch it.

## Modules

* **`UpdaterState`** (no variables): the job record, the desired states, and the
  validation applied to every save. A version is a number. Contents of the
  stores are the version whose schema they have, or `Mixed` while a restore has
  removed some of it. Message texts and step counters are left out.
* **`JobEngine`**: the upgrade transaction of a direct job. `pc` is where
  `runDirectActive` stands; each action is one save, one host command or one
  health window, and `Crash` may happen between any two. The state file (`jobs`,
  `desired`), the host (`env`, `running`, `data`) and the slot (`slot`,
  `retiring`) survive a crash; `pc`, the pending error code and the staging
  directory do not. `Update(js, want, Ok, Err)` is `StateStore.Update`: refused
  when the new state does not validate, else saved, else failed before or after
  the rename. Control routes run between engine steps. `createJob` is three
  steps (preflight on a snapshot, version read under the gate, save).
  `ServerMigrates` lets the running server migrate its stores at any time.
* **`BackupStore`**: the rotation, one file operation at a time. `dir` is the
  directory as the process sees it, `images` what a power loss may leave of it.
* **`RecoverySlot`**: what the rotation promises, without directories: a set of
  backups the next start-up may find, one when it is settled. `BackupStore`
  implements it (`RotationIsAtomic`). `JobEngine` uses the same promise: its
  `Commit` succeeds with exactly the new backup in the slot, or fails with the
  old one, the new one, or a rotation that start-up decides.
* **`StateFile`**: `StateStore.Update`, one file operation per step: lock and
  load, validate, write a temporary file, flush it, rename it, flush the
  directory. A state is the set of updates that made it, so a lost update shows.
  `images` is what a power loss may leave; a file that was not flushed is `Torn`.
* **`StateRegister`**: what the store promises: updates take effect whole and
  one at a time, `nil` means settled, an error leaves either state. `StateFile`
  implements it (`StoreIsRegister`); `Update` of every other module is this
  promise.
* **`LegacyJob`** extends `JobEngine` with the plan, the hop counter and the
  path of `RunActive` for jobs with a plan. Host, saves, rollback and restart
  are `JobEngine`'s, and a job without a plan (`NoPlan`) takes `JobEngine`'s steps
  unchanged. The updater may be replaced (`BootLegacy`) by one that needs source
  digests the plan does not have.
* **`JobTicket`**: how a caller gets a job and keeps access to it. Each handler
  step is a read of a snapshot, the gate, a version read, a save or an answer;
  answers may be lost. The engine is what `JobEngine` shows to the routes.
  The runner, its buffered signal and its ticker are here as well.
* **`Watchdog`**: `Reconcile`, the gate's mutexes, and the handlers of the
  control routes, one access to a shared object per action. The engine appears
  as what `JobEngine` shows of it: there is an active job exactly while the
  desired state is `upgrading` (a part of the validation of every save,
  `normalizeAndValidate`), and it ends that state in `running` or `maintenance`
  without the gate. The wall clock goes on and may be set back (`SetBack`).
* **`SystemIntent`**: what engine, routes and watchdog promise each other: who
  may change the host, and when the desired state may change. **`HostSystem`**
  puts `JobEngine` with its routes and the watchdog's repairs on one host and
  implements it; `Watchdog` implements it too (`IntentIsKept` in both). So what
  `Watchdog` assumes of the engine (`EngineEnds`), and that `JobEngine` may
  leave repairs out, is checked.
* **`HealthWindow`**: the confirmation window that `Healthy(v)` of `JobEngine`
  and `ObserveWatchdog` of `Watchdog` stand for: attempts of five reads, the
  host changing between any two. `held` and `streak` remember what was true at
  some moment of an attempt; the code has nothing like them.
* **`InitialPin`**: the one-shot command `pin-initial-latest`, one command or
  file operation per step, on a host whose tag is moved.
* **`ReleaseIndex`**: the index read and validated element by element, and the
  resolution of upgrade paths against a reference definition (chains of edges).
  Every index within the bounds is read. At this commit only tests resolve
  paths; the plans of legacy jobs were made by this code.
* **`Engine_proofs`** (`JobEngine`, `HostSystem` and `LegacyJob`),
  **`BackupStore_proofs`**, **`StateFile_proofs`**, **`JobTicket_proofs`**,
  **`Watchdog_proofs`**, **`HealthWindow_proofs`**, **`InitialPin_proofs`**,
  **`ReleaseIndex_proofs`**: theorems about them.
* **`MCHostSystem`**: two interchangeable jobs. **`MCJobTicket`**: two callers with
  the same, with conflicting and with unrelated requests.

## Runs

| Run | Question | Bounds | Result |
|---|---|---|---|
| `HostSystem` | Do recovery point, reports and host agree, and do engine, routes and watchdog keep off each other's host? | 2 jobs, 3 versions, 1 crash or failed save, unbounded host failures | 2.97 M states, pass |
| `LegacyJob` | Has each hop its recovery point, is none skipped or repeated, and does every job end? | plans of up to 3 hops and direct jobs over 4 versions, 3 faults | 314 k states, pass |
| `StateFile` | Is an answered update durable, and is the store a register? | 3 updates, 2 failing operations, crashes or power losses | 7 k states, pass |
| `BackupStore` | Is a recovery point ever lost, and is success durable? | 4 backups, 4 faults | 57 k states, pass |
| `JobTicket` | One job for each key, no ticket lost, known keys replayed, a retrying caller answered, no wake-up lost? | 2 callers, 2 keys, 2 jobs, 3 versions, 1 fault | 366 k states, pass |
| `WatchdogGate` | Do repairs and mutations exclude each other, and does each get its turn? | 2 handlers, 1 fault, one clock unit | 186 k states, pass |
| `WatchdogBudget` | Do the recorded repairs keep to the budget, and does a failing service get its repair although the clock is set back? | 1 handler, window 2, cooldown 2, clock 3, set back once, 1 fault | 442 k states, pass |
| `HealthWindow` | What has an accepted window seen, and does a restored source pass again? | 3 versions, 2 schemas, 3 attempts of which 2 in a row, 2 changes | 1.37 M states, pass |
| `InitialPin` | Is one image pinned, durably? | 3 images, 3 attempts, tag moved twice at any time, 4 faults | 22 k states, pass |
| `ReleaseIndex` | Is a path resolved exactly when it is the only one, and is it a valid plan? | every index of up to 5 releases and 7 edges | 345 k states, pass |
| `JobEngineWedge` | Does every active job end? | 1 job, 2 versions, 2 faults | violated (finding 1) |
| `JobEngineStopped` | Does "stopped before the service was changed" hold? | the same | violated (finding 2) |

Why the bounds are enough. Two jobs are needed for a request that races the end
of another job and for a recovery point that is rotated away; a third behaves
like the second. Three versions allow two upgrades in a row and a target that
is older than the configured version. One fault per behaviour covers each crash
point and each save; the host's failures are not counted, so every restore can
fail three times and every job can be restarted. A plan of three hops has a
first, a middle and a last one, which are what the code tells apart; three
faults allow a crash in each, and for a direct job one more than the counted
attempt that is lost to a crash. Three updates of the state file are one that
was answered, one that fails and one behind them; two faults allow a failed
flush and a power loss after it. Two callers make the duplicate, the conflicting
and the unrelated request (`MCRequests`); one fault is a failed save, a lost
answer or a crash, and the retry after it is not one. Four backups and four
faults allow a power loss during the recovery of a failed rotation and a further
rotation after it. In `WatchdogBudget` attempts leave the window at the end of
the clock's range. A clock set back once puts the next attempt before the
recorded ones; those are always in order themselves, since no other record is
saved, so a second time would start from the same states. `HealthWindow`
needs one attempt more than it must pass, so that a failed one in the middle can
be followed by good ones, and two changes, so that something can break and heal
again between two reads; its three versions are the adopted one, the first formal
one and one after it. `InitialPin` needs
three images for one that is republished, one without a version and a sound one.
`ReleaseIndex` needs five releases to have two different chains of two
intermediate releases each; seven edges close two such chains with a direct
edge.

`CHECK_DEADLOCK FALSE` appears in three runs. `BackupStore`: with its last
backup begun and no fault left, an idle store has nothing to do. `StateFile`:
the calls are finitely many, and it stops when all have returned. `ReleaseIndex`:
the index has been read. Everywhere else the system can always take a step.

Each property of a passing run has a mutant: a definition changed as a
plausible bug would (a dropped check, a swapped order, a missing `fsync`, an
off-by-one), for which TLC finds the property violated. They stand in the
modules beside the definition they change, marked as mutants.

### Fairness

* The engine goroutine: every host command and health window runs under a
  timeout (`backupTimeout`, `mutationTimeout`, `restoreTimeout`,
  `healthTimeout`), and `RunJobs` wakes every ten seconds. Hence weak fairness
  of `EngineStep`, and of `LegacyEngine` in `LegacyJob`. Which outcome a command
  has is never fair.
* `Reconcile` and the handlers: likewise, with the thirty-second ticker.
* The gate: `sync.Mutex` hands over to its longest waiter once it has waited a
  millisecond (Go's starvation mode). Hence strong fairness of taking the lock,
  in `Watchdog` and in `JobTicket`.
* `JobTicket`: weak fairness of each handler together with `Send` (a caller
  without an answer asks again), and of the runner with its ticker. That the
  ticker is a fallback only is `WakeUpWaits`, which needs no fairness.
* `StateFile`: weak fairness of each call's next step (file operations return).
* `Boot`: systemd starts the process again (external).
* `Watchdog`: weak fairness of `Tick` (time goes on), never of `SetBack`;
  `WatchdogFairSpec` leaves the handlers' fairness out, which the budget does not
  need.
* No fairness of the server's migration, of requests other than the retries, of
  faults, or of the clock elsewhere.

### Findings

Two statements the code makes of itself are violated by what it does; a run
shows each.

1. A crash during the third recovery attempt (`execution.go:487`) leaves the job
   `rolling_back` for ever: the next count is four, which validation refuses, on
   every tick. `RecoveryDecides` says that this is the only way a job hangs, and
   `OnlyRefusalsStall` and `LegacyOnlyRefusalsStall` prove it of every instance.
2. An activation that is resumed after the env file was written may fail as
   `The release change was stopped before the running service was changed`
   (`execution.go:377`): the target stays configured, without rollback.

The following are reachable in the models as well. No run is kept for them; the
checked properties are stated so that they hold beside them.

* Repair attempts are stamped with a time read before the observation and the
  wait at the gate (`watchdog.go:113,162`), so four repairs can begin within ten
  minutes, where `README.md:128-131` has at most three: with readings 0, 5, 8 and
  10 and a first repair that begins two minutes late, they begin at 2, 5, 8 and
  10. The cooldown is counted from the same reading (`watchdog.go:223`).
  `SteadyBudget` is about the stamps, and would not notice.
* A healthy observation overwrites the `suppressed` status written meanwhile
  (`watchdog.go:122`); the next `Reconcile` corrects it (`SuppressionSettles`).
* A repair that is cancelled before its first command keeps its attempt
  (`watchdog.go:191`).
* A mutation can miss the repair session it should cancel (`host_gate.go:44`);
  it then waits, and exclusion still holds (`RepairExclusive`).
* A backup that is resumed with the source stopped, and fails before starting
  it, is saved as a failure with the service available, so no restart is
  offered (`execution.go:335`), although the test of a backup that leaves the
  source down wants one (`execution_test.go:319-334`). The desired state is
  `running` again, so the watchdog still repairs the service; that much is
  `FailureIsAttended`, which does not ask whether the report is right.
* The restart of a failed job stays on offer after a later job has upgraded the
  host, and after a failed rollback of an intermediate hop; the configured
  version is then neither the job's current nor its final one, and the restart
  cannot succeed. Three attempts put the host into maintenance
  (`host_runtime.go:690`).
* Backup and restore accept the adopted `v0.15.2` in the legacy mode,
  `RestartCurrent` does not: a host that answers as it always did fails every
  restart (`host_runtime.go:696`).
* `observeInitialLatest` looks the tag up twice (`host_runtime.go:239`); when it
  moves in between, the version of one image is pinned with the digest of
  another (`moved` in `PinnedTogether`).

## Proofs

TLAPS proves, for every set of jobs, versions, callers and handlers, every chain
of releases, every release index and every bound:

| Module | Theorem | States |
|---|---|---|
| `Engine_proofs` | `Typing` | `Spec => []TypeOK` |
| | `RecoveryPointAlwaysHeld` | `Spec => []RecoveryPointHeld` |
| | `PhasesNeverGoBack` | `Spec => PhaseMonotone` |
| | `FinishedStaysFinished` | `Spec => TerminalIsFinal` |
| | `ReportsAlwaysTrue` | `Spec => ReportsAreTrue` |
| | `MutatesAfterCheckpoint` | `Spec => CheckpointBeforeMutation` |
| | `FailuresAreAttended` | `Spec => FailureIsAttended` |
| | `HalfRestoredIsDown` | `Spec => []HalfRestoredStaysDown` |
| | `OnlyRefusalsStall` | `Spec => OnlyRefusedCountsStall`: an active job advances, or its count is refused |
| | `BackupsAreQuiet` | `SystemSpec => []StoresAreQuiet` |
| | `SystemKeepsIntent` | `SystemSpec => IntentIsKept`: the composition implements `SystemIntent` |
| | `SystemHoldsInvariants` | `TypeOK`, `RecoveryPointHeld` of `SystemSpec` |
| | `SystemHalfRestoredIsDown` | `SystemSpec => []HalfRestoredStaysDown` |
| | `SystemReportsTrue` | `ReportsAreTrue`, `CheckpointBeforeMutation` of `SystemSpec` |
| | `SystemEndsJobs` | `PhaseMonotone`, `TerminalIsFinal`, `FailureIsAttended` of `SystemSpec` |
| | `SystemOnlyRefusalsStall` | `SystemSpec => OnlyRefusedCountsStall` |
| | `HopPointAlwaysHeld` | `LegacySpec => []HopPointHeld` |
| | `HopsOnlyGoForward` | `LegacySpec => HopsGoForward` |
| | `NoHopIsSkipped` | `LegacySpec => OneEdgeAtATime` |
| | `UnboundPlansFailClosed` | `LegacySpec => FailsClosed` |
| | `LegacyOnlyRefusalsStall` | `LegacySpec => OnlyRefusedCountsStallHops` |
| `BackupStore_proofs` | `SlotStaysSafe` | `Spec => []SlotIsSafe` |
| | `ImplementsSlot` | `Spec => RotationIsAtomic`: the rotation implements `RecoverySlot` |
| `StateFile_proofs` | `Typing` | `Spec => []TypeOK` |
| | `NilMeansDurable` | `Spec => []AnsweredIsDurable` |
| | `AlwaysLoads` | `Spec => []StartsAgain` |
| | `ImplementsRegister` | `Spec => StoreIsRegister`: the file implements `StateRegister` |
| `JobTicket_proofs` | `KeysKeepTheirJob` | `Spec => []OneJobPerKey` |
| | `BearersStayValid` | `Spec => []TicketsStayValid` |
| | `KnownKeysAreReplayed` | `Spec => []KnownKeyIsReplayed` |
| | `NoWakeUpIsLost` | `Spec => []WakeUpWaits` |
| `Watchdog_proofs` | `RepairIsExclusive` | `Spec => []RepairExclusive` |
| | `KeepsIntent` | `Spec => IntentIsKept`: `Watchdog` implements `SystemIntent` |
| | `BudgetIsKept` | `Spec => []SteadyBudget` |
| `HealthWindow_proofs` | `Typing` | `Spec => []TypeOK` |
| | `AcceptedMeansServed` | `Spec => []AcceptedWasServed` |
| | `BareIsLegacy` | `Spec => []BareOnlyForLegacy` |
| | `RestoredPassesAgain` | `Spec => []RestoredAsBackedUp` |
| `InitialPin_proofs` | `PinsOneImage` | `Spec => []PinnedTogether` |
| | `PinStaysDurable` | `Spec => []PinnedIsDurable` |
| `ReleaseIndex_proofs` | `PathsAreUnique` | `Spec => []UniqueOrRefused` |
| | `PlansAreValid` | `Spec => []PlanIsValid` |
| | `PlansAscend` | `Spec => []ResolvedAscends`: a resolved path goes up at every step |

*`JobEngine`.* The inductive invariant is `SafeInv`, of three layers, each proved
beside those below it. `TypeInv`: the file has its types and validates
(`FileInv`); when the engine is at a step, its job exists and has a status that
step belongs to (`EngineInv`, `StatusAt`); the host, the slot and the request
have their types (`HostInv`). `TypeOK` alone is not inductive: a record update
stays in its type only because the engine's job has versions and counted
attempts, and it does so because it is active. That one job is active at most,
and the desired state `upgrading` exactly then, is validated by every save; what
is proved is that no step changes the file except through a save, failing ones
and crashes included, and that no handler changes the job the engine works on
(`ControlTypes`). Saves of the engine's job go through
one lemma (`SavesTypes`), whose hypothesis `GoodSave` also says that the save
keeps the recovery point and never takes a phase back; there is one lemma per
action for that hypothesis. `PointInv`: a job past its checkpoint is the one
whose backup is in the slot (`Held`), and the archive under preparation fits the
job's version. `StageInv`: what the configured version, the server and the
stores are at each stage of a hop and of a restore, in the file (`JobFits`, which
survives a crash) and in the engine (`StageFits`, which a resumption establishes
again). The three action properties are proved action by action from `SafeInv`.
`HalfRestoredStaysDown` needs one layer more (`DownInv`): stores that are empty
while a job is past its checkpoint, although its backup is not (`Emptied`), are
so because that job is being rolled back, so neither an activation nor the
restart of another job can be the next to start the server; and only a restore
that has filled them does. A backup may archive what an earlier failed restore
left behind. Its recovery point is then no better, which the second part of
`DownInv` follows from the archive to the checkpoint.

*`HostSystem`.* `SystemInv` is `TypeInv` of `JobEngine`, `RepairInv` (a repair
holds the gate, and found the desired state `running` under it, so no handler
is between taking the gate and its save) and `StoresAreQuiet`. While the engine
is at a step the file says `upgrading`; a repair needs `running`; and the one
step that changes `running` to `upgrading` needs the gate, which the repair
has. The refinement maps the engine, the holder of the gate and the repair to
the three parties of `SystemIntent`. With `SystemInv` a repair finds no active
job (`RepairIsIdle`), so it disturbs no part of `SafeInv` or `DownInv`, and every
property of `JobEngine` holds of the composition as well.

*`LegacyJob`.* `LegacyInv` is `TypeInv` and `PointInv` of `JobEngine` with
`HopInv`: the job's current version is the plan's at the hop counter and its
target the plan's last, the configured version is that or the next one according to the phase (`HopFits`),
and the engine's place in the hop agrees (`HopStage`). `StageInv` is no part of
it: a resumption looks the hop up by the configured version
(`completedHopForVersion`), which is right because no version occurs twice in a
plan (`VersionTellsHop`). Jobs without a plan take `JobEngine`'s steps, and
`JobEngine`'s lemmas cover them. Both systems build on the lemmas of
`JobEngine`, hence one module for the three.

*The engine never stalls* (`OnlyRefusedCountsStall`, stated in `Engine_proofs`).
What the engine does with a job is ranked by the faults that were spent, the
attempts that were counted and the place of the step; a crash puts the engine
back, but spends a fault, and a restore that starts again counts. A step that
leaves a job active either is another party's, and leaves the job and the
engine alone, or is further in this order, or is the count after the third
attempt (`Refused`). Faults, attempts and places are bounded, so an engine whose
steps go on either ends its job or comes to that count: the safety half of
`RecoveryDecides`, which shows that finding 1 is the only way to stay active for
ever. The reason is that every save of the engine validates, so that only a
fault makes it fail. That needs `SafeInv` (a job that is rolled back must not be
past its target) and `CodeInv`: a failed record needs the code of its failure,
which is in memory between the failure and the save, and in the file while a job
is restarted. For a job with a plan (`OnlyRefusedCountsStallHops`) the complete
hops are counted between the attempts and the place; the save of a hop validates
because the target is the end of the plan (`HopFits`) and the plan ascends, and a
plan that lost its digests is resumed no earlier than before (`ResumeAhead`).

*`BackupStore`.* Every directory that a power loss may leave is sound (`Sound`):
what start-up would recover from it is flushed, complete, and not older than the
committed backup. That is kept because the staged backup is flushed before it is
renamed (`SlotStageInv` says so, step by step), and because the slot's images
agree before the old backup is deleted. The refinement maps the set of images to
the set of backups that start-up may find: each file operation keeps it, adds
the new one or settles it.

*`StateFile`.* The invariant relates the call that holds the mutex, at each of
its steps, to the file, its temporary and what a power loss may leave of them;
in particular all images agree whenever nobody holds the mutex after a settled
update. The refinement hides the temporary file and the lock.

*`JobTicket`.* In the file a key and its job name each other (`FileInv`); a
handler's checks still hold at its save because the gate has one holder
(`GateInv`), and a ticket that was answered is in its job (`TicketValid`), which
no save of another party removes. A request that found its key bound never
leaves the replay (`Replayed`). `WakeInv` follows the signal: it is set, or the
runner has not looked yet, or a handler is about to set it. `MintInv` counts:
each caller makes one bearer and one more for each fault, so the model's finite
set of bearers never runs out and no behaviour is cut off by it.

*`Watchdog`.* `GateInv` says that the operation mutex has the owner its holders'
program counters say, and that a repair that was confirmed under it still finds
the desired state `running`: only a handler that holds the mutex can change it
from `running`. `KeepsIntent` follows from it step by step (`StepIntent`). The
budget needs `RecordInv`, since attempts are recorded before their repairs, may
be refunded, and are dropped when they leave the window: each repair that ran,
counted from the last, is matched by a recorded attempt that is no earlier, or
has left the window by the time the attempts are read next (`Covered`,
`Horizon`); an attempt whose repair has not run yet does not count (`Pending`).

*`HealthWindow`.* `Inv` says how far an attempt is (`Progress`), that the streak
is the number of passed attempts (`Counts`), which mode belongs to which caller
(`Modes`), and that an accepted window was served (`Accepted`). `RestoreInv`
adds the recovery point: what was accepted at the backup (`Point`,
`SourceSeen`), that the host still answers so unless something outside changed
it (`Undisturbed`), and hence that the restored source passes
(`RestoredPasses`).

*`InitialPin`.* `FileInv`: the environment is whole, a power loss leaves it or
the `latest` that was there before, and nothing but the pin once the directory
is flushed. `ReadInv`: unless the tag moves, what has been read so far is of one
image; a container that runs another one than the tag fails the comparison.

*`ReleaseIndex`.* `Validate` compares neighbours; `IndexInv` says the same of all
pairs: releases are ascending, edges are in order and without duplicates, and
each goes up to a release that admits its source. So `visit`, which follows
edges, is well defined, and what holds of it is proved from the latest version
back: of the versions where a statement failed, the greatest would have only
successors where it holds (`GreatestElement`). Each path of `visit` is a chain of
published edges and each chain is one path's (`AllCorrespond`), hence there is
one path exactly when there is one chain (`OneChain`). `PathIsPlan` follows a
path through the manifests. `PlansAscend` is what `LegacyJob` assumes of a plan:
every release is newer than all before it.

The proofs rest on the assumptions about the constants, which the code
justifies or which name what the model's values are: `JobIdAssumption`,
`VersionAssumption`, `MaxFaultsAssumption`, `MaxHopsAssumption`, `BackupBounds`,
`StateFileAssumption`, `JobTicketBounds`, `NobodyIsNoClient`, `WatchdogBounds`,
`MutationAssumption`, `HandlerAssumption`, `HealthWindowBounds`,
`InitialPinAssumption` and `ReleaseIndexAssumption`. TLC evaluates each of them
in the runs.

Each invariant was checked by TLC on the run's instance before it was proved,
and the rankings likewise: `OnlyRefusedCountsStall` with two jobs, two versions
and two faults, `OnlyRefusedCountsStallHops` with the constants of the run
`LegacyJob`. The proofs changed the models where these were wrong or said less
than they meant:

* `Watchdog`: a save of the attempts that fails after its rename was allowed to
  leave a record that does not validate; `Update` validates before it writes.
* `LegacyJob`: it starts with one job, also when `JobId` has more; before, each
  of them was active. `Plan` says that every release is newer than all before
  it; from neighbour to neighbour the prover would need an induction.
  `PlansAscend` proves that resolved paths make such plans.
* `ReleaseIndex`: `visit` is a function from versions to sets of paths; of a
  recursive operator nothing could be proved. That the code stops at the second
  path makes no difference: what is asked is whether there is none, one or more.
* Two `CASE` expressions, in `Resume` of `JobEngine` and `Preflight` of
  `JobTicket`, had arms that overlap. TLC takes the first, the language leaves
  it open; the arms now exclude each other.
* `recentWatchdogAttempts` is the suffix after the last old attempt, which is
  what the loop's filter leaves of attempts in order, and can be reasoned about.

Only model-checked is liveness, since fairness and `ENABLED` are out of the
prover's reach: `RecoveryDecides`, `RetriesEnd`, `RecoveryEnds`,
`FailuresDecide`, `EveryCallReturns`, `SuppressionSettles`, `MutationProceeds`.

`BackupStore`, `JobTicket`, `LegacyJob`, `Watchdog` and `InitialPin` state their
type invariant as a part of their first property (`SlotIsSafe`, `OneJobPerKey`,
`HopPointHeld`, `SteadyBudget`, `PinnedIsDurable`), and it is proved with it.

## Not modelled, and why

* The full watchdog and the full engine in one module: their product is too
  large for TLC. `HostSystem` has the full engine with its routes and of the
  watchdog the repairs; `Watchdog` has the engine's effect on the desired state.
  Both implement `SystemIntent`.
* Configuration, tokens, socket, platform, build tools: checks at start-up or
  off-line, without state.
* Encoding, hashes, URLs, schema and client ranges of the release index and of
  the direct contract: pure checks of single values. `InspectDirectSource` is
  called by tests only.
* `Save` of the state store (tests only), migration of older schemas, and the
  syntax of identifiers.
* Corruption by the disk, and a file system that reorders operations within one
  directory.
* The contents of the four archives: one value `data`, `Mixed` when they do not
  belong together.
* The read-only routes: they format one snapshot.
* A restart of Docker or of the host while the server is stopped, and what
  Docker's own restart policy then does.
* A shutdown as such: it is a crash, except that the command in progress fails.

Three hazards have no property. The code does not provide that a restart which
is offered can succeed (`host_runtime.go:690`); the health probes do not compare
the stores (`host_runtime.go:697`), so a restart after a failed recovery is
accepted on what the server itself reports; and nothing written bounds the
bearers of a job (`http.go:387`).

## Plan

Done: the engine and its slot, the watchdog and its gate, and their composition
under `SystemIntent`; legacy jobs; tickets and the runner; the clock; the state
file under `StateRegister`; health windows; initial pinning; the release index.

Proved: every safety property of the passing runs, every refinement, and of the
engine's liveness the ranking it rests on.

Left: `HopPointHeld` beside the watchdog's repairs. `RepairIsIdle` covers it once
`HostSystem` is instantiated with `LegacyJob`'s engine.
