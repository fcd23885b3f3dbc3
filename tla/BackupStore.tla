----------------------------- MODULE BackupStore -----------------------------
(***************************************************************************)
(* The single-slot backup directory: Begin, Commit (retire, install,       *)
(* clean up), Recover and Discard, one action per file system operation,   *)
(* with process crashes and power losses between any two of them.          *)
(*                                                                         *)
(* Directory changes reach the disk in the order they were made, at the    *)
(* latest at the next successful fsync of the root (journalling file       *)
(* system, external): images holds the states a power loss may leave.      *)
(***************************************************************************)
EXTENDS Naturals

CONSTANTS
    MaxGen,     \* backups that are ever begun
    MaxFaults   \* crashes, power losses and failing operations

ASSUME BackupBounds == MaxGen \in Nat /\ MaxFaults \in Nat

Gen == 1..MaxGen

VARIABLES
    dir,        \* the directory as the process sees it
    images,     \* directories a power loss may leave
    synced,     \* backups whose files and entries were fsynced
    pc, gen,    \* the running operation and the backup it handles
    booting,    \* Recover was called by runServer, not by Commit
    reply,      \* what the last Commit returned
    committed,  \* the last backup whose Commit returned nil
    begun,      \* backups begun so far
    faults

vars == <<dir, images, synced, pc, gen, booting, reply, committed, begun,
          faults>>

Directory == [current : Gen \union {0}, retiring : Gen \union {0},
              staging : SUBSET Gen,     \* .staging-* directories
              damaged : SUBSET Gen]     \* backups that lack some file

Steps == {"idle", "down", "write", "validate", "sync_files", "sync_staging",
          "look", "retire", "retire_sync", "install", "install_sync", "unlink",
          "rmdir", "cleanup_sync", "recover", "recover_unlink",
          "recover_rmdir", "recover_staging", "recover_sync", "recheck",
          "discard", "discard_sync"}

TypeOK ==
    /\ dir \in Directory
    /\ images \in SUBSET Directory /\ dir \in images
    /\ synced \in SUBSET Gen
    /\ pc \in Steps
    /\ gen \in Gen \union {0}
    /\ booting \in BOOLEAN
    /\ reply \in {"none", "ok", "error"}
    /\ committed \in Gen \union {0}
    /\ begun \in 0..MaxGen
    /\ faults \in 0..MaxFaults

Init ==
    /\ dir = [current |-> 0, retiring |-> 0, staging |-> {}, damaged |-> {}]
    /\ images = {dir}
    /\ synced = {}
    /\ pc = "idle"
    /\ gen = 0
    /\ booting = FALSE
    /\ reply = "none"
    /\ committed = 0
    /\ begun = 0
    /\ faults = 0

-----------------------------------------------------------------------------
Goto(s) == pc' = s /\ UNCHANGED <<gen, booting, reply, committed, begun>>

\* One step of pc `from`: Done, or a counted failure continued by Failed.
Step(from, Done, Failed) ==
    /\ pc = from
    /\ \/ Done /\ UNCHANGED faults
       \/ /\ faults < MaxFaults
          /\ faults' = faults + 1
          /\ Failed

Change(d) == dir' = d /\ images' = images \union {d} /\ UNCHANGED synced
NoChange == UNCHANGED <<dir, images, synced>>

\* syncDirectory(root): every change made so far is on the disk.
SyncRoot(Ok, Err) ==
    \/ images' = {dir} /\ UNCHANGED <<dir, synced, faults>> /\ Ok
    \/ /\ faults < MaxFaults
       /\ faults' = faults + 1
       /\ NoChange /\ Err

\* Commit fails; PrepareDirectBackup still owns the staging directory.
CommitFails == pc' = "discard" /\ reply' = "error"
                 /\ UNCHANGED <<gen, booting, committed, begun>>

RecoverCommit == pc' = "recover" /\ booting' = FALSE
                   /\ UNCHANGED <<gen, reply, committed, begun>>

Committed == /\ pc' = "idle" /\ reply' = "ok" /\ committed' = gen /\ gen' = 0
             /\ UNCHANGED <<booting, begun>>

-----------------------------------------------------------------------------
(***************************************************************************)
(* Begin, then the artifacts and metadata.json (PrepareDirectBackup); an   *)
(* archive may be cut short unnoticed.                                     *)
(***************************************************************************)
Begin ==
    /\ pc = "idle"
    /\ begun < MaxGen
    /\ begun' = begun + 1
    /\ gen' = begun + 1
    /\ reply' = "none"
    /\ pc' = "write"
    /\ Change([dir EXCEPT !.staging = @ \union {begun + 1}])
    /\ UNCHANGED <<booting, committed, faults>>

Write ==
    Step("write", NoChange /\ Goto("validate"),
         \/ NoChange /\ CommitFails
         \/ Change([dir EXCEPT !.damaged = @ \union {gen}]) /\ Goto("validate"))

(***************************************************************************)
(* Commit                                                                  *)
(***************************************************************************)
\* validateBackupDirectory; a bad staging directory is removed by the caller
\* again, so removing it here makes no difference.
Validate ==
    Step("validate",
         NoChange /\ IF gen \in dir.damaged THEN CommitFails
                     ELSE Goto("sync_files"),
         NoChange /\ CommitFails)

SyncFiles == Step("sync_files", NoChange /\ Goto("sync_staging"),
                  NoChange /\ CommitFails)

\* Mutant: the staging directory is installed without its fsync.
SyncNothing == pc = "sync_staging" /\ NoChange /\ Goto("look") /\ UNCHANGED faults

SyncStaging ==
    Step("sync_staging",
         /\ synced' = synced \union {gen} /\ UNCHANGED <<dir, images>>
         /\ Goto("look"),
         NoChange /\ CommitFails)

Look ==
    Step("look",
         /\ NoChange
         /\ IF dir.retiring # 0 THEN CommitFails
            ELSE IF dir.current # 0 THEN Goto("retire") ELSE Goto("install"),
         NoChange /\ CommitFails)

Retire ==
    Step("retire",
         /\ Change([dir EXCEPT !.retiring = dir.current, !.current = 0])
         /\ Goto("retire_sync"),
         NoChange /\ CommitFails)

RetireSync ==
    pc = "retire_sync" /\ SyncRoot(Goto("install"), RecoverCommit)

Install ==
    Step("install",
         /\ Change([dir EXCEPT !.current = gen, !.staging = @ \ {gen}])
         /\ Goto("install_sync"),
         NoChange /\ RecoverCommit)

InstallSync ==
    /\ pc = "install_sync"
    /\ SyncRoot(IF dir.retiring # 0 THEN Goto("unlink")
                ELSE Goto("cleanup_sync"), RecoverCommit)

\* os.RemoveAll(retiring): its files first, the directory last.
Unlink ==
    Step("unlink",
         /\ Change([dir EXCEPT !.damaged = @ \union {dir.retiring}])
         /\ Goto("rmdir"),
         NoChange /\ RecoverCommit)

Rmdir ==
    Step("rmdir", Change([dir EXCEPT !.retiring = 0]) /\ Goto("cleanup_sync"),
         NoChange /\ RecoverCommit)

CleanupSync == pc = "cleanup_sync" /\ SyncRoot(Committed, RecoverCommit)

(***************************************************************************)
(* Recover, from runServer or from a failed Commit.  Its failure ends the  *)
(* process or the Commit; a cancelled context fails it at the first step.  *)
(***************************************************************************)
RecoverFails ==
    IF booting THEN Goto("down") ELSE CommitFails

\* Mutant: a retiring backup is left when there is a current one.
RecoverPartly ==
    Step("recover",
         IF dir.retiring = 0 \/ dir.current # 0
         THEN NoChange /\ Goto("recover_staging")
         ELSE /\ Change([dir EXCEPT !.current = dir.retiring, !.retiring = 0])
              /\ Goto("recover_staging"),
         NoChange /\ RecoverFails)

Recover ==
    Step("recover",
         IF dir.retiring = 0 THEN NoChange /\ Goto("recover_staging")
         ELSE IF dir.current # 0 THEN NoChange /\ Goto("recover_unlink")
         ELSE /\ Change([dir EXCEPT !.current = dir.retiring, !.retiring = 0])
              /\ Goto("recover_staging"),
         NoChange /\ RecoverFails)

RecoverUnlink ==
    Step("recover_unlink",
         /\ Change([dir EXCEPT !.damaged = @ \union {dir.retiring}])
         /\ Goto("recover_rmdir"),
         NoChange /\ RecoverFails)

RecoverRmdir ==
    Step("recover_rmdir",
         Change([dir EXCEPT !.retiring = 0]) /\ Goto("recover_staging"),
         NoChange /\ RecoverFails)

RecoverStaging ==
    Step("recover_staging",
         /\ Change([dir EXCEPT !.staging = {},
                               !.damaged = @ \union dir.staging])
         /\ Goto("recover_sync"),
         NoChange /\ RecoverFails)

RecoverSync ==
    /\ pc = "recover_sync"
    /\ SyncRoot(IF booting THEN Goto("idle") ELSE Goto("recheck"),
                RecoverFails)

\* recoverCommitFailure: nil when the recovered slot is the expected backup.
\* Mutant: the recovered slot is taken for the new backup.
RecheckNothing ==
    Step("recheck", NoChange /\ Committed, NoChange /\ CommitFails)

Recheck ==
    Step("recheck",
         NoChange /\ IF dir.current = gen /\ gen \notin dir.damaged
                     THEN Committed ELSE CommitFails,
         NoChange /\ CommitFails)

(***************************************************************************)
(* Discard: the deferred removal of a staging directory still owned.       *)
(***************************************************************************)
Discarded == /\ pc' = "idle" /\ gen' = 0
             /\ UNCHANGED <<booting, reply, committed, begun>>

Discard ==
    Step("discard",
         /\ Change([dir EXCEPT !.staging = @ \ {gen},
                               !.damaged = @ \union ({gen} \cap dir.staging)])
         /\ Goto("discard_sync"),
         NoChange /\ Discarded)

DiscardSync == pc = "discard_sync" /\ SyncRoot(Discarded, Discarded)

-----------------------------------------------------------------------------
(***************************************************************************)
(* The process stops, or the machine does; then runServer calls Recover.   *)
(***************************************************************************)
Stopped ==
    /\ pc # "down"
    /\ faults < MaxFaults
    /\ faults' = faults + 1
    /\ pc' = "down"
    /\ gen' = 0
    /\ reply' = "none"
    /\ UNCHANGED <<committed, begun, booting>>

Crash == Stopped /\ NoChange

PowerLoss ==
    /\ Stopped
    /\ \E d \in images :
        /\ dir' = [d EXCEPT !.damaged = @ \union ((1..begun) \ synced)]
        /\ images' = {dir'}
    /\ UNCHANGED synced

Boot ==
    /\ pc = "down"
    /\ pc' = "recover"
    /\ booting' = TRUE
    /\ NoChange
    /\ UNCHANGED <<gen, reply, committed, begun, faults>>

StoreStep ==
    \/ Write \/ Validate \/ SyncFiles \/ SyncStaging \/ Look \/ Retire
    \/ RetireSync \/ Install \/ InstallSync \/ Unlink \/ Rmdir \/ CleanupSync
    \/ Recover \/ RecoverUnlink \/ RecoverRmdir \/ RecoverStaging
    \/ RecoverSync \/ Recheck \/ Discard \/ DiscardSync

Next == Begin \/ StoreStep \/ Crash \/ PowerLoss \/ Boot

Spec == Init /\ [][Next]_vars

\* With MaxGen backups begun an idle store has nothing left to do: the runs do
\* not look for deadlocks, RecoveryEnds does.
\*
\* File operations return, and systemd starts the process again (external).
FairSpec == Spec /\ WF_vars(StoreStep) /\ WF_vars(Boot)

-----------------------------------------------------------------------------
(***************************************************************************)
(* Properties                                                              *)
(***************************************************************************)
\* The backup that Recover makes current in directory d.
Recoverable(d) == IF d.current # 0 THEN d.current ELSE d.retiring

\* Whatever stops, and wherever, the start-up that follows finds a complete
\* backup that is no older than the last one whose Commit returned nil.
PointNeverLost ==
    \A d \in images :
        /\ Recoverable(d) >= committed
        /\ Recoverable(d) # 0 => Recoverable(d) \notin d.damaged

\* When Commit has returned nil, the new backup alone occupies the slot, on the
\* disk too: not even a power loss brings the old one back.
CommitIsSettled ==
    reply = "ok" => \A d \in images :
        d.current = committed /\ d.retiring = 0

\* The slot keeps a committed backup through every stop, and settles a new one
\* before Commit answers.
SlotIsSafe == TypeOK /\ PointNeverLost /\ CommitIsSettled

\* The rotation implements one recovery point that is replaced as a whole.
Slot == INSTANCE RecoverySlot WITH
    points <- {Recoverable(d) : d \in images},
    attempt <- gen
RotationIsAtomic == Slot!SlotSpec

\* With finitely many faults a stopped updater is ready again, its directory
\* free of staging and retiring leftovers.
RecoveryEnds == pc = "down" ~> (pc = "idle" /\ dir.retiring = 0)
=============================================================================
