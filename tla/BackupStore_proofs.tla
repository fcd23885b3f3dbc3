-------------------------- MODULE BackupStore_proofs --------------------------
(***************************************************************************)
(* The backup slot keeps a committed recovery point and implements the     *)
(* abstract slot, for any number of backups and of faults.                 *)
(***************************************************************************)
EXTENDS BackupStore, TLAPS

-----------------------------------------------------------------------------
(***************************************************************************)
(* The inductive invariant.                                                *)
(***************************************************************************)
\* A directory a start-up may find: its backup is flushed, complete and not
\* older than the committed one, and no backup has two names.
Sound(d) ==
    /\ d \in Directory
    /\ Recoverable(d) >= committed
    /\ Recoverable(d) # 0 => Recoverable(d) \in synced \ d.damaged
    /\ d.current = d.retiring => d.current = 0
    /\ d.current \notin d.staging /\ d.retiring \notin d.staging
    /\ d.current <= begun /\ d.retiring <= begun

AllSound == \A d \in images : Sound(d)

\* The steps of Commit, by what was reached before them.
StagedSteps == {"write", "validate", "sync_files", "sync_staging", "look",
                "retire", "retire_sync", "install"}
CheckedSteps == StagedSteps \ {"write", "validate"}
SyncedSteps == CheckedSteps \ {"sync_files", "sync_staging"}
InstalledSteps == {"install_sync", "unlink", "rmdir", "cleanup_sync"}
RecoverSteps == {"recover", "recover_unlink", "recover_rmdir",
                 "recover_staging", "recover_sync"}

\* The backup an operation handles is the youngest one, not yet committed.
AttemptInv ==
    /\ gen # 0 => gen = begun /\ committed < gen
    /\ committed <= begun
    /\ pc \in {"idle", "down"} => gen = 0
    /\ pc \in RecoverSteps => (gen = 0 <=> booting)
    /\ pc \notin RecoverSteps \union {"idle", "down"} => gen # 0
    /\ reply = "ok" => pc = "idle"

\* What the operation has reached when it stands at a step.
SlotStageInv ==
    /\ pc \in StagedSteps => gen \in dir.staging
    /\ pc \in CheckedSteps => gen \notin dir.damaged
    /\ pc \in SyncedSteps => gen \in synced
    /\ pc = "retire" => dir.current # 0 /\ dir.retiring = 0
    /\ pc \in {"retire_sync", "install"} => dir.current = 0
    /\ pc \in InstalledSteps => dir.current = gen
    /\ pc \in InstalledSteps \ {"install_sync"} =>
            \A d \in images : d.current = gen
    /\ pc \in {"unlink", "rmdir"} => dir.retiring # 0
    /\ pc = "cleanup_sync" => dir.retiring = 0
    /\ pc \in {"recover_unlink", "recover_rmdir"} =>
            dir.current # 0 /\ dir.retiring # 0
    /\ pc \in {"recover_staging", "recover_sync", "recheck"} =>
            dir.retiring = 0
    /\ pc = "recheck" => images = {dir}

Inv == TypeOK /\ AllSound /\ AttemptInv /\ SlotStageInv /\ CommitIsSettled

USE BackupBounds

-----------------------------------------------------------------------------
(***************************************************************************)
(* The directories a step leaves.                                          *)
(***************************************************************************)
\* The backups the next start-up may find.
Points == {Recoverable(d) : d \in images}

\* What a step may do to the directories: it makes one new sound directory, or
\* leaves fewer that a power loss may restore.  Only the attempted backup may
\* become recoverable.
DirStep ==
    /\ Sound(dir')
    /\ Recoverable(dir') \in Points \/ (gen # 0 /\ Recoverable(dir') = gen)
    /\ dir' \in images'
    /\ images' \subseteq images \union {dir'}
    /\ synced' \in SUBSET Gen /\ synced \subseteq synced'

\* The operation may go on from the same directory.
LEMMA NothingChanged ==
    ASSUME Inv, NoChange
    PROVE  DirStep
<1>1. Recoverable(dir) \in Points
      BY DEF Points, Inv, TypeOK
<1>2. QED BY <1>1 DEF Inv, NoChange, DirStep, AllSound, TypeOK

\* syncDirectory(root) leaves the directory the process sees.
LEMMA RootSynced ==
    ASSUME Inv, NEW Ok, NEW Err, SyncRoot(Ok, Err)
    PROVE  DirStep
<1>1. Recoverable(dir) \in Points
      BY DEF Points, Inv, TypeOK
<1>2. QED BY <1>1 DEF Inv, SyncRoot, NoChange, DirStep, AllSound, TypeOK

\* A change adds the new directory.
LEMMA DirChanged ==
    ASSUME Inv, NEW d, Change(d), Sound(d),
           \/ Recoverable(d) = Recoverable(dir)
           \/ gen # 0 /\ Recoverable(d) = gen
    PROVE  DirStep
<1>1. Recoverable(dir) \in Points
      BY DEF Points, Inv, TypeOK
<1>2. QED BY <1>1 DEF Inv, Change, DirStep, AllSound, TypeOK

\* A change that keeps the recoverable backup and its files.
LEMMA SlotKept ==
    ASSUME Inv, NEW d \in Directory,
           d.current = dir.current,
           d.retiring = dir.retiring \/ (dir.current # 0 /\ d.retiring = 0),
           d.staging \subseteq dir.staging,
           Recoverable(dir) # 0 => Recoverable(dir) \notin d.damaged
    PROVE  Sound(d) /\ Recoverable(d) = Recoverable(dir)
<1>1. Sound(dir) /\ begun \in Nat
      BY DEF Inv, AllSound, TypeOK
<1>2. Recoverable(d) = Recoverable(dir)
      BY DEF Recoverable
<1>3. d.current = d.retiring => d.current = 0
      BY <1>1 DEF Sound
<1>4. d.current \notin d.staging /\ d.retiring \notin d.staging
      BY <1>1 DEF Sound, Directory, Gen
<1>5. d.current <= begun /\ d.retiring <= begun
      BY <1>1 DEF Sound
<1>6. QED BY <1>1, <1>2, <1>3, <1>4, <1>5 DEF Sound

\* One step per action that changes a directory.
LEMMA StepDirs == Inv /\ Next => DirStep
<1> SUFFICES ASSUME Inv, Next PROVE DirStep
    OBVIOUS
<1>0. /\ Sound(dir) /\ dir \in Directory /\ gen \in Nat /\ committed \in Nat
      /\ begun \in Nat /\ MaxGen \in Nat
    BY BackupBounds DEF Inv, AllSound, TypeOK, Sound, Gen
<1> USE DEF Step
<1>1. CASE Begin
  <2> DEFINE d == [dir EXCEPT !.staging = @ \union {begun + 1}]
  <2>1. /\ d.current = dir.current /\ d.retiring = dir.retiring
        /\ d.staging = dir.staging \union {begun + 1} /\ d.damaged = dir.damaged
        BY <1>0 DEF Directory
  <2>2. d \in Directory
        BY <1>0, <1>1 DEF Directory, Begin, Gen
  <2>0. Change(d)
        BY <1>1 DEF Begin
  <2>3. begun + 1 # d.current /\ begun + 1 # d.retiring
        BY <1>0, <2>1 DEF Sound, Directory, Gen
  <2> HIDE DEF d
  <2>4. d.current \notin d.staging /\ d.retiring \notin d.staging
        BY <1>0, <2>1, <2>3 DEF Sound
  <2>5. Recoverable(d) = Recoverable(dir)
        BY <2>1 DEF Recoverable
  <2>6. d.current <= begun /\ d.retiring <= begun
        BY <1>0, <2>1 DEF Sound
  <2>7. Sound(d)
        BY <1>0, <2>1, <2>2, <2>4, <2>5, <2>6 DEF Sound
  <2>8. QED BY <2>0, <2>5, <2>7, DirChanged
<1>2. CASE Write
  <2>1. CASE NoChange
        BY <2>1, NothingChanged
  <2> DEFINE d == [dir EXCEPT !.damaged = @ \union {gen}]
  <2>2. CASE Change(d)
    <3>1. gen \in dir.staging
          BY <1>2 DEF Write, Inv, SlotStageInv, StagedSteps
    <3>2. /\ d \in Directory /\ d.current = dir.current
          /\ d.retiring = dir.retiring /\ d.staging = dir.staging
          /\ d.damaged = dir.damaged \union {gen}
          BY <1>0, <3>1 DEF Directory
    <3> HIDE DEF d
    <3>3. Recoverable(dir) # 0 => Recoverable(dir) \notin d.damaged
          BY <1>0, <3>1, <3>2 DEF Sound, Recoverable
    <3>4. Sound(d) /\ Recoverable(d) = Recoverable(dir)
          BY <3>2, <3>3, SlotKept
    <3>5. QED BY <2>2, <3>4, DirChanged
  <2>3. QED BY <1>2, <2>1, <2>2 DEF Write
<1>3. CASE Install
  <2>1. CASE NoChange
        BY <2>1, NothingChanged
  <2> DEFINE d == [dir EXCEPT !.current = gen, !.staging = @ \ {gen}]
  <2>2. CASE Change(d) /\ pc = "install"
    <3>1. gen \in dir.staging /\ dir.current = 0 /\ gen \in synced \ dir.damaged
          /\ gen # 0 /\ committed < gen /\ gen <= begun
          BY <2>2, <1>0
             DEF Inv, AttemptInv, SlotStageInv, StagedSteps, CheckedSteps,
                 SyncedSteps, RecoverSteps
    <3>2. /\ d \in Directory /\ d.current = gen
          /\ d.retiring = dir.retiring /\ d.staging = dir.staging \ {gen}
          /\ d.damaged = dir.damaged
          BY <1>0, <3>1 DEF Directory
    <3> HIDE DEF d
    <3>3. Recoverable(d) = gen
          BY <1>0, <3>1, <3>2 DEF Recoverable
    <3>4. Sound(d)
          BY <1>0, <3>1, <3>2, <3>3 DEF Sound
    <3>5. QED BY <2>2, <3>1, <3>3, <3>4, DirChanged
  <2>3. QED BY <1>3, <2>1, <2>2 DEF Install
<1>4. CASE RecoverUnlink \/ Unlink
  <2>1. CASE NoChange
        BY <2>1, NothingChanged
  <2> DEFINE d == [dir EXCEPT !.damaged = @ \union {dir.retiring}]
  <2>2. CASE Change(d)
    <3>1. dir.current # 0 /\ dir.retiring # 0
          BY <1>0, <1>4
             DEF Unlink, RecoverUnlink, Inv, AttemptInv, SlotStageInv,
                 InstalledSteps, RecoverSteps
    <3>2. /\ d \in Directory /\ d.current = dir.current
          /\ d.retiring = dir.retiring /\ d.staging = dir.staging
          /\ d.damaged = dir.damaged \union {dir.retiring}
          BY <1>0, <3>1 DEF Directory
    <3> HIDE DEF d
    <3>3. Recoverable(dir) \notin d.damaged
          BY <1>0, <3>1, <3>2 DEF Sound, Recoverable
    <3>4. Sound(d) /\ Recoverable(d) = Recoverable(dir)
          BY <3>2, <3>3, SlotKept
    <3>5. QED BY <2>2, <3>4, DirChanged
  <2>3. QED BY <1>4, <2>1, <2>2 DEF RecoverUnlink, Unlink
<1>5. CASE RecoverStaging
  <2>1. CASE NoChange
        BY <2>1, NothingChanged
  <2> DEFINE d == [dir EXCEPT !.staging = {}, !.damaged = @ \union dir.staging]
  <2>2. CASE Change(d)
    <3>2. /\ d \in Directory /\ d.current = dir.current
          /\ d.retiring = dir.retiring /\ d.staging = {}
          /\ d.damaged = dir.damaged \union dir.staging
          BY <1>0 DEF Directory
    <3> HIDE DEF d
    <3>3. Recoverable(dir) # 0 => Recoverable(dir) \notin d.damaged
          BY <1>0, <3>2 DEF Sound, Recoverable
    <3>4. Sound(d) /\ Recoverable(d) = Recoverable(dir)
          BY <3>2, <3>3, SlotKept
    <3>5. QED BY <2>2, <3>4, DirChanged
  <2>3. QED BY <1>5, <2>1, <2>2 DEF RecoverStaging
<1>6. CASE Discard
  <2>1. CASE NoChange
        BY <2>1, NothingChanged
  <2> DEFINE d == [dir EXCEPT !.staging = @ \ {gen},
                              !.damaged = @ \union ({gen} \cap dir.staging)]
  <2>2. CASE Change(d)
    <3>2. /\ d \in Directory /\ d.current = dir.current
          /\ d.retiring = dir.retiring /\ d.staging = dir.staging \ {gen}
          /\ d.damaged = dir.damaged \union ({gen} \cap dir.staging)
          BY <1>0 DEF Directory
    <3> HIDE DEF d
    <3>3. Recoverable(dir) # 0 => Recoverable(dir) \notin d.damaged
          BY <1>0, <3>2 DEF Sound, Recoverable
    <3>4. Sound(d) /\ Recoverable(d) = Recoverable(dir)
          BY <3>2, <3>3, SlotKept
    <3>5. QED BY <2>2, <3>4, DirChanged
  <2>3. QED BY <1>6, <2>1, <2>2 DEF Discard
<1>7. CASE Retire
  <2>1. CASE NoChange
        BY <2>1, NothingChanged
  <2> DEFINE d == [dir EXCEPT !.retiring = dir.current, !.current = 0]
  <2>2. CASE Change(d) /\ pc = "retire"
    <3>1. dir.current # 0 /\ dir.retiring = 0
          BY <2>2 DEF Inv, SlotStageInv
    <3>2. /\ d \in Directory /\ d.current = 0
          /\ d.retiring = dir.current /\ d.staging = dir.staging
          /\ d.damaged = dir.damaged
          BY <1>0 DEF Directory
    <3> HIDE DEF d
    <3>3. Recoverable(d) = Recoverable(dir)
          BY <3>1, <3>2 DEF Recoverable
    <3>4. Sound(d)
          BY <1>0, <3>1, <3>2, <3>3 DEF Sound, Gen, Directory
    <3>5. QED BY <2>2, <3>3, <3>4, DirChanged
  <2>3. QED BY <1>7, <2>1, <2>2 DEF Retire
<1>8. CASE Recover
  <2>1. CASE NoChange
        BY <2>1, NothingChanged
  <2> DEFINE d == [dir EXCEPT !.current = dir.retiring, !.retiring = 0]
  <2>2. CASE Change(d) /\ dir.current = 0 /\ dir.retiring # 0
    <3>2. /\ d \in Directory /\ d.current = dir.retiring
          /\ d.retiring = 0 /\ d.staging = dir.staging
          /\ d.damaged = dir.damaged
          BY <1>0 DEF Directory
    <3> HIDE DEF d
    <3>3. Recoverable(d) = Recoverable(dir)
          BY <2>2, <3>2 DEF Recoverable
    <3>4. Sound(d)
          BY <1>0, <2>2, <3>2, <3>3 DEF Sound, Gen, Directory
    <3>5. QED BY <2>2, <3>3, <3>4, DirChanged
  <2>3. QED BY <1>8, <2>1, <2>2 DEF Recover
<1>9. CASE Rmdir \/ RecoverRmdir
  <2>1. CASE NoChange
        BY <2>1, NothingChanged
  <2> DEFINE d == [dir EXCEPT !.retiring = 0]
  <2>2. CASE Change(d)
    <3>1. dir.current # 0
          BY <1>0, <1>9
             DEF Rmdir, RecoverRmdir, Inv, AttemptInv, SlotStageInv,
                 InstalledSteps, RecoverSteps
    <3>2. /\ d \in Directory /\ d.current = dir.current
          /\ d.retiring = 0 /\ d.staging = dir.staging
          /\ d.damaged = dir.damaged
          BY <1>0 DEF Directory
    <3> HIDE DEF d
    <3>4. Sound(d) /\ Recoverable(d) = Recoverable(dir)
          BY <1>0, <3>1, <3>2, SlotKept DEF Sound
    <3>5. QED BY <2>2, <3>4, DirChanged
  <2>3. QED BY <1>9, <2>1, <2>2 DEF Rmdir, RecoverRmdir
<1>10. CASE SyncStaging
  <2>1. CASE NoChange
        BY <2>1, NothingChanged
  <2>2. CASE synced' = synced \union {gen} /\ UNCHANGED <<dir, images>>
    <3>1. gen \in Gen
          BY <1>10 DEF SyncStaging, Inv, AttemptInv, TypeOK, RecoverSteps
    <3>2. Recoverable(dir) \in Points
          BY DEF Points, Inv, TypeOK
    <3>3. QED BY <1>0, <2>2, <3>1, <3>2 DEF DirStep, Inv, TypeOK
  <2>3. QED BY <1>10, <2>1, <2>2 DEF SyncStaging
<1>11. CASE PowerLoss
  <2> PICK d \in images :
            /\ dir' = [d EXCEPT !.damaged = @ \union ((1..begun) \ synced)]
            /\ images' = {dir'}
      BY <1>11 DEF PowerLoss
  <2>1. d \in Directory /\ Sound(d)
        BY DEF Inv, TypeOK, AllSound
  <2>2. /\ dir' \in Directory /\ dir'.current = d.current
        /\ dir'.retiring = d.retiring /\ dir'.staging = d.staging
        /\ dir'.damaged = d.damaged \union ((1..begun) \ synced)
        BY <1>0, <2>1 DEF Directory, Inv, TypeOK, Gen
  <2>3. Recoverable(dir') = Recoverable(d)
        BY <2>2 DEF Recoverable
  <2>4. Sound(dir')
        BY <1>0, <2>1, <2>2, <2>3 DEF Sound
  <2>5. Recoverable(dir') \in Points
        BY <2>3 DEF Points
  <2>6. QED BY <1>11, <2>4, <2>5 DEF DirStep, PowerLoss, Inv, TypeOK
<1>12. CASE \/ Validate \/ SyncFiles \/ Look \/ Recheck \/ Crash \/ Boot
  <2>1. NoChange
        BY <1>12 DEF Validate, SyncFiles, Look, Recheck, Crash, Boot
  <2>2. QED BY <2>1, NothingChanged
<1>13. CASE \/ RetireSync \/ InstallSync \/ CleanupSync \/ RecoverSync
            \/ DiscardSync
       BY <1>13, RootSynced
          DEF RetireSync, InstallSync, CleanupSync, RecoverSync, DiscardSync
<1>14. QED
  BY <1>1, <1>2, <1>3, <1>4, <1>5, <1>6, <1>7, <1>8, <1>9, <1>10, <1>11, <1>12,
     <1>13
     DEF Next, StoreStep

-----------------------------------------------------------------------------
(***************************************************************************)
(* What a step leaves besides the directories.                             *)
(***************************************************************************)
\* The types, for any step of an operation, stop or start.
LEMMA StepTyped == Inv /\ Next => TypeOK'
<1> SUFFICES ASSUME Inv, Next PROVE TypeOK'
    OBVIOUS
<1>1. /\ dir' \in Directory /\ images' \in SUBSET Directory /\ dir' \in images'
      /\ synced' \in SUBSET Gen
      BY StepDirs DEF DirStep, Sound, Inv, TypeOK
<1> USE DEF Step, Goto, NoChange, Change, SyncRoot, CommitFails, RecoverCommit,
            RecoverFails, Committed, Discarded, Stopped
<1> USE DEF Next, StoreStep, Begin, Write, Validate, SyncFiles, SyncStaging,
            Look, Retire, RetireSync, Install, InstallSync, Unlink, Rmdir,
            CleanupSync, Recover, RecoverUnlink, RecoverRmdir, RecoverStaging,
            RecoverSync, Recheck, Discard, DiscardSync, Crash, PowerLoss, Boot
<1>2. faults' \in 0..MaxFaults
      BY BackupBounds DEF Inv, TypeOK
<1>3. booting' \in BOOLEAN /\ reply' \in {"none", "ok", "error"}
      BY DEF Inv, TypeOK
<1>4. begun' \in 0..MaxGen /\ gen' \in Gen \union {0}
      BY BackupBounds DEF Inv, TypeOK, Gen
<1>5. committed' \in Gen \union {0}
      BY DEF Inv, TypeOK
<1>6. pc' \in Steps
      BY DEF Steps
<1>7. QED BY <1>1, <1>2, <1>3, <1>4, <1>5, <1>6 DEF TypeOK

\* Only a fresh backup is attempted, and it stays the youngest.
LEMMA StepAttempt == Inv /\ Next => AttemptInv'
<1> SUFFICES ASSUME Inv, Next PROVE AttemptInv'
    OBVIOUS
<1> USE DEF Step, Goto, NoChange, Change, SyncRoot, CommitFails, RecoverCommit,
            RecoverFails, Committed, Discarded, Stopped
<1> USE DEF Next, StoreStep, Begin, Write, Validate, SyncFiles, SyncStaging,
            Look, Retire, RetireSync, Install, InstallSync, Unlink, Rmdir,
            CleanupSync, Recover, RecoverUnlink, RecoverRmdir, RecoverStaging,
            RecoverSync, Recheck, Discard, DiscardSync, Crash, PowerLoss, Boot
<1>1. QED BY BackupBounds DEF Inv, TypeOK, AttemptInv, RecoverSteps, Gen

\* Commit answers nil from the last step of the rotation or from the check
\* after a recovery: the slot is settled there.
LEMMA StepSettled == Inv /\ Next => CommitIsSettled'
<1> SUFFICES ASSUME Inv, Next PROVE CommitIsSettled'
    OBVIOUS
<1> USE DEF Step, Goto, NoChange, Change, SyncRoot, CommitFails, RecoverCommit,
            RecoverFails, Committed, Discarded, Stopped
<1> USE DEF Next, StoreStep, Begin, Write, Validate, SyncFiles, SyncStaging,
            Look, Retire, RetireSync, Install, InstallSync, Unlink, Rmdir,
            CleanupSync, Recover, RecoverUnlink, RecoverRmdir, RecoverStaging,
            RecoverSync, Recheck, Discard, DiscardSync, Crash, PowerLoss, Boot
<1>1. QED
  BY BackupBounds
     DEF Inv, TypeOK, AttemptInv, SlotStageInv, InstalledSteps, RecoverSteps,
         CommitIsSettled

\* The step that answers nil changes no directory, and the new backup is current
\* in all of them.
LEMMA StepCommitted ==
    Inv /\ Next => \/ UNCHANGED committed
                   \/ /\ committed' = gen /\ gen \in Gen
                      /\ UNCHANGED <<dir, synced, begun>>
                      /\ images' \subseteq images
                      /\ \A d \in images : d.current = gen
<1> SUFFICES ASSUME Inv, Next, committed' # committed
             PROVE  /\ committed' = gen /\ gen \in Gen
                    /\ UNCHANGED <<dir, synced, begun>>
                    /\ images' \subseteq images
                    /\ \A d \in images : d.current = gen
    OBVIOUS
<1> USE DEF Step, Goto, NoChange, Change, SyncRoot, CommitFails, RecoverCommit,
            RecoverFails, Committed, Discarded, Stopped
<1> USE DEF Next, StoreStep, Begin, Write, Validate, SyncFiles, SyncStaging,
            Look, Retire, RetireSync, Install, InstallSync, Unlink, Rmdir,
            CleanupSync, Recover, RecoverUnlink, RecoverRmdir, RecoverStaging,
            RecoverSync, Recheck, Discard, DiscardSync, Crash, PowerLoss, Boot
<1>1. QED
  BY BackupBounds
     DEF Inv, TypeOK, AttemptInv, SlotStageInv, InstalledSteps, RecoverSteps

\* The directories stay sound.
LEMMA StepSound == Inv /\ Next => AllSound'
<1> SUFFICES ASSUME Inv, Next, NEW d \in images' PROVE Sound(d)'
    BY DEF AllSound
<1>1. d \in images \union {dir'} /\ synced \subseteq synced' /\ Sound(dir')
      BY StepDirs DEF DirStep
<1>2. Sound(d)
      BY <1>1 DEF Inv, AllSound
<1>3. begun \in Nat /\ begun' \in Nat /\ begun <= begun'
  <2> USE DEF Step, Goto, NoChange, Change, SyncRoot, CommitFails, RecoverCommit,
              RecoverFails, Committed, Discarded, Stopped
  <2> USE DEF Next, StoreStep, Begin, Write, Validate, SyncFiles, SyncStaging,
              Look, Retire, RetireSync, Install, InstallSync, Unlink, Rmdir,
              CleanupSync, Recover, RecoverUnlink, RecoverRmdir, RecoverStaging,
              RecoverSync, Recheck, Discard, DiscardSync, Crash, PowerLoss, Boot
  <2>1. QED BY DEF Inv, TypeOK
<1>4. CASE UNCHANGED committed
      BY <1>1, <1>2, <1>3, <1>4 DEF Sound, Directory, Gen
<1>5. CASE committed' # committed
  <2>1. d \in images /\ d.current = gen /\ committed' = gen /\ gen \in Gen
        BY <1>5, StepCommitted
  <2>2. gen # 0 /\ Recoverable(d) = gen /\ gen >= committed'
        BY <2>1, BackupBounds DEF Recoverable, Gen
  <2>3. QED BY <1>1, <1>2, <1>3, <2>1, <2>2
               DEF Sound, Directory, Gen, Recoverable
<1>6. QED BY <1>4, <1>5

\* What the next step relies on was reached by this one.
LEMMA StepSlot == Inv /\ Next => SlotStageInv'
<1> SUFFICES ASSUME Inv, Next PROVE SlotStageInv'
    OBVIOUS
<1>0. Sound(dir) /\ dir \in Directory
      BY DEF Inv, TypeOK, AllSound
<1> USE DEF Step, Goto, NoChange, Change, SyncRoot, CommitFails, RecoverCommit,
            RecoverFails, Committed, Discarded, Stopped
<1> USE DEF Next, StoreStep, Begin, Write, Validate, SyncFiles, SyncStaging,
            Look, Retire, RetireSync, Install, InstallSync, Unlink, Rmdir,
            CleanupSync, Recover, RecoverUnlink, RecoverRmdir, RecoverStaging,
            RecoverSync, Recheck, Discard, DiscardSync, Crash, PowerLoss, Boot
<1> USE DEF Inv, TypeOK, AttemptInv, SlotStageInv, StagedSteps, CheckedSteps,
            SyncedSteps, InstalledSteps, RecoverSteps, Directory
<1>1. pc' \in StagedSteps => gen' \in dir'.staging
  <2>1. CASE Begin
        BY <1>0, <2>1
  <2>2. CASE Write
        BY <1>0, <2>2
  <2>3. CASE Retire
        BY <1>0, <2>3
  <2>4. CASE ~(Begin \/ Write \/ Retire)
        BY <1>0, <2>4
  <2>5. QED BY <2>1, <2>2, <2>3, <2>4
<1>2. pc' \in CheckedSteps => gen' \notin dir'.damaged
  <2>1. CASE Retire
        BY <1>0, <2>1
  <2>2. CASE ~Retire
        BY <1>0, <2>2
  <2>3. QED BY <2>1, <2>2
<1>3. pc' \in SyncedSteps => gen' \in synced'
      BY <1>0
<1>4. /\ pc' = "retire" => dir'.current # 0 /\ dir'.retiring = 0
      /\ pc' \in {"retire_sync", "install"} => dir'.current = 0
      BY <1>0
<1>5. pc' \in InstalledSteps => dir'.current = gen'
  <2>1. CASE Install
        BY <1>0, <2>1
  <2>2. CASE Unlink
        BY <1>0, <2>2
  <2>3. CASE Rmdir
        BY <1>0, <2>3
  <2>4. CASE ~(Install \/ Unlink \/ Rmdir)
        BY <1>0, <2>4
  <2>5. QED BY <2>1, <2>2, <2>3, <2>4
<1>6. pc' \in InstalledSteps \ {"install_sync"} =>
            \A d \in images' : d.current = gen'
      BY <1>0
<1>7. /\ pc' \in {"unlink", "rmdir"} => dir'.retiring # 0
      /\ pc' = "cleanup_sync" => dir'.retiring = 0
      BY <1>0
<1>8. pc' \in {"recover_unlink", "recover_rmdir"} =>
            dir'.current # 0 /\ dir'.retiring # 0
      BY <1>0
<1>9. /\ pc' \in {"recover_staging", "recover_sync", "recheck"} =>
            dir'.retiring = 0
      /\ pc' = "recheck" => images' = {dir'}
      BY <1>0
<1>10. QED
  BY <1>1, <1>2, <1>3, <1>4, <1>5, <1>6, <1>7, <1>8, <1>9

-----------------------------------------------------------------------------
(***************************************************************************)
(* The invariant, and the safety of the slot.                              *)
(***************************************************************************)
\* The empty store.
LEMMA InitHolds == Init => Inv
<1> SUFFICES ASSUME Init PROVE Inv
    OBVIOUS
<1> USE BackupBounds DEF Init
<1>1. TypeOK
  <2>1. dir \in Directory
        BY DEF Directory
  <2>2. images = {dir} /\ synced = {} /\ gen = 0 /\ committed = 0
        OBVIOUS
  <2>3. begun \in 0..MaxGen /\ faults \in 0..MaxFaults
        OBVIOUS
  <2>4. pc \in Steps /\ booting \in BOOLEAN /\ reply \in {"none", "ok", "error"}
        BY DEF Steps
  <2> HIDE DEF Init
  <2>5. QED BY <2>1, <2>2, <2>3, <2>4 DEF TypeOK
<1>2. AllSound
  <2>1. /\ dir \in Directory /\ dir.current = 0 /\ dir.retiring = 0
        /\ dir.staging = {} /\ dir.damaged = {}
        BY <1>1 DEF TypeOK
  <2>2. Recoverable(dir) = 0
        BY <2>1 DEF Recoverable
  <2>3. Sound(dir)
        BY <2>1, <2>2 DEF Sound
  <2>4. QED BY <2>3 DEF AllSound
<1>3. AttemptInv /\ CommitIsSettled
      BY DEF AttemptInv, CommitIsSettled, RecoverSteps
<1>4. SlotStageInv
      BY DEF SlotStageInv, StagedSteps, CheckedSteps, SyncedSteps,
             InstalledSteps
<1>5. QED BY <1>1, <1>2, <1>3, <1>4 DEF Inv

\* Every state of a run has the invariant.
LEMMA InvariantHolds == Spec => []Inv
<1>1. Inv /\ [Next]_vars => Inv'
  <2> SUFFICES ASSUME Inv, [Next]_vars PROVE Inv'
      OBVIOUS
  <2>1. CASE Next
        BY <2>1, StepTyped, StepSound, StepAttempt, StepSlot, StepSettled
           DEF Inv
  <2>2. CASE UNCHANGED vars
    <3> USE <2>2 DEF vars, Inv
    <3>1. TypeOK' /\ CommitIsSettled'
          BY DEF TypeOK, CommitIsSettled
    <3>2. AllSound'
          BY DEF AllSound, Sound
    <3>3. AttemptInv' /\ SlotStageInv'
          BY DEF AttemptInv, SlotStageInv
    <3>4. QED BY <3>1, <3>2, <3>3
  <2>3. QED BY <2>1, <2>2
<1>2. QED BY InitHolds, <1>1, PTL DEF Spec

\* Whatever stops and wherever, the next start-up finds a complete backup that
\* is not older than the last one whose Commit returned nil, and a nil answer
\* leaves the new backup alone in the slot, on the disk too (Commit, Recover).
THEOREM SlotStaysSafe == Spec => []SlotIsSafe
<1>1. Inv => SlotIsSafe
      BY DEF Inv, AllSound, Sound, SlotIsSafe, PointNeverLost
<1>2. QED BY InvariantHolds, <1>1, PTL

-----------------------------------------------------------------------------
(***************************************************************************)
(* The rotation is one recovery point that is replaced as a whole.         *)
(***************************************************************************)
\* How a step that is no Begin handles the attempt: it goes on, ends with a nil
\* answer that moves no directory, or is given up.
LEMMA AttemptSteps ==
    Inv /\ Next =>
        \/ Begin
        \/ UNCHANGED <<gen, committed>>
        \/ /\ Committed /\ gen # 0 /\ images' \subseteq images
           /\ \A d \in images : d.current = gen
        \/ /\ gen' = 0 /\ UNCHANGED committed
           /\ images' \subseteq images \/ PowerLoss
<1> SUFFICES ASSUME Inv, Next, ~Begin, ~UNCHANGED <<gen, committed>>
    PROVE
        \/ /\ Committed /\ gen # 0 /\ images' \subseteq images
           /\ \A d \in images : d.current = gen
        \/ /\ gen' = 0 /\ UNCHANGED committed
           /\ images' \subseteq images \/ PowerLoss
    OBVIOUS
<1> USE DEF Step, Goto, NoChange, Change, SyncRoot, CommitFails, RecoverCommit,
            RecoverFails, Committed, Discarded, Stopped
<1> USE DEF Next, StoreStep, Begin, Write, Validate, SyncFiles, SyncStaging,
            Look, Retire, RetireSync, Install, InstallSync, Unlink, Rmdir,
            CleanupSync, Recover, RecoverUnlink, RecoverRmdir, RecoverStaging,
            RecoverSync, Recheck, Discard, DiscardSync, Crash, PowerLoss, Boot
<1>1. QED
  BY DEF Inv, TypeOK, AttemptInv, SlotStageInv, InstalledSteps, RecoverSteps

\* Each step is a step of the abstract slot, or none.
LEMMA StepMaps ==
    Inv /\ [Next]_vars =>
        [Slot!Offer \/ Slot!Rotate \/ Slot!Accept \/ Slot!Abandon]_
            <<Points, gen, committed>>
<1> SUFFICES ASSUME Inv, [Next]_vars, ~UNCHANGED vars
             PROVE  Slot!Offer \/ Slot!Rotate \/ Slot!Accept \/ Slot!Abandon
    BY DEF vars, Points
<1>0. Next /\ DirStep
      BY StepDirs
<1>1. /\ Points' # {}
      /\ \A p \in Points' : p \in Points \/ (gen # 0 /\ p = gen)
      BY <1>0 DEF DirStep, Points
<1>2. CASE Begin
  <2>1. /\ gen = 0 /\ gen' = begun + 1 /\ committed' = committed
        /\ committed <= begun /\ begun \in Nat /\ committed \in Nat
        BY <1>2 DEF Begin, Inv, AttemptInv, TypeOK, Gen
  <2>2. \A d \in images : Recoverable(d) \in Nat /\ Recoverable(d) <= begun
        BY DEF Inv, AllSound, Sound, Recoverable, Directory, Gen
  <2>3. Points' = Points
        BY <1>1, <1>2, <2>1 DEF Points, Begin, Change
  <2>4. QED BY <2>1, <2>2, <2>3 DEF Slot!Offer, Points
<1>3. CASE UNCHANGED <<gen, committed>>
      BY <1>1, <1>3 DEF Slot!Rotate, Points
<1>4. CASE /\ Committed /\ gen # 0 /\ images' \subseteq images
           /\ \A d \in images : d.current = gen
  <2>1. gen # 0
        BY <1>4
  <2>2. \A d \in images : Recoverable(d) = gen
        BY <1>4, <2>1 DEF Recoverable
  <2>3. dir \in images /\ images' # {}
        BY <1>0 DEF DirStep, Inv, TypeOK
  <2>4. Points = {gen} /\ Points' = {gen}
        BY <1>4, <2>2, <2>3 DEF Points
  <2>5. QED BY <1>4, <2>1, <2>4 DEF Slot!Accept, Points, Committed
<1>5. CASE /\ gen' = 0 /\ UNCHANGED committed
           /\ images' \subseteq images \/ PowerLoss
  <2>1. Points' \subseteq Points
    <3>1. CASE images' \subseteq images
          BY <3>1 DEF Points
    <3>2. CASE PowerLoss
      <4>1. PICK d \in images :
                /\ dir' = [d EXCEPT !.damaged = @ \union ((1..begun) \ synced)]
                /\ images' = {dir'}
            BY <3>2 DEF PowerLoss
      <4>2. d \in Directory
            BY DEF Inv, TypeOK
      <4>3. dir'.current = d.current /\ dir'.retiring = d.retiring
            BY <4>1, <4>2 DEF Directory
      <4>4. Recoverable(dir') = Recoverable(d)
            BY <4>3 DEF Recoverable
      <4>5. QED BY <4>1, <4>4 DEF Points
    <3>3. QED BY <1>5, <3>1, <3>2
  <2>2. QED BY <1>1, <1>5, <2>1 DEF Slot!Abandon, Points
<1>6. QED BY <1>0, <1>2, <1>3, <1>4, <1>5, AttemptSteps

\* Begin, Commit, Recover and Discard, with stops anywhere between their file
\* system operations, replace one recovery point as a whole: the next start-up
\* finds the old one or the attempted one, and the new one after a nil answer.
THEOREM ImplementsSlot == Spec => RotationIsAtomic
<1>1. Init => Slot!SlotInit
      BY DEF Init, Slot!SlotInit, Recoverable
<1>2. QED
  BY <1>1, InvariantHolds, StepMaps, PTL
     DEF Spec, RotationIsAtomic, Slot!SlotSpec, Slot!slotVars, Points
=============================================================================
