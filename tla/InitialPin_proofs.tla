-------------------------- MODULE InitialPin_proofs --------------------------
(***************************************************************************)
(* Proofs about pin-initial-latest, for any images and any number of       *)
(* attempts, faults and moves of the tag.                                  *)
(***************************************************************************)
EXTENDS InitialPin, TLAPS

\* The steps of a run that still finds "latest" in the environment.
Observing == {"state", "image", "latest", "digest", "health"}
Fresh == Observing \union {"write", "flush", "replace"}

\* What a power loss leaves is the environment, or what it was before the pin;
\* once the pin is made durable, nothing else.
FileInv ==
    /\ env # Torn /\ disk \subseteq {env, Latest}
    /\ pc \in Fresh => env = Latest
    /\ pc \in {"syncDir", "recreate", "reconcile"} => env \in Pin
    /\ pc = "recreate" => disk = {env}
    /\ pc # "idle" => result # "pinned"
    /\ result = "pinned" => disk = {env} /\ env \in Pin

\* What has been read, unless the tag moves, belongs together.
ReadInv ==
    /\ pc = "health" => pin.digest \in Images
    /\ pc \in {"write", "flush", "replace"} => pin \in Pin
    /\ pc \in {"flush", "replace"} => temp.data = pin
    /\ pc = "replace" => temp.flushed
    /\ ~moved =>
        /\ pc = "latest" => container = imageID \/ container = tag
        /\ pc \in {"digest", "health"} => container = tag
        /\ pc = "health" => pin.digest = tag
        /\ pc \in {"write", "flush", "replace"} => pin.version = pin.digest
        /\ env \in Pin => env.version = env.digest

PinInv == TypeOK /\ FileInv /\ ReadInv

\* The values that a step writes, whichever step it is.
LEMMA Values ==
  ASSUME TypeOK
  PROVE  /\ 0 \in 0..(HealthAttempts - 1)
         /\ NoPin \in [version : Images \union {None}, digest : Images \union {None}]
         /\ NoTemp \in [data : Pin \union {None}, flushed : BOOLEAN]
         /\ Fault \/ NoFault => faults' \in 0..MaxFaults
         /\ pulls < MaxPulls => pulls + 1 \in 0..MaxPulls
         /\ (~healthy) \in BOOLEAN
<1>1. /\ HealthAttempts \in Nat \ {0} /\ MaxPulls \in Nat /\ MaxFaults \in Nat
      /\ faults \in 0..MaxFaults /\ pulls \in 0..MaxPulls
  BY InitialPinAssumption DEF TypeOK
<1>2. NoPin \in [version : Images \union {None}, digest : Images \union {None}]
  BY DEF NoPin
<1>3. NoTemp \in [data : Pin \union {None}, flushed : BOOLEAN]
  BY DEF NoTemp
<1>4. Fault \/ NoFault => faults' \in 0..MaxFaults
  BY <1>1 DEF Fault, NoFault
<1>5. 0 \in 0..(HealthAttempts - 1)
      /\ (pulls < MaxPulls => pulls + 1 \in 0..MaxPulls)
  BY <1>1
<1>6. (~healthy) \in BOOLEAN
  BY DEF TypeOK
<1> QED BY <1>2, <1>3, <1>4, <1>5, <1>6

\* The environment says "latest".
LEMMA InitPin == Init => PinInv
<1> SUFFICES ASSUME Init PROVE PinInv
  OBVIOUS
<1>1. TypeOK
  <2>1. 0 \in 0..(HealthAttempts - 1) /\ 0 \in 0..MaxPulls /\ 0 \in 0..MaxFaults
    BY InitialPinAssumption
  <2>2. temp \in [data : Pin \union {None}, flushed : BOOLEAN]
    BY DEF Init, NoTemp
  <2>3. pin \in [version : Images \union {None}, digest : Images \union {None}]
    BY DEF Init, NoPin
  <2> QED BY <2>1, <2>2, <2>3 DEF Init, TypeOK
<1>2. FileInv /\ ReadInv
  BY InitialPinAssumption DEF Init, FileInv, ReadInv, Fresh, Observing
<1> QED BY <1>1, <1>2 DEF PinInv

\* Every command, file operation and fault keeps both.
LEMMA NextPin ==
  ASSUME PinInv, [Next]_vars
  PROVE  PinInv'
<1> USE InitialPinAssumption DEF PinInv, Fresh, Observing
<1> DEFINE Read == [version : Images \union {None}, digest : Images \union {None}]
           Temp == [data : Pin \union {None}, flushed : BOOLEAN]
<1>0. /\ 0 \in 0..(HealthAttempts - 1) /\ NoPin \in Read /\ NoTemp \in Temp
      /\ Fault \/ NoFault => faults' \in 0..MaxFaults
      /\ pulls < MaxPulls => pulls + 1 \in 0..MaxPulls
      /\ TypeOK /\ pin \in Read /\ temp \in Temp /\ (~healthy) \in BOOLEAN
  BY Values DEF TypeOK
<1>1. CASE PinInitialLatest
  <2>1. TypeOK'
    BY <1>1
       DEF PinInitialLatest, TypeOK, fileVars, hostVars, localVars, pullVars
  <2>2. FileInv'
    BY <1>1
       DEF PinInitialLatest, TypeOK, FileInv, fileVars, hostVars, localVars,
           pullVars
  <2>3. ReadInv'
    BY <1>1
       DEF PinInitialLatest, TypeOK, ReadInv, fileVars, hostVars, localVars,
           pullVars
  <2> QED BY <2>1, <2>2, <2>3
<1>2. CASE ReadState
  <2>1. TypeOK'
    BY <1>2
       DEF ReadState, Observe, Retry, Goto, End, Fault, NoFault, TypeOK,
           fileVars, hostVars, NoPin
  <2>2. FileInv'
    BY <1>2
       DEF ReadState, Observe, Retry, Goto, End, TypeOK, FileInv, fileVars,
           hostVars
  <2>3. ReadInv'
    BY <1>2
       DEF ReadState, Observe, Retry, Goto, End, TypeOK, FileInv, ReadInv,
           fileVars, hostVars
  <2> QED BY <2>1, <2>2, <2>3
<1>3. CASE ReadImage
  <2>1. TypeOK'
    BY <1>3
       DEF ReadImage, Observe, Retry, Goto, End, Fault, NoFault, TypeOK,
           fileVars, hostVars, NoPin
  <2>2. FileInv'
    BY <1>3
       DEF ReadImage, Observe, Retry, Goto, End, TypeOK, FileInv, fileVars,
           hostVars
  <2>3. ReadInv'
    BY <1>3
       DEF ReadImage, Observe, Retry, Goto, End, TypeOK, FileInv, ReadInv,
           fileVars, hostVars
  <2> QED BY <2>1, <2>2, <2>3
<1>4. CASE CompareLatest
  <2>1. TypeOK'
    BY <1>4
       DEF CompareLatest, Observe, Retry, Goto, End, Fault, NoFault, TypeOK,
           fileVars, hostVars, NoPin
  <2>2. FileInv'
    BY <1>4
       DEF CompareLatest, Observe, Retry, Goto, End, TypeOK, FileInv, fileVars,
           hostVars
  <2>3. ReadInv'
    BY <1>4
       DEF CompareLatest, Observe, Retry, Goto, End, TypeOK, FileInv, ReadInv,
           fileVars, hostVars
  <2> QED BY <2>1, <2>2, <2>3
<1>5. CASE ReadDigest
  <2>1. TypeOK'
    BY <1>5
       DEF ReadDigest, Observe, Retry, Goto, End, Fault, NoFault, TypeOK,
           fileVars, hostVars, NoPin
  <2>2. FileInv'
    BY <1>5
       DEF ReadDigest, Observe, Retry, Goto, End, TypeOK, FileInv, fileVars,
           hostVars
  <2>3. ReadInv'
    BY <1>5
       DEF ReadDigest, Observe, Retry, Goto, End, TypeOK, FileInv, ReadInv,
           fileVars, hostVars
  <2> QED BY <2>1, <2>2, <2>3
<1>6. CASE ReadHealth
  <2>1. TypeOK'
    BY <1>6
       DEF ReadHealth, Observe, Retry, Goto, End, Fault, NoFault, TypeOK,
           fileVars, hostVars, NoPin
  <2>2. FileInv'
    BY <1>6
       DEF ReadHealth, Observe, Retry, Goto, End, TypeOK, FileInv, fileVars,
           hostVars
  <2>3. ReadInv'
    BY <1>6
       DEF ReadHealth, Observe, Retry, Goto, End, TypeOK, FileInv, ReadInv,
           fileVars, hostVars, Pin
  <2> QED BY <2>1, <2>2, <2>3
<1>7. CASE WriteTemp
  <2>a. temp' \in Temp
    <3>1. \/ temp' = [data |-> pin, flushed |-> FALSE] /\ pin \in Pin
          \/ temp' = NoTemp
      BY <1>7 DEF WriteTemp, FileOperation, ReadInv
    <3>2. \A p \in Pin : [data |-> p, flushed |-> FALSE] \in Temp
      OBVIOUS
    <3> QED BY <1>0, <3>1, <3>2, Zenon
  <2>0. /\ env' \in Pin \union {Latest}
        /\ disk' \subseteq {env', Latest} /\ env' \in disk'
    BY <1>7 DEF WriteTemp, FileOperation, TypeOK, FileInv
  <2>1. TypeOK'
    BY <1>0, <1>7, <2>a, <2>0
       DEF WriteTemp, FileOperation, End, TypeOK, hostVars, pullVars
  <2>2. FileInv'
    BY <1>7 DEF WriteTemp, FileOperation, End, TypeOK, FileInv
  <2>3. ReadInv'
    BY <1>7
       DEF WriteTemp, FileOperation, End, TypeOK, FileInv, ReadInv, hostVars,
           pullVars
  <2> QED BY <2>1, <2>2, <2>3
<1>8. CASE FlushTemp
  <2>a. temp' \in Temp
    BY <1>0, <1>8 DEF FlushTemp, FileOperation
  <2>0. /\ env' \in Pin \union {Latest}
        /\ disk' \subseteq {env', Latest} /\ env' \in disk'
    BY <1>8 DEF FlushTemp, FileOperation, TypeOK, FileInv
  <2>1. TypeOK'
    BY <1>0, <1>8, <2>a, <2>0
       DEF FlushTemp, FileOperation, End, TypeOK, hostVars, pullVars
  <2>2. FileInv'
    BY <1>8 DEF FlushTemp, FileOperation, End, TypeOK, FileInv
  <2>3. ReadInv'
    BY <1>8
       DEF FlushTemp, FileOperation, End, TypeOK, FileInv, ReadInv, hostVars,
           pullVars
  <2> QED BY <2>1, <2>2, <2>3
<1>9. CASE Replace
  <2>a. temp' \in Temp
    BY <1>0, <1>9 DEF Replace, FileOperation
  <2>0. /\ env' \in Pin \union {Latest}
        /\ disk' \subseteq {env', Latest} /\ env' \in disk'
    <3>1. env = Latest /\ pin \in Pin /\ temp.data = pin /\ temp.flushed
      BY <1>9 DEF Replace, FileOperation, FileInv, ReadInv
    <3>2. disk \subseteq {env, Latest} /\ env \in disk
      BY DEF TypeOK, FileInv
    <3> QED BY <1>9, <3>1, <3>2 DEF Replace, FileOperation
  <2>1. TypeOK'
    BY <1>0, <1>9, <2>a, <2>0
       DEF Replace, FileOperation, End, TypeOK, hostVars, pullVars
  <2>2. FileInv'
    BY <1>9 DEF Replace, FileOperation, End, TypeOK, FileInv, ReadInv
  <2>3. ReadInv'
    BY <1>9
       DEF Replace, FileOperation, End, TypeOK, FileInv, ReadInv, hostVars,
           pullVars
  <2> QED BY <2>1, <2>2, <2>3
<1>10. CASE SyncDirectory
  <2>a. temp' \in Temp
    BY <1>0, <1>10 DEF SyncDirectory, FileOperation
  <2>0. /\ env' \in Pin \union {Latest}
        /\ disk' \subseteq {env', Latest} /\ env' \in disk'
    BY <1>10 DEF SyncDirectory, FileOperation, TypeOK, FileInv
  <2>1. TypeOK'
    BY <1>0, <1>10, <2>a, <2>0
       DEF SyncDirectory, FileOperation, End, TypeOK, hostVars, pullVars
  <2>2. FileInv'
    BY <1>10 DEF SyncDirectory, FileOperation, End, TypeOK, FileInv
  <2>3. ReadInv'
    BY <1>10
       DEF SyncDirectory, FileOperation, End, TypeOK, FileInv, ReadInv,
           hostVars, pullVars
  <2> QED BY <2>1, <2>2, <2>3
<1>11. CASE Recreate \/ Reconcile
  <2>0. env.digest \in Images
    BY <1>11 DEF Recreate, Reconcile, Up, FileInv, Pin
  <2>1. TypeOK'
    BY <1>0, <1>11, <2>0
       DEF Recreate, Reconcile, Up, End, TypeOK, fileVars, pullVars
  <2>2. FileInv'
    BY <1>11 DEF Recreate, Reconcile, Up, End, TypeOK, FileInv, fileVars
  <2>3. ReadInv'
    BY <1>11
       DEF Recreate, Reconcile, Up, End, TypeOK, FileInv, ReadInv, fileVars,
           pullVars
  <2> QED BY <2>1, <2>2, <2>3
<1>12. CASE Pull \/ Deploy \/ HealthChanges
  <2>1. TypeOK'
    BY <1>0, <1>12
       DEF Pull, Deploy, HealthChanges, TypeOK, fileVars, hostVars, localVars,
           pullVars
  <2>2. FileInv'
    BY <1>12 DEF Pull, Deploy, HealthChanges, FileInv, fileVars
  <2>3. ReadInv'
    BY <1>12
       DEF Pull, Deploy, HealthChanges, TypeOK, FileInv, ReadInv, fileVars,
           hostVars, localVars, pullVars
  <2> QED BY <2>1, <2>2, <2>3
<1>13. CASE Kill \/ PowerLoss
  <2>1. TypeOK'
    BY <1>0, <1>13 DEF Kill, PowerLoss, End, TypeOK, hostVars, pullVars
  <2>2. FileInv'
    BY <1>13 DEF Kill, PowerLoss, End, TypeOK, FileInv
  <2>3. ReadInv'
    BY <1>13
       DEF Kill, PowerLoss, End, TypeOK, FileInv, ReadInv, hostVars, pullVars
  <2> QED BY <2>1, <2>2, <2>3
<1>14. CASE UNCHANGED vars
  BY <1>14
     DEF vars, TypeOK, FileInv, ReadInv, fileVars, hostVars, localVars,
         pullVars
<1> QED
  BY <1>1, <1>2, <1>3, <1>4, <1>5, <1>6, <1>7, <1>8, <1>9, <1>10, <1>11,
     <1>12, <1>13, <1>14
     DEF Next, Step, observeInitialLatest, writeImageEnvironment

\* The version and the digest that were pinned are of one image, whatever the
\* deployer did to tag and container, unless the tag moved between the reads.
THEOREM PinsOneImage == Spec => []PinnedTogether
<1>1. PinInv => PinnedTogether
  BY DEF PinInv, ReadInv, PinnedTogether
<1> QED BY <1>1, InitPin, NextPin, PTL DEF Spec

\* No kill, failed operation or power loss leaves an environment that cannot be
\* read, or takes back a pin that was reported.
THEOREM PinStaysDurable == Spec => []PinnedIsDurable
<1>1. PinInv => PinnedIsDurable
  BY InitialPinAssumption DEF PinInv, FileInv, PinnedIsDurable
<1> QED BY <1>1, InitPin, NextPin, PTL DEF Spec
=============================================================================
