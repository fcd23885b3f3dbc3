--------------------------- MODULE StateFile_proofs ---------------------------
(***************************************************************************)
(* The state store keeps what it answered and implements the register, for *)
(* any number of updates and faults.                                       *)
(***************************************************************************)
EXTENDS StateFile, TLAPS

\* A call before its rename has left no trace and, inside the mutex, works on
\* the current state.
NotYetApplied ==
    \A u \in Updates :
        /\ pc[u] \in {"new", "waiting", "loaded", "written", "flushed"} =>
                \A s \in images : u \notin s
        /\ pc[u] \in {"loaded", "written", "flushed"} => copy[u] = file

JustApplied == \A u \in Updates : pc[u] = "renamed" => u \in file

TempIsWhole == \A u \in Updates : pc[u] = "flushed" => flushed

ToldOnReturn == \A u \in Updates : told[u] # "nothing" <=> pc[u] = "returned"

IInv ==
    /\ TypeOK
    /\ StartsAgain
    /\ NotYetApplied
    /\ JustApplied
    /\ TempIsWhole
    /\ ToldOnReturn
    /\ AnsweredIsDurable

USE StateFileAssumption

\* The initial state: nothing was called yet and the file is missing.
LEMMA InitHolds == Init => IInv
<1> SUFFICES ASSUME Init PROVE IInv
    OBVIOUS
<1> USE DEF Init
<1>1. TypeOK
      BY DEF TypeOK, Contents, Inside
<1>2. StartsAgain
      BY DEF StartsAgain, Torn
<1>3. NotYetApplied /\ JustApplied /\ TempIsWhole
      BY DEF NotYetApplied, JustApplied, TempIsWhole
<1>4. ToldOnReturn /\ AnsweredIsDurable
      BY DEF ToldOnReturn, AnsweredIsDurable
<1>5. QED BY <1>1, <1>2, <1>3, <1>4 DEF IInv

\* A call that ends in an error before its rename changes no file.
LEMMA ErrorKeeps ==
    ASSUME NEW u \in Updates, IInv, Return(u, "error"), pc[u] \in Inside \union {"waiting"},
           mu \in {u, Nobody}, faults' \in Nat, flushed' \in BOOLEAN,
           UNCHANGED <<file, copy, up>>,
           images' = images,
           flushed' = flushed
    PROVE  IInv'
<1> USE DEF IInv, Return, Goto
<1>1. TypeOK'
      BY DEF TypeOK, Inside
<1>2. StartsAgain' /\ AnsweredIsDurable'
      BY DEF StartsAgain, AnsweredIsDurable, TypeOK
<1>3. NotYetApplied'
      BY DEF NotYetApplied, TypeOK
<1>4. JustApplied' /\ TempIsWhole'
      BY DEF JustApplied, TempIsWhole, TypeOK
<1>5. ToldOnReturn'
      BY DEF ToldOnReturn, TypeOK
<1>6. QED BY <1>1, <1>2, <1>3, <1>4, <1>5

\* A stop of the process that leaves one of the possible files.
LEMMA StopKeeps ==
    ASSUME IInv, Stop, faults' \in Nat, file' \in images',
           images' \in SUBSET images
    PROVE  IInv'
<1> USE DEF IInv, Stop
<1>1. \A u \in Updates : /\ pc'[u] \notin Inside
                         /\ pc'[u] = pc[u] \/ pc'[u] = "gone"
                         /\ pc'[u] = "gone" => pc[u] # "returned"
      BY DEF TypeOK, Inside
<1>2. TypeOK'
  <2>1. pc' \in [Updates -> Inside \union {"new", "waiting", "returned", "gone"}]
        BY DEF TypeOK
  <2>2. /\ file' \in Contents
        /\ images' \in SUBSET Contents /\ file' \in images'
        /\ mu' \in Updates \union {Nobody}
        BY DEF TypeOK
  <2>3. /\ copy' \in [Updates -> SUBSET Updates]
        /\ flushed' \in BOOLEAN /\ up' \in BOOLEAN /\ faults' \in Nat
        /\ told' \in [Updates -> {"nothing", "ok", "error"}]
        BY DEF TypeOK
  <2>4. \A u \in Updates : pc'[u] \in Inside => mu' = u
        BY <1>1
  <2> HIDE DEF Stop, IInv
  <2>5. QED BY <2>1, <2>2, <2>3, <2>4 DEF TypeOK
<1>3. StartsAgain' /\ AnsweredIsDurable'
      BY DEF StartsAgain, AnsweredIsDurable
<1>4. NotYetApplied' /\ JustApplied' /\ TempIsWhole'
      BY <1>1 DEF NotYetApplied, JustApplied, TempIsWhole, Inside
<1>5. ToldOnReturn'
      BY <1>1 DEF ToldOnReturn
<1>6. QED BY <1>2, <1>3, <1>4, <1>5

\* A step of one call inside the mutex that touches no file.
LEMMA InsideKeeps ==
    ASSUME NEW u \in Updates, NEW s \in Inside, IInv, Goto(u, s), mu' = u,
           mu \in {u, Nobody},
           pc[u] \in {"waiting", "loaded", "written"},
           s \in {"loaded", "written", "flushed"},
           \/ copy' = copy /\ pc[u] # "waiting"
           \/ file \in SUBSET Updates /\ copy' = [copy EXCEPT ![u] = file],
           flushed' \in BOOLEAN, s = "flushed" => flushed',
           UNCHANGED <<file, images, told, up>>, faults' \in Nat
    PROVE  IInv'
<1> USE DEF IInv, Goto
<1>1. TypeOK'
      BY DEF TypeOK, Inside
<1>2. StartsAgain' /\ AnsweredIsDurable'
      BY DEF StartsAgain, AnsweredIsDurable, TypeOK
<1>3. NotYetApplied'
      BY DEF NotYetApplied, TypeOK
<1>4. JustApplied'
      BY DEF JustApplied, TypeOK
<1>5. \A w \in Updates : w # u => pc'[w] \notin Inside
      BY DEF TypeOK, Inside
<1>6. TempIsWhole'
      BY <1>5 DEF TempIsWhole, TypeOK, Inside
<1>7. ToldOnReturn'
      BY DEF ToldOnReturn, TypeOK
<1>8. QED BY <1>1, <1>2, <1>3, <1>4, <1>6, <1>7

\* Each step of the store, its crashes and its restarts keep the invariant.
LEMMA StepKeeps == IInv /\ [Next]_vars => IInv'
<1> SUFFICES ASSUME IInv, [Next]_vars PROVE IInv'
    OBVIOUS
<1> USE DEF IInv, TypeOK, StartsAgain, NotYetApplied, JustApplied, TempIsWhole,
            ToldOnReturn, AnsweredIsDurable, Inside
<1>1. ASSUME NEW u \in Updates, Call(u) PROVE IInv'
      BY <1>1 DEF Call, Goto
<1>2. ASSUME NEW u \in Updates, LockAndLoad(u) PROVE IInv'
  <2>1. file # Torn /\ file \in SUBSET Updates
        BY DEF Contents
  <2>2. QED BY <1>2, <2>1, InsideKeeps DEF LockAndLoad
<1>3. ASSUME NEW u \in Updates, Reject(u) PROVE IInv'
      BY <1>3 DEF Reject, Goto, Return
<1>4. ASSUME NEW u \in Updates, WriteTemp(u) PROVE IInv'
  <2>1. CASE Goto(u, "written") /\ flushed' = FALSE
                /\ UNCHANGED <<mu, told, faults>>
        BY <1>4, <2>1, InsideKeeps DEF WriteTemp
  <2>2. CASE Fault /\ Return(u, "error") /\ UNCHANGED flushed
        BY <1>4, <2>2, ErrorKeeps DEF WriteTemp, Fault
  <2>3. QED BY <1>4, <2>1, <2>2 DEF WriteTemp
<1>5. ASSUME NEW u \in Updates, FlushTemp(u) PROVE IInv'
  <2>1. CASE Goto(u, "flushed") /\ flushed' = TRUE
                /\ UNCHANGED <<mu, told, faults>>
        BY <1>5, <2>1, InsideKeeps DEF FlushTemp
  <2>2. CASE Fault /\ Return(u, "error") /\ UNCHANGED flushed
        BY <1>5, <2>2, ErrorKeeps DEF FlushTemp, Fault
  <2>3. QED BY <1>5, <2>1, <2>2 DEF FlushTemp
<1>6. ASSUME NEW u \in Updates, Replace(u) PROVE IInv'
  <2>1. CASE /\ Goto(u, "renamed")
             /\ file' = copy[u] \union {u}
             /\ images' = images \union {file'}
    <3>1. copy[u] = file /\ mu = u
          BY <1>6 DEF Replace
    <3>2. file' \in SUBSET Updates /\ file' # Torn
          BY <2>1, <3>1 DEF Torn
    <3>3. /\ UNCHANGED <<copy, flushed, up, mu, told, faults>>
          BY <1>6, <2>1 DEF Replace, Goto, Return
    <3>4. TypeOK'
          BY <2>1, <3>1, <3>2, <3>3 DEF Goto, Contents
    <3>5. NotYetApplied'
      <4>1. ASSUME NEW w \in Updates,
                   pc'[w] \in {"new", "waiting", "loaded", "written", "flushed"}
            PROVE  w # u /\ pc'[w] = pc[w] /\ \A s \in images : w \notin s
            BY <2>1, <4>1 DEF Goto
      <4>2. ASSUME NEW w \in Updates,
                   pc'[w] \in {"loaded", "written", "flushed"}
            PROVE  FALSE
            BY <2>1, <3>1, <4>2 DEF Goto
      <4>3. ASSUME NEW w \in Updates,
                   pc'[w] \in {"new", "waiting", "loaded", "written", "flushed"},
                   NEW s \in images'
            PROVE  w \notin s
            BY <2>1, <3>1, <4>1, <4>3
      <4>4. QED BY <4>2, <4>3
    <3>6. StartsAgain' /\ AnsweredIsDurable'
          BY <2>1, <3>1, <3>2, <3>3 DEF Goto
    <3>7. \A w \in Updates : w # u => pc'[w] = pc[w] /\ pc[w] \notin Inside
          BY <2>1, <3>1 DEF Goto
    <3>8. JustApplied' /\ TempIsWhole'
          BY <2>1, <3>3, <3>7 DEF Goto
    <3>9. ToldOnReturn'
          BY <1>6, <2>1, <3>3, <3>7 DEF Goto, Replace
    <3>10. QED BY <3>4, <3>5, <3>6, <3>8, <3>9
  <2>2. CASE Return(u, "error") /\ UNCHANGED <<file, images>>
        BY <1>6, <2>2 DEF Replace, Return, Goto, Fault
  <2>3. QED BY <1>6, <2>1, <2>2 DEF Replace
<1>7. ASSUME NEW u \in Updates, SyncDirectory(u) PROVE IInv'
  <2>1. u \in file /\ mu = u /\ told[u] = "nothing"
        BY <1>7 DEF SyncDirectory
  <2>2. QED BY <1>7, <2>1 DEF SyncDirectory, Goto, Return, Fault
<1>8. ASSUME Crash PROVE IInv'
      BY <1>8, StopKeeps DEF Crash, Fault
<1>9. ASSUME PowerLoss PROVE IInv'
      BY <1>9, StopKeeps DEF PowerLoss, Fault
<1>10. ASSUME Boot PROVE IInv'
       BY <1>10 DEF Boot
<1>11. ASSUME UNCHANGED vars PROVE IInv'
       BY <1>11 DEF vars
<1>12. QED
  BY <1>1, <1>2, <1>3, <1>4, <1>5, <1>6, <1>7, <1>8, <1>9, <1>10, <1>11
     DEF Next, Step

\* It holds at the start, and every step keeps it.
LEMMA InvariantHolds == Spec => []IInv
<1>1. QED BY InitHolds, StepKeeps, PTL DEF Spec

\* Every state of the file system and of the calls has its type, and only the
\* holder of the mutex is between Lock and Unlock.
THEOREM Typing == Spec => []TypeOK
<1>1. IInv => TypeOK
      BY DEF IInv
<1>2. QED BY InvariantHolds, <1>1, PTL

\* Update returned nil: the update survives every later update, restart and
\* power loss (StateStore.Update, saveLocked).
THEOREM NilMeansDurable == Spec => []AnsweredIsDurable
<1>1. IInv => AnsweredIsDurable
      BY DEF IInv
<1>2. QED BY InvariantHolds, <1>1, PTL

\* No crash or power loss leaves a file that the next start-up cannot load.
THEOREM AlwaysLoads == Spec => []StartsAgain
<1>1. IInv => StartsAgain
      BY DEF IInv
<1>2. QED BY InvariantHolds, <1>1, PTL

\* Each step is a step of the register, or none.
LEMMA StepMaps == IInv /\ [Next]_vars
                    => [Register!RegisterNext]_<<file, images, told>>
<1> SUFFICES ASSUME IInv, [Next]_vars
             PROVE  \/ Register!RegisterNext
                    \/ UNCHANGED <<file, images, told>>
    OBVIOUS
<1> USE DEF Register!RegisterNext
<1>1. ASSUME NEW u \in Updates, Return(u, "error"), UNCHANGED <<file, images>>,
             told[u] = "nothing"
      PROVE  Register!RegisterNext
      BY <1>1 DEF Return, Register!Refuse
<1>2. ASSUME NEW u \in Updates, pc[u] \in Inside \union {"waiting"}
      PROVE  told[u] = "nothing"
      BY <1>2 DEF IInv, ToldOnReturn, TypeOK, Inside
<1>3. ASSUME NEW u \in Updates, Call(u) PROVE UNCHANGED <<file, images, told>>
      BY <1>3 DEF Call
<1>4. ASSUME NEW u \in Updates, LockAndLoad(u)
      PROVE  Register!RegisterNext \/ UNCHANGED <<file, images, told>>
      BY <1>1, <1>2, <1>4 DEF LockAndLoad
<1>5. ASSUME NEW u \in Updates, Reject(u)
      PROVE  Register!RegisterNext
      BY <1>1, <1>2, <1>5 DEF Reject, Inside
<1>6. ASSUME NEW u \in Updates, WriteTemp(u) \/ FlushTemp(u)
      PROVE  Register!RegisterNext \/ UNCHANGED <<file, images, told>>
      BY <1>1, <1>2, <1>6 DEF WriteTemp, FlushTemp, Inside
<1>7. ASSUME NEW u \in Updates, Replace(u) PROVE Register!RegisterNext
  <2>1. CASE /\ file' = copy[u] \union {u}
             /\ images' = images \union {file'}
                            \union (IF flushed THEN {} ELSE {Torn})
             /\ UNCHANGED told
    <3>1. copy[u] = file /\ flushed /\ u \notin file /\ told[u] = "nothing"
          BY <1>2, <1>7 DEF Replace, IInv, NotYetApplied, TempIsWhole, Inside,
                            TypeOK
    <3>2. Register!Apply(u)
          BY <2>1, <3>1 DEF Register!Apply
    <3>3. QED BY <3>2
  <2>2. CASE Return(u, "error") /\ UNCHANGED <<file, images>>
        BY <1>1, <1>2, <1>7, <2>2 DEF Replace, Inside
  <2>3. QED BY <1>7, <2>1, <2>2 DEF Replace
<1>8. ASSUME NEW u \in Updates, SyncDirectory(u) PROVE Register!RegisterNext
  <2>1. u \in file /\ told[u] = "nothing" /\ UNCHANGED file
        BY <1>2, <1>8 DEF SyncDirectory, IInv, JustApplied, Inside
  <2>2. CASE images' = {file} /\ Return(u, "ok")
    <3>1. Register!Confirm(u)
          BY <2>1, <2>2 DEF Register!Confirm, Return
    <3>2. QED BY <3>1
  <2>3. CASE Return(u, "error") /\ UNCHANGED images
        BY <1>1, <2>1, <2>3
  <2>4. QED BY <1>8, <2>2, <2>3 DEF SyncDirectory
<1>9. ASSUME Crash \/ Boot PROVE UNCHANGED <<file, images, told>>
      BY <1>9 DEF Crash, Boot, Stop
<1>10. ASSUME PowerLoss PROVE Register!RegisterNext
       BY <1>10 DEF PowerLoss, Stop, Register!Revert
<1>11. ASSUME UNCHANGED vars PROVE UNCHANGED <<file, images, told>>
       BY <1>11 DEF vars
<1>12. QED
  BY <1>3, <1>4, <1>5, <1>6, <1>7, <1>8, <1>9, <1>10, <1>11 DEF Next, Step

\* The detailed store implements the register the engine, the watchdog and the
\* routes rely on: atomic updates, nil only when settled.
THEOREM ImplementsRegister == Spec => StoreIsRegister
<1>1. Init => Register!RegisterInit
      BY DEF Init, Register!RegisterInit
<1>2. QED
  BY <1>1, InvariantHolds, StepMaps, PTL
     DEF Spec, StoreIsRegister, Register!RegisterSpec, Register!registerVars
===============================================================================
