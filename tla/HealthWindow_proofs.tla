------------------------- MODULE HealthWindow_proofs -------------------------
(***************************************************************************)
(* What an accepted confirmation window means, for any number of releases, *)
(* attempts and host changes.                                              *)
(*                                                                         *)
(* The invariant behind it follows the reads of one attempt: what has been *)
(* read so far has held in it (Progress), the code's count of good attempts*)
(* never exceeds the number in which everything held (Counts), and the mode*)
(* of a window only depends on the source it was opened for (Modes).       *)
(***************************************************************************)
EXTENDS HealthWindow, TLAPS

WindowRecord == [purpose : Purpose, ref : Ref, mode : Mode, schema : 0..MaxSchema]

\* A window that is open has no verdict yet, and its reads have held so far.
Progress ==
    step # "none" =>
        /\ window \in WindowRecord /\ verdict = "none"
        /\ step # "container" => "container" \in held
        /\ step \notin {"container", "image"} => "image" \in held
        /\ step \in {"internal", "public"} => "postgres" \in held

Counts ==
    /\ consecutive <= streak
    /\ step # "none" => streak <= attempt

\* The exception is made for v0.15.2 by its digest, when it is a source.
Modes ==
    /\ window.mode = "legacy" =>
        /\ window.ref.version = legacyInitialVersion
        /\ window.purpose \in {"source", "planned", "restored"}
        /\ window.purpose # "planned" => window.ref.digest # NoDigest
    /\ recovery.assumption => recovery.ref.version = legacyInitialVersion

Accepted ==
    verdict = "accepted" =>
        /\ streak >= HealthConsecutive
        /\ window \in WindowRecord
        /\ validHealth(health, window.ref.version, window.mode)

Inv == TypeOK /\ Progress /\ Counts /\ Modes /\ Accepted

USE HealthWindowBounds

RecoveryRecord ==
    [ref : [version : Version, digest : Digest \ {NoDigest}],
     schema : 1..MaxSchema, assumption : BOOLEAN, answers : Report]

\* Only the facts that are checked are remembered.
LEMMA HoldsFacts == Holds \subseteq Facts
BY DEF Holds, Facts

\* The minimal answer, too, counts as a report.
LEMMA ReturnedReport ==
    ASSUME NEW h \in Report, NEW mode \in Mode
    PROVE  returned(h, mode) \in Report
BY DEF returned, Full, NoReport, Report, Version, legacyInitialVersion, bareLegacy

\* A valid answer makes a recovery point whose schema is a number the metadata
\* accepts.
LEMMA RecordedPoint ==
    ASSUME window \in WindowRecord, health \in Report, Modes,
           validHealth(health, window.ref.version, window.mode)
    PROVE  /\ recorded = NoRecovery \/ recorded \in RecoveryRecord
           /\ recorded.assumption =>
                recorded.ref.version = legacyInitialVersion
<1> DEFINE r == returned(health, window.mode)
           ref == [window.ref EXCEPT !.digest = IF @ = NoDigest THEN "other" ELSE @]
           point == [ref |-> ref, schema |-> r.schema,
                     assumption |-> window.mode = "legacy", answers |-> health]
<1>1. /\ window.ref \in Ref /\ window.mode \in Mode
      BY DEF WindowRecord
<1>2. ref \in [version : Version, digest : Digest \ {NoDigest}]
      /\ ref.version = window.ref.version
  <2>1. window.ref.version \in Version /\ window.ref.digest \in Digest
        BY <1>1 DEF Ref
  <2>2. ref = [version |-> window.ref.version,
               digest |-> IF window.ref.digest = NoDigest THEN "other"
                          ELSE window.ref.digest]
        BY <1>1 DEF Ref
  <2>3. QED BY <2>1, <2>2 DEF Digest, NoDigest
<1>3. r \in Report /\ r.schema \in 1..MaxSchema
  <2>1. r \in Report
        BY <1>1, ReturnedReport
  <2>2. r.schema >= 1
        BY <1>1 DEF validHealth, strictHealth, legacyFullHealth,
           legacyMinimalHealth, returned, Full, NoReport, Report
  <2>3. QED BY <2>1, <2>2 DEF Report
<1>4. point \in RecoveryRecord
      BY <1>2, <1>3 DEF RecoveryRecord
<1>5. point.assumption => point.ref.version = legacyInitialVersion
      BY <1>2 DEF Modes
<1>6. NoRecovery.assumption = FALSE
      BY DEF NoRecovery
<1>7. recorded = point \/ recorded = NoRecovery
      BY DEF recorded
<1>8. QED BY <1>4, <1>5, <1>6, <1>7

-----------------------------------------------------------------------------
HostType ==
    /\ env \in Ref /\ image \in Ref
    /\ host \in [{"container", "postgres", "caddy"} -> BOOLEAN]
    /\ server \in Report

\* A working server's answer is a report, whatever its version.
LEMMA AnswersReport == ASSUME NEW v \in Version PROVE Answers(v) \subseteq Report
<1>1. Minimal \in Report
      BY DEF Minimal, Report
<1>2. \A w \in Version \union {bareLegacy}, s \in 1..MaxSchema :
            Full(w, s) \in Report
      BY DEF Full, Report
<1>3. QED BY <1>1, <1>2 DEF Answers

\* The container gets the configured image.
LEMMA ComposeUpType == ASSUME TypeOK, ComposeUp PROVE HostType'
<1>1. env.version \in Version
      BY DEF TypeOK, Ref
<1>2. server' \in Report
      BY <1>1, AnswersReport DEF ComposeUp, TypeOK
<1>3. host' \in [{"container", "postgres", "caddy"} -> BOOLEAN]
      BY DEF ComposeUp, TypeOK
<1>4. QED BY <1>2, <1>3 DEF ComposeUp, TypeOK, HostType

\* A fresh host has no window open and nothing recorded.
LEMMA InitHolds == Init => Inv
<1> SUFFICES ASSUME Init PROVE Inv
    OBVIOUS
<1> USE DEF Init
<1>1. NoReport \in Report
      BY DEF NoReport, Report, bareLegacy
<1>2. env.version \in Version /\ server \in Report
      BY AnswersReport DEF Ref
<1>3. TypeOK
      BY <1>1, <1>2 DEF TypeOK
<1>4. Modes
      BY DEF Modes, NoWindow, NoRecovery
<1>5. QED BY <1>3, <1>4 DEF Inv, Progress, Counts, Accepted

\* A window that is opened has seen nothing yet.
LEMMA OpenKeeps ==
    ASSUME Inv, NEW purpose \in Purpose, NEW ref \in Ref, NEW mode \in Mode,
           NEW schema \in 0..MaxSchema, Open(purpose, ref, mode, schema),
           mode = "legacy" =>
                /\ ref.version = legacyInitialVersion
                /\ purpose \in {"source", "planned", "restored"}
                /\ purpose # "planned" => ref.digest # NoDigest,
           HostType', recovery' \in {recovery, NoRecovery},
           steady' \in BOOLEAN, changes' = changes
    PROVE  Inv'
<1> USE DEF Inv, Open
<1>1. NoReport \in Report
      BY DEF NoReport, Report, bareLegacy
<1>2. window' \in WindowRecord
      BY DEF WindowRecord
<1>3. TypeOK'
      BY <1>1, <1>2 DEF TypeOK, HostType, WindowRecord, Steps
<1>4. Progress'
      BY <1>2 DEF Progress
<1>5. Counts' /\ Accepted'
      BY DEF Counts, Accepted
<1>6. Modes'
      BY DEF Modes, NoRecovery
<1>7. QED BY <1>3, <1>4, <1>5, <1>6

\* The verdict's window is closed; only an accepted source is recorded.
LEMMA DecideType ==
    ASSUME Inv, step # "none", NEW v \in {"accepted", "rejected"}, Decide(v),
           v = "accepted" => validHealth(health, window.ref.version, window.mode)
    PROVE  /\ recovery' = NoRecovery \/ recovery' \in RecoveryRecord
           /\ recovery'.assumption => recovery'.ref.version = legacyInitialVersion
<1>1. CASE recovery' = recovery
      BY <1>1 DEF Inv, TypeOK, RecoveryRecord, Modes
<1>2. CASE recovery' = recorded /\ v = "accepted"
      BY <1>2, RecordedPoint DEF Inv, TypeOK, Progress
<1>3. QED BY <1>1, <1>2 DEF Decide

\* A failed attempt starts the count of the code again.
LEMMA FailKeeps ==
    ASSUME Inv, step # "none", Fail
    PROVE  Inv'
<1> USE DEF Inv, Fail
<1>1. streakNow \in Nat /\ streakNow <= streak + 1
      BY DEF TypeOK, streakNow
<1>2. CASE /\ attempt + 1 < HealthAttempts
           /\ attempt' = attempt + 1 /\ consecutive' = 0
           /\ step' = "container" /\ held' = {}
           /\ UNCHANGED <<verdict, recovery>>
  <2>1. TypeOK'
        BY <1>1, <1>2 DEF TypeOK, Counts, Steps, hostVars
  <2>2. Progress' /\ Counts' /\ Modes' /\ Accepted'
        BY <1>1, <1>2 DEF Progress, Counts, Modes, Accepted, TypeOK
  <2>3. QED BY <2>1, <2>2
<1>3. CASE attempt + 1 = HealthAttempts /\ Decide("rejected")
  <2>1. recovery' = NoRecovery \/ recovery' \in RecoveryRecord
        BY <1>3, DecideType
  <2>2. TypeOK'
        BY <1>1, <1>3, <2>1 DEF TypeOK, Counts, Decide, RecoveryRecord, hostVars
  <2>3. Progress' /\ Counts' /\ Accepted'
        BY <1>1, <1>3 DEF Progress, Counts, Accepted, Decide
  <2>4. Modes'
        BY <1>3, DecideType DEF Modes
  <2>5. QED BY <2>2, <2>3, <2>4
<1>4. QED BY <1>2, <1>3 DEF NextAttempt

\* The last read: all five facts have held in this attempt, the server's answer
\* being the one that was read before.
LEMMA PassKeeps ==
    ASSUME Inv, step = "public", host["caddy"], server = health, expected(health),
           Pass
    PROVE  Inv'
<1> USE DEF Inv, Pass
<1>1. held \union Holds = Facts
  <2>1. {"container", "image", "postgres"} \subseteq held
        BY DEF Progress
  <2>2. {"caddy", "internal"} \subseteq Holds
        BY DEF Holds
  <2>3. held \subseteq Facts
        BY DEF TypeOK
  <2>4. QED BY <2>1, <2>2, <2>3, HoldsFacts DEF Facts
<1>2. streak' = streak + 1 /\ streak' \in Nat
      BY <1>1 DEF streakNow, TypeOK
<1>3. validHealth(health, window.ref.version, window.mode)
      BY DEF expected
<1>4. window \in WindowRecord
      BY DEF Progress
<1>5. CASE Decide("accepted") /\ consecutive + 1 >= HealthConsecutive
  <2>1. recovery' = NoRecovery \/ recovery' \in RecoveryRecord
        BY <1>3, <1>5, DecideType
  <2>2. TypeOK'
        BY <1>2, <1>5, <2>1 DEF TypeOK, Counts, Decide, RecoveryRecord, hostVars
  <2>3. Progress' /\ Counts'
        BY <1>2, <1>5 DEF Progress, Counts, Decide, TypeOK
  <2>4. Accepted'
    <3>1. streak' >= HealthConsecutive
          BY <1>2, <1>5 DEF Counts, TypeOK
    <3>2. window' = window /\ health' = health
          OBVIOUS
    <3>3. QED BY <1>3, <1>4, <3>1, <3>2 DEF Accepted
  <2>5. Modes'
        BY <1>3, <1>5, DecideType DEF Modes
  <2>6. QED BY <2>2, <2>3, <2>4, <2>5
<1>6. CASE /\ consecutive + 1 < HealthConsecutive
           /\ attempt + 1 < HealthAttempts
           /\ attempt' = attempt + 1 /\ consecutive' = consecutive + 1
           /\ step' = "container" /\ held' = {}
           /\ UNCHANGED <<verdict, recovery>>
  <2>1. TypeOK'
        BY <1>2, <1>6 DEF TypeOK, Counts, Steps, hostVars
  <2>2. Progress' /\ Counts' /\ Modes' /\ Accepted'
        BY <1>2, <1>6 DEF Progress, Counts, Modes, Accepted, TypeOK
  <2>3. QED BY <2>1, <2>2
<1>7. CASE attempt + 1 = HealthAttempts /\ Decide("rejected")
  <2>1. recovery' = NoRecovery \/ recovery' \in RecoveryRecord
        BY <1>7, DecideType
  <2>2. TypeOK'
        BY <1>2, <1>7, <2>1 DEF TypeOK, Counts, Decide, RecoveryRecord, hostVars
  <2>3. Progress' /\ Counts' /\ Accepted'
        BY <1>2, <1>7 DEF Progress, Counts, Accepted, Decide, TypeOK
  <2>4. Modes'
        BY <1>7, DecideType DEF Modes
  <2>5. QED BY <2>2, <2>3, <2>4
<1>8. consecutive + 1 >= HealthConsecutive \/ consecutive + 1 < HealthConsecutive
      BY DEF TypeOK
<1>9. QED BY <1>5, <1>6, <1>7, <1>8 DEF NextAttempt

\* A read that succeeds goes on to the next; it sees what holds by then.
LEMMA ReadKeeps ==
    ASSUME Inv, NEW s \in Steps, Goto(s), checkUnchanged, health' \in Report,
           step # "none", step # "public", s # "container",
           step = "container" => host["container"] /\ s = "image",
           step = "image" => image = window.ref /\ s = "postgres",
           step = "postgres" => host["postgres"] /\ s = "internal",
           step = "internal" => s = "public"
    PROVE  Inv'
<1> USE DEF Inv, Goto, See, checkUnchanged
<1>1. step \in {"container", "image", "postgres", "internal"}
      BY DEF TypeOK, Steps
<1>2. Progress'
  <2>1. window' \in WindowRecord /\ verdict' = "none" /\ held \subseteq held'
        BY DEF Progress
  <2>2. step = "container" => "container" \in held'
        BY DEF Holds
  <2>3. step = "image" => "image" \in held'
        BY DEF Holds
  <2>4. step = "postgres" => "postgres" \in held'
        BY DEF Holds
  <2>5. QED BY <1>1, <2>1, <2>2, <2>3, <2>4 DEF Progress
<1>3. TypeOK'
      BY HoldsFacts DEF TypeOK, hostVars
<1>4. Counts' /\ Modes'
      BY DEF Counts, Modes, Progress
<1>5. Accepted'
      BY DEF Accepted, Progress
<1>6. QED BY <1>2, <1>3, <1>4, <1>5

\* Each of the five reads goes on or fails; the last one may also pass.
LEMMA ReadsKeep == ASSUME Inv, Read PROVE Inv'
<1>1. CASE ReadContainer
      BY <1>1, ReadKeeps, FailKeeps DEF ReadContainer, Steps, Inv, TypeOK
<1>2. CASE ReadImage
      BY <1>2, ReadKeeps, FailKeeps DEF ReadImage, Steps, Inv, TypeOK
<1>3. CASE ReadPostgres
      BY <1>3, ReadKeeps, FailKeeps DEF ReadPostgres, Steps, Inv, TypeOK
<1>4. CASE inspectHealth
      BY <1>4, ReadKeeps, FailKeeps DEF inspectHealth, Steps, Inv, TypeOK
<1>5. CASE fetchPublicHealth
      BY <1>5, PassKeeps, FailKeeps DEF fetchPublicHealth
<1>6. QED BY <1>1, <1>2, <1>3, <1>4, <1>5 DEF Read

\* The five callers, each with the mode its source is entitled to.
LEMMA CallersKeep ==
    ASSUME Inv, ensureDirectSourceReady \/ ensureSourceReady \/ CheckTarget
                    \/ CheckRestored \/ RestartCurrent
    PROVE  Inv'
<1> USE DEF Inv, Purpose, Mode
<1>1. 0 \in 0..MaxSchema /\ env \in Ref /\ HostType
      BY DEF TypeOK, HostType
<1>2. CASE ensureDirectSourceReady
  <2>1. HostType'
        BY <1>2, ComposeUpType DEF ensureDirectSourceReady
  <2>2. env.version = legacyInitialVersion => env.digest # NoDigest
        BY <1>2 DEF ensureDirectSourceReady, NoDigest
  <2>3. QED BY <1>1, <1>2, <2>1, <2>2, OpenKeeps DEF ensureDirectSourceReady
<1>3. CASE ensureSourceReady
  <2>1. HostType'
        BY <1>3, ComposeUpType DEF ensureSourceReady
  <2>2. PICK to \in Version :
            Open("planned", env, IF isTrustedLegacyBootstrapStep(env, to)
                                 THEN "legacy" ELSE "strict", 0)
        BY <1>3 DEF ensureSourceReady
  <2>3. QED BY <1>1, <1>3, <2>1, <2>2, OpenKeeps
        DEF ensureSourceReady, isTrustedLegacyBootstrapStep
<1>4. CASE CheckTarget
      BY <1>1, <1>4, OpenKeeps DEF CheckTarget, HostType, hostVars, TypeOK
<1>5. CASE CheckRestored
  <2>1. recovery \in RecoveryRecord
        BY <1>5 DEF CheckRestored, TypeOK, RecoveryRecord
  <2>2. recovery.schema \in 0..MaxSchema /\ env.digest # NoDigest
        BY <1>5, <2>1 DEF CheckRestored, RecoveryRecord
  <2>3. recovery.assumption => env.version = legacyInitialVersion
        BY <1>5 DEF CheckRestored, Modes
  <2>4. HostType' /\ steady' \in BOOLEAN /\ changes' = changes /\ recovery' = recovery
        BY <1>1, <1>5 DEF CheckRestored, HostType, hostVars, TypeOK
  <2>5. QED BY <1>1, <1>5, <2>2, <2>3, <2>4, OpenKeeps DEF CheckRestored
<1>6. CASE RestartCurrent
  <2>1. HostType'
        BY <1>6, ComposeUpType DEF RestartCurrent
  <2>2. QED BY <1>1, <1>6, <2>1, OpenKeeps DEF RestartCurrent, TypeOK
<1>7. QED BY <1>2, <1>3, <1>4, <1>5, <1>6

-----------------------------------------------------------------------------
\* The host changes under an open window: what has held in it has still held.
LEMMA HostKeeps ==
    ASSUME Inv, HostType', held' \subseteq Facts, held \subseteq held',
           steady' \in BOOLEAN, changes' \in 0..MaxChanges,
           UNCHANGED <<windowVars, recovery, streak>>
    PROVE  Inv'
<1> USE DEF Inv, windowVars
<1>1. TypeOK'
      BY DEF TypeOK, HostType
<1>2. Progress' /\ Counts' /\ Modes' /\ Accepted'
      BY DEF Progress, Counts, Modes, Accepted
<1>3. QED BY <1>1, <1>2

\* Every step keeps what the reads of the attempt have established.
LEMMA NextKeeps == ASSUME Inv, [Next]_vars PROVE Inv'
<1> USE DEF Inv
<1>1. CASE ensureDirectSourceReady \/ ensureSourceReady \/ CheckTarget
               \/ CheckRestored \/ RestartCurrent
      BY <1>1, CallersKeep
<1>2. CASE Read
      BY <1>2, ReadsKeep
<1>3. CASE Timeout
  <2>1. step # "none" /\ Decide("rejected") /\ changes' \in 0..MaxChanges
        BY <1>3 DEF Timeout, TypeOK
  <2>2. recovery' = NoRecovery \/ recovery' \in RecoveryRecord
        BY <2>1, DecideType
  <2>3. TypeOK'
    <3>1. /\ UNCHANGED <<env, image, host, server, window, health>>
          /\ step' = "none" /\ attempt' = 0 /\ consecutive' = 0
          /\ verdict' = "rejected" /\ held' = {}
          /\ streak' = 0 /\ steady' = FALSE
          BY <1>3, <2>1 DEF Timeout, Decide, hostVars
    <3>2. /\ 0 \in 0..(HealthAttempts - 1) /\ 0 \in 0..(HealthConsecutive - 1)
          /\ 0 \in 0..HealthAttempts
          OBVIOUS
    <3>3. QED BY <2>1, <2>2, <3>1, <3>2 DEF TypeOK, RecoveryRecord
  <2>4. Progress' /\ Counts' /\ Accepted'
        BY <1>3, <2>1 DEF Timeout, Progress, Counts, Accepted, Decide
  <2>5. Modes'
        BY <1>3, <2>1, DecideType DEF Modes, Timeout
  <2>6. QED BY <2>3, <2>4, <2>5
<1>4. CASE HostChanges
  <2>1. server' \in Report
    <3>1. Answers(image.version) \subseteq Report
          BY AnswersReport DEF TypeOK, Ref
    <3>2. NoReport \in Report
          BY DEF NoReport, Report, bareLegacy
    <3>3. QED BY <1>4, <3>1, <3>2 DEF HostChanges, TypeOK
  <2>2. HostType'
    <3>1. host' \in [{"container", "postgres", "caddy"} -> BOOLEAN]
          BY <1>4 DEF HostChanges, TypeOK
    <3>2. env' = env /\ image' = image
          BY <1>4 DEF HostChanges
    <3>3. QED BY <2>1, <3>1, <3>2 DEF HostType, TypeOK
  <2>3. held' \subseteq Facts /\ held \subseteq held'
        BY <1>4, HoldsFacts DEF HostChanges, See, TypeOK
  <2>4. changes' \in 0..MaxChanges /\ steady' \in BOOLEAN
    <3>1. changes < MaxChanges /\ changes' = changes + 1
          BY <1>4 DEF HostChanges
    <3>2. changes' \in 0..MaxChanges
          BY <3>1 DEF TypeOK
    <3>3. steady' \in BOOLEAN
          BY <1>4 DEF HostChanges
    <3>4. QED BY <3>2, <3>3
  <2>5. QED BY <1>4, <2>2, <2>3, <2>4, HostKeeps DEF HostChanges
<1>5. CASE ActivateTarget
  <2>1. PICK t \in Version, d \in {NoDigest, "other"} :
            /\ env' = [version |-> t, digest |-> d]
            /\ \/ image' = env' /\ server' \in Answers(t) \union {NoReport}
               \/ UNCHANGED <<image, server>>
        BY <1>5 DEF ActivateTarget
  <2>2. env' \in Ref
        BY <2>1 DEF Ref, Digest
  <2>3. server' \in Report /\ image' \in Ref
    <3>1. NoReport \in Report
          BY DEF NoReport, Report, bareLegacy
    <3>2. Answers(t) \subseteq Report
          BY <2>1, AnswersReport
    <3>3. QED BY <2>1, <2>2, <3>1, <3>2 DEF TypeOK
  <2>4. QED BY <1>5, <2>2, <2>3, HostKeeps
        DEF ActivateTarget, HostType, TypeOK, seenVars
<1>6. CASE RestoreBackup
  <2>1. recovery \in RecoveryRecord
        BY <1>6 DEF RestoreBackup, TypeOK, RecoveryRecord
  <2>2. recovery.ref \in Ref /\ recovery.answers \in Report
        BY <2>1 DEF RecoveryRecord, Ref
  <2>3. QED BY <1>6, <2>2, HostKeeps DEF RestoreBackup, HostType, TypeOK, seenVars
<1>7. CASE UNCHANGED vars
      BY <1>7, HostKeeps
      DEF vars, hostVars, windowVars, seenVars, HostType, TypeOK
<1>8. QED BY <1>1, <1>2, <1>3, <1>4, <1>5, <1>6, <1>7 DEF Next

\* The invariant holds in every reachable state.
LEMMA Invariance == Spec => []Inv
<1>1. QED BY InitHolds, NextKeeps, PTL DEF Spec

\* Every field stays in its range; in particular no window makes more attempts
\* than it has, and every recorded recovery point is well-formed.
THEOREM Typing == Spec => []TypeOK
<1>1. Inv => TypeOK
      BY DEF Inv
<1>2. QED BY <1>1, Invariance, PTL

\* An accepted window ends with HealthConsecutive attempts in a row in each of
\* which everything that is checked has held, whatever the host did in between.
THEOREM AcceptedMeansServed == Spec => []AcceptedWasServed
<1>1. Inv => AcceptedWasServed
      BY DEF Inv, Accepted, AcceptedWasServed
<1>2. QED BY <1>1, Invariance, PTL

\* A server that does not say its version is only certified as v0.15.2, as the
\* source of an upgrade or of a rollback, under an approved digest.
THEOREM BareIsLegacy == Spec => []BareOnlyForLegacy
<1>1. Inv => BareOnlyForLegacy
  <2> SUFFICES ASSUME Inv, verdict = "accepted",
                      health.version # window.ref.version
               PROVE  window.mode = "legacy"
      BY DEF BareOnlyForLegacy, Inv, Modes
  <2>1. validHealth(health, window.ref.version, window.mode)
        BY DEF Inv, Accepted
  <2>2. QED BY <2>1 DEF validHealth, strictHealth
<1>2. QED BY <1>1, Invariance, PTL

-----------------------------------------------------------------------------
(***************************************************************************)
(* A host that was certified as source and not disturbed since passes after*)
(* its restoration, too.  The point that is kept passes in the mode it     *)
(* carries (Point); an undisturbed host is as the source window saw it     *)
(* (SourceSeen), also when it is restored (Undisturbed), and every attempt *)
(* of its window is a good one (RestoredPasses).                           *)
(***************************************************************************)
pointMode == IF recovery.assumption THEN "legacy" ELSE "strict"

Point ==
    recovery # NoRecovery =>
        /\ validHealth(recovery.answers, recovery.ref.version, pointMode)
        /\ returned(recovery.answers, pointMode).schema = recovery.schema

SourceSeen ==
    /\ step # "none" => env = window.ref
    /\ steady /\ step # "none" /\ window.purpose \in {"source", "planned"} =>
        /\ image = env
        /\ step # "container" => host["container"]
        /\ step \in {"internal", "public"} => host["postgres"]
        /\ step = "public" => health = server

Undisturbed ==
    steady /\ recovery # NoRecovery =>
        /\ host["container"] /\ host["postgres"] /\ host["caddy"]
        /\ env = recovery.ref => image = env /\ server = recovery.answers

RestoredPasses ==
    step # "none" /\ window.purpose = "restored" =>
        /\ recovery # NoRecovery
        /\ window.ref = recovery.ref /\ window.mode = pointMode
        /\ window.schema = recovery.schema
        /\ steady => /\ consecutive = attempt
                     /\ step = "public" => health = server

RestoreInv == Inv /\ Point /\ SourceSeen /\ Undisturbed /\ RestoredPasses
                  /\ RestoredAsBackedUp

\* Opening a window forgets nothing of the host but what `up -d` changes.
LEMMA CallersRestore ==
    ASSUME RestoreInv, ensureDirectSourceReady \/ ensureSourceReady
                           \/ CheckTarget \/ CheckRestored \/ RestartCurrent
    PROVE  Point' /\ SourceSeen' /\ Undisturbed' /\ RestoredPasses'
               /\ RestoredAsBackedUp'
<1> USE DEF RestoreInv
<1>1. /\ step' = "container" /\ verdict' = "none"
      /\ attempt' = 0 /\ consecutive' = 0
      /\ env' = env /\ window'.ref = env
      BY DEF ensureDirectSourceReady, ensureSourceReady, CheckTarget,
         CheckRestored, RestartCurrent, Open, ComposeUp, hostVars
<1>2. RestoredAsBackedUp'
      BY <1>1 DEF RestoredAsBackedUp
<1>3. CASE ensureDirectSourceReady \/ ensureSourceReady
  <2>1. image' = env /\ recovery' = NoRecovery
        BY <1>3 DEF ensureDirectSourceReady, ensureSourceReady, ComposeUp
  <2>2. window'.purpose \in {"source", "planned"}
        BY <1>3 DEF ensureDirectSourceReady, ensureSourceReady, Open
  <2>3. QED BY <1>1, <1>2, <2>1, <2>2
        DEF Point, SourceSeen, Undisturbed, RestoredPasses
<1>4. CASE CheckTarget \/ RestartCurrent
  <2>1. window'.purpose \in {"target", "restart"}
        BY <1>4 DEF CheckTarget, RestartCurrent, Open
  <2>2. recovery' = recovery /\ steady' = steady
        BY <1>4 DEF CheckTarget, RestartCurrent
  <2>3. Undisturbed'
    <3>1. CASE CheckTarget
          BY <2>2, <3>1 DEF CheckTarget, hostVars, Undisturbed
    <3>2. CASE RestartCurrent
          BY <2>2, <3>2 DEF RestartCurrent, ComposeUp, Undisturbed, Inv, TypeOK
    <3>3. QED BY <1>4, <3>1, <3>2
  <2>4. Point'
        BY <2>2 DEF Point, pointMode
  <2>5. QED BY <1>1, <1>2, <2>1, <2>3, <2>4 DEF SourceSeen, RestoredPasses
<1>5. CASE CheckRestored
  <2>1. /\ recovery # NoRecovery /\ env = recovery.ref
        /\ UNCHANGED <<env, image, host, server, recovery, steady>>
        BY <1>5 DEF CheckRestored, hostVars
  <2>2. window' = [purpose |-> "restored", ref |-> recovery.ref,
                   mode |-> pointMode, schema |-> recovery.schema]
        BY <1>5, <2>1 DEF CheckRestored, Open, pointMode
  <2>3. Point' /\ Undisturbed'
        BY <2>1 DEF Point, Undisturbed, pointMode
  <2>4. SourceSeen'
        BY <1>1, <2>2 DEF SourceSeen
  <2>5. RestoredPasses'
        BY <1>1, <2>1, <2>2 DEF RestoredPasses, pointMode
  <2>6. QED BY <1>2, <2>3, <2>4, <2>5
<1>6. QED BY <1>3, <1>4, <1>5

\* No read of a restored and undisturbed host fails.
LEMMA RestoredReads ==
    ASSUME RestoreInv, step # "none", window.purpose = "restored", steady
    PROVE  /\ host["container"] /\ host["postgres"] /\ host["caddy"]
           /\ image = window.ref
           /\ validHealth(server, window.ref.version, window.mode)
           /\ step = "public" => server = health /\ expected(health)
<1> USE DEF RestoreInv
<1>1. /\ recovery # NoRecovery /\ window.ref = recovery.ref
      /\ window.mode = pointMode /\ window.schema = recovery.schema
      /\ step = "public" => health = server
      BY DEF RestoredPasses
<1>2. env = recovery.ref
      BY <1>1 DEF SourceSeen
<1>3. /\ host["container"] /\ host["postgres"] /\ host["caddy"]
      /\ image = window.ref /\ server = recovery.answers
      BY <1>1, <1>2 DEF Undisturbed
<1>4. expected(server) /\ validHealth(server, window.ref.version, window.mode)
      BY <1>1, <1>3 DEF Point, expected
<1>5. QED BY <1>1, <1>3, <1>4

\* A read that fails, or a window that runs out, is not of a restored and
\* undisturbed host, and records nothing.
LEMMA FailRestores ==
    ASSUME RestoreInv, step # "none", Fail,
           ~(window.purpose = "restored" /\ steady)
    PROVE  Point' /\ SourceSeen' /\ Undisturbed' /\ RestoredPasses'
               /\ RestoredAsBackedUp'
<1> USE DEF RestoreInv
<1>1. /\ UNCHANGED <<env, image, host, server, window, health, steady, recovery>>
      /\ step' \in {"container", "none"}
      BY DEF Fail, NextAttempt, Decide, hostVars
<1>2. QED BY <1>1
      DEF Point, SourceSeen, Undisturbed, RestoredPasses, RestoredAsBackedUp,
          pointMode

\* A good attempt: an accepted source is recorded as it was seen, and a restored
\* host that is not disturbed never runs out of attempts.
LEMMA PassRestores ==
    ASSUME RestoreInv, step = "public", host["caddy"], server = health,
           expected(health), Pass
    PROVE  Point' /\ SourceSeen' /\ Undisturbed' /\ RestoredPasses'
               /\ RestoredAsBackedUp'
<1> USE DEF RestoreInv
<1>1. UNCHANGED <<env, image, host, server, window, health, steady>>
      BY DEF Pass, hostVars
<1>2. /\ attempt \in Nat /\ consecutive \in Nat
      /\ attempt + 1 <= HealthAttempts
      BY DEF Inv, TypeOK
<1>3. CASE Decide("accepted")
  <2>1. step' = "none" /\ verdict' = "accepted"
        BY <1>3 DEF Decide
  <2>2. CASE recovery' = recovery
        BY <1>1, <2>1, <2>2 DEF Point, SourceSeen, Undisturbed, RestoredPasses,
           RestoredAsBackedUp, pointMode
  <2>3. CASE recovery' = recorded /\ window.purpose \in {"source", "planned"}
    <3>1. validHealth(health, window.ref.version, window.mode)
          BY DEF expected
    <3>2. window \in WindowRecord
          BY DEF Inv, Progress
    <3>3. recorded # NoRecovery =>
            /\ recorded.answers = health
            /\ recorded.ref.version = window.ref.version
            /\ recorded.assumption = (window.mode = "legacy")
            /\ recorded.schema = returned(health, window.mode).schema
      <4>1. window.ref \in Ref
            BY <3>2 DEF WindowRecord
      <4>2. [window.ref EXCEPT !.digest = IF @ = NoDigest THEN "other" ELSE @].version
                = window.ref.version
            BY <4>1 DEF Ref
      <4>3. QED BY <4>2 DEF recorded
    <3>4. window.mode \in {"strict", "legacy"}
          BY <3>2 DEF WindowRecord, Mode
    <3>5. recovery' # NoRecovery =>
            IF recovery'.assumption THEN window.mode = "legacy"
            ELSE window.mode = "strict"
          BY <2>3, <3>3, <3>4
    <3>6. Point'
          BY <2>3, <3>1, <3>3, <3>5 DEF Point, pointMode
    <3>7. Undisturbed'
          BY <1>1, <2>3, <3>3 DEF Undisturbed, SourceSeen
    <3>8. QED BY <2>1, <3>6, <3>7
          DEF SourceSeen, RestoredPasses, RestoredAsBackedUp
  <2>4. QED BY <1>3, <2>2, <2>3 DEF Decide
<1>4. CASE consecutive + 1 < HealthConsecutive /\ NextAttempt(consecutive + 1)
  <2>1. window.purpose = "restored" /\ steady => attempt + 1 < HealthAttempts
        BY <1>2, <1>4 DEF RestoredPasses
  <2>2. /\ recovery' = recovery
        /\ \/ /\ step' = "container" /\ verdict' = verdict
              /\ attempt' = attempt + 1 /\ consecutive' = consecutive + 1
           \/ step' = "none" /\ attempt + 1 = HealthAttempts
        BY <1>4 DEF NextAttempt, Decide
  <2>3. Point' /\ SourceSeen' /\ Undisturbed'
        BY <1>1, <2>2 DEF Point, SourceSeen, Undisturbed, pointMode
  <2>4. RestoredPasses'
        BY <1>1, <2>2 DEF RestoredPasses, pointMode
  <2>5. RestoredAsBackedUp'
        BY <1>1, <1>2, <2>1, <2>2 DEF RestoredAsBackedUp
  <2>6. QED BY <2>3, <2>4, <2>5
<1>5. QED BY <1>2, <1>3, <1>4 DEF Pass, Inv, TypeOK

\* A read that succeeds leaves the host alone.
LEMMA GotoRestores ==
    ASSUME RestoreInv, NEW s \in Steps, Goto(s), checkUnchanged, step # "none",
           s # "container",
           step = "container" => s = "image" /\ host["container"],
           step = "image" => s = "postgres",
           step = "postgres" => s = "internal" /\ host["postgres"],
           s = "public" => health' = server, step # "public"
    PROVE  Point' /\ SourceSeen' /\ Undisturbed' /\ RestoredPasses'
               /\ RestoredAsBackedUp'
<1> USE DEF RestoreInv
<1>1. /\ UNCHANGED <<env, image, host, server, window, recovery, steady>>
      /\ UNCHANGED <<attempt, consecutive, verdict>> /\ step' = s
      BY DEF Goto, checkUnchanged, hostVars
<1>2. step \in {"container", "image", "postgres", "internal"}
      BY DEF Inv, TypeOK, Steps
<1>3. Point' /\ Undisturbed' /\ RestoredAsBackedUp'
      BY <1>1 DEF Point, Undisturbed, RestoredAsBackedUp, pointMode
<1>4. SourceSeen'
  <2>1. env' = window'.ref
        BY <1>1 DEF SourceSeen
  <2>2. ASSUME steady', window'.purpose \in {"source", "planned"}
        PROVE  /\ image' = env' /\ host'["container"]
               /\ s \in {"internal", "public"} => host'["postgres"]
               /\ s = "public" => health' = server'
    <3>1. image = env /\ (step # "container" => host["container"])
              /\ (step = "internal" => host["postgres"])
          BY <1>1, <2>2 DEF SourceSeen
    <3>2. s \in {"internal", "public"} => step \in {"internal", "postgres"}
          BY <1>2
    <3>3. QED BY <1>1, <3>1, <3>2
  <2>3. QED BY <1>1, <2>1, <2>2 DEF SourceSeen
<1>5. RestoredPasses'
      BY <1>1 DEF RestoredPasses, pointMode
<1>6. QED BY <1>3, <1>4, <1>5

\* The reads, with the cases of a restored host settled by RestoredReads.
LEMMA ReadsRestore ==
    ASSUME RestoreInv, Read
    PROVE  Point' /\ SourceSeen' /\ Undisturbed' /\ RestoredPasses'
               /\ RestoredAsBackedUp'
<1>1. CASE ReadContainer
      BY <1>1, GotoRestores, RestoredReads, FailRestores DEF ReadContainer, Steps
<1>2. CASE ReadImage
      BY <1>2, GotoRestores, RestoredReads, FailRestores DEF ReadImage, Steps
<1>3. CASE ReadPostgres
      BY <1>3, GotoRestores, RestoredReads, FailRestores DEF ReadPostgres, Steps
<1>4. CASE inspectHealth
      BY <1>4, GotoRestores, RestoredReads, FailRestores DEF inspectHealth, Steps
<1>5. CASE fetchPublicHealth
      BY <1>5, PassRestores, RestoredReads, FailRestores DEF fetchPublicHealth
<1>6. QED BY <1>1, <1>2, <1>3, <1>4, <1>5 DEF Read

\* A change of the host ends the claim; activation leaves the recorded image, and
\* restoration brings it back with the answers it was recorded with.
LEMMA NextRestores == ASSUME RestoreInv, [Next]_vars PROVE RestoreInv'
<1> DEFINE Parts == Point /\ SourceSeen /\ Undisturbed /\ RestoredPasses
                        /\ RestoredAsBackedUp
<1> SUFFICES Parts'
    BY NextKeeps DEF RestoreInv
<1> USE DEF RestoreInv
<1>1. CASE ensureDirectSourceReady \/ ensureSourceReady \/ CheckTarget
               \/ CheckRestored \/ RestartCurrent
      BY <1>1, CallersRestore
<1>2. CASE Read
      BY <1>2, ReadsRestore
<1>3. CASE Timeout
  <2>1. /\ steady' = FALSE /\ step' = "none" /\ recovery' = recovery
        BY <1>3 DEF Timeout, Decide
  <2>2. QED BY <2>1
        DEF Point, SourceSeen, Undisturbed, RestoredPasses, RestoredAsBackedUp,
            pointMode
<1>4. CASE HostChanges
  <2>1. /\ steady' = FALSE
        /\ UNCHANGED <<env, recovery, window, step>>
        BY <1>4 DEF HostChanges, windowVars
  <2>2. QED BY <2>1
        DEF Point, SourceSeen, Undisturbed, RestoredPasses, RestoredAsBackedUp,
            pointMode
<1>5. CASE ActivateTarget
  <2>1. PICK t \in Version, d \in {NoDigest, "other"} :
            env.version < t /\ env' = [version |-> t, digest |-> d]
        BY <1>5 DEF ActivateTarget
  <2>2. /\ env.version = recovery.ref.version /\ recovery' = recovery
        /\ step = "none" /\ step' = "none"
        /\ UNCHANGED <<host, window, verdict, steady>>
        BY <1>5 DEF ActivateTarget, windowVars
  <2>3. env.version \in Nat
        BY DEF Inv, TypeOK, Ref, Version
  <2>4. env' # recovery'.ref
        BY <2>1, <2>2, <2>3
  <2>5. QED BY <2>2, <2>4
        DEF Point, SourceSeen, Undisturbed, RestoredPasses, RestoredAsBackedUp,
            pointMode
<1>6. CASE RestoreBackup
  <2>1. /\ image' = env' /\ server' = recovery.answers
        /\ UNCHANGED <<host, recovery, window, verdict, steady, step>>
        /\ step = "none" /\ recovery # NoRecovery
        BY <1>6 DEF RestoreBackup, windowVars
  <2>2. QED BY <2>1
        DEF Point, SourceSeen, Undisturbed, RestoredPasses, RestoredAsBackedUp,
            pointMode
<1>7. CASE UNCHANGED vars
      BY <1>7 DEF vars, hostVars, windowVars, seenVars, Point, SourceSeen,
         Undisturbed, RestoredPasses, RestoredAsBackedUp, pointMode
<1>8. QED BY <1>1, <1>2, <1>3, <1>4, <1>5, <1>6, <1>7 DEF Next

\* A rollback is never given up because backup and restore judge the same
\* server differently: a source that was certified, and was not disturbed
\* since, passes its check again once it has been restored.
THEOREM RestoredPassesAgain == Spec => []RestoredAsBackedUp
<1>1. Init => RestoreInv
      BY InitHolds DEF Init, RestoreInv, Point, SourceSeen, Undisturbed,
         RestoredPasses, RestoredAsBackedUp
<1>2. RestoreInv => RestoredAsBackedUp
      BY DEF RestoreInv
<1>3. QED BY <1>1, <1>2, NextRestores, PTL DEF Spec
=============================================================================
