---------------------------- MODULE HealthWindow ----------------------------
(***************************************************************************)
(* The confirmation window every verdict about the host rests on: up to    *)
(* HealthAttempts checks, HealthConsecutive successful ones in a row, each *)
(* made of five reads (container, image, PostgreSQL, internal health, and  *)
(* the same health through Caddy) between which the host goes on changing. *)
(*                                                                         *)
(* Five callers open a window: the source before it is backed up ("source",*)
(* and "planned" for a persisted plan), the activated target, the restored *)
(* source, and a restart (which RepairWatchdog does in the same way).  They*)
(* differ in the image they expect, in whether the schema is compared, and *)
(* in the mode: the adopted release v0.15.2 may answer without its version.*)
(***************************************************************************)
EXTENDS Naturals

CONSTANTS
    MaxVersion,         \* releases 1..MaxVersion, ordered
    MaxSchema,          \* schemas they may report
    HealthAttempts, HealthConsecutive,
    MaxChanges          \* changes of the host, and timeouts

ASSUME HealthWindowBounds ==
    /\ MaxVersion \in Nat \ {0} /\ MaxSchema \in Nat \ {0}
    /\ HealthConsecutive \in Nat \ {0}
    /\ HealthAttempts \in Nat /\ HealthAttempts >= HealthConsecutive
    /\ MaxChanges \in Nat

legacyInitialVersion == 1
firstFormalVersion == 2
bareLegacy == 0                 \* "0.15.2", without the "v"

Version == 1..MaxVersion
NoDigest == "none"
Digest == {NoDigest, "approved", "other"}      \* approved: of v0.15.2
Ref == [version : Version, digest : Digest]

\* What /_p2p/health answers; schema stands for version and compat version.
Report == [ok : BOOLEAN, minimal : BOOLEAN, version : Version \union {bareLegacy},
           schema : 0..MaxSchema]
NoReport == [ok |-> FALSE, minimal |-> FALSE, version |-> bareLegacy, schema |-> 0]
Minimal == [ok |-> TRUE, minimal |-> TRUE, version |-> bareLegacy, schema |-> 0]
Full(v, s) == [ok |-> TRUE, minimal |-> FALSE, version |-> v, schema |-> s]

\* The answers of a working server of version v.
Answers(v) ==
    IF v = legacyInitialVersion
    THEN {Minimal} \union {Full(x, s) : x \in {v, bareLegacy}, s \in 1..MaxSchema}
    ELSE {Full(v, s) : s \in 1..MaxSchema}

Purpose == {"source", "planned", "target", "restored", "restart"}
Mode == {"strict", "legacy"}
Steps == {"container", "image", "postgres", "internal", "public"}
Facts == {"container", "image", "postgres", "internal", "caddy"}

NoWindow == [purpose |-> "none", ref |-> [version |-> 0, digest |-> NoDigest],
             mode |-> "strict", schema |-> 0]
NoRecovery == [ref |-> [version |-> 0, digest |-> NoDigest], schema |-> 0,
               assumption |-> FALSE, answers |-> NoReport]

VARIABLES
    env, image,         \* configured image, and the container's
    host,               \* container healthy, PostgreSQL ready, Caddy routing
    server,             \* what the server in the container answers
    window,             \* what the open or last window expects
    step, attempt, consecutive,
    health,             \* internal health of this attempt, and the last good
    verdict,            \* of the last window
    recovery,           \* the recovery point the accepted source is kept as
    held, streak,       \* facts that held at some moment of this attempt, and
                        \* attempts in a row in which all of them did
    steady,             \* the host has not changed since the source window began
    changes

hostVars == <<env, image, host, server>>
windowVars == <<window, step, attempt, consecutive, health, verdict>>
seenVars == <<held, streak>>
vars == <<hostVars, windowVars, recovery, seenVars, steady, changes>>

TypeOK ==
    /\ env \in Ref /\ image \in Ref
    /\ host \in [{"container", "postgres", "caddy"} -> BOOLEAN]
    /\ server \in Report
    /\ window = NoWindow \/ window \in [purpose : Purpose, ref : Ref,
                                        mode : Mode, schema : 0..MaxSchema]
    /\ step \in Steps \union {"none"}
    /\ attempt \in 0..(HealthAttempts - 1)
    /\ consecutive \in 0..(HealthConsecutive - 1)
    /\ health \in Report
    /\ verdict \in {"none", "accepted", "rejected"}
    /\ recovery = NoRecovery \/ recovery \in
            [ref : [version : Version, digest : Digest \ {NoDigest}],
             schema : 1..MaxSchema, assumption : BOOLEAN, answers : Report]
    /\ held \subseteq Facts /\ streak \in 0..HealthAttempts
    /\ steady \in BOOLEAN /\ changes \in 0..MaxChanges

Init ==
    /\ env \in Ref /\ image = env
    /\ host = [f \in {"container", "postgres", "caddy"} |-> TRUE]
    /\ server \in Answers(env.version)
    /\ window = NoWindow /\ step = "none" /\ attempt = 0 /\ consecutive = 0
    /\ health = NoReport /\ verdict = "none"
    /\ recovery = NoRecovery
    /\ held = {} /\ streak = 0 /\ steady = TRUE /\ changes = 0

-----------------------------------------------------------------------------
(***************************************************************************)
(* What one health report is worth.                                        *)
(***************************************************************************)
healthVersionMatches(expected, observed) ==
    \/ observed = expected
    \/ expected = legacyInitialVersion /\ observed = bareLegacy

strictHealth(h, v) == h.ok /\ h.version = v /\ h.schema >= 1
legacyFullHealth(h, v) ==
    h.ok /\ healthVersionMatches(v, h.version) /\ h.schema >= 1
legacyMinimalHealth(h) == h.ok /\ h.minimal

validHealth(h, v, mode) ==
    \/ strictHealth(h, v)
    \/ /\ mode = "legacy" /\ v = legacyInitialVersion
       /\ legacyFullHealth(h, v) \/ legacyMinimalHealth(h)

\* What the check returns: a minimal answer counts as schema 1 of v0.15.2.
returned(h, mode) ==
    IF mode = "legacy" /\ legacyMinimalHealth(h)
    THEN Full(legacyInitialVersion, 1) ELSE h

expected(h) ==
    /\ validHealth(h, window.ref.version, window.mode)
    /\ window.schema # 0 => returned(h, window.mode).schema = window.schema

-----------------------------------------------------------------------------
(***************************************************************************)
(* A window is opened.  Source and restart first run `up -d`, which gives  *)
(* the container the configured image; it may come up later than that.     *)
(***************************************************************************)
isTrustedLegacyBootstrapStep(ref, to) ==
    ref.version = legacyInitialVersion /\ to = firstFormalVersion

Open(purpose, ref, mode, schema) ==
    /\ step = "none"
    /\ window' = [purpose |-> purpose, ref |-> ref, mode |-> mode,
                  schema |-> schema]
    /\ step' = "container" /\ attempt' = 0 /\ consecutive' = 0
    /\ health' = NoReport /\ verdict' = "none"
    /\ held' = {} /\ streak' = 0

ComposeUp ==
    /\ image' = env
    /\ \/ image = env /\ UNCHANGED server
       \/ image # env /\ server' \in Answers(env.version)
    /\ host' = [host EXCEPT !["container"] = TRUE]
    /\ UNCHANGED env

\* ensureDirectSourceReady
ensureDirectSourceReady ==
    /\ env.version = legacyInitialVersion => env.digest = "approved"
    /\ Open("source", env, IF env.version = legacyInitialVersion
                           THEN "legacy" ELSE "strict", 0)
    /\ ComposeUp
    /\ recovery' = NoRecovery
    /\ steady' = TRUE
    /\ UNCHANGED changes

\* ensureSourceReady: a persisted plan names the digests of its source, and this
\* image has one of them.
ensureSourceReady ==
    /\ env.digest # NoDigest
    /\ \E to \in Version :
        /\ env.version < to
        /\ Open("planned", env, IF isTrustedLegacyBootstrapStep(env, to)
                                THEN "legacy" ELSE "strict", 0)
    /\ ComposeUp
    /\ recovery' = NoRecovery
    /\ steady' = TRUE
    /\ UNCHANGED changes

\* Mutant: the exception for v0.15.2 is made for a configured target too.
CheckTargetLeniently ==
    /\ Open("target", env, "legacy", 0)
    /\ UNCHANGED <<hostVars, recovery, steady, changes>>

\* waitCurrentExpected, and waitExpected with the schema of a manifest.
CheckTarget ==
    /\ \E s \in 0..MaxSchema : Open("target", env, "strict", s)
    /\ UNCHANGED <<hostVars, recovery, steady, changes>>

\* Mutant: the assumption in the metadata is not looked at.
CheckRestoredStrictly ==
    /\ recovery # NoRecovery /\ env = recovery.ref
    /\ Open("restored", env, "strict", recovery.schema)
    /\ UNCHANGED <<hostVars, recovery, steady, changes>>

CheckRestored ==
    /\ recovery # NoRecovery /\ env = recovery.ref
    /\ Open("restored", env, IF recovery.assumption THEN "legacy" ELSE "strict",
            recovery.schema)
    /\ UNCHANGED <<hostVars, recovery, steady, changes>>

\* RestartCurrent; RepairWatchdog ends with the same window.
RestartCurrent ==
    /\ Open("restart", env, "strict", 0)
    /\ ComposeUp
    /\ UNCHANGED <<recovery, steady, changes>>

-----------------------------------------------------------------------------
(***************************************************************************)
(* checkCurrentHealthWithMode, one read at a time.                         *)
(***************************************************************************)
Holds ==
    {f \in {"container", "postgres", "caddy"} : host[f]}
        \union (IF image = window.ref THEN {"image"} ELSE {})
        \union (IF expected(server) THEN {"internal"} ELSE {})
See == held' = held \union Holds

Goto(s) == step' = s /\ See /\ UNCHANGED <<attempt, consecutive, verdict, streak>>

\* The recovery point an accepted source becomes, when its metadata is valid:
\* a tag is resolved to its digest, and only v0.15.2 carries an assumption.
recorded ==
    LET r == returned(health, window.mode)
        point == [ref |-> [window.ref EXCEPT !.digest =
                              IF @ = NoDigest THEN "other" ELSE @],
                  schema |-> r.schema,
                  assumption |-> window.mode = "legacy", answers |-> health]
    IN  IF point.assumption /\ point.schema # 1 THEN NoRecovery ELSE point

streakNow == IF held \union Holds = Facts THEN streak + 1 ELSE 0

\* The end of an attempt: the next one, or the end of the window.
Decide(v) ==
    /\ verdict' = v /\ step' = "none"
    /\ attempt' = 0 /\ consecutive' = 0
    /\ held' = {}
    /\ recovery' = IF v = "accepted" /\ window.purpose \in {"source", "planned"}
                   THEN recorded ELSE recovery

NextAttempt(c) ==
    \/ /\ attempt + 1 < HealthAttempts
       /\ attempt' = attempt + 1 /\ consecutive' = c
       /\ step' = "container" /\ held' = {}
       /\ UNCHANGED <<verdict, recovery>>
    \/ attempt + 1 = HealthAttempts /\ Decide("rejected")

\* Mutant: a failed attempt does not start the count again.
FailKeepsCount ==
    NextAttempt(consecutive) /\ streak' = streakNow
        /\ UNCHANGED <<hostVars, window, health, steady, changes>>
Fail ==
    NextAttempt(0) /\ streak' = streakNow
        /\ UNCHANGED <<hostVars, window, health, steady, changes>>

Pass ==
    /\ IF consecutive + 1 >= HealthConsecutive
       THEN Decide("accepted")
       ELSE NextAttempt(consecutive + 1)
    /\ streak' = streakNow
    /\ UNCHANGED <<hostVars, window, health, steady, changes>>

checkUnchanged == UNCHANGED <<hostVars, window, recovery, steady, changes>>

ReadContainer ==
    /\ step = "container"
    /\ \/ host["container"] /\ Goto("image") /\ UNCHANGED health /\ checkUnchanged
       \/ ~host["container"] /\ Fail

ReadImage ==
    /\ step = "image"
    /\ \/ image = window.ref /\ Goto("postgres") /\ UNCHANGED health
              /\ checkUnchanged
       \/ image # window.ref /\ Fail

\* pg_isready, then a write probe.
ReadPostgres ==
    /\ step = "postgres"
    /\ \/ host["postgres"] /\ Goto("internal") /\ UNCHANGED health
              /\ checkUnchanged
       \/ ~host["postgres"] /\ Fail

inspectHealth ==
    /\ step = "internal"
    /\ \/ /\ validHealth(server, window.ref.version, window.mode)
          /\ health' = server /\ Goto("public") /\ checkUnchanged
       \/ ~validHealth(server, window.ref.version, window.mode) /\ Fail

\* The same answer through Caddy, and then the schema of what was read inside.
fetchPublicHealth ==
    /\ step = "public"
    /\ IF host["caddy"] /\ server = health /\ expected(health) THEN Pass ELSE Fail

\* healthTimeout
Timeout ==
    /\ step # "none" /\ changes < MaxChanges
    /\ changes' = changes + 1
    /\ Decide("rejected")
    /\ streak' = 0 /\ steady' = FALSE
    /\ UNCHANGED <<hostVars, window, health>>

-----------------------------------------------------------------------------
(***************************************************************************)
(* The host between reads, and the two ways its image changes.             *)
(***************************************************************************)
HostChanges ==
    /\ changes < MaxChanges
    /\ changes' = changes + 1
    /\ \/ /\ \E f \in DOMAIN host : host' = [host EXCEPT ![f] = ~@]
          /\ UNCHANGED server
       \/ server' \in (Answers(image.version) \union {NoReport}) \ {server}
              /\ UNCHANGED host
    /\ steady' = FALSE
    /\ IF step = "none" THEN UNCHANGED held ELSE See
    /\ UNCHANGED <<env, image, windowVars, recovery, streak>>

\* ActivateTarget and ActivateDirectTarget: the target's tag or its digest is
\* configured and the container recreated, or the latter fails; the server may
\* still be starting.
ActivateTarget ==
    /\ step = "none" /\ recovery # NoRecovery /\ env.version = recovery.ref.version
    /\ \E t \in Version, d \in {NoDigest, "other"} :
        /\ env.version < t
        /\ env' = [version |-> t, digest |-> d]
        /\ \/ image' = env' /\ server' \in Answers(t) \union {NoReport}
           \/ UNCHANGED <<image, server>>
    /\ UNCHANGED <<host, windowVars, recovery, seenVars, steady, changes>>

\* RestoreBackup: the pinned image over the archived contents answers as it did
\* when they were archived.
RestoreBackup ==
    /\ step = "none" /\ recovery # NoRecovery /\ env # recovery.ref
    /\ env' = recovery.ref /\ image' = env'
    /\ server' = recovery.answers
    /\ UNCHANGED <<host, windowVars, recovery, seenVars, steady, changes>>

Read == ReadContainer \/ ReadImage \/ ReadPostgres \/ inspectHealth
           \/ fetchPublicHealth

Next ==
    \/ ensureDirectSourceReady \/ ensureSourceReady \/ CheckTarget
    \/ CheckRestored \/ RestartCurrent
    \/ Read \/ Timeout
    \/ HostChanges \/ ActivateTarget \/ RestoreBackup

Spec == Init /\ [][Next]_vars

-----------------------------------------------------------------------------
(***************************************************************************)
(* Properties                                                              *)
(***************************************************************************)
\* README: success needs consecutive agreement.  An accepted window ends with
\* HealthConsecutive attempts in a row in each of which the container, its
\* image, PostgreSQL, the server's own answer and Caddy were as expected at
\* some moment, however the host changed between the reads.
AcceptedWasServed == verdict = "accepted" => streak >= HealthConsecutive

\* Only v0.15.2 is ever certified on an answer without its own version, and a
\* target never is.
BareOnlyForLegacy ==
    verdict = "accepted" /\ health.version # window.ref.version =>
        /\ window.ref.version = legacyInitialVersion
        /\ window.purpose \in {"source", "planned", "restored"}
        /\ window.purpose # "planned" => window.ref.digest # NoDigest

\* A host that was certified as source, was not disturbed since, and has been
\* restored is certified again: no rollback is given up because backup and
\* restore judge the same server differently.
RestoredAsBackedUp ==
    verdict = "rejected" /\ window.purpose = "restored" => ~steady
=============================================================================
