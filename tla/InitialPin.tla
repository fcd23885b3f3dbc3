----------------------------- MODULE InitialPin -----------------------------
(***************************************************************************)
(* pin-initial-latest: the one-shot command of the deployer that replaces  *)
(* the bootstrap tag "latest" in the Compose environment by the version    *)
(* and the digest of the image that is running, and recreates the          *)
(* container from it.  It holds no lock: what it pins is put together from *)
(* five commands (state, image of the container, image of the tag, digests *)
(* of the tag, version over HTTP) and written by replacing the environment *)
(* file.  It may be killed, lose power or be run again at any point.       *)
(*                                                                         *)
(* Image i reports version i and has repository digest i, if it has one.   *)
(***************************************************************************)
EXTENDS Naturals

CONSTANTS
    Images,             \* local images that were once tagged "latest"
    Republished,        \* those with more than one digest in the repository
    Unversioned,        \* those that do not report a canonical version
    HealthAttempts,
    MaxPulls,           \* times the deployer moves the tag
    MaxFaults,          \* failed commands and file operations, kills, power
                        \* losses, and changes of the container's health
    Latest,             \* the environment names the tag "latest"
    Torn,               \* what is left of a file that was not flushed
    None

Pin == [version : Images, digest : Images]
NoPin == [version |-> None, digest |-> None]

ASSUME InitialPinAssumption ==
    /\ Republished \subseteq Images /\ Unversioned \subseteq Images
    /\ HealthAttempts \in Nat \ {0} /\ MaxPulls \in Nat /\ MaxFaults \in Nat
    /\ Latest # Torn /\ {Latest, Torn} \intersect Pin = {}
    /\ None \notin Images \union {"pinned"}

VARIABLES
    env, disk,          \* the environment's image; what a power loss leaves
    temp,               \* contents of the temporary file, and is it flushed?
    tag, container,     \* image "latest" names, and the container's
    healthy,            \* the container is running and Docker-healthy
    pc, attempt,
    imageID, pin,       \* what this observation has read
    result,             \* of the last run of the command
    pulls, faults,
    moved               \* the tag moved during the last observation

fileVars == <<env, disk, temp>>
hostVars == <<tag, container, healthy>>
localVars == <<attempt, imageID, pin>>
pullVars == <<pulls, moved>>
vars == <<fileVars, hostVars, pc, localVars, result, pullVars, faults>>

TypeOK ==
    /\ env \in Pin \union {Latest, Torn}
    /\ disk \subseteq Pin \union {Latest, Torn} /\ env \in disk
    /\ temp \in [data : Pin \union {None}, flushed : BOOLEAN]
    /\ tag \in Images /\ container \in Images /\ healthy \in BOOLEAN
    /\ pc \in {"idle", "state", "image", "latest", "digest", "health", "write",
               "flush", "replace", "syncDir", "recreate", "reconcile"}
    /\ attempt \in 0..(HealthAttempts - 1)
    /\ imageID \in Images \union {None}
    /\ pin \in [version : Images \union {None}, digest : Images \union {None}]
    /\ result \in {None, "pinned", "reconciled", "failed"}
    /\ pulls \in 0..MaxPulls /\ moved \in BOOLEAN /\ faults \in 0..MaxFaults

NoTemp == [data |-> None, flushed |-> FALSE]

Init ==
    /\ env = Latest /\ disk = {Latest} /\ temp = NoTemp
    /\ tag \in Images /\ container = tag /\ healthy = TRUE
    /\ pc = "idle" /\ attempt = 0 /\ imageID = None /\ pin = NoPin
    /\ result = None /\ pulls = 0 /\ moved = FALSE /\ faults = 0

Fault == faults < MaxFaults /\ faults' = faults + 1
NoFault == UNCHANGED faults

End(r) == /\ pc' = "idle" /\ result' = r
          /\ attempt' = 0 /\ imageID' = None /\ pin' = NoPin
Goto(l) == pc' = l /\ UNCHANGED <<attempt, result>>

-----------------------------------------------------------------------------
\* PinInitialLatest: a configured version is only reconciled.
PinInitialLatest ==
    /\ pc = "idle"
    /\ pc' = CASE env \in Pin -> "reconcile" [] env = Latest -> "state"
               [] OTHER -> "idle"
    /\ result' = IF env = Torn THEN "failed" ELSE None
    /\ UNCHANGED <<fileVars, hostVars, localVars, pullVars, faults>>

\* A failed observation is repeated after an interval, up to HealthAttempts.
Retry ==
    \/ /\ attempt + 1 < HealthAttempts
       /\ pc' = "state" /\ attempt' = attempt + 1
       /\ imageID' = None /\ pin' = NoPin
       /\ UNCHANGED result
    \/ attempt + 1 = HealthAttempts /\ End("failed")

\* One command of observeInitialLatest: it may fail, and its answer refused.
Observe(at, accepted, read) ==
    /\ pc = at
    /\ \/ accepted /\ read /\ NoFault
       \/ Retry /\ IF accepted THEN Fault ELSE NoFault
    /\ moved' = (moved /\ at # "state")
    /\ UNCHANGED <<fileVars, hostVars, pulls>>

ReadState ==
    Observe("state", healthy, Goto("image") /\ UNCHANGED <<imageID, pin>>)

ReadImage ==
    Observe("image", TRUE,
            Goto("latest") /\ imageID' = container /\ UNCHANGED pin)

\* Mutant: the container's image is not compared with the tag's.
CompareNothing ==
    Observe("latest", TRUE, Goto("digest") /\ UNCHANGED <<imageID, pin>>)
CompareLatest ==
    Observe("latest", imageID = tag,
            Goto("digest") /\ UNCHANGED <<imageID, pin>>)

\* directRepositoryDigest of the tag, which is looked up once more.
ReadDigest ==
    Observe("digest", tag \notin Republished,
            Goto("health") /\ pin' = [pin EXCEPT !.digest = tag]
                /\ UNCHANGED imageID)

\* inspectHealth in the container that runs now.
ReadHealth ==
    Observe("health", healthy /\ container \notin Unversioned,
            Goto("write") /\ pin' = [pin EXCEPT !.version = container]
                /\ UNCHANGED imageID)

observeInitialLatest ==
    ReadState \/ ReadImage \/ CompareLatest \/ ReadDigest \/ ReadHealth

-----------------------------------------------------------------------------
(***************************************************************************)
(* writeImageEnvironment.  A failure ends the command; after the rename the*)
(* new environment is visible, but a power loss may still bring back the   *)
(* old one until the directory is flushed.                                 *)
(***************************************************************************)
FileOperation(at, done) ==
    /\ pc = at
    /\ \/ done /\ NoFault /\ UNCHANGED <<attempt, imageID, pin, result>>
       \/ /\ Fault /\ End("failed")
          /\ temp' = NoTemp /\ UNCHANGED <<env, disk>>
    /\ UNCHANGED <<hostVars, pullVars>>

WriteTemp ==
    FileOperation("write", /\ pc' = "flush"
                           /\ temp' = [data |-> pin, flushed |-> FALSE]
                           /\ UNCHANGED <<env, disk>>)

FlushTemp ==
    FileOperation("flush", /\ pc' = "replace"
                           /\ temp' = [temp EXCEPT !.flushed = TRUE]
                           /\ UNCHANGED <<env, disk>>)

Replace ==
    FileOperation("replace",
        /\ pc' = "syncDir" /\ env' = temp.data /\ temp' = NoTemp
        /\ disk' = disk \union {temp.data}
                        \union (IF temp.flushed THEN {} ELSE {Torn}))

\* Mutant: the directory is not flushed.
NoSyncDirectory ==
    FileOperation("syncDir", pc' = "recreate" /\ UNCHANGED <<temp, env, disk>>)
SyncDirectory ==
    FileOperation("syncDir", pc' = "recreate" /\ disk' = disk \ {Latest}
                                 /\ UNCHANGED <<temp, env>>)

writeImageEnvironment == WriteTemp \/ FlushTemp \/ Replace \/ SyncDirectory

\* up -d, with --force-recreate after a new pin: the digest decides which image
\* the container gets, whatever the tag says.
Up(at, r) ==
    /\ pc = at
    /\ \/ /\ NoFault /\ End(r)
          /\ container' = env.digest /\ healthy' = TRUE
       \/ Fault /\ End("failed") /\ UNCHANGED <<container, healthy>>
    /\ UNCHANGED <<fileVars, tag, pullVars>>

Recreate == Up("recreate", "pinned")
Reconcile == Up("reconcile", "reconciled")

-----------------------------------------------------------------------------
\* docker pull, and up -d of an environment that still says "latest": the
\* deployer may do either while the command is running.
Pull ==
    /\ pulls < MaxPulls /\ pulls' = pulls + 1
    /\ tag' \in Images \ {tag}
    /\ moved' = (moved \/ pc \in {"image", "latest", "digest", "health"})
    /\ UNCHANGED <<fileVars, container, healthy, pc, localVars, result, faults>>
Deploy ==
    /\ env = Latest /\ container # tag
    /\ container' = tag /\ healthy' = TRUE
    /\ UNCHANGED <<fileVars, tag, pc, localVars, result, pullVars, faults>>

HealthChanges ==
    /\ Fault /\ healthy' = ~healthy
    /\ UNCHANGED <<fileVars, tag, container, pc, localVars, result, pullVars>>

Kill ==
    /\ pc # "idle" /\ Fault /\ End("failed")
    /\ temp' = NoTemp
    /\ UNCHANGED <<env, disk, hostVars, pullVars>>

\* Whatever of the directory has been flushed is what comes back.
PowerLoss ==
    /\ Fault /\ temp' = NoTemp
    /\ env' \in disk /\ disk' = {env'}
    /\ pc' = "idle" /\ attempt' = 0 /\ imageID' = None /\ pin' = NoPin
    /\ result' = IF pc = "idle" THEN result ELSE "failed"
    /\ UNCHANGED <<hostVars, pullVars>>

Step == PinInitialLatest \/ observeInitialLatest \/ writeImageEnvironment
            \/ Recreate \/ Reconcile

Next == Step \/ Pull \/ Deploy \/ HealthChanges \/ Kill \/ PowerLoss

Spec == Init /\ [][Next]_vars

-----------------------------------------------------------------------------
(***************************************************************************)
(* Properties                                                              *)
(***************************************************************************)
\* "an immutable initial recovery identity": version and digest are of one
\* image, though they were read from the container and from the tag, whatever
\* became of either before; unless the tag moved between the very reads.  (The
\* tag is looked up once to be compared and once more for its digest.)
PinnedTogether == env \in Pin => env.version = env.digest \/ moved

\* The server is started from this file: no kill, failed operation or power loss
\* leaves one that no restart can read.  And a command that has pinned stays
\* pinned through every power loss.
PinnedIsDurable ==
    /\ TypeOK
    /\ Torn \notin disk
    /\ result = "pinned" => disk = {env} /\ env \in Pin
=============================================================================
