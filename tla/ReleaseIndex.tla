---------------------------- MODULE ReleaseIndex ----------------------------
(***************************************************************************)
(* The release index, read and validated element by element in the order   *)
(* of the file, and the upgrade path that is resolved from a valid one: the*)
(* plans that persisted legacy jobs carry (LegacyJob) were made of these   *)
(* paths.  Versions are numbers; the image of release v has digest v.      *)
(***************************************************************************)
EXTENDS Naturals, Sequences, FiniteSets, SequencesExt

CONSTANTS MaxVersion, MaxEdges

ASSUME ReleaseIndexAssumption == MaxVersion \in Nat \ {0, 1} /\ MaxEdges \in Nat

legacyInitialVersion == 1
firstFormalVersion == 2
Version == 1..MaxVersion
foreign == 0                    \* digest of an image that is no release
Digest == {foreign} \union Version

\* upgradeFrom: the versions the constraints of upgrade_from admit.
Manifest == [version : Version, upgradeFrom : SUBSET Version]
UpgradeEdge == [from : Version, to : Version, digests : SUBSET Digest]

VARIABLES releases, edges, latest, phase

vars == <<releases, edges, latest, phase>>

TypeOK ==
    /\ releases \in Seq(Manifest) /\ Len(releases) <= MaxVersion
    /\ edges \in Seq(UpgradeEdge) /\ Len(edges) <= MaxEdges
    /\ latest \in Version \union {0}
    /\ phase \in {"releases", "edges", "valid", "rejected"}

Init == releases = <<>> /\ edges = <<>> /\ latest = 0 /\ phase = "releases"

indexed == {releases[i].version : i \in DOMAIN releases}

ValidateManifest(m) == m.version \notin m.upgradeFrom
ValidateUpgradeFrom(m, current) == current < m.version /\ current \in m.upgradeFrom

-----------------------------------------------------------------------------
(***************************************************************************)
(* ReleaseIndex.Validate                                                   *)
(***************************************************************************)
Accept(ok) == phase' = IF ok THEN phase ELSE "rejected"

releaseOrdered(m) == releases # <<>> => Last(releases).version < m.version

ReadRelease ==
    /\ phase = "releases"
    /\ \E v \in Version : \E s \in SUBSET (1..v) :
        LET m == [version |-> v, upgradeFrom |-> s]
        IN  /\ Accept(ValidateManifest(m) /\ releaseOrdered(m))
            /\ releases' = IF phase' = "releases" THEN Append(releases, m)
                           ELSE releases
    /\ UNCHANGED <<edges, latest>>

EndReleases ==
    /\ phase = "releases"
    /\ latest' \in Version
    /\ phase' = IF releases # <<>> /\ Last(releases).version = latest'
                THEN "edges" ELSE "rejected"
    /\ UNCHANGED <<releases, edges>>

\* Mutant: any digest will do for a source that is a release.
sourceUnbound(e) ==
    \/ e.from \in indexed
    \/ e.from = legacyInitialVersion /\ e.to = firstFormalVersion

\* A source that is a release is named by its digest; one that is not can only
\* be v0.15.2 on its way to v1.0.0.
sourceBound(e) ==
    IF e.from \in indexed THEN e.digests = {e.from}
    ELSE e.from = legacyInitialVersion /\ e.to = firstFormalVersion

ordered(d, e) == d.from < e.from \/ (d.from = e.from /\ d.to < e.to)

validEdge(e) ==
    /\ e.from < e.to
    /\ \E i \in DOMAIN releases : /\ releases[i].version = e.to
                                  /\ ValidateUpgradeFrom(releases[i], e.from)
    /\ e.digests # {} /\ sourceBound(e)
    /\ edges # <<>> => ordered(Last(edges), e)

ReadEdge ==
    /\ phase = "edges" /\ Len(edges) < MaxEdges
    /\ \E from, to \in Version : \E ds \in SUBSET {foreign, from} :
        LET e == [from |-> from, to |-> to, digests |-> ds]
        IN  /\ Accept(validEdge(e))
            /\ edges' = IF phase' = "edges" THEN Append(edges, e) ELSE edges
    /\ UNCHANGED <<releases, latest>>

EndEdges == /\ phase = "edges" /\ phase' = "valid"
            /\ UNCHANGED <<releases, edges, latest>>

Next == ReadRelease \/ EndReleases \/ ReadEdge \/ EndEdges

Spec == Init /\ [][Next]_vars

-----------------------------------------------------------------------------
(***************************************************************************)
(* UpgradePath and DirectUpgradeStep.  A step is the edge it takes; stepFor*)
(* always finds its target in a valid index.                               *)
(***************************************************************************)
\* The paths that visit appends from a version on.  It stops at the second one
\* it has found: what is asked of it is none, one or more.
visit[version \in Version] ==
    IF version = latest THEN {<<>>}
    ELSE UNION {{<<edges[i]>> \o p : p \in visit[edges[i].to]} :
                    i \in {i \in DOMAIN edges : edges[i].from = version}}

Unsupported == [ok |-> FALSE, path |-> <<>>]
Path(p) == [ok |-> TRUE, path |-> p]

\* DirectUpgradeStep: only an edge that is published, never a path.
DirectUpgradeStep(current, target) ==
    LET found == {i \in DOMAIN edges :
                    edges[i].from = current /\ edges[i].to = target}
    IN  IF current < target /\ found # {}
        THEN Path(<<edges[CHOOSE i \in found : \A k \in found : i <= k]>>)
        ELSE Unsupported

\* Mutant: the first path is taken, be it the only one or not.
UpgradePathFirst(current) ==
    IF current = latest THEN Path(<<>>)
    ELSE IF current > latest THEN Unsupported
    ELSE IF DirectUpgradeStep(current, latest).ok
         THEN DirectUpgradeStep(current, latest)
    ELSE IF visit[current] # {} THEN Path(CHOOSE p \in visit[current] : TRUE)
    ELSE Unsupported

UpgradePath(current) ==
    IF current = latest THEN Path(<<>>)
    ELSE IF current > latest THEN Unsupported
    ELSE IF DirectUpgradeStep(current, latest).ok
         THEN DirectUpgradeStep(current, latest)
    ELSE IF \E p \in visit[current] : visit[current] = {p}
         THEN Path(CHOOSE p \in visit[current] : TRUE)
    ELSE Unsupported

manifestOf(version) == CHOOSE m \in Range(releases) : m.version = version

\* validatePlanReleaseChain, of the plan a path becomes.
validatePlanReleaseChain(current, path) ==
    /\ path # <<>>
    /\ \A i \in DOMAIN path :
        /\ ValidateManifest(manifestOf(path[i].to))
        /\ ValidateUpgradeFrom(manifestOf(path[i].to),
                               IF i = 1 THEN current ELSE path[i - 1].to)
        /\ path[i].digests # {}

-----------------------------------------------------------------------------
(***************************************************************************)
(* Properties                                                              *)
(***************************************************************************)
\* Reference: a chain of releases is a set of versions each of which has a
\* published edge to the next.
next(S, v) == CHOOSE w \in S : v < w /\ \A u \in S : v < u => w <= u
Chains(current) ==
    {S \in SUBSET (current..latest) :
        /\ {current, latest} \subseteq S
        /\ \A v \in S \ {latest} :
            \E i \in DOMAIN edges : edges[i].from = v /\ edges[i].to = next(S, v)}
versions(current, path) == {current} \union {path[i].to : i \in DOMAIN path}

\* A path is resolved exactly when there is a direct edge or one chain only, and
\* it is that chain: no job is planned on a choice nobody published.
UniqueOrRefused ==
    phase = "valid" => \A current \in Version :
        LET r == UpgradePath(current)
            chains == IF current > latest THEN {} ELSE Chains(current)
        IN  IF current < latest /\ {current, latest} \in chains
            THEN r.ok /\ versions(current, r.path) = {current, latest}
            ELSE /\ r.ok <=> Cardinality(chains) = 1
                 /\ r.ok => versions(current, r.path) \in chains

\* Every path that is resolved makes a plan that the state file accepts, and a
\* job that never stands at an intermediate release whose image the next hop
\* refuses: each hop after the first trusts exactly the image that the hop before
\* it has installed, and none but v0.15.2 comes from outside the index.
PlanIsValid ==
    /\ TypeOK
    /\ phase = "valid" => \A current \in Version :
        LET r == UpgradePath(current)
            p == r.path
        IN  /\ r.ok /\ current # latest => validatePlanReleaseChain(current, p)
            /\ \A i \in DOMAIN p :
                  IF i > 1 THEN p[i].digests = {p[i - 1].to}
                  ELSE current \notin indexed => current = legacyInitialVersion
                                                 /\ p[i].to = firstFormalVersion
=============================================================================
