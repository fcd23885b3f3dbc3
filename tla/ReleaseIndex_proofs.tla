------------------------- MODULE ReleaseIndex_proofs -------------------------
(***************************************************************************)
(* What a validated release index contains, and what is resolved from it,  *)
(* for any number of releases and edges.                                   *)
(***************************************************************************)
EXTENDS ReleaseIndex, FiniteSetTheorems, SequenceTheorems,
        WellFoundedInduction, TLAPS

-----------------------------------------------------------------------------
(***************************************************************************)
(* The validation.  It compares neighbours only; every two releases and    *)
(* every two edges are in order all the same.                              *)
(***************************************************************************)
ReleasesFit ==
    /\ \A i \in 1..Len(releases) :
            i <= releases[i].version /\ ValidateManifest(releases[i])
    /\ \A i, k \in 1..Len(releases) :
            i < k => releases[i].version < releases[k].version

\* An edge whose target admits it and whose source it names.
EdgeFits(e) ==
    /\ e.from < e.to
    /\ \E i \in 1..Len(releases) : /\ releases[i].version = e.to
                                   /\ ValidateUpgradeFrom(releases[i], e.from)
    /\ e.digests # {} /\ sourceBound(e)

EdgesFit ==
    /\ \A i \in 1..Len(edges) : EdgeFits(edges[i])
    /\ \A i, k \in 1..Len(edges) : i < k => ordered(edges[i], edges[k])

IndexInv ==
    /\ TypeOK
    /\ ReleasesFit /\ EdgesFit
    /\ phase = "releases" => edges = <<>>
    /\ phase \in {"edges", "valid"} =>
            Len(releases) >= 1 /\ releases[Len(releases)].version = latest

USE ReleaseIndexAssumption

\* Nothing has been read at first.
LEMMA InitIndex == Init => IndexInv
<1> SUFFICES ASSUME Init PROVE IndexInv
  OBVIOUS
<1>1. Len(<<>>) = 0 /\ <<>> \in Seq(Manifest) /\ <<>> \in Seq(UpgradeEdge)
  BY EmptySeq
<1> QED BY <1>1 DEF Init, IndexInv, TypeOK, ReleasesFit, EdgesFit

\* A release that is read follows all those before it, so there are no more of
\* them than versions.
LEMMA ReleaseKeeps == IndexInv /\ ReadRelease => IndexInv'
<1> SUFFICES ASSUME IndexInv, ReadRelease PROVE IndexInv'
  OBVIOUS
<1>1. PICK v \in Version : \E s \in SUBSET (1..v) :
        LET m == [version |-> v, upgradeFrom |-> s]
        IN  /\ Accept(ValidateManifest(m) /\ releaseOrdered(m))
            /\ releases' = IF phase' = "releases" THEN Append(releases, m)
                           ELSE releases
  BY DEF ReadRelease
<1>0. PICK s \in SUBSET (1..v) :
        LET m == [version |-> v, upgradeFrom |-> s]
        IN  /\ Accept(ValidateManifest(m) /\ releaseOrdered(m))
            /\ releases' = IF phase' = "releases" THEN Append(releases, m)
                           ELSE releases
  BY <1>1
<1> DEFINE m == [version |-> v, upgradeFrom |-> s]
<1>2. /\ phase = "releases" /\ UNCHANGED <<edges, latest>> /\ edges = <<>>
      /\ releases \in Seq(Manifest) /\ Len(releases) <= MaxVersion
      /\ Len(releases) \in Nat /\ Len(edges) = 0
  <2>1. /\ phase = "releases" /\ UNCHANGED <<edges, latest>> /\ edges = <<>>
        /\ releases \in Seq(Manifest) /\ Len(releases) <= MaxVersion
    BY DEF ReadRelease, IndexInv, TypeOK
  <2> QED BY <2>1, EmptySeq, LenProperties
<1>3. m \in Manifest
  <2>1. s \in SUBSET Version
    BY DEF Version
  <2> QED BY <2>1 DEF Manifest
<1>4. phase' \in {"releases", "rejected"}
  BY <1>0, <1>2 DEF Accept
<1>5. CASE phase' = "rejected"
  <2>1. releases' = releases
    BY <1>0, <1>5
  <2> QED BY <2>1, <1>2, <1>5
         DEF IndexInv, TypeOK, ReleasesFit, EdgesFit, ValidateManifest
<1>6. CASE phase' = "releases"
  <2>1. /\ releases' = Append(releases, m)
        /\ ValidateManifest(m) /\ releaseOrdered(m)
    BY <1>0, <1>6, <1>2 DEF Accept
  <2>2. /\ releases' \in Seq(Manifest) /\ Len(releases') = Len(releases) + 1
        /\ \A i \in 1..Len(releases) : releases'[i] = releases[i]
        /\ releases'[Len(releases) + 1] = m
    BY <2>1, <1>2, <1>3, AppendProperties
  <2>3. \A i \in 1..Len(releases) : releases[i] \in Manifest
    BY <1>2, ElementOfSeq
  <2>4. \A i \in 1..Len(releases) : releases[i].version < v
    <3> SUFFICES ASSUME NEW i \in 1..Len(releases)
                 PROVE  releases[i].version < v
      OBVIOUS
    <3>1. Len(releases) \in 1..Len(releases) /\ releases # <<>>
      BY <1>2, EmptySeq
    <3>2. releases[Len(releases)].version < v
      BY <3>1, <2>1 DEF releaseOrdered, Last
    <3>3. /\ releases[i].version \in Nat
          /\ releases[Len(releases)].version \in Nat /\ v \in Nat
      BY <3>1, <2>3 DEF Manifest, Version
    <3>4. i = Len(releases) \/ i < Len(releases)
      BY <1>2
    <3>5. i < Len(releases) =>
            releases[i].version < releases[Len(releases)].version
      BY <3>1, <1>2 DEF IndexInv, ReleasesFit
    <3> QED BY <3>2, <3>3, <3>4, <3>5
  <2>5. Len(releases) + 1 <= v
    <3>1. CASE Len(releases) = 0
      BY <3>1 DEF Version
    <3>2. CASE Len(releases) # 0
      <4>1. Len(releases) \in 1..Len(releases)
        BY <3>2, <1>2
      <4>2. /\ Len(releases) <= releases[Len(releases)].version
            /\ releases[Len(releases)].version \in Nat
        BY <4>1, <2>3 DEF IndexInv, ReleasesFit, Manifest, Version
      <4> QED BY <4>1, <4>2, <2>4, <1>2 DEF Version
    <3> QED BY <3>1, <3>2
  <2>6. ReleasesFit'
    <3>1. ASSUME NEW i \in 1..Len(releases')
          PROVE  i <= releases'[i].version /\ ValidateManifest(releases'[i])
      <4>1. CASE i = Len(releases) + 1
        BY <4>1, <2>1, <2>2, <2>5
      <4>2. CASE i # Len(releases) + 1
        <5>1. i \in 1..Len(releases)
          BY <4>2, <2>2, <1>2
        <5> QED BY <5>1, <2>2 DEF IndexInv, ReleasesFit
      <4> QED BY <4>1, <4>2
    <3>2. ASSUME NEW i \in 1..Len(releases'), NEW k \in 1..Len(releases'), i < k
          PROVE  releases'[i].version < releases'[k].version
      <4>1. i \in 1..Len(releases)
        BY <3>2, <2>2, <1>2
      <4>2. CASE k = Len(releases) + 1
        BY <4>1, <4>2, <2>2, <2>4
      <4>3. CASE k # Len(releases) + 1
        <5>1. k \in 1..Len(releases)
          BY <4>3, <2>2, <1>2
        <5> QED BY <4>1, <5>1, <3>2, <2>2 DEF IndexInv, ReleasesFit
      <4> QED BY <4>2, <4>3
    <3> QED BY <3>1, <3>2 DEF ReleasesFit, ValidateManifest
  <2>7. EdgesFit'
    BY <1>2 DEF EdgesFit
  <2>8. TypeOK'
    BY <2>2, <2>5, <1>2, <1>6 DEF IndexInv, TypeOK, Version
  <2> QED BY <2>6, <2>7, <2>8, <1>2, <1>6 DEF IndexInv
<1> QED BY <1>4, <1>5, <1>6

\* An edge that is read follows all those before it.
LEMMA EdgeKeeps == IndexInv /\ ReadEdge => IndexInv'
<1> SUFFICES ASSUME IndexInv, ReadEdge PROVE IndexInv'
  OBVIOUS
<1>1. PICK from \in Version, to \in Version :
        \E ds \in SUBSET {foreign, from} :
            LET e == [from |-> from, to |-> to, digests |-> ds]
            IN  /\ Accept(validEdge(e))
                /\ edges' = IF phase' = "edges" THEN Append(edges, e)
                            ELSE edges
  BY DEF ReadEdge
<1>0. PICK ds \in SUBSET {foreign, from} :
        LET e == [from |-> from, to |-> to, digests |-> ds]
        IN  /\ Accept(validEdge(e))
            /\ edges' = IF phase' = "edges" THEN Append(edges, e) ELSE edges
  BY <1>1
<1> DEFINE e == [from |-> from, to |-> to, digests |-> ds]
<1>2. /\ phase = "edges" /\ UNCHANGED <<releases, latest>>
      /\ Len(edges) < MaxEdges /\ edges \in Seq(UpgradeEdge)
      /\ Len(edges) \in Nat /\ DOMAIN releases = 1..Len(releases)
  <2>1. /\ phase = "edges" /\ UNCHANGED <<releases, latest>>
        /\ Len(edges) < MaxEdges /\ edges \in Seq(UpgradeEdge)
        /\ releases \in Seq(Manifest)
    BY DEF ReadEdge, IndexInv, TypeOK
  <2> QED BY <2>1, LenProperties
<1>3. e \in UpgradeEdge
  BY DEF UpgradeEdge, Digest, Version
<1>4. phase' \in {"edges", "rejected"}
  BY <1>0, <1>2 DEF Accept
<1>5. CASE phase' = "rejected"
  <2>1. edges' = edges
    BY <1>0, <1>5
  <2>2. TypeOK' /\ ReleasesFit'
    BY <2>1, <1>2, <1>5 DEF IndexInv, TypeOK, ReleasesFit, ValidateManifest
  <2>3. EdgesFit'
    BY <2>1, <1>2 DEF IndexInv, EdgesFit, EdgeFits, ordered,
                      ValidateUpgradeFrom, sourceBound, indexed
  <2> QED BY <2>2, <2>3, <1>2, <1>5 DEF IndexInv
<1>6. CASE phase' = "edges"
  <2>1. edges' = Append(edges, e) /\ validEdge(e)
    BY <1>0, <1>6, <1>2 DEF Accept
  <2>2. /\ edges' \in Seq(UpgradeEdge) /\ Len(edges') = Len(edges) + 1
        /\ \A i \in 1..Len(edges) : edges'[i] = edges[i]
        /\ edges'[Len(edges) + 1] = e
    BY <2>1, <1>2, <1>3, AppendProperties
  <2>3. \A i \in 1..Len(edges) : edges[i] \in UpgradeEdge
    BY <1>2, ElementOfSeq
  <2>4. EdgeFits(e)
    BY <2>1, <1>2 DEF validEdge, EdgeFits
  <2>5. \A i \in 1..Len(edges) : ordered(edges[i], e)
    <3> SUFFICES ASSUME NEW i \in 1..Len(edges) PROVE ordered(edges[i], e)
      OBVIOUS
    <3>1. Len(edges) \in 1..Len(edges) /\ edges # <<>>
      BY <1>2, EmptySeq
    <3>2. ordered(edges[Len(edges)], e)
      BY <3>1, <2>1 DEF validEdge, Last
    <3>3. edges[i] \in UpgradeEdge /\ edges[Len(edges)] \in UpgradeEdge
      BY <3>1, <2>3
    <3>4. i = Len(edges) \/ i < Len(edges)
      BY <1>2
    <3>5. i < Len(edges) => ordered(edges[i], edges[Len(edges)])
      BY <3>1 DEF IndexInv, EdgesFit
    <3> QED BY <3>2, <3>3, <3>4, <3>5 DEF ordered, UpgradeEdge, Version
  <2> USE DEF EdgeFits, ValidateUpgradeFrom, sourceBound, indexed
  <2>7. EdgesFit'
    <3>1. ASSUME NEW i \in 1..Len(edges') PROVE EdgeFits(edges[i])'
      <4>1. CASE i = Len(edges) + 1
        <5>1. edges'[i] = e
          BY <4>1, <2>2
        <5> QED BY <5>1, <2>4, <1>2
      <4>2. CASE i # Len(edges) + 1
        <5>1. i \in 1..Len(edges)
          BY <4>2, <2>2, <1>2
        <5>2. EdgeFits(edges[i]) /\ edges'[i] = edges[i]
          BY <5>1, <2>2 DEF IndexInv, EdgesFit
        <5> QED BY <5>2, <1>2
      <4> QED BY <4>1, <4>2
    <3>2. ASSUME NEW i \in 1..Len(edges'), NEW k \in 1..Len(edges'), i < k
          PROVE  ordered(edges[i], edges[k])'
      <4>1. i \in 1..Len(edges)
        BY <3>2, <2>2, <1>2
      <4>2. CASE k = Len(edges) + 1
        <5>1. ordered(edges[i], e)
          BY <4>1, <2>5
        <5> QED BY <5>1, <4>1, <4>2, <2>2 DEF ordered
      <4>3. CASE k # Len(edges) + 1
        <5>1. k \in 1..Len(edges)
          BY <4>3, <2>2, <1>2
        <5>2. ordered(edges[i], edges[k])
          BY <4>1, <5>1, <3>2 DEF IndexInv, EdgesFit
        <5> QED BY <5>1, <5>2, <4>1, <2>2 DEF ordered
      <4> QED BY <4>2, <4>3
    <3> QED BY <3>1, <3>2 DEF EdgesFit
  <2>8. TypeOK'
    BY <2>2, <1>2, <1>6 DEF IndexInv, TypeOK
  <2>9. ReleasesFit'
    BY <1>2 DEF IndexInv, ReleasesFit, ValidateManifest
  <2> QED BY <2>7, <2>8, <2>9, <1>2, <1>6 DEF IndexInv
<1> QED BY <1>4, <1>5, <1>6

\* The end of the releases fixes the latest version, the end of the edges
\* nothing.
LEMMA NextIndex == IndexInv /\ [Next]_vars => IndexInv'
<1> SUFFICES ASSUME IndexInv, [Next]_vars PROVE IndexInv'
  OBVIOUS
<1> USE DEF IndexInv, TypeOK, ReleasesFit, EdgesFit, EdgeFits, ordered,
            ValidateManifest, ValidateUpgradeFrom, sourceBound, indexed
<1>1. CASE EndReleases
  <2>1. /\ UNCHANGED <<releases, edges>> /\ latest' \in Version
        /\ phase' \in {"edges", "rejected"}
        /\ phase' = "edges" => releases # <<>> /\ Last(releases).version = latest'
    BY <1>1 DEF EndReleases
  <2>2. releases # <<>> => Len(releases) >= 1
    <3>1. releases \in Seq(Manifest)
      OBVIOUS
    <3> QED BY <3>1, EmptySeq
  <2> QED BY <2>1, <2>2 DEF Last
<1>2. CASE EndEdges
  BY <1>2 DEF EndEdges
<1>3. CASE UNCHANGED vars
  BY <1>3 DEF vars
<1> QED BY <1>1, <1>2, <1>3, ReleaseKeeps, EdgeKeeps DEF Next

\* Every index that is read satisfies it.
LEMMA AlwaysIndex == Spec => []IndexInv
  BY InitIndex, NextIndex, PTL DEF Spec

-----------------------------------------------------------------------------
(***************************************************************************)
(* Induction on versions, from the latest back: a set of versions has a    *)
(* greatest one.                                                           *)
(***************************************************************************)
LessThan == {p \in Nat \X Nat : p[1] < p[2]}

\* A set of numbers that is not empty has a least one.
LEMMA LeastElement ==
  ASSUME NEW S \in SUBSET Nat, S # {}
  PROVE  \E m \in S : \A k \in S : m <= k
<1>1. IsWellFoundedOn(LessThan, Nat)
  BY NatLessThanWellFounded DEF OpToRel, LessThan
<1>2. PICK m \in S : \A k \in S : ~(<<k, m>> \in LessThan)
  BY <1>1, WFMin
<1>3. ASSUME NEW k \in S PROVE m <= k
  <2>1. m \in Nat /\ k \in Nat
    OBVIOUS
  <2>2. ~(<<k, m>> \in LessThan)
    BY <1>2
  <2> QED BY <2>1, <2>2 DEF LessThan
<1> QED BY <1>3

\* A set of versions that is not empty has a greatest one.
LEMMA GreatestElement ==
  ASSUME NEW S \in SUBSET Version, S # {}
  PROVE  \E m \in S : \A k \in S : k <= m
<1> DEFINE D == {MaxVersion - k : k \in S}
<1>1. \A k \in S : k \in Nat /\ MaxVersion - k \in Nat
  BY DEF Version
<1>2. D \in SUBSET Nat /\ D # {}
  BY <1>1
<1> HIDE DEF D
<1>3. PICK d \in D : \A e \in D : d <= e
  BY <1>2, LeastElement
<1>4. PICK m \in S : d = MaxVersion - m
  BY DEF D
<1>5. ASSUME NEW k \in S PROVE k <= m
  <2>1. MaxVersion - k \in D
    BY DEF D
  <2>2. d <= MaxVersion - k
    BY <2>1, <1>3
  <2> QED BY <2>2, <1>1, <1>4
<1> QED BY <1>5

-----------------------------------------------------------------------------
(***************************************************************************)
(* visit is well defined: every edge leads to a later version, and none    *)
(* past the latest.                                                        *)
(***************************************************************************)
Out(version) == {i \in DOMAIN edges : edges[i].from = version}
Step(g, version) ==
    IF version = latest THEN {<<>>}
    ELSE UNION {{<<edges[i]>> \o p : p \in g[edges[i].to]} : i \in Out(version)}

ValidIndex == IndexInv /\ phase = "valid"

\* What visit needs to know of the edges of a valid index.
LEMMA EdgeFacts ==
  ASSUME ValidIndex
  PROVE  /\ latest \in Version
         /\ edges \in Seq(UpgradeEdge) /\ DOMAIN edges = 1..Len(edges)
         /\ Len(edges) \in Nat
         /\ \A i \in DOMAIN edges :
                /\ edges[i] \in UpgradeEdge
                /\ edges[i].from \in Version /\ edges[i].to \in Version
                /\ edges[i].from < edges[i].to /\ edges[i].to <= latest
         /\ \A i, k \in DOMAIN edges :
                /\ edges[i].from = edges[k].from
                /\ edges[i].to = edges[k].to
                => i = k
<1>1. /\ releases \in Seq(Manifest) /\ edges \in Seq(UpgradeEdge)
      /\ Len(releases) >= 1 /\ releases[Len(releases)].version = latest
      /\ ReleasesFit /\ EdgesFit
  BY DEF ValidIndex, IndexInv, TypeOK
<1>2. /\ DOMAIN edges = 1..Len(edges) /\ Len(edges) \in Nat
      /\ Len(releases) \in Nat /\ Len(releases) \in 1..Len(releases)
  BY <1>1, LenProperties
<1>3. \A i \in 1..Len(releases) : releases[i] \in Manifest
  BY <1>1, ElementOfSeq
<1>4. \A i \in DOMAIN edges : edges[i] \in UpgradeEdge
  BY <1>1, <1>2, ElementOfSeq
<1>5. latest \in Version
  BY <1>1, <1>2, <1>3 DEF Manifest
<1>6. ASSUME NEW i \in DOMAIN edges
      PROVE  /\ edges[i].from \in Version /\ edges[i].to \in Version
             /\ edges[i].from < edges[i].to /\ edges[i].to <= latest
  <2>1. edges[i].from \in Version /\ edges[i].to \in Version
    BY <1>4 DEF UpgradeEdge
  <2>2. EdgeFits(edges[i])
    BY <1>1, <1>2 DEF EdgesFit
  <2>3. PICK k \in 1..Len(releases) : releases[k].version = edges[i].to
    BY <2>2 DEF EdgeFits
  <2>4. k < Len(releases) =>
            releases[k].version < releases[Len(releases)].version
    BY <1>1, <1>2 DEF ReleasesFit
  <2>5. k = Len(releases) \/ k < Len(releases)
    BY <1>2
  <2>6. edges[i].to <= latest
    BY <2>1, <2>3, <2>4, <2>5, <1>1, <1>5 DEF Version
  <2> QED BY <2>1, <2>2, <2>6 DEF EdgeFits
<1>7. ASSUME NEW i \in DOMAIN edges, NEW k \in DOMAIN edges,
             edges[i].from = edges[k].from, edges[i].to = edges[k].to
      PROVE  i = k
  <2>1. /\ i < k => ordered(edges[i], edges[k])
        /\ k < i => ordered(edges[k], edges[i])
    BY <1>1, <1>2 DEF EdgesFit
  <2>2. /\ edges[i].from \in Nat /\ edges[i].to \in Nat
        /\ edges[k].from \in Nat /\ edges[k].to \in Nat
    BY <1>6 DEF Version
  <2>3. ~ordered(edges[i], edges[k]) /\ ~ordered(edges[k], edges[i])
    BY <2>2, <1>7 DEF ordered
  <2> QED BY <2>1, <2>3, <1>2
<1> QED BY <1>1, <1>2, <1>4, <1>5, <1>6, <1>7

\* Only later versions matter to a step.
LEMMA StepAhead ==
  ASSUME ValidIndex, NEW v \in Version, NEW g, NEW h,
         \A w \in Version : v < w => g[w] = h[w]
  PROVE  Step(g, v) = Step(h, v)
<1>1. \A i \in Out(v) : g[edges[i].to] = h[edges[i].to]
  BY EdgeFacts DEF Out
<1> DEFINE A(i) == {<<edges[i]>> \o p : p \in g[edges[i].to]}
           B(i) == {<<edges[i]>> \o p : p \in h[edges[i].to]}
<1>2. \A i \in Out(v) : A(i) = B(i)
  BY <1>1
<1>3. {A(i) : i \in Out(v)} = {B(i) : i \in Out(v)}
  <2> HIDE DEF A, B
  <2> QED BY <1>2
<1>4. UNION {A(i) : i \in Out(v)} = UNION {B(i) : i \in Out(v)}
  <2> HIDE DEF A, B
  <2> QED BY <1>3
<1> QED BY <1>4 DEF Step

\* visit satisfies its own definition.
LEMMA VisitStep ==
  ASSUME ValidIndex
  PROVE  \A v \in Version : visit[v] = Step(visit, v)
<1> DEFINE Fits(g, v) == \A w \in Version : v <= w => g[w] = Step(g, w)
           Bad == {v \in Version : ~ \E g : Fits(g, v)}
<1>1. Bad = {}
  <2> SUFFICES ASSUME Bad # {} PROVE FALSE
    OBVIOUS
  <2>1. PICK v \in Bad : \A k \in Bad : k <= v
    <3>1. Bad \in SUBSET Version
      OBVIOUS
    <3> HIDE DEF Bad
    <3> QED BY <3>1, GreatestElement
  <2>2. v \in Version /\ v \in Nat
    BY DEF Version
  <2>3. \E g : \A w \in Version : v < w => g[w] = Step(g, w)
    <3>1. CASE v = MaxVersion
      <4>1. \A w \in Version : ~(v < w)
        BY <3>1 DEF Version
      <4> QED BY <4>1
    <3>2. CASE v # MaxVersion
      <4>1. v + 1 \in Version /\ \A w \in Version : v < w => v + 1 <= w
        BY <3>2, <2>2 DEF Version
      <4>2. ~(v + 1 \in Bad)
        BY <2>1, <2>2
      <4>3. PICK g : Fits(g, v + 1)
        BY <4>1, <4>2
      <4> QED BY <4>1, <4>3
    <3> QED BY <3>1, <3>2
  <2>4. PICK g : \A w \in Version : v < w => g[w] = Step(g, w)
    BY <2>3
  <2> DEFINE h == [w \in Version |-> IF w = v THEN Step(g, v) ELSE g[w]]
  <2>5. \A w \in Version : w # v => h[w] = g[w]
    OBVIOUS
  <2>6. h[v] = Step(g, v)
    BY <2>2
  <2> HIDE DEF h
  <2>8. ASSUME NEW w \in Version, v <= w PROVE h[w] = Step(h, w)
    <3>1. w \in Nat /\ \A u \in Version : w < u => h[u] = g[u]
      BY <2>2, <2>5, <2>8 DEF Version
    <3>2. Step(h, w) = Step(g, w)
      BY <3>1, StepAhead
    <3>3. CASE w = v
      BY <3>2, <3>3, <2>6
    <3>4. CASE w # v
      <4>1. v < w
        BY <3>1, <3>4, <2>2, <2>8
      <4> QED BY <4>1, <3>2, <3>4, <2>4, <2>5
    <3> QED BY <3>3, <3>4
  <2>9. Fits(h, v)
    BY <2>8
  <2> QED BY <2>9, <2>1
<1>2. 1 \in Version /\ \A w \in Version : 1 <= w
  BY DEF Version
<1>3. PICK g : Fits(g, 1)
  BY <1>1, <1>2
<1> DEFINE f == [version \in Version |-> g[version]]
<1>4. \A v \in Version : f[v] = g[v] /\ g[v] = Step(g, v)
  BY <1>2, <1>3
<1>5. \A v \in Version : f[v] = Step(f, v)
  <2>1. \A v \in Version : Step(f, v) = Step(g, v)
    <3> HIDE DEF f
    <3> QED BY <1>4, StepAhead
  <2> QED BY <2>1, <1>4
<1>6. f = [version \in Version |-> Step(f, version)]
  BY <1>5
<1>7. visit = [version \in Version |-> Step(visit, version)]
  <2> HIDE DEF f
  <2> QED BY <1>6 DEF visit, Step, Out
<1> QED BY <1>7

-----------------------------------------------------------------------------
(***************************************************************************)
(* What visit collects: sequences of edges, each of which starts where the *)
(* one before it ends.                                                     *)
(***************************************************************************)
IsPath(v, p) ==
    /\ p \in Seq(UpgradeEdge)
    /\ \A k \in 1..Len(p) :
            /\ \E i \in DOMAIN edges : p[k] = edges[i]
            /\ p[k].from = IF k = 1 THEN v ELSE p[k - 1].to

\* A path is none of the edges, or one edge and a path from its end.
LEMMA VisitOut ==
  ASSUME ValidIndex
  PROVE  /\ visit[latest] = {<<>>}
         /\ \A v \in Version \ {latest} : \A p :
                p \in visit[v] <=> \E i \in Out(v) : \E q \in visit[edges[i].to] :
                                        p = <<edges[i]>> \o q
<1>1. visit[latest] = {<<>>}
  BY EdgeFacts, VisitStep DEF Step
<1>2. ASSUME NEW v \in Version \ {latest}, NEW p
      PROVE  p \in visit[v] <=> \E i \in Out(v) : \E q \in visit[edges[i].to] :
                                        p = <<edges[i]>> \o q
  <2> DEFINE A(i) == {<<edges[i]>> \o q : q \in visit[edges[i].to]}
  <2>1. visit[v] = UNION {A(i) : i \in Out(v)}
    BY VisitStep DEF Step
  <2>2. p \in visit[v] <=> \E i \in Out(v) : p \in A(i)
    <3> HIDE DEF A
    <3> QED BY <2>1
  <2> QED BY <2>2
<1> QED BY <1>1, <1>2

\* One edge more at the front of a path.
LEMMA Extend ==
  ASSUME ValidIndex, NEW v \in Version, NEW i \in Out(v),
         NEW q, IsPath(edges[i].to, q)
  PROVE  /\ IsPath(v, <<edges[i]>> \o q)
         /\ Len(<<edges[i]>> \o q) = Len(q) + 1
         /\ (<<edges[i]>> \o q)[1] = edges[i]
         /\ \A k \in 1..Len(q) : (<<edges[i]>> \o q)[k + 1] = q[k]
         /\ versions(v, <<edges[i]>> \o q) = {v} \union versions(edges[i].to, q)
<1> DEFINE p == <<edges[i]>> \o q
<1>1. /\ i \in DOMAIN edges /\ edges[i] \in UpgradeEdge /\ edges[i].from = v
      /\ q \in Seq(UpgradeEdge)
  BY EdgeFacts DEF Out, IsPath
<1>2. /\ <<edges[i]>> \in Seq(UpgradeEdge) /\ Len(<<edges[i]>>) = 1
      /\ <<edges[i]>>[1] = edges[i] /\ Len(q) \in Nat
      /\ DOMAIN q = 1..Len(q)
  BY <1>1, LenProperties
<1>3. /\ p \in Seq(UpgradeEdge) /\ Len(p) = Len(q) + 1
      /\ \A k \in 1..(Len(q) + 1) : p[k] = IF k <= 1 THEN <<edges[i]>>[k]
                                          ELSE q[k - 1]
  BY <1>1, <1>2, ConcatProperties
<1> HIDE DEF p
<1>4. p[1] = edges[i]
  BY <1>2, <1>3
<1>5. \A k \in 1..Len(q) : k + 1 \in 1..Len(p) /\ p[k + 1] = q[k]
  BY <1>2, <1>3
<1>6. DOMAIN p = 1..Len(p)
  BY <1>3, LenProperties
<1>7. \A k \in 1..Len(p) : k = 1 \/ (k - 1 \in 1..Len(q) /\ p[k] = q[k - 1])
  BY <1>2, <1>3
<1>8. ASSUME NEW k \in 1..Len(p)
      PROVE  /\ \E n \in DOMAIN edges : p[k] = edges[n]
             /\ p[k].from = IF k = 1 THEN v ELSE p[k - 1].to
  <2>1. CASE k = 1
    BY <2>1, <1>1, <1>4
  <2>2. CASE k = 2
    <3>1. 1 \in 1..Len(q) /\ p[2] = q[1]
      BY <2>2, <1>8, <1>7
    <3>2. /\ \E n \in DOMAIN edges : q[1] = edges[n]
          /\ q[1].from = edges[i].to
      BY <3>1 DEF IsPath
    <3> QED BY <2>2, <3>1, <3>2, <1>4
  <2>3. CASE k > 2
    <3>1. /\ k - 1 \in 1..Len(q) /\ p[k] = q[k - 1]
          /\ k - 2 \in 1..Len(q) /\ p[k - 1] = q[k - 2] /\ k - 1 # 1
      <4>1. k - 1 \in 1..Len(q) /\ p[k] = q[k - 1] /\ k \in Nat
        BY <2>3, <1>7
      <4>2. k - 2 \in 1..Len(q) /\ (k - 2) + 1 = k - 1 /\ k - 1 # 1
        BY <4>1, <2>3, <1>2
      <4> QED BY <4>1, <4>2, <1>5
    <3>2. (k - 1) - 1 = k - 2
      BY <2>3
    <3>3. /\ \E n \in DOMAIN edges : q[k - 1] = edges[n]
          /\ q[k - 1].from = q[k - 2].to
      BY <3>1, <3>2 DEF IsPath
    <3> QED BY <2>3, <3>1, <3>3
  <2> QED BY <2>1, <2>2, <2>3
<1>9. {p[k].to : k \in 1..Len(p)}
        = {edges[i].to} \union {q[k].to : k \in 1..Len(q)}
  <2>1. 1 \in 1..Len(p)
    BY <1>2, <1>3
  <2> DEFINE P == {p[k].to : k \in 1..Len(p)}
             Q == {q[k].to : k \in 1..Len(q)}
  <2>2. edges[i].to \in P
    BY <2>1, <1>4
  <2>3. Q \subseteq P
    BY <1>5
  <2>4. P \subseteq {edges[i].to} \union Q
    BY <1>4, <1>7
  <2> HIDE DEF P, Q
  <2>5. P = {edges[i].to} \union Q
    BY <2>2, <2>3, <2>4
  <2> QED BY <2>5 DEF P, Q
<1>10. versions(v, p) = {v} \union versions(edges[i].to, q)
  BY <1>9, <1>6, <1>2 DEF versions
<1>11. IsPath(v, p)
  BY <1>3, <1>8 DEF IsPath
<1> QED BY <1>3, <1>4, <1>5, <1>10, <1>11 DEF p

\* Everything visit collects is a path.
LEMMA VisitPaths ==
  ASSUME ValidIndex
  PROVE  \A v \in Version : \A p \in visit[v] : IsPath(v, p)
<1> DEFINE Bad == {v \in Version : ~ \A p \in visit[v] : IsPath(v, p)}
<1> SUFFICES ASSUME Bad # {} PROVE FALSE
  OBVIOUS
<1>1. PICK v \in Bad : \A k \in Bad : k <= v
  <2>1. Bad \in SUBSET Version
    OBVIOUS
  <2> HIDE DEF Bad
  <2> QED BY <2>1, GreatestElement
<1>2. PICK p \in visit[v] : ~IsPath(v, p)
  OBVIOUS
<1>3. CASE v = latest
  <2>1. p = <<>>
    BY <1>2, <1>3, VisitOut
  <2>2. p \in Seq(UpgradeEdge) /\ Len(p) = 0
    BY <2>1, EmptySeq
  <2> QED BY <2>2, <1>2 DEF IsPath
<1>4. CASE v # latest
  <2>1. v \in Version \ {latest}
    BY <1>4
  <2>2. PICK i \in Out(v) : \E q \in visit[edges[i].to] : p = <<edges[i]>> \o q
    BY <2>1, <1>2, VisitOut
  <2>3. PICK q \in visit[edges[i].to] : p = <<edges[i]>> \o q
    BY <2>2
  <2>4. edges[i].to \in Version /\ v < edges[i].to
    BY EdgeFacts DEF Out
  <2>5. ~(edges[i].to \in Bad)
    BY <2>4, <1>1 DEF Version
  <2>6. IsPath(edges[i].to, q)
    BY <2>3, <2>4, <2>5
  <2>7. v \in Version /\ i \in Out(v)
    BY <2>1
  <2> HIDE DEF Bad
  <2>8. IsPath(v, <<edges[i]>> \o q)
    BY <2>6, <2>7, Extend
  <2> QED BY <2>3, <2>8, <1>2
<1> QED BY <1>3, <1>4

-----------------------------------------------------------------------------
(***************************************************************************)
(* The path that is resolved, and the plan it becomes.                     *)
(***************************************************************************)
\* A direct edge is the whole path, and it is published.
LEMMA DirectStep ==
  ASSUME ValidIndex, NEW current \in Version
  PROVE  LET d == DirectUpgradeStep(current, latest)
             found == {i \in DOMAIN edges : /\ edges[i].from = current
                                            /\ edges[i].to = latest}
         IN  /\ d.ok <=> found # {}
             /\ d.ok => \E i \in found : d.path = <<edges[i]>>
<1> DEFINE found == {i \in DOMAIN edges : /\ edges[i].from = current
                                          /\ edges[i].to = latest}
<1>1. found # {} => current < latest
  BY EdgeFacts
<1>2. found \in SUBSET Nat
  BY EdgeFacts
<1>3. ASSUME found # {}
      PROVE  (CHOOSE i \in found : \A k \in found : i <= k) \in found
  <2> HIDE DEF found
  <2>1. \E i \in found : \A k \in found : i <= k
    BY <1>2, <1>3, LeastElement
  <2> QED BY <2>1
<1>4. CASE found # {}
  <2> DEFINE first == CHOOSE i \in found : \A k \in found : i <= k
  <2>1. DirectUpgradeStep(current, latest) = Path(<<edges[first]>>)
    BY <1>1, <1>4 DEF DirectUpgradeStep
  <2>3. first \in found
    BY <1>3, <1>4
  <2> HIDE DEF found, first
  <2>2. /\ DirectUpgradeStep(current, latest).ok
        /\ \E i \in found : DirectUpgradeStep(current, latest).path = <<edges[i]>>
    BY <2>1, <2>3 DEF Path
  <2> QED BY <2>2, <1>4 DEF found
<1>5. CASE found = {}
  <2>1. DirectUpgradeStep(current, latest) = Unsupported
    BY <1>5 DEF DirectUpgradeStep
  <2> QED BY <2>1, <1>5 DEF Unsupported
<1> QED BY <1>4, <1>5

\* A resolved path is one that visit collects; no other is returned.
LEMMA Resolved ==
  ASSUME ValidIndex, NEW current \in Version
  PROVE  LET r == UpgradePath(current)
         IN  /\ r.ok \in BOOLEAN
             /\ r.ok => current <= latest /\ r.path \in visit[current]
             /\ ~r.ok => r.path = <<>>
<1> DEFINE d == DirectUpgradeStep(current, latest)
           only == \E p \in visit[current] : visit[current] = {p}
<1>1. CASE current = latest
  <2>1. UpgradePath(current) = Path(<<>>)
    BY <1>1 DEF UpgradePath
  <2> QED BY <2>1, <1>1, VisitOut, EdgeFacts DEF Path, Version
<1>2. CASE current > latest
  <2>1. UpgradePath(current) = Unsupported
    BY <1>2, EdgeFacts DEF UpgradePath, Version
  <2> QED BY <2>1 DEF Unsupported
<1>3. CASE current < latest /\ d.ok
  <2>1. UpgradePath(current) = d
    BY <1>3, EdgeFacts DEF UpgradePath, Version
  <2>2. PICK i \in DOMAIN edges : /\ edges[i].from = current
                                  /\ edges[i].to = latest
                                  /\ d.path = <<edges[i]>>
    BY <1>3, DirectStep
  <2>3. <<edges[i]>> \o <<>> = <<edges[i]>>
    <3>1. <<edges[i]>> \in Seq(UpgradeEdge)
      BY EdgeFacts
    <3> QED BY <3>1, ConcatEmptySeq
  <2>4. current # latest /\ i \in Out(current)
    BY <1>3, <2>2, EdgeFacts DEF Out, Version
  <2>5. <<edges[i]>> \in visit[current]
    BY <2>2, <2>3, <2>4, VisitOut
  <2>6. d.ok \in BOOLEAN
    BY DEF DirectUpgradeStep, Path, Unsupported
  <2> HIDE DEF d
  <2> QED BY <2>1, <2>2, <2>5, <2>6, <1>3, EdgeFacts DEF Version
<1>4. CASE current < latest /\ ~d.ok /\ only
  <2>1. UpgradePath(current) = Path(CHOOSE p \in visit[current] : TRUE)
    BY <1>4, EdgeFacts DEF UpgradePath, Version
  <2>2. (CHOOSE p \in visit[current] : TRUE) \in visit[current]
    BY <1>4
  <2> QED BY <2>1, <2>2, <1>4, EdgeFacts DEF Path, Version
<1>5. CASE current < latest /\ ~d.ok /\ ~only
  <2>1. UpgradePath(current) = Unsupported
    BY <1>5, EdgeFacts DEF UpgradePath, Version
  <2> QED BY <2>1 DEF Unsupported
<1>6. current = latest \/ current > latest \/ current < latest
  BY EdgeFacts DEF Version
<1> QED BY <1>1, <1>2, <1>3, <1>4, <1>5, <1>6

\* An edge fits the release it leads to: the manifest of that release admits
\* its source.
LEMMA TargetAdmits ==
  ASSUME ValidIndex, NEW i \in DOMAIN edges
  PROVE  /\ edges[i].to \in indexed
         /\ ValidateManifest(manifestOf(edges[i].to))
         /\ ValidateUpgradeFrom(manifestOf(edges[i].to), edges[i].from)
         /\ edges[i].digests # {} /\ sourceBound(edges[i])
<1>1. /\ releases \in Seq(Manifest) /\ ReleasesFit /\ EdgesFit
      /\ DOMAIN releases = 1..Len(releases) /\ Len(releases) \in Nat
  <2>1. releases \in Seq(Manifest) /\ ReleasesFit /\ EdgesFit
    BY DEF ValidIndex, IndexInv, TypeOK
  <2> QED BY <2>1, LenProperties
<1>2. EdgeFits(edges[i])
  BY <1>1, EdgeFacts DEF EdgesFit
<1>3. PICK k \in 1..Len(releases) :
        /\ releases[k].version = edges[i].to
        /\ ValidateUpgradeFrom(releases[k], edges[i].from)
  BY <1>2 DEF EdgeFits
<1>4. \A n \in 1..Len(releases) :
        releases[n].version = edges[i].to => releases[n] = releases[k]
  <2> SUFFICES ASSUME NEW n \in 1..Len(releases),
                      releases[n].version = edges[i].to, n # k
               PROVE  FALSE
    OBVIOUS
  <2>1. n < k \/ k < n
    OBVIOUS
  <2>2. releases[n].version < releases[k].version
          \/ releases[k].version < releases[n].version
    BY <2>1, <1>1 DEF ReleasesFit
  <2> QED BY <2>2, <1>3, EdgeFacts DEF Version
<1>5. /\ releases[k] \in Range(releases)
      /\ \A m \in Range(releases) : m.version = edges[i].to => m = releases[k]
  BY <1>1, <1>4 DEF Range
<1>6. manifestOf(edges[i].to) = releases[k]
  BY <1>3, <1>5 DEF manifestOf
<1>7. ValidateManifest(releases[k])
  BY <1>1 DEF ReleasesFit
<1>8. edges[i].to \in indexed
  BY <1>1, <1>3 DEF indexed
<1> QED BY <1>2, <1>3, <1>6, <1>7, <1>8 DEF EdgeFits

\* Every path that visit collects makes a plan that is accepted.
LEMMA PathIsPlan ==
  ASSUME ValidIndex, NEW current \in Version, NEW p \in visit[current]
  PROVE  /\ current # latest => validatePlanReleaseChain(current, p)
         /\ \A k \in DOMAIN p :
                IF k > 1 THEN p[k].digests = {p[k - 1].to}
                ELSE current \notin indexed => /\ current = legacyInitialVersion
                                               /\ p[k].to = firstFormalVersion
<1>1. IsPath(current, p)
  BY VisitPaths
<1>2. DOMAIN p = 1..Len(p) /\ Len(p) \in Nat
  BY <1>1, LenProperties DEF IsPath
<1>3. current # latest => p # <<>>
  <2> SUFFICES ASSUME current # latest PROVE p # <<>>
    OBVIOUS
  <2>1. PICK i \in Out(current) : \E q \in visit[edges[i].to] :
                                        p = <<edges[i]>> \o q
    BY VisitOut
  <2>2. PICK q \in visit[edges[i].to] : p = <<edges[i]>> \o q
    BY <2>1
  <2>3. edges[i].to \in Version
    BY EdgeFacts DEF Out
  <2>4. IsPath(edges[i].to, q)
    BY <2>2, <2>3, VisitPaths
  <2>5. Len(p) = Len(q) + 1 /\ Len(q) \in Nat
    <3>1. Len(q) \in Nat
      BY <2>4, LenProperties DEF IsPath
    <3> QED BY <3>1, <2>2, <2>4, Extend
  <2> QED BY <2>5, EmptySeq
<1>4. ASSUME NEW k \in DOMAIN p
      PROVE  LET source == IF k = 1 THEN current ELSE p[k - 1].to
             IN  /\ ValidateManifest(manifestOf(p[k].to))
                 /\ ValidateUpgradeFrom(manifestOf(p[k].to), source)
                 /\ p[k].digests # {}
                 /\ p[k].to \in indexed /\ sourceBound(p[k])
                 /\ p[k].from = source
  <2>1. PICK i \in DOMAIN edges : p[k] = edges[i]
    BY <1>1, <1>2 DEF IsPath
  <2>2. p[k].from = IF k = 1 THEN current ELSE p[k - 1].to
    BY <1>1, <1>2 DEF IsPath
  <2> QED BY <2>1, <2>2, TargetAdmits
<1>5. ASSUME NEW k \in DOMAIN p, k > 1
      PROVE  p[k].digests = {p[k - 1].to}
  <2>1. k - 1 \in DOMAIN p /\ k # 1
    BY <1>2, <1>5
  <2>2. p[k - 1].to \in indexed
    BY <2>1, <1>4
  <2>3. p[k].from = p[k - 1].to /\ sourceBound(p[k])
    BY <2>1, <1>4
  <2> QED BY <2>2, <2>3 DEF sourceBound
<1>6. ASSUME NEW k \in DOMAIN p, ~(k > 1), current \notin indexed
      PROVE  current = legacyInitialVersion /\ p[k].to = firstFormalVersion
  <2>1. k = 1
    BY <1>2, <1>6
  <2>2. p[k].from = current /\ sourceBound(p[k])
    BY <2>1, <1>4
  <2> QED BY <2>2, <1>6 DEF sourceBound
<1>7. current # latest => validatePlanReleaseChain(current, p)
  BY <1>3, <1>4 DEF validatePlanReleaseChain
<1> QED BY <1>5, <1>6, <1>7

\* Every path that is resolved from a valid index makes a plan that the state
\* file accepts, and each hop after the first trusts exactly the image that the
\* hop before it has installed.
THEOREM PlansAreValid == Spec => []PlanIsValid
<1>1. IndexInv => PlanIsValid
  <2> SUFFICES ASSUME IndexInv PROVE PlanIsValid
    OBVIOUS
  <2>1. TypeOK
    BY DEF IndexInv
  <2>2. ASSUME phase = "valid", NEW current \in Version
        PROVE  LET r == UpgradePath(current)
                   p == r.path
               IN  /\ r.ok /\ current # latest
                          => validatePlanReleaseChain(current, p)
                   /\ \A i \in DOMAIN p :
                        IF i > 1 THEN p[i].digests = {p[i - 1].to}
                        ELSE current \notin indexed
                               => /\ current = legacyInitialVersion
                                  /\ p[i].to = firstFormalVersion
    <3> DEFINE r == UpgradePath(current)
    <3>1. ValidIndex
      BY <2>2 DEF ValidIndex
    <3>2. /\ r.ok => r.path \in visit[current]
          /\ ~r.ok => r.path = <<>>
          /\ r.ok \in BOOLEAN
      BY <3>1, Resolved
    <3> HIDE DEF r
    <3>3. CASE r.ok
      BY <3>1, <3>2, <3>3, PathIsPlan DEF r
    <3>4. CASE ~r.ok
      <4>1. DOMAIN <<>> = {}
        OBVIOUS
      <4> QED BY <4>1, <3>2, <3>4 DEF r
    <3> QED BY <3>3, <3>4
  <2> QED BY <2>1, <2>2 DEF PlanIsValid
<1> QED BY <1>1, AlwaysIndex, PTL

-----------------------------------------------------------------------------
(***************************************************************************)
(* Paths and chains of releases correspond one to one.                     *)
(***************************************************************************)
\* The next member of a set after a number is the least of the later ones.
LEMMA NextIs ==
  ASSUME NEW S \in SUBSET Nat, NEW v \in Nat, NEW w \in S, v < w,
         \A u \in S : v < u => w <= u
  PROVE  next(S, v) = w
<1>1. \A x \in S : v < x /\ (\A u \in S : v < u => x <= u) => x = w
  <2> SUFFICES ASSUME NEW x \in S, v < x, \A u \in S : v < u => x <= u
               PROVE  x = w
    OBVIOUS
  <2>1. x <= w /\ w <= x /\ x \in Nat /\ w \in Nat
    OBVIOUS
  <2> QED BY <2>1
<1> QED BY <1>1 DEF next

\* There is a next member wherever there is a later one.
LEMMA NextIn ==
  ASSUME NEW S \in SUBSET Nat, NEW v \in Nat, NEW x \in S, v < x
  PROVE  /\ next(S, v) \in S /\ v < next(S, v)
         /\ \A u \in S : v < u => next(S, v) <= u
<1> DEFINE L == {u \in S : v < u}
<1>1. L \in SUBSET Nat /\ L # {}
  OBVIOUS
<1>2. PICK w \in L : \A u \in L : w <= u
  <2> HIDE DEF L
  <2> QED BY <1>1, LeastElement
<1>3. w \in S /\ v < w /\ \A u \in S : v < u => w <= u
  BY <1>2
<1> HIDE DEF L
<1>4. next(S, v) = w
  BY <1>3, NextIs
<1> QED BY <1>3, <1>4

\* The versions of a chain are between its ends.
LEMMA ChainTypes ==
  ASSUME ValidIndex, NEW v \in Version, NEW S \in Chains(v)
  PROVE  /\ S \in SUBSET Nat /\ v \in S /\ latest \in S
         /\ v \in Nat /\ latest \in Nat
         /\ \A u \in S : v <= u /\ u <= latest
  BY EdgeFacts DEF Chains, Version

\* A chain from v on is v and a chain from the end of an edge out of v.
LEMMA ChainTail ==
  ASSUME ValidIndex, NEW v \in Version, v # latest, NEW S \in Chains(v)
  PROVE  \E i \in Out(v) : \E T \in Chains(edges[i].to) : S = {v} \union T
<1> DEFINE w == next(S, v)
           T == S \ {v}
<1>1. /\ S \in SUBSET Nat /\ v \in S /\ latest \in S
      /\ v \in Nat /\ latest \in Nat
      /\ \A u \in S : v <= u /\ u <= latest
  BY ChainTypes
<1>2. v < latest
  BY <1>1
<1>3. w \in S /\ v < w /\ \A u \in S : v < u => w <= u
  BY <1>1, <1>2, NextIn
<1>4. \A x \in S \ {latest} : \E i \in DOMAIN edges :
            edges[i].from = x /\ edges[i].to = next(S, x)
  BY DEF Chains
<1>5. PICK i \in DOMAIN edges : edges[i].from = v /\ edges[i].to = w
  BY <1>1, <1>2, <1>4
<1> HIDE DEF w
<1>6. w \in Nat /\ T \in SUBSET (w..latest) /\ {w, latest} \subseteq T
  <2>1. w \in Nat /\ w \in T /\ latest \in T
    BY <1>1, <1>2, <1>3
  <2>2. \A u \in T : u \in Nat /\ w <= u /\ u <= latest
    BY <1>1, <1>3
  <2> HIDE DEF T
  <2> QED BY <2>1, <2>2, <1>1
<1>7. ASSUME NEW x \in T \ {latest}
      PROVE  \E k \in DOMAIN edges : edges[k].from = x /\ edges[k].to = next(T, x)
  <2>1. x \in Nat /\ x < latest /\ x \in S \ {latest} /\ w <= x
    BY <1>1, <1>6
  <2>2. /\ next(S, x) \in S /\ x < next(S, x)
        /\ \A u \in S : x < u => next(S, x) <= u
    BY <2>1, <1>1, NextIn
  <2>3. next(S, x) \in T
    BY <2>1, <2>2, <1>1, <1>3
  <2>4. T \in SUBSET Nat /\ \A u \in T : x < u => next(S, x) <= u
    BY <2>2, <1>1
  <2> HIDE DEF T
  <2>5. next(T, x) = next(S, x)
    BY <2>1, <2>2, <2>3, <2>4, NextIs
  <2> QED BY <2>1, <2>5, <1>4
<1>8. T \in Chains(w)
  <2> HIDE DEF T
  <2> QED BY <1>6, <1>7 DEF Chains
<1>9. S = {v} \union T
  BY <1>1
<1> QED BY <1>5, <1>8, <1>9 DEF Out

\* An edge in front of a chain makes a chain.
LEMMA ChainHead ==
  ASSUME ValidIndex, NEW v \in Version, NEW i \in Out(v),
         NEW T \in Chains(edges[i].to)
  PROVE  /\ {v} \union T \in Chains(v) /\ v \notin T
         /\ next({v} \union T, v) = edges[i].to
<1> DEFINE w == edges[i].to
           S == {v} \union T
<1>1. /\ v \in Nat /\ w \in Version /\ v < w /\ w <= latest
      /\ i \in DOMAIN edges /\ edges[i].from = v
  BY EdgeFacts DEF Out, Version
<1>2. /\ T \in SUBSET Nat /\ w \in T /\ latest \in T
      /\ w \in Nat /\ latest \in Nat
      /\ \A u \in T : w <= u /\ u <= latest
  BY <1>1, ChainTypes
<1>3. v \notin T /\ v # latest
  BY <1>1, <1>2
<1>4. S \in SUBSET Nat /\ S \in SUBSET (v..latest) /\ {v, latest} \subseteq S
  BY <1>1, <1>2
<1>5. next(S, v) = w
  <2>1. w \in S /\ \A u \in S : v < u => w <= u
    BY <1>1, <1>2
  <2> HIDE DEF S
  <2> QED BY <2>1, <1>1, <1>4, NextIs
<1>6. ASSUME NEW x \in S \ {latest}
      PROVE  \E k \in DOMAIN edges : edges[k].from = x /\ edges[k].to = next(S, x)
  <2>1. CASE x = v
    BY <2>1, <1>1, <1>5
  <2>2. CASE x # v
    <3>1. x \in T \ {latest} /\ x \in Nat /\ x < latest /\ w <= x
      <4>1. x \in T /\ x # latest
        BY <2>2
      <4> HIDE DEF S, w
      <4>2. x \in Nat /\ latest \in Nat /\ x <= latest /\ w <= x
        BY <4>1, <1>2
      <4> QED BY <4>1, <4>2
    <3>2. /\ next(T, x) \in T /\ x < next(T, x)
          /\ \A u \in T : x < u => next(T, x) <= u
      BY <3>1, <1>2, NextIn
    <3>3. next(T, x) \in S /\ \A u \in S : x < u => next(T, x) <= u
      BY <3>1, <3>2, <1>1, <1>2
    <3>4. next(S, x) = next(T, x)
      <4> HIDE DEF S
      <4> QED BY <3>1, <3>2, <3>3, <1>4, NextIs
    <3>5. \E k \in DOMAIN edges : edges[k].from = x /\ edges[k].to = next(T, x)
      BY <3>1 DEF Chains
    <3> QED BY <3>4, <3>5
  <2> QED BY <2>1, <2>2
<1>7. S \in Chains(v)
  <2> HIDE DEF S
  <2> QED BY <1>4, <1>6 DEF Chains
<1> QED BY <1>3, <1>5, <1>7

\* From any version on, the versions of a path are a chain, every chain is that
\* of a path, and no two paths have the same one.
Corresponds(v) ==
    /\ \A p \in visit[v] : versions(v, p) \in Chains(v)
    /\ \A S \in Chains(v) : \E p \in visit[v] : versions(v, p) = S
    /\ \A p, q \in visit[v] : versions(v, p) = versions(v, q) => p = q

\* At the end there is the empty path, and the chain of the latest alone.
LEMMA LatestCorresponds ==
  ASSUME ValidIndex
  PROVE  Corresponds(latest)
<1>1. visit[latest] = {<<>>} /\ latest \in Nat
  BY VisitOut, EdgeFacts DEF Version
<1>2. versions(latest, <<>>) = {latest}
  <2>1. DOMAIN <<>> = {}
    OBVIOUS
  <2> QED BY <2>1 DEF versions
<1>3. latest..latest = {latest}
  BY <1>1
<1>4. {latest} \in Chains(latest)
  BY <1>3 DEF Chains
<1>5. \A S \in Chains(latest) : S = {latest}
  BY <1>3 DEF Chains
<1> QED BY <1>1, <1>2, <1>4, <1>5 DEF Corresponds

\* Before the end both branch at the same edges.
LEMMA OutCorresponds ==
  ASSUME ValidIndex, NEW v \in Version, v # latest,
         \A i \in Out(v) : Corresponds(edges[i].to)
  PROVE  Corresponds(v)
<1>1. v \in Version \ {latest}
  OBVIOUS
<1>2. ASSUME NEW p \in visit[v]
      PROVE  \E i \in Out(v) : \E q \in visit[edges[i].to] :
                /\ p = <<edges[i]>> \o q
                /\ versions(v, p) = {v} \union versions(edges[i].to, q)
                /\ versions(edges[i].to, q) \in Chains(edges[i].to)
  <2>1. PICK i \in Out(v) : \E q \in visit[edges[i].to] : p = <<edges[i]>> \o q
    BY <1>1, VisitOut
  <2>2. PICK q \in visit[edges[i].to] : p = <<edges[i]>> \o q
    BY <2>1
  <2>3. edges[i].to \in Version
    BY EdgeFacts DEF Out
  <2>4. IsPath(edges[i].to, q)
    BY <2>3, VisitPaths
  <2>5. versions(v, <<edges[i]>> \o q) = {v} \union versions(edges[i].to, q)
    BY <2>4, Extend
  <2>6. versions(edges[i].to, q) \in Chains(edges[i].to)
    BY DEF Corresponds
  <2> QED BY <2>2, <2>5, <2>6
<1>3. ASSUME NEW p \in visit[v] PROVE versions(v, p) \in Chains(v)
  <2>1. PICK i \in Out(v) : \E q \in visit[edges[i].to] :
            /\ versions(v, p) = {v} \union versions(edges[i].to, q)
            /\ versions(edges[i].to, q) \in Chains(edges[i].to)
    BY <1>2
  <2> QED BY <2>1, ChainHead
<1>4. ASSUME NEW S \in Chains(v)
      PROVE  \E p \in visit[v] : versions(v, p) = S
  <2>1. PICK i \in Out(v) : \E T \in Chains(edges[i].to) : S = {v} \union T
    BY ChainTail
  <2>2. PICK T \in Chains(edges[i].to) : S = {v} \union T
    BY <2>1
  <2>3. PICK q \in visit[edges[i].to] : versions(edges[i].to, q) = T
    BY <2>2 DEF Corresponds
  <2>4. edges[i].to \in Version
    BY EdgeFacts DEF Out
  <2>5. IsPath(edges[i].to, q)
    BY <2>4, VisitPaths
  <2>6. versions(v, <<edges[i]>> \o q) = S
    BY <2>2, <2>3, <2>5, Extend
  <2>7. <<edges[i]>> \o q \in visit[v]
    BY <1>1, VisitOut
  <2> QED BY <2>6, <2>7
<1>5. ASSUME NEW p \in visit[v], NEW q \in visit[v],
             versions(v, p) = versions(v, q)
      PROVE  p = q
  <2>1. PICK i \in Out(v) : \E r \in visit[edges[i].to] :
            /\ p = <<edges[i]>> \o r
            /\ versions(v, p) = {v} \union versions(edges[i].to, r)
            /\ versions(edges[i].to, r) \in Chains(edges[i].to)
    BY <1>2
  <2>2. PICK r \in visit[edges[i].to] :
            /\ p = <<edges[i]>> \o r
            /\ versions(v, p) = {v} \union versions(edges[i].to, r)
            /\ versions(edges[i].to, r) \in Chains(edges[i].to)
    BY <2>1
  <2>3. PICK k \in Out(v) : \E s \in visit[edges[k].to] :
            /\ q = <<edges[k]>> \o s
            /\ versions(v, q) = {v} \union versions(edges[k].to, s)
            /\ versions(edges[k].to, s) \in Chains(edges[k].to)
    BY <1>2
  <2>4. PICK s \in visit[edges[k].to] :
            /\ q = <<edges[k]>> \o s
            /\ versions(v, q) = {v} \union versions(edges[k].to, s)
            /\ versions(edges[k].to, s) \in Chains(edges[k].to)
    BY <2>3
  <2>5. /\ v \notin versions(edges[i].to, r)
        /\ next(versions(v, p), v) = edges[i].to
    <3>1. PICK T \in Chains(edges[i].to) : T = versions(edges[i].to, r)
      BY <2>2
    <3>2. v \notin T /\ next({v} \union T, v) = edges[i].to
      BY ChainHead
    <3>3. versions(v, p) = {v} \union T
      BY <3>1, <2>2
    <3> QED BY <3>1, <3>2, <3>3
  <2>6. /\ v \notin versions(edges[k].to, s)
        /\ next(versions(v, q), v) = edges[k].to
    <3>1. PICK T \in Chains(edges[k].to) : T = versions(edges[k].to, s)
      BY <2>4
    <3>2. v \notin T /\ next({v} \union T, v) = edges[k].to
      BY ChainHead
    <3>3. versions(v, q) = {v} \union T
      BY <3>1, <2>4
    <3> QED BY <3>1, <3>2, <3>3
  <2>7. i = k
    <3>1. edges[i].to = edges[k].to
      BY <2>5, <2>6, <1>5
    <3>2. /\ i \in DOMAIN edges /\ k \in DOMAIN edges
          /\ edges[i].from = edges[k].from
      BY DEF Out
    <3>3. \A m, n \in DOMAIN edges :
            (/\ edges[m].from = edges[n].from
             /\ edges[m].to = edges[n].to) => m = n
      BY EdgeFacts
    <3> QED BY <3>1, <3>2, <3>3
  <2>8. versions(edges[i].to, r) = versions(edges[i].to, s)
    <3> DEFINE A == versions(edges[i].to, r)
               B == versions(edges[i].to, s)
    <3>1. v \notin A /\ v \notin B
      BY <2>5, <2>6, <2>7
    <3>2. {v} \union A = {v} \union B
      BY <2>2, <2>4, <2>7, <1>5
    <3> HIDE DEF A, B
    <3>3. \A x : x \in A <=> x \in B
      <4> SUFFICES ASSUME NEW x PROVE x \in A <=> x \in B
        OBVIOUS
      <4>1. x \in {v} \union A <=> x \in {v} \union B
        BY <3>2
      <4> QED BY <4>1, <3>1
    <3> QED BY <3>3 DEF A, B
  <2>9. r = s
    BY <2>7, <2>8, <2>2, <2>4 DEF Corresponds
  <2> QED BY <2>2, <2>4, <2>7, <2>9
<1> QED BY <1>3, <1>4, <1>5 DEF Corresponds

\* From every version that is not past the latest: the edges out of the greatest
\* exception would lead to none.
LEMMA AllCorrespond ==
  ASSUME ValidIndex
  PROVE  \A v \in Version : v <= latest => Corresponds(v)
<1> DEFINE Bad == {v \in Version : v <= latest /\ ~Corresponds(v)}
<1> SUFFICES ASSUME Bad # {} PROVE FALSE
  OBVIOUS
<1>1. PICK v \in Bad : \A k \in Bad : k <= v
  <2>1. Bad \in SUBSET Version
    OBVIOUS
  <2> HIDE DEF Bad
  <2> QED BY <2>1, GreatestElement
<1>2. v \in Version /\ v <= latest /\ ~Corresponds(v)
  OBVIOUS
<1>3. v # latest
  BY <1>2, LatestCorresponds
<1>4. ASSUME NEW i \in Out(v) PROVE Corresponds(edges[i].to)
  <2>1. edges[i].to \in Version /\ v < edges[i].to /\ edges[i].to <= latest
    BY EdgeFacts DEF Out
  <2>2. ~(edges[i].to \in Bad)
    <3> HIDE DEF Bad
    <3> QED BY <2>1, <1>1, <1>2 DEF Version
  <2> QED BY <2>1, <2>2
<1> HIDE DEF Bad
<1> QED BY <1>2, <1>3, <1>4, OutCorresponds

\* The chain of a direct edge is there exactly when the edge is published.
LEMMA DirectChain ==
  ASSUME ValidIndex, NEW current \in Version, current < latest
  PROVE  {current, latest} \in Chains(current)
           <=> DirectUpgradeStep(current, latest).ok
<1> DEFINE S == {current, latest}
           found == {i \in DOMAIN edges : /\ edges[i].from = current
                                          /\ edges[i].to = latest}
<1>1. current \in Nat /\ latest \in Nat /\ current # latest
  BY EdgeFacts DEF Version
<1>2. S \in SUBSET (current..latest) /\ S \in SUBSET Nat
  BY <1>1
<1>3. next(S, current) = latest
  <2>1. latest \in S /\ \A u \in S : current < u => latest <= u
    BY <1>1
  <2> HIDE DEF S
  <2> QED BY <2>1, <1>1, <1>2, NextIs
<1>4. S \ {latest} = {current}
  BY <1>1
<1>5. S \in Chains(current) <=> \A v \in S \ {latest} :
        \E i \in DOMAIN edges : edges[i].from = v /\ edges[i].to = next(S, v)
  <2>1. {current, latest} \subseteq S
    OBVIOUS
  <2> HIDE DEF S
  <2> QED BY <1>2, <2>1 DEF Chains
<1>6. S \in Chains(current) <=> found # {}
  <2> HIDE DEF S
  <2> QED BY <1>3, <1>4, <1>5
<1>7. DirectUpgradeStep(current, latest).ok <=> found # {}
  BY DirectStep
<1> QED BY <1>6, <1>7

\* There are finitely many chains.
LEMMA ChainsFinite ==
  ASSUME ValidIndex, NEW current \in Version
  PROVE  IsFiniteSet(Chains(current))
<1>1. IsFiniteSet(current..latest)
  BY FS_Interval, EdgeFacts DEF Version
<1>2. IsFiniteSet(SUBSET (current..latest))
  BY <1>1, FS_SUBSET
<1>3. Chains(current) \in SUBSET SUBSET (current..latest)
  BY DEF Chains
<1> QED BY <1>2, <1>3, FS_Subset

\* One path is the same as one chain.
LEMMA OneChain ==
  ASSUME ValidIndex, NEW current \in Version, current <= latest
  PROVE  (\E p \in visit[current] : visit[current] = {p})
           <=> Cardinality(Chains(current)) = 1
<1>1. Corresponds(current)
  BY AllCorrespond
<1>2. Cardinality(Chains(current)) = 1 <=> \E S : Chains(current) = {S}
  BY ChainsFinite, FS_Singleton
<1>3. ASSUME NEW p \in visit[current], visit[current] = {p}
      PROVE  \E S : Chains(current) = {S}
  <2>1. versions(current, p) \in Chains(current)
    BY <1>1 DEF Corresponds
  <2>2. \A S \in Chains(current) : S = versions(current, p)
    BY <1>1, <1>3 DEF Corresponds
  <2> QED BY <2>1, <2>2
<1>4. ASSUME NEW S, Chains(current) = {S}
      PROVE  \E p \in visit[current] : visit[current] = {p}
  <2>1. PICK p \in visit[current] : versions(current, p) = S
    BY <1>1, <1>4 DEF Corresponds
  <2>2. ASSUME NEW q \in visit[current] PROVE q = p
    <3>1. versions(current, q) \in Chains(current)
      BY <1>1 DEF Corresponds
    <3>2. versions(current, q) = versions(current, p)
      BY <3>1, <2>1, <1>4
    <3> QED BY <3>2, <1>1 DEF Corresponds
  <2> QED BY <2>2
<1> QED BY <1>2, <1>3, <1>4

\* A path is resolved exactly when there is a direct edge or one chain only, and
\* it is that chain, for any valid index: no job is planned on a choice nobody
\* published.
THEOREM PathsAreUnique == Spec => []UniqueOrRefused
<1>1. IndexInv => UniqueOrRefused
  <2> SUFFICES ASSUME IndexInv, phase = "valid", NEW current \in Version
               PROVE  LET r == UpgradePath(current)
                          chains == IF current > latest THEN {}
                                    ELSE Chains(current)
                      IN  IF current < latest /\ {current, latest} \in chains
                          THEN r.ok /\ versions(current, r.path)
                                          = {current, latest}
                          ELSE /\ r.ok <=> Cardinality(chains) = 1
                               /\ r.ok => versions(current, r.path) \in chains
    BY DEF UniqueOrRefused
  <2> DEFINE r == UpgradePath(current)
             d == DirectUpgradeStep(current, latest)
             only == \E p \in visit[current] : visit[current] = {p}
  <2>1. ValidIndex /\ current \in Nat /\ latest \in Nat /\ latest \in Version
    <3>1. ValidIndex
      BY DEF ValidIndex
    <3> QED BY <3>1, EdgeFacts DEF Version
  <2>2. r.ok => r.path \in visit[current]
    BY <2>1, Resolved
  <2>3. ASSUME current <= latest
        PROVE  r.ok => versions(current, r.path) \in Chains(current)
    BY <2>1, <2>2, <2>3, AllCorrespond DEF Corresponds
  <2>4. CASE current > latest
    <3>1. r = Unsupported
      BY <2>1, <2>4 DEF UpgradePath
    <3>2. ~r.ok /\ Cardinality({}) = 0 /\ ~(current < latest)
      BY <3>1, <2>1, <2>4, FS_EmptySet DEF Unsupported
    <3> HIDE DEF r
    <3> QED BY <3>2, <2>4 DEF r
  <2>5. CASE current = latest
    <3>1. r = Path(<<>>)
      BY <2>5 DEF UpgradePath
    <3>2. r.ok /\ visit[current] = {<<>>}
      BY <3>1, <2>1, <2>5, VisitOut DEF Path
    <3>3. Cardinality(Chains(current)) = 1
      BY <3>2, <2>1, <2>5, OneChain
    <3>4. versions(current, r.path) \in Chains(current)
      BY <3>2, <2>1, <2>3, <2>5
    <3> HIDE DEF r
    <3> QED BY <3>2, <3>3, <3>4, <2>1, <2>5 DEF r
  <2>6. CASE current < latest /\ d.ok
    <3>1. r = d
      BY <2>1, <2>6 DEF UpgradePath
    <3>2. {current, latest} \in Chains(current)
      BY <2>1, <2>6, DirectChain
    <3>3. versions(current, r.path) = {current, latest}
      <4>1. PICK i \in DOMAIN edges : /\ edges[i].to = latest
                                      /\ d.path = <<edges[i]>>
        BY <2>1, <2>6, DirectStep
      <4>2. DOMAIN <<edges[i]>> = {1} /\ <<edges[i]>>[1] = edges[i]
        OBVIOUS
      <4> QED BY <3>1, <4>1, <4>2 DEF versions
    <3> HIDE DEF r, d
    <3> QED BY <3>1, <3>2, <3>3, <2>1, <2>6 DEF r
  <2>7. CASE current < latest /\ ~d.ok
    <3>1. {current, latest} \notin Chains(current)
      BY <2>1, <2>7, DirectChain
    <3>2. r.ok <=> only
      BY <2>1, <2>7 DEF UpgradePath, Path, Unsupported
    <3>3. only <=> Cardinality(Chains(current)) = 1
      BY <2>1, <2>7, OneChain
    <3>4. r.ok => versions(current, r.path) \in Chains(current)
      BY <2>1, <2>3, <2>7
    <3> HIDE DEF r, d, only
    <3> QED BY <3>1, <3>2, <3>3, <3>4, <2>1, <2>7 DEF r
  <2> QED BY <2>1, <2>4, <2>5, <2>6, <2>7
<1> QED BY <1>1, AlwaysIndex, PTL

-----------------------------------------------------------------------------
(***************************************************************************)
(* What legacy jobs rely on: LegacyJob takes it as the type of their plans *)
(* (Plan), and that a job's target is the end of its plan.                 *)
(***************************************************************************)
\* Every release of the path is newer than the version the host has and than
\* the releases before it, and the last one is the latest.
Ascends(v, p) ==
    /\ p \in Seq(UpgradeEdge)
    /\ \A n \in 1..Len(p) :
            v < p[n].to /\ \A m \in 1..n - 1 : p[m].to < p[n].to
    /\ IF Len(p) = 0 THEN v = latest ELSE p[Len(p)].to = latest

ResolvedAscends ==
    phase = "valid" => \A current \in Version :
        UpgradePath(current).ok => Ascends(current, UpgradePath(current).path)

\* An edge to the start of an ascending path makes another one.
LEMMA ExtendAscends ==
  ASSUME ValidIndex, NEW v \in Version, NEW i \in Out(v),
         NEW q, IsPath(edges[i].to, q), Ascends(edges[i].to, q)
  PROVE  Ascends(v, <<edges[i]>> \o q)
<1> DEFINE p == <<edges[i]>> \o q
           w == edges[i].to
<1>1. /\ w \in Version /\ v \in Nat /\ w \in Nat /\ v < w
      /\ q \in Seq(UpgradeEdge) /\ Len(q) \in Nat
  <2>1. /\ w \in Version /\ v < w /\ q \in Seq(UpgradeEdge)
    BY EdgeFacts DEF Out, Ascends
  <2> QED BY <2>1, LenProperties DEF Version
<1>2. /\ p \in Seq(UpgradeEdge) /\ Len(p) = Len(q) + 1 /\ p[1] = edges[i]
      /\ \A k \in 1..Len(q) : p[k + 1] = q[k]
  <2>1. IsPath(v, <<edges[i]>> \o q)
    BY Extend
  <2>2. /\ Len(<<edges[i]>> \o q) = Len(q) + 1
        /\ (<<edges[i]>> \o q)[1] = edges[i]
        /\ \A k \in 1..Len(q) : (<<edges[i]>> \o q)[k + 1] = q[k]
    BY Extend
  <2> QED BY <2>1, <2>2 DEF IsPath
<1> HIDE DEF p
<1>3. \A k \in 1..Len(q) : q[k].to \in Nat
  <2> SUFFICES ASSUME NEW k \in 1..Len(q) PROVE q[k].to \in Nat
    OBVIOUS
  <2>1. q[k] \in UpgradeEdge
    BY <1>1, ElementOfSeq
  <2> QED BY <2>1 DEF UpgradeEdge, Version
<1>4. \A k \in 1..Len(p) :
        k = 1 \/ (k - 1 \in 1..Len(q) /\ p[k] = q[k - 1])
  <2> SUFFICES ASSUME NEW k \in 1..Len(p), k # 1
               PROVE  k - 1 \in 1..Len(q) /\ p[k] = q[k - 1]
    OBVIOUS
  <2>1. k - 1 \in 1..Len(q) /\ (k - 1) + 1 = k
    BY <1>1, <1>2
  <2> QED BY <2>1, <1>2
<1>5. ASSUME NEW n \in 1..Len(p)
      PROVE  v < p[n].to /\ \A m \in 1..n - 1 : p[m].to < p[n].to
  <2>1. CASE n = 1
    BY <2>1, <1>1, <1>2
  <2>2. CASE n # 1
    <3>1. n - 1 \in 1..Len(q) /\ p[n] = q[n - 1]
      BY <2>2, <1>4
    <3>2. w < p[n].to /\ \A m \in 1..(n - 1) - 1 : q[m].to < p[n].to
      BY <3>1 DEF Ascends
    <3>3. v < p[n].to
      BY <3>1, <3>2, <1>1, <1>3
    <3>4. ASSUME NEW m \in 1..n - 1 PROVE p[m].to < p[n].to
      <4>1. CASE m = 1
        BY <4>1, <3>2, <1>2
      <4>2. CASE m # 1
        <5>1. m \in 1..Len(p)
          BY <3>1, <1>2
        <5>2. p[m] = q[m - 1] /\ m - 1 \in 1..Len(q)
          BY <4>2, <5>1, <1>4
        <5>3. m - 1 \in 1..(n - 1) - 1
          BY <5>2, <3>1, <3>4
        <5> QED BY <5>2, <5>3, <3>2
      <4> QED BY <4>1, <4>2
    <3> QED BY <3>3, <3>4
  <2> QED BY <2>1, <2>2
<1>6. p[Len(p)].to = latest
  <2>1. CASE Len(q) = 0
    <3>1. w = latest
      BY <2>1 DEF Ascends
    <3> QED BY <3>1, <2>1, <1>2
  <2>2. CASE Len(q) > 0
    <3>1. q[Len(q)].to = latest /\ Len(q) \in 1..Len(q)
      BY <2>2, <1>1 DEF Ascends
    <3> QED BY <3>1, <1>2
  <2> QED BY <2>1, <2>2, <1>1
<1>7. Len(p) = 0 => FALSE
  <2>1. Len(p) >= 1
    BY <1>1, <1>2
  <2> QED BY <2>1
<1>8. Ascends(v, p)
  BY <1>2, <1>5, <1>6, <1>7 DEF Ascends
<1> QED BY <1>8 DEF p

\* Everything visit collects ascends to the latest release.
LEMMA VisitAscends ==
  ASSUME ValidIndex
  PROVE  \A v \in Version : \A p \in visit[v] : Ascends(v, p)
<1> DEFINE Bad == {v \in Version : ~ \A p \in visit[v] : Ascends(v, p)}
<1> SUFFICES ASSUME Bad # {} PROVE FALSE
  OBVIOUS
<1>1. PICK v \in Bad : \A k \in Bad : k <= v
  <2>1. Bad \in SUBSET Version
    OBVIOUS
  <2> HIDE DEF Bad
  <2> QED BY <2>1, GreatestElement
<1>2. PICK p \in visit[v] : ~Ascends(v, p)
  OBVIOUS
<1>3. CASE v = latest
  <2>1. p = <<>>
    BY <1>2, <1>3, VisitOut
  <2>2. p \in Seq(UpgradeEdge) /\ Len(p) = 0
    BY <2>1, EmptySeq
  <2> QED BY <2>2, <1>2, <1>3 DEF Ascends
<1>4. CASE v # latest
  <2>1. v \in Version \ {latest}
    BY <1>4
  <2>2. PICK i \in Out(v) : \E q \in visit[edges[i].to] : p = <<edges[i]>> \o q
    BY <2>1, <1>2, VisitOut
  <2>3. PICK q \in visit[edges[i].to] : p = <<edges[i]>> \o q
    BY <2>2
  <2>4. edges[i].to \in Version /\ v < edges[i].to
    BY EdgeFacts DEF Out
  <2>5. ~(edges[i].to \in Bad)
    BY <2>4, <1>1 DEF Version
  <2>6. IsPath(edges[i].to, q) /\ Ascends(edges[i].to, q)
    BY <2>3, <2>4, <2>5, VisitPaths
  <2>7. v \in Version /\ i \in Out(v)
    BY <2>1
  <2> HIDE DEF Bad
  <2>8. Ascends(v, <<edges[i]>> \o q)
    BY <2>6, <2>7, ExtendAscends
  <2> QED BY <2>3, <2>8, <1>2
<1> QED BY <1>3, <1>4

\* A resolved path leads to the latest release, each of its releases newer than
\* all before it, for any valid index: no persisted plan takes a host back or
\* through the same release twice.
THEOREM PlansAscend == Spec => []ResolvedAscends
<1>1. IndexInv => ResolvedAscends
  <2> SUFFICES ASSUME IndexInv, phase = "valid", NEW current \in Version,
                      UpgradePath(current).ok
               PROVE  Ascends(current, UpgradePath(current).path)
    BY DEF ResolvedAscends
  <2>1. ValidIndex
    BY DEF ValidIndex
  <2>2. UpgradePath(current).path \in visit[current]
    BY <2>1, Resolved
  <2> QED BY <2>1, <2>2, VisitAscends
<1> QED BY <1>1, AlwaysIndex, PTL
=============================================================================
