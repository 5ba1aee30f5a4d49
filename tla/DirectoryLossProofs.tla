------------------------ MODULE DirectoryLossProofs ------------------------
(***************************************************************************)
(* Proofs about Directory that rest on those of DirectoryProofs: that no   *)
(* cluster is lost, and that power loss spares the other entries.          *)
(*                                                                         *)
(* Both need more than that chains are apart (TInv): every directory is    *)
(* reached from the root.  Rooted says so without a path: a set that has   *)
(* the clusters of the root, and with an entry those of its directory, has *)
(* all directories.  What a step may do is said once for all: it frees the *)
(* chains of some entries X, rewrites some entries T, and leaves the rest  *)
(* and the ways to them (Works).                                           *)
(*                                                                         *)
(* NoClusterIsLost: every cluster that is not free is in the root's chain  *)
(* or in that of an entry, or is the one the call in progress has just     *)
(* taken (LeakInv).                                                        *)
(* OthersAreSpared: the entries there were when the call began, but those  *)
(* it has come to make or remove, stand where they stood and their chains  *)
(* have only grown (SparedInv); what the card receives is what a caller    *)
(* reads.                                                                  *)
(***************************************************************************)
EXTENDS DirectoryProofs

-----------------------------------------------------------------------------
(* Every directory is reached from the root. *)

\* A set of clusters that has those of the root and those of each directory with
\* an entry in it, so far as they are counted.
Complete(f, d, L, z, S) ==
  /\ \A j \in 1 .. Counted(f, z, Root) : Chain(f, Root)[j] \in S
  /\ \A s \in DirsOf(d, L) :
       s[1] \in S => \A j \in 1 .. Counted(f, z, At(d, s).first) : Chain(f, At(d, s).first)[j] \in S

Rooted(f, d, L, z) ==
  \A S \in SUBSET Cluster : Complete(f, d, L, z, S) => Space(f, d, L, z) \subseteq S

\* Directories stay and get clusters or entries of further directories.
Widens(f, d, L, z, g, e, M, y) ==
  /\ \A h \in HeadsOf(d, L) : \A j \in 1 .. Counted(f, z, h) :
       j \in 1 .. Counted(g, y, h) /\ Chain(g, h)[j] = Chain(f, h)[j]
  /\ \A s \in DirsOf(d, L) : s \in DirsOf(e, M) /\ At(e, s).first = At(d, s).first
  /\ \A s \in DirsOf(e, M) : s[1] \in Space(f, d, L, z)

\* Directories that stay keep their clusters.
LEMMA SpaceWidens ==
  ASSUME NEW f, NEW d, NEW L, NEW z, NEW g, NEW e, NEW M, NEW y, Widens(f, d, L, z, g, e, M, y)
  PROVE  Space(f, d, L, z) \subseteq Space(g, e, M, y)
<1>1. SUFFICES ASSUME NEW h \in HeadsOf(d, L), NEW j \in 1 .. Counted(f, z, h), Chain(f, h)[j] \in Cluster
      PROVE  Chain(f, h)[j] \in Space(g, e, M, y)
  BY DEF Space
<1>2. h \in HeadsOf(e, M)
  BY DEF HeadsOf, Widens
<1>3. j \in 1 .. Counted(g, y, h) /\ Chain(g, h)[j] = Chain(f, h)[j]
  BY <1>1 DEF Widens
<1>4. QED
  BY <1>1, <1>2, <1>3 DEF Space

\* What was reached is still reached, and from there what is new.
LEMMA RootedWidens ==
  ASSUME NEW f, NEW d, NEW L, NEW z, NEW g, NEW e, NEW M, NEW y, Rooted(f, d, L, z),
         Widens(f, d, L, z, g, e, M, y)
  PROVE  Rooted(g, e, M, y)
<1>1. SUFFICES ASSUME NEW S \in SUBSET Cluster, Complete(g, e, M, y, S) PROVE Space(g, e, M, y) \subseteq S
  BY DEF Rooted
<1>2. \A h \in HeadsOf(d, L) : \A j \in 1 .. Counted(f, z, h) :
        j \in 1 .. Counted(g, y, h) /\ Chain(g, h)[j] = Chain(f, h)[j]
  BY DEF Widens
<1>3. Complete(f, d, L, z, S)
  <2>1. \A j \in 1 .. Counted(f, z, Root) : Chain(f, Root)[j] \in S
    BY <1>1, <1>2, RootHead DEF Complete
  <2>2. ASSUME NEW s \in DirsOf(d, L), s[1] \in S, NEW j \in 1 .. Counted(f, z, At(d, s).first)
        PROVE  Chain(f, At(d, s).first)[j] \in S
    <3>1. s \in DirsOf(e, M) /\ At(e, s).first = At(d, s).first
      BY DEF Widens
    <3>2. j \in 1 .. Counted(g, y, At(d, s).first)
          /\ Chain(g, At(d, s).first)[j] = Chain(f, At(d, s).first)[j]
      BY <1>2, DirHeads
    <3>3. QED
      BY <1>1, <2>2, <3>1, <3>2 DEF Complete
  <2>3. QED
    BY <2>1, <2>2 DEF Complete
<1>4. Space(f, d, L, z) \subseteq S
  BY <1>3 DEF Rooted
<1>5. SUFFICES ASSUME NEW h \in HeadsOf(e, M), NEW j \in 1 .. Counted(g, y, h) PROVE Chain(g, h)[j] \in S
  BY DEF Space
<1>6. CASE h = Root
  BY <1>1, <1>6 DEF Complete
<1>7. ASSUME NEW s \in DirsOf(e, M), h = At(e, s).first PROVE Chain(g, h)[j] \in S
  <2>1. s[1] \in S
    BY <1>4 DEF Widens
  <2>2. QED
    BY <1>1, <1>7, <2>1 DEF Complete
<1>8. QED
  BY <1>6, <1>7 DEF HeadsOf

\* A directory with no directory in it may go.
LEMMA RootedLess ==
  ASSUME NEW f, NEW d, NEW L, NEW z, TreeOK(f, d, L, z), NEW g, NEW e, NEW M, NEW y, Rooted(f, d, L, z),
         NEW s \in DirsOf(d, L),
         \A t : t \in DirsOf(e, M) <=> t \in DirsOf(d, L) /\ t # s,
         \A t \in DirsOf(e, M) : At(e, t).first = At(d, t).first,
         \A x \in HeadsOf(e, M) :
           Counted(g, y, x) = Counted(f, z, x)
           /\ \A j \in 1 .. Counted(f, z, x) : Chain(g, x)[j] = Chain(f, x)[j],
         \A t \in DirsOf(d, L) : t[1] \notin ClustersFrom(f, At(d, s).first),
         \A c \in ClustersFrom(f, At(d, s).first) : c \notin Space(g, e, M, y)
  PROVE  Rooted(g, e, M, y)
<1> DEFINE h == At(d, s).first
           K == ClustersFrom(f, h)
<1>1. SUFFICES ASSUME NEW S \in SUBSET Cluster, Complete(g, e, M, y, S) PROVE Space(g, e, M, y) \subseteq S
  BY DEF Rooted
<1>2. \A x \in HeadsOf(e, M) : x \in HeadsOf(d, L)
  BY DEF HeadsOf
<1>3. Complete(f, d, L, z, S \cup K)
  <2>1. \A j \in 1 .. Counted(f, z, Root) : Chain(f, Root)[j] \in S
    BY <1>1, RootHead DEF Complete
  <2>2. ASSUME NEW t \in DirsOf(d, L), t[1] \in S \cup K, NEW j \in 1 .. Counted(f, z, At(d, t).first)
        PROVE  Chain(f, At(d, t).first)[j] \in S \cup K
    <3>1. t[1] \in S
      BY <2>2
    <3>2. CASE t = s
      <4>1. h \in HeadsOf(d, L)
        BY DirHeads
      <4>2. Chain(f, h)[j] \in K
        BY <2>2, <3>2, <4>1, HeadsAre
      <4>3. QED
        BY <2>2, <3>2, <4>2
    <3>3. CASE t # s
      <4>1. t \in DirsOf(e, M) /\ At(e, t).first = At(d, t).first
        BY <3>3
      <4>2. At(d, t).first \in HeadsOf(e, M)
        BY <4>1, DirHeads
      <4>3. QED
        BY <1>1, <2>2, <3>1, <4>1, <4>2 DEF Complete
    <3>4. QED
      BY <3>2, <3>3
  <2>3. QED
    BY <2>1, <2>2 DEF Complete
<1>4. Space(f, d, L, z) \subseteq S \cup K
  <2>1. h \in Cluster /\ Begins(f, h) /\ Sound(f)
    BY HeadsAre, DirHeads DEF TreeOK
  <2>2. K \subseteq Cluster
    BY <2>1, HeadChain
  <2>3. QED
    BY <1>3, <2>2 DEF Rooted
<1>5. Space(g, e, M, y) \subseteq Space(f, d, L, z)
  BY <1>2 DEF Space
<1>6. QED
  BY <1>4, <1>5

\* The directories found in N levels are all: each level finds a new cluster.
LEMMA DirClustersClosed ==
  ASSUME NEW f \in FatType, NEW d \in Contents
  PROVE  LET R == DirClusters(View0(f, d))
         IN R \in SUBSET Cluster /\ ClustersFrom(f, Root) \subseteq R /\ Deeper(f, d, R) = R
<1> DEFINE S == SUBSET Cluster
           start == ClustersFrom(f, Root)
           step == [T \in S |-> Deeper(f, d, T)]
           below == CHOOSE below : below = [n \in 0 .. N |->
                      IF n = 0 THEN start ELSE Deeper(f, d, below[n - 1])]
<1>0. \A c \in Link : ClustersFrom(f, c) \in S
  BY ChainIs DEF ClustersFrom
<1>1. start \in S /\ Root \in start
  <2>1. Root \in Link /\ Root \in Cluster
    BY DEF Link, Cluster
  <2>2. Chain(f, Root)[1] = Root /\ Linked(f, Chain(f, Root))
    BY <2>1, ChainIs
  <2>3. 1 \in DOMAIN Chain(f, Root)
    BY <2>2 DEF Linked
  <2>4. QED
    BY <1>0, <2>1, <2>2, <2>3 DEF ClustersFrom
<1>2. step \in [S -> S]
  <2>1. ASSUME NEW T \in S, NEW s \in T \X Index PROVE ClustersFrom(f, At(d, s).first) \in S
    <3>1. s \in Slot
      BY DEF Slot
    <3>2. At(d, s).first \in Link
      BY <3>1, EntryTypes DEF AnyEntry, Link
    <3>3. QED
      BY <1>0, <3>2
  <2>2. QED
    BY <2>1 DEF Deeper
<1>3. N \in Nat
  BY ClustersAreFinite
<1>4. PICK g \in [0 .. N -> S] :
        g = [n \in 0 .. N |-> IF n = 0 THEN start ELSE step[g[n - 1]]]
  <2> HIDE DEF step, start, S
  <2> QED
    BY <1>1, <1>2, <1>3, Recursion
<1>5. \A n \in 0 .. N : (IF n = 0 THEN start ELSE step[g[n - 1]])
        = IF n = 0 THEN start ELSE Deeper(f, d, g[n - 1])
  <2>1. SUFFICES ASSUME NEW n \in 0 .. N, n # 0
        PROVE  step[g[n - 1]] = Deeper(f, d, g[n - 1])
    OBVIOUS
  <2>2. n - 1 \in 0 .. N
    BY <1>3, <2>1
  <2>3. g[n - 1] \in S
    BY <1>4, <2>2
  <2>4. QED
    BY <2>3
<1>6. g = [n \in 0 .. N |-> IF n = 0 THEN start ELSE Deeper(f, d, g[n - 1])]
  <2> HIDE DEF step, start, S
  <2> QED
    BY <1>4, <1>5
<1>7. below = [n \in 0 .. N |-> IF n = 0 THEN start ELSE Deeper(f, d, below[n - 1])]
  BY <1>6
<1>8. DirClusters(View0(f, d)) = below[N]
  BY DEF DirClusters, N, View0, EntryAt, At, Deeper
<1>9. \A T \in S : Deeper(f, d, T) \in S /\ T \subseteq Deeper(f, d, T)
  BY <1>2 DEF Deeper
<1> HIDE DEF below, start, S, step
<1>10. \A n \in 0 .. N : below[n] = IF n = 0 THEN start ELSE Deeper(f, d, below[n - 1])
  BY <1>7, Zenon
<1> DEFINE good(n) == /\ below[n] \in S /\ start \subseteq below[n]
                      /\ Deeper(f, d, below[n]) = below[n] \/ Cardinality(below[n]) >= n + 1
           bad == {n \in 0 .. N : ~good(n)}
<1>11. \A T \in S : IsFiniteSet(T) /\ Cardinality(T) \in Nat /\ Cardinality(T) <= N
  BY ClustersAreFinite, FS_Subset, FS_CardinalityType DEF S, N
<1>12. bad = {}
  <2>1. SUFFICES ASSUME bad # {} PROVE FALSE
    OBVIOUS
  <2>2. PICK n \in bad : \A y \in bad : n <= y
    <3>1. bad \in SUBSET Nat
      BY <1>3
    <3> HIDE DEF bad
    <3>2. QED
      BY <2>1, <3>1, LeastOf
  <2>3. n \in 0 .. N /\ ~good(n)
    BY <2>2
  <2>4. CASE n = 0
    <3>1. below[n] = start
      BY <1>10, <2>3, <2>4
    <3>2. Cardinality(start) # 0
      BY <1>1, <1>11, FS_EmptySet
    <3>3. Cardinality(start) >= 0 + 1
      BY <1>1, <1>11, <3>2
    <3>4. QED
      BY <1>1, <2>3, <2>4, <3>1, <3>3
  <2>5. CASE n # 0
    <3> DEFINE T == below[n - 1]
    <3>1. n - 1 \in 0 .. N /\ n - 1 \notin bad /\ n - 1 + 1 = n
      BY <1>3, <2>2, <2>3, <2>5
    <3>2. good(n - 1)
      BY <3>1
    <3>3. below[n] = Deeper(f, d, T)
      BY <1>10, <2>3, <2>5
    <3>4. below[n] \in S /\ T \in S /\ T \subseteq below[n] /\ start \subseteq below[n]
      BY <1>9, <3>2, <3>3
    <3>5. Deeper(f, d, T) = T \/ Cardinality(T) >= n
      BY <3>1, <3>2
    <3> HIDE DEF T, bad
    <3>6. CASE Deeper(f, d, T) = T
      BY <2>3, <3>3, <3>4, <3>6
    <3>7. CASE Deeper(f, d, T) # T /\ Cardinality(T) >= n
      <4>1. T # below[n]
        BY <3>3, <3>7
      <4>2. Cardinality(T) < Cardinality(below[n])
        <5>1. IsFiniteSet(below[n])
          BY <1>11, <3>4
        <5>2. Cardinality(T) <= Cardinality(below[n])
              /\ (Cardinality(below[n]) = Cardinality(T) => below[n] = T)
          BY <3>4, <5>1, FS_Subset
        <5>3. QED
          BY <1>11, <3>4, <4>1, <5>2
      <4>3. n \in Nat /\ Cardinality(T) \in Nat /\ Cardinality(below[n]) \in Nat
        BY <1>11, <2>3, <3>4
      <4>4. Cardinality(below[n]) >= n + 1
        BY <3>7, <4>2, <4>3
      <4>5. QED
        BY <2>3, <3>4, <4>4
    <3>8. QED
      BY <3>5, <3>6, <3>7
  <2>6. QED
    BY <2>4, <2>5
<1>13. good(N)
  <2>1. N \in 0 .. N
    BY <1>3
  <2>2. QED
    BY <1>12, <2>1
<1>14. Deeper(f, d, below[N]) = below[N]
  BY <1>3, <1>11, <1>13
<1>15. QED
  BY <1>8, <1>13, <1>14 DEF S, start

\* So the search for directories from the root reaches them all.
LEMMA AllReached ==
  ASSUME NEW f, NEW d, NEW L, NEW z, TreeOK(f, d, L, z), Rooted(f, d, L, z)
  PROVE  Space(f, d, L, z) \subseteq DirClusters(View0(f, d))
<1> DEFINE R == DirClusters(View0(f, d))
<1>1. f \in FatType /\ d \in Contents /\ Sound(f)
  BY DEF TreeOK, Sound, EntriesAreSound
<1>2. R \in SUBSET Cluster /\ ClustersFrom(f, Root) \subseteq R /\ Deeper(f, d, R) = R
  BY <1>1, DirClustersClosed
<1> HIDE DEF R
<1>3. ASSUME NEW h \in HeadsOf(d, L), ClustersFrom(f, h) \subseteq R, NEW j \in 1 .. Counted(f, z, h)
      PROVE  Chain(f, h)[j] \in R
  BY <1>3, HeadsAre
<1>4. ASSUME NEW s \in DirsOf(d, L), s[1] \in R PROVE ClustersFrom(f, At(d, s).first) \subseteq R
  <2>1. s \in R \X Index /\ At(d, s).kind = "dir"
    BY <1>4 DEF DirsOf, OwnersOf, Slot
  <2>2. QED
    BY <1>2, <2>1 DEF Deeper
<1>5. Complete(f, d, L, z, R)
  <2>1. \A j \in 1 .. Counted(f, z, Root) : Chain(f, Root)[j] \in R
    BY <1>2, <1>3, RootHead
  <2>2. QED
    BY <1>3, <1>4, <2>1, DirHeads DEF Complete
<1>6. QED
  BY <1>2, <1>5 DEF Rooted, R

-----------------------------------------------------------------------------
(* What each step leaves of the chains, the entries and the ways to them. *)

\* A chain stays as it is or gets further clusters.
Longer(f, g, h) ==
  /\ Len(Chain(f, h)) \in Nat /\ Len(Chain(g, h)) \in Nat /\ Len(Chain(f, h)) <= Len(Chain(g, h))
  /\ \A j \in 1 .. Len(Chain(f, h)) : Chain(g, h)[j] = Chain(f, h)[j]

\* The root and all owners but X keep their clusters.
Lasts(f, d, L, g, e, M, X) ==
  /\ Longer(f, g, Root)
  /\ \A s \in OwnersOf(d, L) \ X :
       s \in OwnersOf(e, M) /\ At(e, s).first = At(d, s).first /\ Longer(f, g, At(d, s).first)

\* Entries in use, but those of T, stay as they are in a directory.
Keeps(f, d, L, z, g, e, M, y, T) ==
  \A t \in Slot \ T : Live(At(d, t)) /\ t[1] \in Space(f, d, L, z) =>
    At(e, t) = At(d, t) /\ t[1] \in Space(g, e, M, y)

\* A step frees the chains of X and rewrites the entries of T at most.
Works(X, T) ==
  /\ Lasts(fat, dir, Loose, fat', dir', Loose', X)
  /\ Rooted(fat, dir, Loose, Unzeroed) => Rooted(fat', dir', Loose', Unzeroed')
  /\ Keeps(fat, dir, Loose, Unzeroed, fat', dir', Loose', Unzeroed', T)

\* A chain of a sound FAT, unchanged.
LEMMA LongerSame ==
  ASSUME NEW f, Sound(f), NEW h \in Cluster, Begins(f, h), NEW g, Chain(g, h) = Chain(f, h)
  PROVE  Longer(f, g, h)
<1>1. Len(Chain(f, h)) \in 1 .. N
  BY HeadChain
<1>2. QED
  BY <1>1, ClustersAreFinite DEF Longer

\* The owners' chains begin where the entries say.
LEMMA OwnersHeads ==
  ASSUME NEW f, NEW d, NEW L, NEW z, TreeOK(f, d, L, z)
  PROVE  /\ Sound(f) /\ f \in FatType /\ d \in Contents /\ Root \in Cluster /\ Begins(f, Root)
         /\ \A s \in OwnersOf(d, L) :
              /\ s \in Slot /\ Live(At(d, s)) /\ At(d, s).first \in Cluster
              /\ Begins(f, At(d, s).first) /\ s[1] \in Space(f, d, L, z)
  BY DEF TreeOK, Sound, EntriesAreSound, OwnersAreHeads, OwnersOf, Cluster

\* Where nothing changes in the FAT all owners that stay keep their chains.
LEMMA LastsSame ==
  ASSUME NEW f, NEW d, NEW L, NEW z, TreeOK(f, d, L, z), NEW g,
         \A h \in Cluster : Begins(f, h) => Chain(g, h) = Chain(f, h),
         NEW e, NEW M,
         \A s \in OwnersOf(d, L) : s \in OwnersOf(e, M) /\ At(e, s).first = At(d, s).first
  PROVE  Lasts(f, d, L, g, e, M, {})
<1>1. Longer(f, g, Root)
  BY OwnersHeads, LongerSame
<1>2. \A s \in OwnersOf(d, L) : Longer(f, g, At(d, s).first)
  BY OwnersHeads, LongerSame
<1>3. QED
  BY <1>1, <1>2 DEF Lasts

\* Directories whose owners keep their chains widen.
LEMMA WidensBy ==
  ASSUME NEW f, NEW d, NEW L, NEW z, TreeOK(f, d, L, z), NEW g, NEW e, NEW M, NEW y, NEW X,
         Lasts(f, d, L, g, e, M, X),
         \A s \in DirsOf(d, L) : s \notin X /\ At(e, s).kind = "dir",
         \A h \in HeadsOf(d, L) : Counted(g, y, h) \in Int /\ Counted(f, z, h) <= Counted(g, y, h),
         \A s \in DirsOf(e, M) : s[1] \in Space(f, d, L, z)
  PROVE  Widens(f, d, L, z, g, e, M, y)
<1>1. \A s \in DirsOf(d, L) : s \in DirsOf(e, M) /\ At(e, s).first = At(d, s).first
  BY DEF DirsOf, Lasts
<1>2. ASSUME NEW h \in HeadsOf(d, L), NEW j \in 1 .. Counted(f, z, h)
      PROVE  j \in 1 .. Counted(g, y, h) /\ Chain(g, h)[j] = Chain(f, h)[j]
  <2>1. Longer(f, g, h)
    BY DEF HeadsOf, DirsOf, Lasts
  <2>2. Counted(f, z, h) \in 0 .. N /\ j \in 1 .. Len(Chain(f, h))
    BY HeadsAre
  <2>3. j \in 1 .. Counted(g, y, h)
    BY <2>2, ClustersAreFinite
  <2>4. QED
    BY <2>1, <2>2, <2>3 DEF Longer
<1>3. QED
  BY <1>1, <1>2 DEF Widens

\* An entry is rewritten: the others stay.
LEMMA PutOwners ==
  ASSUME NEW d \in Contents, NEW s \in Slot, NEW v \in AnyEntry, NEW e, e = PutIn(d, s, v),
         NEW L, NEW M, L \ {s} = M \ {s}
  PROVE  /\ \A t \in Slot : t # s => At(e, t) = At(d, t)
         /\ \A t : t # s => (t \in OwnersOf(e, M) <=> t \in OwnersOf(d, L))
         /\ \A t : t # s => (t \in DirsOf(e, M) <=> t \in DirsOf(d, L))
         /\ At(e, s) = v
<1>1. (\A t \in Slot : t # s => At(e, t) = At(d, t)) /\ At(e, s) = v
  BY PutIs
<1>2. \A t : t # s => (t \in L <=> t \in M)
  OBVIOUS
<1>3. \A t : t # s => (t \in OwnersOf(e, M) <=> t \in OwnersOf(d, L))
  BY <1>1, <1>2 DEF OwnersOf
<1>4. \A t : t # s => (t \in DirsOf(e, M) <=> t \in DirsOf(d, L))
  BY <1>1, <1>3 DEF DirsOf, OwnersOf
<1>5. QED
  BY <1>1, <1>3, <1>4

\* Nothing that a tree is known by changes when an entry that owns nothing is
\* rewritten as one that owns nothing, as one that owns a chain or as a
\* directory in one.
LEMMA PutWorks ==
  ASSUME NEW f, NEW d, NEW L, NEW z, TreeOK(f, d, L, z), NEW s \in Slot, NEW v \in AnyEntry,
         NEW e, e = PutIn(d, s, v), NEW M, L \ {s} = M \ {s},
         s \in OwnersOf(d, L) => s \in OwnersOf(e, M) /\ v.first = At(d, s).first,
         s \in DirsOf(d, L) => v.kind = "dir",
         s \in DirsOf(e, M) => s[1] \in Space(f, d, L, z)
  PROVE  /\ Lasts(f, d, L, f, e, M, {})
         /\ Widens(f, d, L, z, f, e, M, z)
         /\ Keeps(f, d, L, z, f, e, M, z, {s})
<1>1. d \in Contents
  BY OwnersHeads
<1>2. /\ \A t \in Slot : t # s => At(e, t) = At(d, t)
      /\ \A t : t # s => (t \in OwnersOf(e, M) <=> t \in OwnersOf(d, L))
      /\ \A t : t # s => (t \in DirsOf(e, M) <=> t \in DirsOf(d, L))
      /\ At(e, s) = v
  BY <1>1, PutOwners
<1>3. \A t \in OwnersOf(d, L) : t \in OwnersOf(e, M) /\ At(e, t).first = At(d, t).first
  BY <1>2 DEF OwnersOf
<1>4. Lasts(f, d, L, f, e, M, {})
  BY <1>3, LastsSame
<1>5. \A t \in DirsOf(d, L) : t \notin {} /\ At(e, t).kind = "dir"
  BY <1>2 DEF DirsOf, OwnersOf
<1>6. \A h \in HeadsOf(d, L) : Counted(f, z, h) \in Int /\ Counted(f, z, h) <= Counted(f, z, h)
  <2>1. \A h \in HeadsOf(d, L) : Counted(f, z, h) \in 0 .. N
    BY HeadsAre
  <2>2. QED
    BY <2>1, ClustersAreFinite
<1>7. \A t \in DirsOf(e, M) : t[1] \in Space(f, d, L, z)
  <2>1. \A t \in DirsOf(d, L) : t[1] \in Space(f, d, L, z)
    BY OwnersHeads DEF DirsOf
  <2>2. QED
    BY <1>2, <2>1
<1>8. Widens(f, d, L, z, f, e, M, z)
  BY <1>4, <1>5, <1>6, <1>7, WidensBy
<1>9. QED
  BY <1>2, <1>4, <1>8, SpaceWidens DEF Keeps

\* A new entry names no cluster yet.
LEMMA FillWorks ==
  ASSUME TInv, ~damaged, Fill
  PROVE  Works({}, {}) /\ At(dir', empty) = NewEntry(NoCluster) /\ empty \in Slot
         /\ dir' = PutIn(dir, empty, NewEntry(NoCluster)) /\ ~Live(At(dir, empty))
<1> DEFINE v == NewEntry(NoCluster)
<1>1. /\ pc = "fill" /\ Puts(empty, v) /\ pc' = "fillFlush" /\ fat' = fat
  BY DEF Fill, NewEntry
<1>2. /\ TreeOK(fat, dir, {}, NoCluster) /\ Loose = {} /\ Unzeroed = NoCluster
      /\ TypeInv /\ CallInv /\ AtFill /\ Loose' = {} /\ Unzeroed' = NoCluster /\ dir \in Contents
  BY <1>1, Calm, LooseIs DEF PlaceInv
<1>3. PICK j \in 1 .. dirFile.size, i \in Index :
        empty = <<Chain(fat, dirFile.first)[j], i>> /\ ~Live(Found(j, i))
  BY <1>2 DEF AtFill
<1>4. DirectoryHandle(fat, dir, {}, NoCluster, dirFile)
  BY <1>2 DEF AtFill, IsDirectory
<1>5. /\ dirFile.first \in HeadsOf(dir, {}) /\ j \in 1 .. Counted(fat, NoCluster, dirFile.first)
  BY <1>2, <1>4, DirectoryIs
<1>6. Chain(fat, dirFile.first)[j] \in Cluster
  BY <1>2, <1>5, HeadsAre
<1>7. empty \in Slot /\ ~Live(At(dir, empty))
  BY <1>3, <1>6 DEF Slot, At, Found, Of
<1>8. v \in AnyEntry /\ v.kind = "file" /\ v.first = NoCluster
  <2>1. call.name \in Name /\ 0 \in 0 .. 1
    BY <1>1, <1>2 DEF CallInv
  <2>2. QED
    BY <2>1, NewIs DEF NewEntry
<1>9. dir' = PutIn(dir, empty, v)
  BY <1>1, <1>2, <1>7, SlotPut
<1> HIDE DEF v
<1>10. At(dir', empty) = v
  BY <1>2, <1>7, <1>8, <1>9, PutIs
<1>11. empty \notin OwnersOf(dir, {}) /\ empty \notin DirsOf(dir, {}) /\ empty \notin DirsOf(dir', {})
  BY <1>7, <1>8, <1>10 DEF OwnersOf, DirsOf
<1>12. /\ Lasts(fat, dir, {}, fat, dir', {}, {})
       /\ Widens(fat, dir, {}, NoCluster, fat, dir', {}, NoCluster)
       /\ Keeps(fat, dir, {}, NoCluster, fat, dir', {}, NoCluster, {empty})
  BY <1>2, <1>7, <1>8, <1>9, <1>11, PutWorks
<1>13. Keeps(fat, dir, {}, NoCluster, fat, dir', {}, NoCluster, {})
  BY <1>7, <1>12 DEF Keeps
<1>14. Works({}, {})
  BY <1>1, <1>2, <1>12, <1>13, RootedWidens DEF Works
<1>15. QED
  BY <1>7, <1>9, <1>10, <1>14 DEF v

\* The entry of the file that becomes a directory gets its cluster.
LEMMA OwnSyncWorks ==
  ASSUME TInv, ~damaged, OwnSync
  PROVE  /\ Works({}, {this.slot}) /\ fat' = fat /\ this' = this
         /\ this.slot \in OwnersOf(dir', Loose') /\ At(dir', this.slot).first = this.first
         /\ this.first \in Cluster /\ Begins(fat, this.first)
         /\ \A t \in Slot : t # this.slot => At(dir', t) = At(dir, t)
<1> DEFINE c == this.first
           s == this.slot
           v == Entry("file", call.name, c, 0)
<1>1. pc = "ownSync" /\ Rewrites([thisEntry EXCEPT !.first = this.first], "ownFlush")
  BY DEF OwnSync
<1>2. /\ TreeOK(fat, dir, {}, NoCluster) /\ Loose = {} /\ Unzeroed = NoCluster
      /\ TypeInv /\ CallInv /\ AtOwnSync /\ dir \in Contents
  BY <1>1, Calm DEF PlaceInv
<1>3. /\ s \in Slot /\ At(dir, s) = Entry("file", call.name, NoCluster, 0) /\ call.name \in Name
      /\ c \in Other /\ c \in Cluster /\ Begins(fat, c)
  BY <1>1, <1>2 DEF AtOwnSync, AtOwnZero, InDirectory, NewHead, Cluster, NewEntry, CallInv
<1>4. [thisEntry EXCEPT !.first = this.first] = v
  BY <1>3, ThisEntryIs DEF Entry
<1>5. /\ dir' = PutIn(dir, s, v) /\ pc' = "ownFlush" /\ fat' = fat /\ this' = this
  BY <1>1, <1>2, <1>3, <1>4, RewrittenIs
<1>6. Loose' = {} /\ Unzeroed' = NoCluster
  BY <1>5, LooseIs
<1>7. v \in AnyEntry /\ v.kind = "file" /\ v.first = c /\ Live(v) /\ c # NoCluster
  <2>1. 0 \in 0 .. 1 /\ c \in Cluster \cup {NoCluster}
    BY <1>3
  <2>2. QED
    BY <1>3, <2>1, NewIs, DirectoryAssumption DEF Cluster
<1>8. At(dir, s).first = NoCluster
  BY <1>3 DEF Entry
<1> HIDE DEF v, s, c
<1>9. At(dir', s) = v /\ \A t \in Slot : t # s => At(dir', t) = At(dir, t)
  BY <1>2, <1>3, <1>5, <1>7, PutIs
<1>10. s \notin OwnersOf(dir, {}) /\ s \notin DirsOf(dir, {}) /\ s \notin DirsOf(dir', {})
       /\ s \in OwnersOf(dir', {})
  BY <1>3, <1>7, <1>8, <1>9 DEF OwnersOf, DirsOf
<1>11. /\ Lasts(fat, dir, {}, fat, dir', {}, {})
       /\ Widens(fat, dir, {}, NoCluster, fat, dir', {}, NoCluster)
       /\ Keeps(fat, dir, {}, NoCluster, fat, dir', {}, NoCluster, {s})
  BY <1>2, <1>3, <1>5, <1>7, <1>10, PutWorks
<1>12. Works({}, {s})
  BY <1>2, <1>5, <1>6, <1>11, RootedWidens DEF Works
<1>13. QED
  BY <1>3, <1>5, <1>6, <1>7, <1>9, <1>10, <1>12 DEF s, c

\* It becomes a directory.
LEMMA AttributeWorks ==
  ASSUME TInv, ~damaged, Attribute
  PROVE  /\ Works({}, {this.slot}) /\ fat' = fat /\ this' = this
         /\ this.slot \in Slot /\ At(dir', this.slot).kind = "dir"
         /\ \A t \in Slot : t # this.slot => At(dir', t) = At(dir, t)
<1> DEFINE c == this.first
           s == this.slot
           v == Entry("dir", call.name, c, 0)
<1>1. pc = "attribute" /\ Rewrites([thisEntry EXCEPT !.kind = "dir"], "dots")
  BY DEF Attribute
<1>2. /\ TreeOK(fat, dir, {}, NoCluster) /\ Loose = {} /\ Unzeroed = NoCluster
      /\ TypeInv /\ CallInv /\ AtOwnFlush /\ dir \in Contents
  BY <1>1, Calm DEF PlaceInv
<1>3. /\ s \in Slot /\ s[1] \in Space(fat, dir, {}, NoCluster)
      /\ At(dir, s) = Entry("file", call.name, c, 0) /\ call.name \in Name
      /\ c \in Other /\ c \in Cluster /\ Begins(fat, c)
  BY <1>1, <1>2 DEF AtOwnFlush, InDirectory, NewHead, Cluster, NewEntry, CallInv
<1>4. [thisEntry EXCEPT !.kind = "dir"] = v
  BY <1>3, ThisEntryIs DEF Entry
<1>5. /\ dir' = PutIn(dir, s, v) /\ pc' = "dots" /\ fat' = fat /\ this' = this
  BY <1>1, <1>2, <1>3, <1>4, RewrittenIs
<1>6. Loose' = {} /\ Unzeroed' = NoCluster
  BY <1>5, LooseIs
<1>7. v \in AnyEntry /\ v.kind = "dir" /\ v.first = c /\ Live(v) /\ c # NoCluster
  <2>1. 0 \in 0 .. 1 /\ c \in Cluster \cup {NoCluster}
    BY <1>3
  <2>2. QED
    BY <1>3, <2>1, NewIs, DirectoryAssumption DEF Cluster
<1>8. At(dir, s).first = c
  BY <1>3 DEF Entry
<1> HIDE DEF v, s, c
<1>9. At(dir', s) = v /\ \A t \in Slot : t # s => At(dir', t) = At(dir, t)
  BY <1>2, <1>3, <1>5, <1>7, PutIs
<1>10. s \in OwnersOf(dir', {})
  BY <1>3, <1>7, <1>9 DEF OwnersOf
<1>11. /\ Lasts(fat, dir, {}, fat, dir', {}, {})
       /\ Widens(fat, dir, {}, NoCluster, fat, dir', {}, NoCluster)
       /\ Keeps(fat, dir, {}, NoCluster, fat, dir', {}, NoCluster, {s})
  BY <1>2, <1>3, <1>5, <1>7, <1>8, <1>10, PutWorks
<1>12. Works({}, {s})
  BY <1>2, <1>5, <1>6, <1>11, RootedWidens DEF Works
<1>13. QED
  BY <1>3, <1>5, <1>7, <1>9, <1>12 DEF s

\* truncate(0) has freed the chain; the entry forgets it.
LEMMA SyncWorks ==
  ASSUME TInv, ~damaged, Sync
  PROVE  /\ Works({}, {this.slot}) /\ fat' = fat /\ this' = this
         /\ this.slot \in Slot /\ At(dir', this.slot).first = NoCluster
         /\ \A t \in Slot : t # this.slot => At(dir', t) = At(dir, t)
<1> DEFINE s == this.slot
           v == Emptied(At(dir, s))
<1>1. pc = "sync" /\ Rewrites([thisEntry EXCEPT !.first = NoCluster, !.size = 0], "syncFlush")
  BY DEF Sync
<1>2. /\ TreeOK(fat, dir, Loose, Unzeroed) /\ Loose = {s} /\ Unzeroed = NoCluster
      /\ TypeInv /\ s \in Slot /\ dir \in Contents
  BY <1>1 DEF TInv, TreeInv, TypeInv, PlaceInv, Marked, Loose, Unzeroed
<1>3. [thisEntry EXCEPT !.first = NoCluster, !.size = 0] = v
  BY ThisEntryIs DEF Emptied
<1>4. /\ dir' = PutIn(dir, s, v) /\ pc' = "syncFlush" /\ fat' = fat /\ this' = this
  BY <1>1, <1>2, <1>3, RewrittenIs
<1>5. v \in AnyEntry /\ v.first = NoCluster
  BY <1>2, EntryTypes, EmptiedIs
<1>6. Loose' \in SUBSET {s} /\ Unzeroed' = NoCluster
  BY <1>4 DEF Loose, Unzeroed
<1> HIDE DEF v, s
<1>7. At(dir', s) = v /\ \A t \in Slot : t # s => At(dir', t) = At(dir, t)
  BY <1>2, <1>4, <1>5, PutIs
<1>8. s \notin OwnersOf(dir, Loose) /\ s \notin DirsOf(dir, Loose) /\ s \notin DirsOf(dir', Loose')
  BY <1>2, <1>5, <1>7 DEF OwnersOf, DirsOf
<1>9. Loose \ {s} = Loose' \ {s}
  BY <1>2, <1>6
<1>10. /\ Lasts(fat, dir, Loose, fat, dir', Loose', {})
       /\ Widens(fat, dir, Loose, Unzeroed, fat, dir', Loose', Unzeroed)
       /\ Keeps(fat, dir, Loose, Unzeroed, fat, dir', Loose', Unzeroed, {s})
  BY <1>2, <1>4, <1>5, <1>8, <1>9, PutWorks
<1>11. Works({}, {s})
  BY <1>2, <1>4, <1>6, <1>10, RootedWidens DEF Works
<1>12. QED
  BY <1>2, <1>4, <1>5, <1>7, <1>11 DEF s

\* An entry that is marked names no chain any more, unless it is that of a file
\* of size 0.
LEMMA DeleteWorks ==
  ASSUME TInv, ~damaged, Delete
  PROVE  /\ Works({this.slot}, {this.slot}) /\ fat' = fat
         /\ this.slot \in Slot /\ ~Live(At(dir', this.slot)) /\ Loose' = {}
         /\ \A t \in Slot : t # this.slot => At(dir', t) = At(dir, t)
         /\ At(dir, this.slot).kind = "dir" => this.slot \in Loose
<1> DEFINE s == this.slot
           v == Unnamed("deleted")
<1>1. pc = "delete" /\ Rewrites(v, "deleteFlush")
  BY DEF Delete
<1>2. /\ TreeOK(fat, dir, Loose, Unzeroed) /\ Unzeroed = NoCluster
      /\ Loose = (IF At(dir, s).kind = "dir" THEN {s} ELSE {})
      /\ TypeInv /\ s \in Slot /\ dir \in Contents
  BY <1>1 DEF TInv, TreeInv, TypeInv, PlaceInv, Marked, Loose, Unzeroed
<1>3. /\ dir' = PutIn(dir, s, v) /\ pc' = "deleteFlush" /\ fat' = fat
  BY <1>1, <1>2, RewrittenIs
<1>4. v \in AnyEntry /\ ~Live(v)
  BY UnnamedIs
<1>5. Loose' = {} /\ Unzeroed' = NoCluster
  BY <1>3, LooseIs
<1> HIDE DEF v, s
<1>6. Loose \ {s} = {} \ {s}
  BY <1>2
<1>7. /\ \A t \in Slot : t # s => At(dir', t) = At(dir, t)
      /\ \A t : t # s => (t \in OwnersOf(dir', {}) <=> t \in OwnersOf(dir, Loose))
      /\ \A t : t # s => (t \in DirsOf(dir', {}) <=> t \in DirsOf(dir, Loose))
      /\ At(dir', s) = v
  BY <1>2, <1>3, <1>4, <1>6, PutOwners
<1>8. s \notin DirsOf(dir, Loose) /\ s \notin DirsOf(dir', {})
  BY <1>2, <1>4, <1>7 DEF OwnersOf, DirsOf
<1>9. Lasts(fat, dir, Loose, fat, dir', {}, {s})
  <2>1. /\ \A h \in Cluster : Begins(fat, h) => Longer(fat, fat, h)
        /\ Root \in Cluster /\ Begins(fat, Root)
        /\ \A t \in OwnersOf(dir, Loose) :
             t \in Slot /\ At(dir, t).first \in Cluster /\ Begins(fat, At(dir, t).first)
    BY <1>2, OwnersHeads, LongerSame
  <2>2. QED
    BY <1>7, <2>1 DEF Lasts
<1>10. \A t \in DirsOf(dir, Loose) : t \notin {s} /\ At(dir', t).kind = "dir"
  BY <1>7, <1>8 DEF DirsOf, OwnersOf
<1>11. \A h \in HeadsOf(dir, Loose) :
         Counted(fat, Unzeroed, h) \in Int /\ Counted(fat, Unzeroed, h) <= Counted(fat, Unzeroed, h)
  <2>1. \A h \in HeadsOf(dir, Loose) : Counted(fat, Unzeroed, h) \in 0 .. N
    BY <1>2, HeadsAre
  <2>2. QED
    BY <2>1, ClustersAreFinite
<1>12. \A t \in DirsOf(dir', {}) : t[1] \in Space(fat, dir, Loose, Unzeroed)
  <2>1. \A t \in DirsOf(dir, Loose) : t[1] \in Space(fat, dir, Loose, Unzeroed)
    BY <1>2, OwnersHeads DEF DirsOf
  <2>2. QED
    BY <1>7, <1>8, <2>1
<1>13. Widens(fat, dir, Loose, Unzeroed, fat, dir', {}, Unzeroed)
  BY <1>2, <1>9, <1>10, <1>11, <1>12, WidensBy
<1>14. Keeps(fat, dir, Loose, Unzeroed, fat, dir', {}, Unzeroed, {s})
  BY <1>7, <1>13, SpaceWidens DEF Keeps
<1>15. Works({s}, {s})
  BY <1>2, <1>3, <1>5, <1>9, <1>13, <1>14, RootedWidens DEF Works
<1>16. QED
  BY <1>2, <1>3, <1>4, <1>5, <1>7, <1>15 DEF s

\* . and .. take the place of entries never used.
LEMMA DotsWorks ==
  ASSUME TInv, ~damaged, Dots
  PROVE  Works({}, {}) /\ fat' = fat
         /\ \A t \in Slot : At(dir', t) = At(dir, t) \/ At(dir', t) = Unnamed("dot")
<1> DEFINE c == this.first
           one == PutIn(dir, <<c, 1>>, Unnamed("dot"))
<1>1. /\ pc = "dots" /\ pc' = "dotsFlush" /\ fat' = fat
      /\ dir' = [dir EXCEPT ![this.first][1] = Unnamed("dot"), ![this.first][2] = Unnamed("dot")]
  BY DEF Dots
<1>2. /\ TreeOK(fat, dir, {}, NoCluster) /\ Loose = {} /\ Unzeroed = NoCluster /\ dir \in Contents
      /\ AtDots /\ Loose' = {} /\ Unzeroed' = NoCluster
  BY <1>1, Calm, LooseIs DEF PlaceInv
<1>3. c \in Cluster /\ dir[c] = Zeroed /\ 1 \in Index /\ 2 \in Index
  BY <1>2, DirectoryAssumption DEF AtDots, NewHead, Cluster, Index
<1>4. <<c, 1>> \in Slot /\ <<c, 2>> \in Slot
  BY <1>3 DEF Slot
<1>5. ~Live(At(dir, <<c, 1>>)) /\ ~Live(At(dir, <<c, 2>>))
  BY <1>3, ZeroedIs DEF At
<1>6. dir' = PutIn(one, <<c, 2>>, Unnamed("dot"))
  BY <1>1, <1>2, <1>3 DEF PutIn, Contents
<1>7. Unnamed("dot") \in AnyEntry /\ ~Live(Unnamed("dot"))
  BY UnnamedIs
<1> HIDE DEF one, c
<1>8. one \in Contents
      /\ \A t \in Slot : At(one, t) = IF t = <<c, 1>> THEN Unnamed("dot") ELSE At(dir, t)
  BY <1>2, <1>4, <1>7, PutIs DEF one
<1>9. \A t \in Slot : At(dir', t) = IF t = <<c, 2>> THEN Unnamed("dot") ELSE At(one, t)
  BY <1>4, <1>6, <1>7, <1>8, PutIs
<1>10. \A t \in Slot : Live(At(dir, t)) => At(dir', t) = At(dir, t)
  BY <1>5, <1>8, <1>9
<1>11. \A t \in Slot : At(dir', t) = At(dir, t) \/ At(dir', t) = Unnamed("dot")
  BY <1>8, <1>9
<1>12. \A t \in OwnersOf(dir, {}) : t \in OwnersOf(dir', {}) /\ At(dir', t) = At(dir, t)
  BY <1>10 DEF OwnersOf
<1>13. \A t \in DirsOf(dir', {}) : t \in DirsOf(dir, {})
  BY <1>7, <1>11 DEF OwnersOf, DirsOf
<1>14. Lasts(fat, dir, {}, fat, dir', {}, {})
  BY <1>2, <1>12, LastsSame
<1>15. \A t \in DirsOf(dir, {}) : t \notin {} /\ At(dir', t).kind = "dir"
  BY <1>12 DEF DirsOf
<1>16. \A h \in HeadsOf(dir, {}) : Counted(fat, NoCluster, h) \in Int
         /\ Counted(fat, NoCluster, h) <= Counted(fat, NoCluster, h)
  <2>1. \A h \in HeadsOf(dir, {}) : Counted(fat, NoCluster, h) \in 0 .. N
    BY <1>2, HeadsAre
  <2>2. QED
    BY <2>1, ClustersAreFinite
<1>17. \A t \in DirsOf(dir', {}) : t[1] \in Space(fat, dir, {}, NoCluster)
  BY <1>2, <1>13, OwnersHeads DEF DirsOf
<1>18. Widens(fat, dir, {}, NoCluster, fat, dir', {}, NoCluster)
  BY <1>2, <1>14, <1>15, <1>16, <1>17, WidensBy
<1>19. Keeps(fat, dir, {}, NoCluster, fat, dir', {}, NoCluster, {})
  BY <1>10, <1>18, SpaceWidens DEF Keeps
<1>20. Works({}, {})
  BY <1>1, <1>2, <1>14, <1>18, <1>19, RootedWidens DEF Works
<1>21. QED
  BY <1>1, <1>11, <1>20

\* A directory gets a cluster at its end.
LEMMA GrowWorks ==
  ASSUME TInv, ~damaged, NEW c \in Other, Grow(c)
  PROVE  /\ Works({}, {}) /\ dir' = dir /\ fat' \in FatType
         /\ \A x \in Cluster : x # c /\ fat'[x] # Free => fat[x] # Free
         /\ \E h \in HeadsOf(dir', Loose') : c \in ClustersFrom(fat', h)
<1> DEFINE h == dirFile.first
           m == dirFile.size
<1>1. /\ pc = "grow" /\ fat[c] = Free /\ PutsFat(Appended(LastOf(dirFile), c))
      /\ hand' = (IF dirFile.first = NoCluster THEN [hand EXCEPT ![call.d].first = c] ELSE hand)
      /\ pc' = "zero" /\ dir' = dir /\ call' = call
  BY DEF Grow
<1>2. /\ Tree0(fat, dir) /\ TreeOK(fat, dir, {}, NoCluster) /\ Loose = {} /\ Unzeroed = NoCluster
      /\ TypeInv /\ AtGrow /\ dir \in Contents /\ Sound(fat) /\ fat \in FatType
  BY <1>1, Calm, OwnersHeads DEF PlaceInv
<1>3. DirectoryHandle(fat, dir, {}, NoCluster, dirFile)
  BY <1>2 DEF AtGrow, IsDirectory
<1>4. h \in HeadsOf(dir, {}) /\ m = Counted(fat, NoCluster, h)
  BY <1>2, <1>3, DirectoryIs
<1>5. /\ h # NoCluster /\ m = Len(Chain(fat, h)) /\ m >= 1 /\ m \in Nat /\ h \in Cluster
      /\ Chain(fat, h) \in Seq(Cluster) /\ Begins(fat, h)
  BY <1>2, <1>4, HeadsAre, ClustersAreFinite
<1>6. hand' = hand /\ dirFile' = dirFile
  BY <1>1, <1>5 DEF dirFile
<1>7. fat' = AppendedTo(fat, Chain(fat, h)[Len(Chain(fat, h))], c)
  <2>1. Appended(LastOf(dirFile), c) = AppendedTo(fat, Chain(fat, h)[Len(Chain(fat, h))], c)
    BY <1>5 DEF Appended, LastOf, AppendedTo
  <2>2. QED
    BY <1>1, <1>2, <2>1, FatIsHeld
<1>8. Loose' = {} /\ Unzeroed' = h
  BY <1>1, <1>6, LooseIs DEF Unzeroed
<1>9. c \in Cluster
  BY DEF Cluster
<1> HIDE DEF h, m
<1>10. /\ Sound(fat') /\ Chain(fat', h) = Append(Chain(fat, h), c)
       /\ \A x \in Cluster : Begins(fat, x) /\ x # h => Chain(fat', x) = Chain(fat, x)
  BY <1>1, <1>2, <1>5, <1>7, <1>9, LongerChain
<1>11. Longer(fat, fat', h)
  BY <1>5, <1>9, <1>10 DEF Longer
<1>12. \A x \in Cluster : Begins(fat, x) => Longer(fat, fat', x)
  BY <1>2, <1>10, <1>11, LongerSame
<1>13. Lasts(fat, dir, {}, fat', dir, {}, {})
  BY <1>2, <1>12, OwnersHeads DEF Lasts
<1>14. \A x \in HeadsOf(dir, {}) :
         Counted(fat', h, x) \in Int /\ Counted(fat, NoCluster, x) <= Counted(fat', h, x)
  <2>1. SUFFICES ASSUME NEW x \in HeadsOf(dir, {})
        PROVE  Counted(fat', h, x) \in Int /\ Counted(fat, NoCluster, x) <= Counted(fat', h, x)
    OBVIOUS
  <2>2. /\ x \in Cluster /\ Begins(fat, x) /\ x # NoCluster /\ Len(Chain(fat, x)) \in 1 .. N
        /\ Counted(fat, NoCluster, x) = Len(Chain(fat, x))
    BY <1>2, HeadsAre
  <2>3. CASE x = h
    <3>1. Counted(fat', h, x) = Len(Chain(fat', h)) - 1
      BY <2>3 DEF Counted
    <3>2. Len(Chain(fat', h)) = m + 1
      BY <1>5, <1>9, <1>10
    <3>3. QED
      BY <1>5, <2>2, <2>3, <3>1, <3>2
  <2>4. CASE x # h
    BY <1>10, <2>2, <2>4, ClustersAreFinite DEF Counted
  <2>5. QED
    BY <2>3, <2>4
<1>15. \A t \in DirsOf(dir, {}) : t \notin {} /\ At(dir, t).kind = "dir" /\ t[1] \in Space(fat, dir, {}, NoCluster)
  BY <1>2, OwnersHeads DEF DirsOf
<1>16. Widens(fat, dir, {}, NoCluster, fat', dir, {}, h)
  BY <1>2, <1>13, <1>14, <1>15, WidensBy
<1>17. Keeps(fat, dir, {}, NoCluster, fat', dir, {}, h, {})
  BY <1>16, SpaceWidens DEF Keeps
<1>18. Works({}, {})
  BY <1>1, <1>2, <1>8, <1>13, <1>16, <1>17, RootedWidens DEF Works
<1>19. \A x \in Cluster : x # c /\ fat'[x] # Free => fat[x] # Free
  <2>1. Chain(fat, h)[Len(Chain(fat, h))] \in Cluster /\ fat[Chain(fat, h)[Len(Chain(fat, h))]] # Free
    BY <1>2, <1>5, HeadChain, MarksAreNoClusters
  <2>2. QED
    BY <1>7, <2>1 DEF AppendedTo
<1>20. c \in ClustersFrom(fat', h)
  BY <1>5, <1>9, <1>10 DEF ClustersFrom
<1>21. QED
  BY <1>1, <1>4, <1>8, <1>10, <1>18, <1>19, <1>20 DEF Sound

\* Where a cluster is linked into no chain all chains stay.
LEMMA ApartWorks ==
  ASSUME NEW f, NEW d, TreeOK(f, d, {}, NoCluster), NEW c \in Cluster, f[c] = Free,
         NEW g, g = AppendedTo(f, NoCluster, c)
  PROVE  /\ \A h \in Cluster : Begins(f, h) => Chain(g, h) = Chain(f, h)
         /\ \A x \in Cluster : x # c /\ g[x] # Free => f[x] # Free
         /\ \A h \in HeadsOf(d, {}) : Counted(g, NoCluster, h) \in Int
              /\ Counted(f, NoCluster, h) <= Counted(g, NoCluster, h)
<1>1. Sound(f)
  BY OwnersHeads
<1>2. \A h \in Cluster : Begins(f, h) => Chain(g, h) = Chain(f, h)
  <2>1. \A h \in Cluster : Begins(f, h) => h # c
    BY DEF Begins
  <2>2. QED
    BY <1>1, <2>1, NewChain
<1>3. \A x \in Cluster : x # c /\ g[x] # Free => f[x] # Free
  <2>1. NoCluster \notin Cluster
    BY MarksAreNoClusters
  <2>2. QED
    BY <2>1 DEF AppendedTo
<1>4. ASSUME NEW h \in HeadsOf(d, {})
      PROVE  Counted(g, NoCluster, h) \in Int /\ Counted(f, NoCluster, h) <= Counted(g, NoCluster, h)
  <2>1. h \in Cluster /\ Begins(f, h) /\ h # NoCluster /\ Len(Chain(f, h)) \in 1 .. N
    BY HeadsAre
  <2>2. Counted(g, NoCluster, h) = Len(Chain(f, h)) /\ Counted(f, NoCluster, h) = Len(Chain(f, h))
    BY <1>2, <2>1 DEF Counted
  <2>3. QED
    BY <2>1, <2>2, ClustersAreFinite
<1>5. QED
  BY <1>2, <1>3, <1>4

\* makeDir's first cluster is linked into no chain.
LEMMA OwnWorks ==
  ASSUME TInv, ~damaged, NEW c \in Other, Own(c)
  PROVE  /\ Works({}, {}) /\ dir' = dir /\ this'.slot = this.slot /\ this'.first = c
         /\ \A x \in Cluster : x # c /\ fat'[x] # Free => fat[x] # Free
<1>1. /\ pc = "own" /\ fat[c] = Free /\ PutsFat(Appended(NoCluster, c)) /\ pc' = "ownZero"
      /\ this' = [this EXCEPT !.type = "dir", !.first = c] /\ dir' = dir
  BY DEF Own
<1>2. /\ TreeOK(fat, dir, {}, NoCluster) /\ Loose = {} /\ Unzeroed = NoCluster
      /\ TypeInv /\ Loose' = {} /\ Unzeroed' = NoCluster
  BY <1>1, Calm, LooseIs
<1>3. fat' = AppendedTo(fat, NoCluster, c)
  <2>1. Appended(NoCluster, c) = AppendedTo(fat, NoCluster, c)
    BY DEF Appended, AppendedTo
  <2>2. QED
    BY <1>1, <1>2, <2>1, FatIsHeld
<1>4. c \in Cluster
  BY DEF Cluster
<1>5. /\ \A h \in Cluster : Begins(fat, h) => Chain(fat', h) = Chain(fat, h)
      /\ \A x \in Cluster : x # c /\ fat'[x] # Free => fat[x] # Free
      /\ \A h \in HeadsOf(dir, {}) : Counted(fat', NoCluster, h) \in Int
           /\ Counted(fat, NoCluster, h) <= Counted(fat', NoCluster, h)
  BY <1>1, <1>2, <1>3, <1>4, ApartWorks
<1>6. Lasts(fat, dir, {}, fat', dir, {}, {})
  BY <1>2, <1>5, LastsSame
<1>7. \A t \in DirsOf(dir, {}) : t \notin {} /\ At(dir, t).kind = "dir" /\ t[1] \in Space(fat, dir, {}, NoCluster)
  BY <1>2, OwnersHeads DEF DirsOf
<1>8. Widens(fat, dir, {}, NoCluster, fat', dir, {}, NoCluster)
  BY <1>2, <1>5, <1>6, <1>7, WidensBy
<1>9. Keeps(fat, dir, {}, NoCluster, fat', dir, {}, NoCluster, {})
  BY <1>8, SpaceWidens DEF Keeps
<1>10. Works({}, {})
  BY <1>1, <1>2, <1>6, <1>8, <1>9, RootedWidens DEF Works
<1>11. this'.slot = this.slot /\ this'.first = c
  <2>1. this \in HandleType /\ c \in Cluster \cup {NoCluster} /\ 0 \in 0 .. N
    BY <1>2, <1>4, ClustersAreFinite DEF TypeInv
  <2>2. QED
    BY <1>1, <2>1, HandleChanged
<1>12. QED
  BY <1>1, <1>5, <1>10, <1>11

\* A cluster that is in no directory is zeroed.
LEMMA CleanWorks ==
  ASSUME NEW f, NEW d, NEW z, TreeOK(f, d, {}, z), NEW c \in Cluster, c \notin Space(f, d, {}, z),
         NEW e, e = Cleaned(d, c), NEW y \in {z, NoCluster}
  PROVE  /\ Lasts(f, d, {}, f, e, {}, {})
         /\ Widens(f, d, {}, z, f, e, {}, y)
         /\ Keeps(f, d, {}, z, f, e, {}, y, {})
         /\ \A t \in Slot : At(e, t) = At(d, t) \/ At(e, t) = Unnamed("free")
<1>1. EntriesAreSound(d, {}) /\ OwnersAreHeads(f, d, {}) /\ d \in Contents
      /\ \A s \in OwnersOf(d, {}) : s[1] \in Space(f, d, {}, z)
  BY DEF TreeOK, EntriesAreSound
<1>2. /\ OwnersOf(e, {}) = OwnersOf(d, {}) /\ DirsOf(e, {}) = DirsOf(d, {})
      /\ \A s \in OwnersOf(d, {}) : At(e, s) = At(d, s)
  BY <1>1, CleanOwners
<1>3. /\ \A s \in Slot : s[1] # c => At(e, s) = At(d, s)
      /\ \A t \in Slot : At(e, t) = At(d, t) \/ At(e, t) = Unnamed("free")
  <2>1. e[c] = Zeroed /\ \A s \in Slot : s[1] # c => At(e, s) = At(d, s)
    BY <1>1, CleanClusters
  <2>2. \A t \in Slot : t[1] = c => At(e, t) = Unnamed("free")
    BY <2>1, ZeroedIs DEF At, Slot
  <2>3. QED
    BY <2>1, <2>2
<1>4. Lasts(f, d, {}, f, e, {}, {})
  BY <1>2, LastsSame
<1>5. ASSUME NEW h \in HeadsOf(d, {})
      PROVE  Counted(f, y, h) \in Int /\ Counted(f, z, h) <= Counted(f, y, h)
  <2>1. /\ h # NoCluster /\ Len(Chain(f, h)) \in 1 .. N /\ Counted(f, z, h) \in 0 .. N
        /\ Counted(f, z, h) = Len(Chain(f, h)) \/ Counted(f, z, h) = Len(Chain(f, h)) - 1
    BY HeadsAre
  <2>2. Counted(f, NoCluster, h) = Len(Chain(f, h))
    BY <2>1 DEF Counted
  <2>3. QED
    BY <2>1, <2>2, ClustersAreFinite
<1>6. \A s \in DirsOf(d, {}) : s \notin {} /\ At(e, s).kind = "dir"
  BY <1>2 DEF DirsOf
<1>7. \A s \in DirsOf(e, {}) : s[1] \in Space(f, d, {}, z)
  BY <1>1, <1>2 DEF DirsOf
<1>8. Widens(f, d, {}, z, f, e, {}, y)
  BY <1>4, <1>5, <1>6, <1>7, WidensBy
<1>9. Keeps(f, d, {}, z, f, e, {}, y, {})
  BY <1>3, <1>8, SpaceWidens DEF Keeps
<1>10. QED
  BY <1>3, <1>4, <1>8, <1>9

\* The new cluster of a directory is counted once it is zeroed.
LEMMA ZeroWorks ==
  ASSUME TInv, ~damaged, Zero
  PROVE  /\ Works({}, {}) /\ fat' = fat
         /\ \A t \in Slot : At(dir', t) = At(dir, t) \/ At(dir', t) = Unnamed("free")
<1> DEFINE h == dirFile.first
           n == Len(Chain(fat, h))
           c == Chain(fat, h)[n]
<1>1. pc = "zero" /\ Zeroes(empty[1]) /\ pc' = "fill" /\ fat' = fat
  BY DEF Zero
<1>2. /\ TreeOK(fat, dir, {}, h) /\ Loose = {} /\ Unzeroed = h /\ TypeInv /\ AtZero
      /\ h \in HeadsOf(dir, {}) /\ h # NoCluster /\ dirFile.size \in Nat /\ n = dirFile.size + 1
      /\ dirFile.size = Counted(fat, h, h)
  BY <1>1, UnzeroedDirectory
<1>3. empty[1] = c
  BY <1>2 DEF AtZero
<1>4. c \in Cluster /\ n \in 1 .. n
  <2>1. \A j \in 1 .. n : Chain(fat, h)[j] \in Cluster
    BY <1>2, HeadsAre
  <2>2. n \in 1 .. n
    BY <1>2
  <2>3. QED
    BY <2>1, <2>2
<1>5. dir' = Cleaned(dir, c)
  BY <1>1, <1>2, <1>3, <1>4, CardZeroes
<1>6. Loose' = {} /\ Unzeroed' = NoCluster
  BY <1>1, LooseIs
<1>7. c \notin Space(fat, dir, {}, h)
  <2>1. SUFFICES ASSUME NEW x \in HeadsOf(dir, {}), NEW j \in 1 .. Counted(fat, h, x), Chain(fat, x)[j] = c
        PROVE  FALSE
    BY DEF Space
  <2>2. j \in 1 .. Len(Chain(fat, x))
    BY <1>2, HeadsAre
  <2>3. x = h /\ j = n
    BY <1>2, <1>4, <2>1, <2>2, OnePlace
  <2> HIDE DEF n, h
  <2>4. QED
    BY <1>2, <2>1, <2>3
<1> HIDE DEF c, n, h
<1>8. /\ Lasts(fat, dir, {}, fat, dir', {}, {})
      /\ Widens(fat, dir, {}, h, fat, dir', {}, NoCluster)
      /\ Keeps(fat, dir, {}, h, fat, dir', {}, NoCluster, {})
      /\ \A t \in Slot : At(dir', t) = At(dir, t) \/ At(dir', t) = Unnamed("free")
  BY <1>2, <1>4, <1>5, <1>7, CleanWorks
<1>9. Works({}, {})
  BY <1>1, <1>2, <1>6, <1>8, RootedWidens DEF Works
<1>10. QED
  BY <1>1, <1>8, <1>9

\* So is makeDir's first cluster, which is in no directory.
LEMMA OwnZeroWorks ==
  ASSUME TInv, ~damaged, OwnZero
  PROVE  /\ Works({}, {}) /\ fat' = fat /\ this'.slot = this.slot /\ this'.first = this.first
         /\ \A t \in Slot : At(dir', t) = At(dir, t) \/ At(dir', t) = Unnamed("free")
<1> DEFINE c == this.first
<1>1. /\ pc = "ownZero" /\ Zeroes(this.first) /\ this' = [this EXCEPT !.size = 1] /\ pc' = "ownSync"
      /\ fat' = fat
  BY DEF OwnZero
<1>2. /\ TreeOK(fat, dir, {}, NoCluster) /\ Loose = {} /\ Unzeroed = NoCluster
      /\ TypeInv /\ AtOwnZero /\ Loose' = {} /\ Unzeroed' = NoCluster
  BY <1>1, Calm, LooseIs DEF PlaceInv
<1>3. /\ c \in Other /\ c \in Cluster /\ Begins(fat, c)
      /\ \A s \in OwnersOf(dir, {}) : At(dir, s).first # c
  BY <1>2 DEF AtOwnZero, NewHead, OwnerOfNone, Cluster
<1>4. dir' = Cleaned(dir, c)
  BY <1>1, <1>2, <1>3, CardZeroes
<1>5. this'.first = c /\ this'.slot = this.slot
  <2>1. this \in HandleType /\ 1 \in 0 .. N /\ NoCluster \in Cluster \cup {NoCluster}
    BY <1>2, ClustersAreFinite DEF TypeInv
  <2>2. QED
    BY <1>1, <2>1, HandleChanged
<1> HIDE DEF c
<1>6. c \notin HeadsOf(dir, {})
  BY <1>3, DirectoryAssumption DEF HeadsOf, DirsOf
<1>7. c \notin Space(fat, dir, {}, NoCluster)
  BY <1>2, <1>3, <1>6, OutOfSpace
<1>8. /\ Lasts(fat, dir, {}, fat, dir', {}, {})
      /\ Widens(fat, dir, {}, NoCluster, fat, dir', {}, NoCluster)
      /\ Keeps(fat, dir, {}, NoCluster, fat, dir', {}, NoCluster, {})
      /\ \A t \in Slot : At(dir', t) = At(dir, t) \/ At(dir', t) = Unnamed("free")
  BY <1>2, <1>3, <1>4, <1>7, CleanWorks
<1>9. Works({}, {})
  BY <1>1, <1>2, <1>8, RootedWidens DEF Works
<1>10. QED
  BY <1>1, <1>5, <1>8, <1>9 DEF c

\* The chain that is freed is that of the entry to be removed.
LEMMA FreeAllWorks ==
  ASSUME TInv, ~damaged, FreeAll
  PROVE  /\ Works({this.slot}, {}) /\ dir' = dir /\ this'.slot = this.slot
         /\ this.slot \in OwnersOf(dir, Loose) /\ Loose' = {this.slot}
         /\ \A x \in Cluster : fat'[x] # Free =>
              fat[x] # Free /\ x \notin ClustersFrom(fat, At(dir, this.slot).first)
<1> DEFINE s == this.slot
           h == this.first
           K == ClustersFrom(fat, h)
<1>1. /\ pc = "free" /\ PutsFat(FreedFrom(fat, h)) /\ pc' = "sync" /\ dir' = dir
      /\ this' = Cleared(this)
  BY DEF FreeAll, FreedFrom, Cleared
<1>2. /\ Tree0(fat, dir) /\ TreeOK(fat, dir, {}, NoCluster) /\ Loose = {} /\ Unzeroed = NoCluster
      /\ TypeInv /\ AtFree /\ this \in HandleType
  BY <1>1, Calm DEF PlaceInv, TypeInv
<1>3. fat' = FreedFrom(fat, h) /\ this'.slot = s
  BY <1>1, <1>2, FatIsHeld, ClearedIs
<1>4. /\ s \in OwnersOf(dir, {}) /\ At(dir, s).first = h /\ s \in Slot
      /\ At(dir, s).kind = "dir" => \A c \in K, i \in Index : ~Live(dir[c][i])
  BY <1>2 DEF AtFree, OwnersOf
<1>5. Loose' = {s} /\ Unzeroed' = NoCluster
  BY <1>1, <1>3 DEF Loose, Unzeroed
<1> HIDE DEF s, h
<1>6. /\ TreeOK(fat', dir, {s}, NoCluster)
      /\ Stays(fat, dir, {}, NoCluster, fat', dir, {s}, NoCluster, {s})
      /\ \A x \in HeadsOf(dir, {}) : x # h => Chain(fat', x) = Chain(fat, x)
  <2>1. Frees(fat, dir, s, h, fat')
    BY <1>3, <1>4 DEF Frees
  <2>2. QED
    BY <1>2, <1>4, <2>1, TreeFrees
<1>7. /\ Sound(fat) /\ h \in Cluster /\ Begins(fat, h) /\ Root \in Cluster /\ Begins(fat, Root)
      /\ \A t \in OwnersOf(dir, {}) : /\ t \in Slot /\ At(dir, t).first \in Cluster
                                      /\ Begins(fat, At(dir, t).first)
  BY <1>2, <1>4, OwnersHeads
<1>8. \A x \in Cluster : Begins(fat, x) /\ x # h => Chain(fat', x) = Chain(fat, x)
  BY <1>3, <1>7, FreedChain
<1>9. OwnersAreHeads(fat, dir, {})
  BY <1>2 DEF TreeOK
<1>10. h # Root /\ \A t \in OwnersOf(dir, {}) : t # s => At(dir, t).first # h
  BY <1>4, <1>9, DirectoryAssumption DEF OwnersAreHeads
<1>11. /\ \A t : t \in OwnersOf(dir, {s}) <=> t \in OwnersOf(dir, {}) /\ t # s
       /\ \A t : t \in DirsOf(dir, {s}) <=> t \in DirsOf(dir, {}) /\ t # s
  BY DEF OwnersOf, DirsOf
<1>12. Lasts(fat, dir, {}, fat', dir, {s}, {s})
  <2>1. \A x \in Cluster : Begins(fat, x) /\ x # h => Longer(fat, fat', x)
    BY <1>7, <1>8, LongerSame
  <2>2. QED
    BY <1>7, <1>10, <1>11, <2>1 DEF Lasts
<1>13. ASSUME NEW c \in Cluster
       PROVE  c \in K <=> \E j \in 1 .. Len(Chain(fat, h)) : c = Chain(fat, h)[j]
  BY <1>7, ClusterPlace
<1>14. \A c \in Cluster : fat'[c] # Free => fat[c] # Free /\ c \notin K
  BY <1>3 DEF FreedFrom
<1>15. ASSUME NEW x \in HeadsOf(dir, {s})
       PROVE  /\ x \in HeadsOf(dir, {}) /\ x # h
              /\ Counted(fat', NoCluster, x) = Counted(fat, NoCluster, x)
              /\ \A j \in 1 .. Counted(fat, NoCluster, x) :
                   Chain(fat', x)[j] = Chain(fat, x)[j] /\ Chain(fat, x)[j] \notin K
  <2>1. x \in HeadsOf(dir, {}) /\ x # h
    BY <1>10, <1>11 DEF HeadsOf, DirsOf
  <2>2. x \in Cluster /\ Begins(fat, x) /\ x # NoCluster /\ Counted(fat, NoCluster, x) = Len(Chain(fat, x))
        /\ \A j \in 1 .. Len(Chain(fat, x)) : Chain(fat, x)[j] \in ClustersFrom(fat, x)
    BY <1>2, <2>1, HeadsAre
  <2>3. Chain(fat', x) = Chain(fat, x)
    BY <1>8, <2>1, <2>2
  <2>4. ClustersFrom(fat, x) \cap K = {}
    BY <1>7, <2>1, <2>2, HeadsApart
  <2>5. Counted(fat', NoCluster, x) = Counted(fat, NoCluster, x)
    BY <2>2, <2>3 DEF Counted
  <2>6. QED
    BY <2>1, <2>2, <2>3, <2>4, <2>5
<1> HIDE DEF K
<1>16. Space(fat', dir, {s}, NoCluster) \cap K = {}
  BY <1>15 DEF Space
<1>17. ASSUME NEW t \in Slot, Live(At(dir, t)), t[1] \in Space(fat, dir, {}, NoCluster)
       PROVE  t[1] \in Space(fat', dir, {s}, NoCluster)
  <2>1. PICK x \in HeadsOf(dir, {}) : \E j \in 1 .. Counted(fat, NoCluster, x) : t[1] = Chain(fat, x)[j]
    BY <1>17 DEF Space
  <2>2. PICK j \in 1 .. Counted(fat, NoCluster, x) : t[1] = Chain(fat, x)[j]
    BY <2>1
  <2>3. t[1] \in ClustersFrom(fat, x) /\ t[1] \in Cluster
    BY <1>2, <2>2, HeadsAre
  <2>4. x # h
    <3>1. SUFFICES ASSUME x = h PROVE FALSE
      OBVIOUS
    <3>2. PICK u \in DirsOf(dir, {}) : At(dir, u).first = h
      BY <1>10, <3>1 DEF HeadsOf
    <3>3. u = s /\ At(dir, s).kind = "dir"
      BY <1>10, <3>2 DEF DirsOf
    <3>4. ~Live(dir[t[1]][t[2]])
      BY <1>4, <2>3, <3>1, <3>3 DEF Slot, K
    <3>5. QED
      BY <1>17, <3>4 DEF At
  <2>5. x \in HeadsOf(dir, {s})
    <3>1. CASE x = Root
      BY <3>1, RootHead
    <3>2. CASE x # Root
      <4>1. PICK u \in DirsOf(dir, {}) : At(dir, u).first = x
        BY <3>2 DEF HeadsOf
      <4>2. u \in DirsOf(dir, {s})
        BY <1>4, <1>11, <2>4, <4>1
      <4>3. QED
        BY <4>1, <4>2 DEF HeadsOf
    <3>3. QED
      BY <3>1, <3>2
  <2>6. QED
    BY <1>15, <2>2, <2>3, <2>5 DEF Space
<1>18. Keeps(fat, dir, {}, NoCluster, fat', dir, {s}, NoCluster, {})
  BY <1>17 DEF Keeps
<1>19. ASSUME Rooted(fat, dir, {}, NoCluster) PROVE Rooted(fat', dir, {s}, NoCluster)
  <2>1. CASE At(dir, s).kind = "dir"
    <3>1. s \in DirsOf(dir, {}) /\ h \in HeadsOf(dir, {})
      BY <1>4, <2>1 DEF DirsOf, HeadsOf
    <3>4. \A t : t \in DirsOf(dir, {s}) <=> t \in DirsOf(dir, {}) /\ t # s
      BY <1>11
    <3>5. \A t \in DirsOf(dir, {}) : t[1] \notin K
      <4>1. \A t \in DirsOf(dir, {}) : t \in Slot /\ Live(At(dir, t))
        BY DEF DirsOf, OwnersOf
      <4>2. QED
        BY <1>4, <2>1, <4>1 DEF Slot, At, K
    <3>6. \A t \in DirsOf(dir, {s}) : At(dir, t).first = At(dir, t).first
      OBVIOUS
    <3>7. \A x \in HeadsOf(dir, {s}) :
            Counted(fat', NoCluster, x) = Counted(fat, NoCluster, x)
            /\ \A j \in 1 .. Counted(fat, NoCluster, x) : Chain(fat', x)[j] = Chain(fat, x)[j]
      BY <1>15
    <3>8. K = ClustersFrom(fat, At(dir, s).first)
      BY <1>4 DEF K
    <3>9. /\ TreeOK(fat, dir, {}, NoCluster) /\ s \in DirsOf(dir, {})
          /\ \A t \in DirsOf(dir, {}) : t[1] \notin ClustersFrom(fat, At(dir, s).first)
          /\ \A c \in ClustersFrom(fat, At(dir, s).first) : c \notin Space(fat', dir, {s}, NoCluster)
      BY <1>2, <1>16, <3>1, <3>5, <3>8
    <3>10. QED
      BY <1>19, <3>4, <3>6, <3>7, <3>9, RootedLess
  <2>2. CASE At(dir, s).kind # "dir"
    <3>1. s \notin DirsOf(dir, {})
      BY <2>2 DEF DirsOf
    <3>2. \A t \in DirsOf(dir, {}) : t \notin {s} /\ At(dir, t).kind = "dir"
      BY <3>1 DEF DirsOf
    <3>3. \A x \in HeadsOf(dir, {}) : x \in HeadsOf(dir, {s})
      BY <1>11, <3>1 DEF HeadsOf
    <3>4. \A x \in HeadsOf(dir, {}) : Counted(fat', NoCluster, x) \in Int
            /\ Counted(fat, NoCluster, x) <= Counted(fat', NoCluster, x)
      <4>1. \A x \in HeadsOf(dir, {}) : Counted(fat, NoCluster, x) \in 0 .. N
        BY <1>2, HeadsAre
      <4>2. QED
        BY <1>15, <3>3, <4>1, ClustersAreFinite
    <3>5. \A t \in DirsOf(dir, {s}) : t[1] \in Space(fat, dir, {}, NoCluster)
      BY <1>2, <1>11, OwnersHeads DEF DirsOf
    <3>6. Widens(fat, dir, {}, NoCluster, fat', dir, {s}, NoCluster)
      BY <1>2, <1>12, <3>2, <3>4, <3>5, WidensBy
    <3>7. QED
      BY <1>19, <3>6, RootedWidens
  <2>3. QED
    BY <2>1, <2>2
<1>20. Works({s}, {})
  BY <1>1, <1>2, <1>5, <1>12, <1>18, <1>19 DEF Works
<1>21. QED
  BY <1>1, <1>2, <1>3, <1>4, <1>5, <1>14, <1>20 DEF s, K

\* A file that is written gets its one cluster.
LEMMA FileIsWrittenWorks ==
  ASSUME TInv, NEW s \in LiveSlots(View), NEW c \in Other, FileIsWritten(s, c)
  PROVE  /\ Works({s}, {s}) /\ s \in Slot /\ this' = this /\ Loose' = {}
         /\ At(dir, s).kind = "file" /\ At(dir, s).size = 0
         /\ s \in OwnersOf(dir', Loose') /\ At(dir', s).first = c /\ At(dir', s).size = 1
         /\ At(dir, s).first # NoCluster => c = At(dir, s).first
         /\ Chain(fat', c) = <<c>>
         /\ \A t \in Slot : t # s => At(dir', t) \in {Unnamed("file"), At(dir, t)}
         /\ \A x \in Cluster : x # c /\ fat'[x] # Free => fat[x] # Free
<1>1. /\ pc = "idle" /\ ~damaged
      /\ EntryAt(View, s).kind = "file" /\ EntryAt(View, s).size = 0
      /\ IF EntryAt(View, s).first = NoCluster THEN fat[c] = Free ELSE c = EntryAt(View, s).first
      /\ fat' = Appended(NoCluster, c)
      /\ dir' = [dir EXCEPT ![c] = Data, ![s[1]][s[2]].first = c, ![s[1]][s[2]].size = 1]
      /\ pc' = "idle" /\ this' = this
  BY DEF FileIsWritten, locals
<1>2. /\ Loose = {} /\ Unzeroed = NoCluster /\ TypeInv /\ TreeOK(fat, dir, {}, NoCluster)
      /\ Loose' = {} /\ Unzeroed' = NoCluster
  BY <1>1, IdleState, LooseIs
<1>3. Tree0(fat, dir) /\ View = View0(fat, dir)
  BY <1>1, IdleTree
<1>4. /\ s \in Slot /\ s[1] \in Space(fat, dir, {}, NoCluster)
      /\ EntryAt(View, s) = At(dir, s)
  BY <1>3, LiveSlotsAre
<1>5. fat' = AppendedTo(fat, NoCluster, c) /\ dir' = Written(dir, s, c)
  BY <1>1 DEF Appended, AppendedTo, Written
<1>6. At(dir, s).kind = "file" /\ At(dir, s).size = 0
      /\ (IF At(dir, s).first = NoCluster THEN fat[c] = Free ELSE c = At(dir, s).first)
  BY <1>1, <1>4
<1>7. /\ DirsOf(dir', {}) = DirsOf(dir, {}) /\ \A t \in DirsOf(dir, {}) : At(dir', t) = At(dir, t)
      /\ \A h \in HeadsOf(dir, {}) : Chain(fat', h) = Chain(fat, h)
      /\ s \in OwnersOf(dir', {}) /\ At(dir', s).first = c /\ At(dir', s).size = 1
      /\ \A t \in OwnersOf(dir, {}) : t # s =>
           /\ t \in OwnersOf(dir', {}) /\ At(dir', t) = At(dir, t) /\ At(dir, t).first # c
      /\ \A t \in Slot : t # s => At(dir', t) \in {Unnamed("file"), At(dir, t)}
  <2>1. Writes(fat, dir, s, c, fat', dir')
    BY <1>5 DEF Writes
  <2>2. QED
    BY <1>3, <1>4, <1>6, <2>1, TreeGetsFile
<1>8. /\ Sound(fat) /\ c \in Cluster /\ Root \in Cluster /\ Begins(fat, Root)
      /\ \A t \in OwnersOf(dir, {}) :
           At(dir, t).first \in Cluster /\ Begins(fat, At(dir, t).first) /\ t[1] \in Space(fat, dir, {}, NoCluster)
  BY <1>2, OwnersHeads DEF Cluster
<1>9. fat[c] = Free \/ (Begins(fat, c) /\ s \in OwnersOf(dir, {}))
  BY <1>4, <1>6, <1>8 DEF OwnersOf, Live
<1>10. /\ Chain(fat', c) = <<c>>
       /\ \A h \in Cluster : Begins(fat, h) /\ h # c => Chain(fat', h) = Chain(fat, h)
  BY <1>5, <1>8, <1>9, NewChain
<1>11. \A h \in HeadsOf(dir, {}) : h \in Cluster /\ Begins(fat, h) /\ h # NoCluster
         /\ Counted(fat, NoCluster, h) = Len(Chain(fat, h)) /\ Len(Chain(fat, h)) \in 1 .. N
  BY <1>2, HeadsAre
<1>12. Lasts(fat, dir, {}, fat', dir', {}, {s})
  <2>1. Root # c
    BY DirectoryAssumption
  <2>2. \A h \in Cluster : Begins(fat, h) /\ h # c => Longer(fat, fat', h)
    BY <1>8, <1>10, LongerSame
  <2>3. QED
    BY <1>7, <1>8, <2>1, <2>2 DEF Lasts
<1>13. \A t \in DirsOf(dir, {}) : t \notin {s} /\ At(dir', t).kind = "dir"
  BY <1>6, <1>7 DEF DirsOf
<1>14. \A h \in HeadsOf(dir, {}) : Counted(fat', NoCluster, h) \in Int
         /\ Counted(fat, NoCluster, h) <= Counted(fat', NoCluster, h)
  <2>1. \A h \in HeadsOf(dir, {}) : Counted(fat', NoCluster, h) = Len(Chain(fat, h))
    BY <1>7, <1>11 DEF Counted
  <2>2. QED
    BY <1>11, <2>1, ClustersAreFinite
<1>15. \A t \in DirsOf(dir', {}) : t[1] \in Space(fat, dir, {}, NoCluster)
  BY <1>7, <1>8 DEF DirsOf
<1>16. Widens(fat, dir, {}, NoCluster, fat', dir', {}, NoCluster)
  BY <1>2, <1>12, <1>13, <1>14, <1>15, WidensBy
<1>21. c \notin Space(fat, dir, {}, NoCluster)
  <2>1. \A u \in DirsOf(dir, {}) : u \in OwnersOf(dir, {}) /\ u # s
    BY <1>13 DEF DirsOf
  <2>2. c \notin HeadsOf(dir, {})
    BY <1>7, <2>1, DirectoryAssumption DEF HeadsOf
  <2>3. QED
    BY <1>2, <1>8, <1>9, <2>2, OutOfSpace
<1>17. Keeps(fat, dir, {}, NoCluster, fat', dir', {}, NoCluster, {s})
  <2>1. ASSUME NEW t \in Slot, t # s, Live(At(dir, t)), t[1] \in Space(fat, dir, {}, NoCluster)
        PROVE  At(dir', t) = At(dir, t)
    <3>1. CASE At(dir, t).first # NoCluster
      BY <1>7, <2>1, <3>1 DEF OwnersOf
    <3>2. CASE At(dir, t).first = NoCluster
      <4>1. t[1] # c
        BY <1>21, <2>1
      <4>2. At(dir', t) = At(dir, t)
        <5>1. dir \in Contents /\ s[1] # c /\ t \in Slot /\ t[1] \in Cluster /\ t[2] \in Index /\ t = <<t[1], t[2]>>
          BY <1>2, <1>4, <1>21, OwnersHeads DEF Slot
        <5>2. \A x \in Cluster, i \in Index :
                <<x, i>> # s => dir'[x][i] = IF x = c THEN Unnamed("file") ELSE dir[x][i]
          BY <1>4, <1>5, <1>8, <5>1, WrittenIs
        <5>4. dir'[t[1]][t[2]] = dir[t[1]][t[2]]
          BY <2>1, <4>1, <5>1, <5>2
        <5>3. QED
          BY <5>4 DEF At
      <4>3. QED
        BY <4>2
    <3>3. QED
      BY <3>1, <3>2
  <2>2. QED
    BY <1>16, <2>1, SpaceWidens DEF Keeps
<1>18. Works({s}, {s})
  BY <1>2, <1>12, <1>16, <1>17, RootedWidens DEF Works
<1>19. \A x \in Cluster : x # c /\ fat'[x] # Free => fat[x] # Free
  BY <1>5, MarksAreNoClusters DEF AppendedTo
<1>20. QED
  BY <1>1, <1>2, <1>4, <1>6, <1>7, <1>10, <1>18, <1>19

\* The steps that read, flush, begin a call or end one.
Quiet ==
  \/ SearchNext \/ SearchFinds \/ SearchEnds \/ SearchFails \/ NoSpace
  \/ FillFlush \/ OwnFlush \/ DotsFlush \/ SyncFlush \/ DeleteFlush
  \/ ScanNext \/ ScanFindsEntry \/ ScanEnds
  \/ RmRfSkips \/ RmRfFile \/ RmRfDir \/ RmRfEnds
  \/ Fails \/ RmDirCall \/ Close
  \/ \E op \in {"open", "create", "mkdir", "remove"}, d \in {"root", "h"}, n \in Name :
       OpenCall(op, d, n)
  \/ \E d \in {"root", "h"} : RmRfCall(d)

\* They change no block and no way to one.
LEMMA QuietSame ==
  ASSUME TInv, ~damaged, Quiet, ~damaged'
  PROVE  fat' = fat /\ dir' = dir /\ Loose' = Loose /\ Unzeroed' = Unzeroed
<1>1. fat' = fat /\ dir' = dir
  <2>1. CASE SearchNext \/ SearchFinds \/ SearchEnds \/ SearchFails \/ NoSpace
    BY <2>1 DEF SearchNext, SearchFinds, SearchEnds, SearchFails, NoSpace, storage, image
  <2>2. CASE FillFlush \/ OwnFlush \/ DotsFlush \/ SyncFlush \/ DeleteFlush
    BY <2>2 DEF FillFlush, OwnFlush, DotsFlush, SyncFlush, DeleteFlush, FlushesTo, image
  <2>3. CASE ScanNext \/ ScanFindsEntry \/ ScanEnds
    BY <2>3 DEF ScanNext, ScanFindsEntry, ScanEnds, image
  <2>4. CASE RmRfSkips \/ RmRfFile \/ RmRfDir \/ RmRfEnds
    BY <2>4 DEF RmRfSkips, RmRfFile, RmRfDir, RmRfEnds, image
  <2>5. CASE Fails \/ RmDirCall \/ Close
    BY <2>5 DEF Fails, RmDirCall, Close, Begin, storage, image
  <2>6. CASE \/ \E op \in {"open", "create", "mkdir", "remove"}, d \in {"root", "h"}, n \in Name :
                  OpenCall(op, d, n)
             \/ \E d \in {"root", "h"} : RmRfCall(d)
    BY <2>6 DEF OpenCall, RmRfCall, Begin, storage
  <2>7. QED
    BY <2>1, <2>2, <2>3, <2>4, <2>5, <2>6 DEF Quiet
<1>2. pc # "zero" /\ pc' # "zero"
  <2>1. CASE SearchNext \/ SearchFinds \/ SearchEnds \/ SearchFails \/ NoSpace
    BY <2>1 DEF SearchNext, SearchFinds, SearchEnds, SearchFails, NoSpace, Searching, NoEntry, Return, Returns,
       Truncate
  <2>2. CASE FillFlush \/ OwnFlush \/ DotsFlush \/ SyncFlush \/ DeleteFlush
    BY <2>2 DEF FillFlush, OwnFlush, DotsFlush, SyncFlush, DeleteFlush, FlushesTo, RemoveReturns, Return, Returns
  <2>3. CASE ScanNext \/ ScanFindsEntry \/ ScanEnds
    BY <2>3 DEF ScanNext, ScanFindsEntry, ScanEnds, Return, Returns, Truncate
  <2>4. CASE RmRfSkips \/ RmRfFile \/ RmRfDir \/ RmRfEnds
    BY <2>4 DEF RmRfSkips, RmRfFile, RmRfDir, RmRfEnds, InTop, Return, Returns, Truncate
  <2>5. CASE Fails
    BY <2>5 DEF Fails, LeavesDamage, Returns
  <2>6. CASE \/ RmDirCall \/ Close
             \/ \E op \in {"open", "create", "mkdir", "remove"}, d \in {"root", "h"}, n \in Name :
                  OpenCall(op, d, n)
             \/ \E d \in {"root", "h"} : RmRfCall(d)
    BY <2>6 DEF RmDirCall, Close, OpenCall, RmRfCall, Begin
  <2>7. QED
    BY <2>1, <2>2, <2>3, <2>4, <2>5, <2>6 DEF Quiet
<1>3. Loose' = Loose
  <2>1. CASE SyncFlush
    <3>1. pc = "syncFlush" /\ pc' = "delete" /\ this' = this
      BY <2>1 DEF SyncFlush, FlushesTo, locals
    <3>2. QED
      BY <1>1, <3>1 DEF Loose
  <2>2. CASE Fails
    <3>1. pc' = "idle"
      BY <2>2 DEF Fails, Returns
    <3>2. ~LeavesDamage \/ pc = "free"
      BY <2>2 DEF Fails
    <3>3. Loose = {}
      BY <3>2, ThisEntryIs DEF LeavesDamage, Loose
    <3>4. QED
      BY <3>1, <3>3, LooseIs
  <2>3. CASE SearchFinds
    <3>1. pc = "search"
      BY <2>3 DEF SearchFinds, Searching
    <3>2. pc' = "idle" \/ (this'.slot \in Slot /\ At(dir, this'.slot).kind = "file" /\ pc' \in {"free", "delete"})
      <4>1. SUFFICES ASSUME pc' # "idle"
            PROVE this'.slot \in Slot /\ At(dir, this'.slot).kind = "file" /\ pc' \in {"free", "delete"}
        OBVIOUS
      <4> DEFINE s == <<Here, Least(Stops)>>
      <4>2. this' = Opened(s) /\ Opened(s).type = "file" /\ pc' = Truncate(Opened(s))
        BY <2>3, <4>1 DEF SearchFinds, Returns
      <4>3. Opened(s).slot = s /\ Opened(s).type = At(dir, s).kind
        BY DEF Opened, EntryAt, View, At
      <4>4. s \in Slot
        <5>1. Searching /\ Stops # {}
          BY <2>3 DEF SearchFinds
        <5>2. QED
          BY <5>1, StopsAre, SearchedBlock
      <4>5. QED
        BY <4>2, <4>3, <4>4 DEF Truncate
    <3>3. QED
      BY <1>1, <3>1, <3>2 DEF Loose
  <2>4. CASE RmRfFile
    <3>1. pc = "rmRf" /\ EntryAt(View, TopSlot).kind = "file" /\ this' = Opened(TopSlot)
      BY <2>4 DEF RmRfFile, InTop
    <3>2. pc' \in {"free", "delete"} /\ this'.slot = TopSlot
      BY <2>4, <3>1 DEF RmRfFile, Truncate, Opened
    <3>3. At(dir, TopSlot).kind = "file"
      BY <3>1 DEF EntryAt, View, At
    <3>4. QED
      BY <1>1, <3>1, <3>2, <3>3 DEF Loose
  <2>5. CASE ScanEnds
    <3>1. pc = "scan" /\ pc' = Truncate(this)
      BY <2>5 DEF ScanEnds
    <3>2. this.size # 0
      BY <3>1, ScanState
    <3>3. pc' = "free"
      BY <3>1, <3>2 DEF Truncate
    <3>4. QED
      BY <3>1, <3>3, LooseIs
  <2>6. CASE SearchNext \/ SearchEnds \/ SearchFails \/ NoSpace
    <3>1. pc \notin {"sync", "syncFlush", "delete"} /\ pc' \notin {"sync", "syncFlush", "delete"}
      BY <2>6 DEF SearchNext, SearchEnds, SearchFails, NoSpace, Searching, NoEntry, Return, Returns
    <3>2. QED
      BY <3>1, LooseIs
  <2>7. CASE FillFlush \/ OwnFlush \/ DotsFlush \/ DeleteFlush \/ ScanNext \/ ScanFindsEntry
    <3>1. pc \notin {"sync", "syncFlush", "delete"} /\ pc' \notin {"sync", "syncFlush", "delete"}
      BY <2>7 DEF FillFlush, OwnFlush, DotsFlush, DeleteFlush, ScanNext, ScanFindsEntry, FlushesTo,
         RemoveReturns, Return, Returns
    <3>2. QED
      BY <3>1, LooseIs
  <2>8. CASE RmRfSkips \/ RmRfDir \/ RmRfEnds
    <3>1. pc \notin {"sync", "syncFlush", "delete"} /\ pc' \notin {"sync", "syncFlush", "delete"}
      BY <2>8 DEF RmRfSkips, RmRfDir, RmRfEnds, InTop, Return, Returns
    <3>2. QED
      BY <3>1, LooseIs
  <2>9. CASE \/ RmDirCall \/ Close
             \/ \E op \in {"open", "create", "mkdir", "remove"}, d \in {"root", "h"}, n \in Name :
                  OpenCall(op, d, n)
             \/ \E d \in {"root", "h"} : RmRfCall(d)
    <3>1. pc \notin {"sync", "syncFlush", "delete"} /\ pc' \notin {"sync", "syncFlush", "delete"}
      BY <2>9 DEF RmDirCall, Close, OpenCall, RmRfCall, Begin
    <3>2. QED
      BY <3>1, LooseIs
  <2>10. QED
    BY <2>1, <2>2, <2>3, <2>4, <2>5, <2>6, <2>7, <2>8, <2>9 DEF Quiet
<1>4. QED
  BY <1>1, <1>2, <1>3, LooseIs

\* So everything lasts.
LEMMA QuietWorks ==
  ASSUME TInv, ~damaged, Quiet, ~damaged'
  PROVE  Works({}, {}) /\ fat' = fat /\ dir' = dir /\ Loose' = Loose /\ Unzeroed' = Unzeroed
<1>1. fat' = fat /\ dir' = dir /\ Loose' = Loose /\ Unzeroed' = Unzeroed
  BY QuietSame
<1>2. TreeOK(fat, dir, Loose, Unzeroed)
  BY DEF TInv, TreeInv
<1>3. Lasts(fat, dir, Loose, fat, dir, Loose, {})
  BY <1>2, LastsSame
<1>4. QED
  BY <1>1, <1>3 DEF Works, Keeps

-----------------------------------------------------------------------------
(* The steps together. *)

\* A step is one that changes no block or one of the others.
LEMMA NextCases ==
  ASSUME Next
  PROVE  \/ Quiet \/ Zero \/ Fill \/ OwnZero \/ OwnSync \/ Attribute \/ Dots
         \/ FreeAll \/ Sync \/ Delete
         \/ \E c \in Other : Grow(c) \/ Own(c)
         \/ \E s \in LiveSlots(View), c \in Other : FileIsWritten(s, c)
<1>1. CASE Step
  BY <1>1, Zenon DEF Step, Quiet
<1>2. CASE Fails \/ Call
  BY <1>2, Zenon DEF Call, Quiet
<1>3. QED
  BY <1>1, <1>2 DEF Next

\* A volume given up stays so.
LEMMA DamageStays ==
  ASSUME TInv, damaged, Next
  PROVE  damaged'
<1>1. pc = "idle"
  BY DEF TInv
<1>2. ~Step
  BY <1>1, Zenon DEF Step, SearchNext, SearchFinds, SearchEnds, SearchFails, NoSpace, Searching, Grow, Own,
     Zero, Fill, FillFlush, OwnZero, OwnSync, OwnFlush, Attribute, Dots, DotsFlush,
     FreeAll, Sync, SyncFlush, Delete, DeleteFlush, ScanNext, ScanFindsEntry, ScanEnds,
     RmRfSkips, RmRfFile, RmRfDir, RmRfEnds, InTop
<1>3. ~Fails
  BY <1>1, AccessesInCalls DEF Fails
<1>4. QED
  BY <1>2, <1>3 DEF Next, Call, OpenCall, RmDirCall, RmRfCall, Begin, Close, FileIsWritten

\* What each step frees and rewrites at most.
LEMMA NextWorks ==
  ASSUME TInv, ~damaged, Next, ~damaged'
  PROVE  \E X, T : Works(X, T)
<1>1. CASE Quiet
  BY <1>1, QuietWorks
<1>2. CASE Zero \/ Fill \/ OwnZero \/ Dots
  BY <1>2, ZeroWorks, FillWorks, OwnZeroWorks, DotsWorks
<1>3. CASE OwnSync \/ Attribute \/ Sync \/ Delete
  BY <1>3, OwnSyncWorks, AttributeWorks, SyncWorks, DeleteWorks
<1>4. CASE FreeAll
  BY <1>4, FreeAllWorks
<1>5. CASE \E c \in Other : Grow(c) \/ Own(c)
  BY <1>5, GrowWorks, OwnWorks
<1>6. CASE \E s \in LiveSlots(View), c \in Other : FileIsWritten(s, c)
  BY <1>6, FileIsWrittenWorks
<1>7. QED
  BY <1>1, <1>2, <1>3, <1>4, <1>5, <1>6, NextCases

ReachInv == ~damaged => Rooted(fat, dir, Loose, Unzeroed)

\* On a volume just mounted the root is all there is.
LEMMA InitReach == Init => ReachInv
<1>1. SUFFICES ASSUME Init PROVE Rooted(fat, dir, Loose, Unzeroed)
  BY DEF ReachInv
<1>2. \A s \in Slot : ~Live(At(dir, s)) \/ At(dir, s).first = NoCluster
  <2>1. PICK r \in {Root16} \cup Roots32, full \in BOOLEAN, label \in Name \cup {NoName} :
          dir = RootImage(r.clusters, full, label)
    BY <1>1 DEF Init
  <2>2. \A kind, n : Unnamed(kind).first = NoCluster /\ Label(n).first = NoCluster
    BY DEF Unnamed, Label, Entry
  <2>3. \A c \in Cluster, i \in Index : dir[c][i].first = NoCluster
    BY <2>1, <2>2 DEF RootImage, Data
  <2>4. QED
    BY <2>3 DEF At, Slot
<1>3. \A d, L : DirsOf(d, L) \subseteq OwnersOf(d, L)
  BY DEF DirsOf
<1>4. OwnersOf(dir, Loose) = {}
  BY <1>2 DEF OwnersOf
<1>5. HeadsOf(dir, Loose) = {Root}
  BY <1>3, <1>4 DEF HeadsOf
<1>6. QED
  BY <1>5 DEF Rooted, Complete, Space

\* Each step keeps the ways from the root.
LEMMA NextReach ==
  ASSUME ~EmptyFiles, TInv, ReachInv, [Next]_vars
  PROVE  ReachInv'
<1>1. CASE Next
  <2>1. SUFFICES ASSUME ~damaged' PROVE Rooted(fat', dir', Loose', Unzeroed')
    BY DEF ReachInv
  <2>2. ~damaged
    BY <1>1, <2>1, DamageStays
  <2>3. PICK X, T : Works(X, T)
    BY <1>1, <2>1, <2>2, NextWorks
  <2>4. QED
    BY <2>2, <2>3 DEF Works, ReachInv
<1>2. CASE UNCHANGED vars
  <2>1. /\ fat' = fat /\ dir' = dir /\ hand' = hand /\ this' = this /\ pc' = pc /\ call' = call
        /\ damaged' = damaged
    BY <1>2 DEF vars, storage, locals
  <2>2. Loose' = Loose /\ Unzeroed' = Unzeroed
    BY <2>1 DEF Loose, Unzeroed, dirFile
  <2>3. QED
    BY <2>1, <2>2 DEF ReachInv
<1>3. QED
  BY <1>1, <1>2

\* At every step every entry that owns a chain is in a directory of the tree.
LEMMA OwnersReached ==
  ASSUME TInv, ReachInv, ~damaged
  PROVE  Space(fat, dir, Loose, Unzeroed) \subseteq DirClusters(View)
<1>1. View = View0(fat, dir)
  BY DEF View, View0
<1>2. TreeOK(fat, dir, Loose, Unzeroed) /\ Rooted(fat, dir, Loose, Unzeroed)
  BY DEF TInv, TreeInv, ReachInv
<1>3. QED
  BY <1>1, <1>2, AllReached

-----------------------------------------------------------------------------
(* Without a refused access no cluster is lost. *)

\* Cluster c is in the chain of the root or of an entry.
Owned(f, d, L, c) ==
  \/ c \in ClustersFrom(f, Root)
  \/ \E s \in OwnersOf(d, L) : c \in ClustersFrom(f, At(d, s).first)

\* So is every cluster that is not free, but the one makeDir has just got.
Covered ==
  \A c \in Cluster :
    fat[c] # Free => Owned(fat, dir, Loose, c) \/ (pc \in {"ownZero", "ownSync"} /\ c = this.first)

\* A file without data has no cluster, but what makeDir turns into a directory.
DataOnly ==
  \A s \in Slot :
    At(dir, s).kind = "file" /\ At(dir, s).size = 0 /\ At(dir, s).first # NoCluster =>
      pc \in {"ownFlush", "attribute"} /\ s = this.slot

\* The entry that remove is about to mark names no chain any more.
NamesNone == pc \in {"syncFlush", "delete"} => At(dir, this.slot).first = NoCluster

LeakInv ==
  /\ refused \in Nat
  /\ refused = 0 => ~damaged /\ Covered /\ DataOnly /\ NamesNone

\* What a chain had it has when it got longer.
LEMMA StillOwned ==
  ASSUME NEW f, NEW d, NEW L, NEW z, TreeOK(f, d, L, z), NEW g, NEW e, NEW M, NEW y, TreeOK(g, e, M, y),
         NEW X, Lasts(f, d, L, g, e, M, X), NEW c, Owned(f, d, L, c),
         \A s \in X \cap OwnersOf(d, L) : c \notin ClustersFrom(f, At(d, s).first)
  PROVE  Owned(g, e, M, c)
<1>1. /\ Sound(f) /\ Root \in Cluster /\ Begins(f, Root)
      /\ \A s \in OwnersOf(d, L) : At(d, s).first \in Cluster /\ Begins(f, At(d, s).first)
  BY OwnersHeads
<1>2. /\ Sound(g) /\ Begins(g, Root)
      /\ \A s \in OwnersOf(e, M) : At(e, s).first \in Cluster /\ Begins(g, At(e, s).first)
  BY OwnersHeads
<1>3. ASSUME NEW h \in Cluster, Begins(f, h), Begins(g, h), Longer(f, g, h), c \in ClustersFrom(f, h)
      PROVE  c \in ClustersFrom(g, h)
  <2>1. PICK j \in 1 .. Len(Chain(f, h)) : c = Chain(f, h)[j]
    BY <1>1, <1>3, ClusterPlace
  <2>2. j \in 1 .. Len(Chain(g, h)) /\ c = Chain(g, h)[j]
    BY <1>3, <2>1 DEF Longer
  <2>3. QED
    BY <1>2, <1>3, <2>2, ClusterPlace
<1>4. CASE c \in ClustersFrom(f, Root)
  BY <1>1, <1>2, <1>3, <1>4 DEF Lasts, Owned
<1>5. CASE \E s \in OwnersOf(d, L) : c \in ClustersFrom(f, At(d, s).first)
  <2>1. PICK s \in OwnersOf(d, L) : c \in ClustersFrom(f, At(d, s).first)
    BY <1>5
  <2>2. s \notin X
    BY <2>1
  <2>3. s \in OwnersOf(e, M) /\ At(e, s).first = At(d, s).first /\ Longer(f, g, At(d, s).first)
    BY <2>1, <2>2 DEF Lasts
  <2>4. c \in ClustersFrom(g, At(e, s).first)
    BY <1>1, <1>2, <1>3, <2>1, <2>3
  <2>5. QED
    BY <2>3, <2>4 DEF Owned
<1>6. QED
  BY <1>4, <1>5 DEF Owned

\* A step that takes no cluster loses none.
LEMMA CoveredKept ==
  ASSUME TInv, TInv', ~damaged, ~damaged', Covered, NEW X, NEW T, Works(X, T),
         \A s \in X \cap OwnersOf(dir, Loose) :
           \A c \in Cluster : fat'[c] # Free => c \notin ClustersFrom(fat, At(dir, s).first),
         \A c \in Cluster : fat'[c] # Free =>
           \/ fat[c] # Free /\ ~(pc \in {"ownZero", "ownSync"} /\ c = this.first)
           \/ Owned(fat', dir', Loose', c)
           \/ pc' \in {"ownZero", "ownSync"} /\ c = this'.first
  PROVE  Covered'
<1>1. TreeOK(fat, dir, Loose, Unzeroed) /\ TreeOK(fat', dir', Loose', Unzeroed')
  BY DEF TInv, TreeInv
<1>2. Lasts(fat, dir, Loose, fat', dir', Loose', X)
  BY DEF Works
<1>3. ASSUME NEW c \in Cluster, fat'[c] # Free, fat[c] # Free,
             ~(pc \in {"ownZero", "ownSync"} /\ c = this.first)
      PROVE  Owned(fat', dir', Loose', c)
  <2>1. Owned(fat, dir, Loose, c)
    BY <1>3 DEF Covered
  <2>2. \A s \in X \cap OwnersOf(dir, Loose) : c \notin ClustersFrom(fat, At(dir, s).first)
    BY <1>3
  <2>3. QED
    BY <1>1, <1>2, <2>1, <2>2, StillOwned
<1>4. QED
  BY <1>3 DEF Covered

\* What the calls take is written to the chain of a directory or kept by the call.
LEMMA TakingKeeps ==
  ASSUME TInv, TInv', LeakInv, refused = 0, refused' = 0, ~damaged', NEW c \in Other, Grow(c) \/ Own(c)
  PROVE  Covered' /\ DataOnly' /\ NamesNone'
<1>1. ~damaged /\ Covered /\ DataOnly
  BY DEF LeakInv
<1>2. /\ pc \in {"grow", "own"} /\ pc' \in {"zero", "ownZero"} /\ dir' = dir
      /\ Works({}, {}) /\ \A x \in Cluster : x # c /\ fat'[x] # Free => fat[x] # Free
  BY <1>1, GrowWorks, OwnWorks DEF Grow, Own
<1>3. ASSUME NEW x \in Cluster, x = c
      PROVE  Owned(fat', dir', Loose', x) \/ (pc' \in {"ownZero", "ownSync"} /\ x = this'.first)
  <2>1. CASE Grow(c)
    <3>1. PICK h \in HeadsOf(dir', Loose') : c \in ClustersFrom(fat', h)
      BY <1>1, <2>1, GrowWorks
    <3>2. h = Root \/ \E s \in OwnersOf(dir', Loose') : h = At(dir', s).first
      BY DEF HeadsOf, DirsOf
    <3>3. QED
      BY <1>3, <3>1, <3>2 DEF Owned
  <2>2. CASE Own(c)
    <3>1. pc' = "ownZero" /\ this'.first = c
      BY <1>1, <2>2, OwnWorks DEF Own
    <3>2. QED
      BY <1>3, <3>1
  <2>3. QED
    BY <2>1, <2>2
<1>4. Covered'
  BY <1>1, <1>2, <1>3, CoveredKept
<1>5. DataOnly' /\ NamesNone'
  BY <1>1, <1>2 DEF DataOnly, NamesNone
<1>6. QED
  BY <1>4, <1>5

\* Nor do the steps that write a directory's blocks.
LEMMA BlocksLeak ==
  ASSUME TInv, TInv', LeakInv, refused = 0, ~damaged', Zero \/ OwnZero \/ Fill \/ Dots
  PROVE  Covered' /\ DataOnly' /\ NamesNone'
<1>1. ~damaged /\ Covered /\ DataOnly
  BY DEF LeakInv
<1>2. /\ Works({}, {}) /\ fat' = fat
      /\ \A t \in Slot : \/ At(dir', t) = At(dir, t)
                         \/ At(dir', t).kind # "file" \/ At(dir', t).first = NoCluster
  <2>1. \A kind : Unnamed(kind).kind = kind /\ Unnamed(kind).first = NoCluster
    BY DEF Unnamed, Entry
  <2>2. CASE Zero \/ OwnZero \/ Dots
    BY <1>1, <2>1, <2>2, ZeroWorks, OwnZeroWorks, DotsWorks
  <2>3. CASE Fill
    <3>1. /\ Works({}, {}) /\ empty \in Slot /\ At(dir', empty) = NewEntry(NoCluster)
          /\ dir' = PutIn(dir, empty, NewEntry(NoCluster))
      BY <1>1, <2>3, FillWorks
    <3>2. pc = "fill" /\ fat' = fat
      BY <2>3 DEF Fill
    <3>3. call.name \in Name /\ dir \in Contents
      BY <1>1, <3>2, Calm DEF CallInv
    <3>4. NewEntry(NoCluster) \in AnyEntry /\ NewEntry(NoCluster).first = NoCluster
      BY <3>3, NewIs DEF NewEntry
    <3>5. \A t \in Slot : t # empty => At(dir', t) = At(dir, t)
      BY <3>1, <3>3, <3>4, PutIs
    <3>6. QED
      BY <3>1, <3>2, <3>4, <3>5
  <2>4. QED
    BY <2>2, <2>3
<1>3. /\ pc \in {"zero", "ownZero", "fill", "dots"} /\ pc' \in {"fill", "ownSync", "fillFlush", "dotsFlush"}
      /\ pc = "ownZero" => pc' = "ownSync" /\ this'.first = this.first
  BY <1>1, OwnZeroWorks DEF Zero, OwnZero, Fill, Dots
<1>4. Covered'
  BY <1>1, <1>2, <1>3, CoveredKept
<1>5. DataOnly' /\ NamesNone'
  BY <1>1, <1>2, <1>3 DEF DataOnly, NamesNone
<1>6. QED
  BY <1>4, <1>5

\* Nor those that rewrite the entry of the call.
LEMMA RewritesLeak ==
  ASSUME TInv, TInv', LeakInv, refused = 0, ~damaged', OwnSync \/ Attribute \/ Sync \/ Delete
  PROVE  Covered' /\ DataOnly' /\ NamesNone'
<1>1. ~damaged /\ Covered /\ DataOnly /\ NamesNone
  BY DEF LeakInv
<1>2. /\ fat' = fat /\ this' = this /\ this.slot \in Slot
      /\ \A t \in Slot : t # this.slot => At(dir', t) = At(dir, t)
  <2>1. CASE OwnSync
    <3>1. this.slot \in OwnersOf(dir', Loose')
      BY <1>1, <2>1, OwnSyncWorks
    <3>2. QED
      BY <1>1, <2>1, <3>1, OwnSyncWorks DEF OwnersOf
  <2>2. CASE Attribute
    BY <1>1, <2>2, AttributeWorks
  <2>3. CASE Sync
    BY <1>1, <2>3, SyncWorks
  <2>4. CASE Delete
    <3>1. this' = this
      BY <2>4 DEF Delete, Rewrites, locals
    <3>2. QED
      BY <1>1, <2>4, <3>1, DeleteWorks
  <2>5. QED
    BY <2>1, <2>2, <2>3, <2>4
<1>3. CASE OwnSync
  <2>1. /\ Works({}, {this.slot}) /\ this.slot \in OwnersOf(dir', Loose')
        /\ At(dir', this.slot).first = this.first /\ this.first \in Cluster /\ Begins(fat, this.first)
    BY <1>1, <1>3, OwnSyncWorks
  <2>2. pc = "ownSync" /\ pc' = "ownFlush"
    BY <1>3 DEF OwnSync, Rewrites
  <2>3. Sound(fat)
    BY <1>1, OwnersHeads DEF TInv, TreeInv
  <2>4. this.first \in ClustersFrom(fat, this.first)
    BY <2>1, <2>3, HeadChain
  <2>5. Owned(fat', dir', Loose', this.first)
    BY <1>2, <2>1, <2>4 DEF Owned
  <2>6. Covered'
    BY <1>1, <1>2, <2>1, <2>5, CoveredKept
  <2>7. DataOnly' /\ NamesNone'
    BY <1>1, <1>2, <2>2 DEF DataOnly, NamesNone
  <2>8. QED
    BY <2>6, <2>7
<1>4. CASE Attribute
  <2>1. Works({}, {this.slot}) /\ At(dir', this.slot).kind = "dir"
    BY <1>1, <1>4, AttributeWorks
  <2>2. pc = "attribute" /\ pc' = "dots"
    BY <1>4 DEF Attribute, Rewrites
  <2>3. Covered'
    BY <1>1, <1>2, <2>1, <2>2, CoveredKept
  <2>4. DataOnly' /\ NamesNone'
    BY <1>1, <1>2, <2>1, <2>2 DEF DataOnly, NamesNone
  <2>5. QED
    BY <2>3, <2>4
<1>5. CASE Sync
  <2>1. Works({}, {this.slot}) /\ At(dir', this.slot).first = NoCluster
    BY <1>1, <1>5, SyncWorks
  <2>2. pc = "sync" /\ pc' = "syncFlush"
    BY <1>5 DEF Sync, Rewrites
  <2>3. Covered'
    BY <1>1, <1>2, <2>1, <2>2, CoveredKept
  <2>4. DataOnly' /\ NamesNone'
    BY <1>1, <1>2, <2>1, <2>2 DEF DataOnly, NamesNone
  <2>5. QED
    BY <2>3, <2>4
<1>6. CASE Delete
  <2>1. Works({this.slot}, {this.slot}) /\ ~Live(At(dir', this.slot))
    BY <1>1, <1>6, DeleteWorks
  <2>2. pc = "delete" /\ pc' = "deleteFlush"
    BY <1>6 DEF Delete, Rewrites
  <2>3. this.slot \notin OwnersOf(dir, Loose)
    BY <1>1, <2>2 DEF OwnersOf, NamesNone
  <2>4. Covered'
    <3>1. \A s \in {this.slot} \cap OwnersOf(dir, Loose) : FALSE
      BY <2>3
    <3>2. QED
      BY <1>1, <1>2, <2>1, <2>2, <3>1, CoveredKept
  <2>5. DataOnly' /\ NamesNone'
    BY <1>1, <1>2, <2>1, <2>2 DEF DataOnly, NamesNone, Live
  <2>6. QED
    BY <2>4, <2>5
<1>7. QED
  BY <1>3, <1>4, <1>5, <1>6

\* truncate(0) frees all that the entry owns.
LEMMA FreeingLeaks ==
  ASSUME TInv, TInv', LeakInv, refused = 0, ~damaged', FreeAll
  PROVE  Covered' /\ DataOnly' /\ NamesNone'
<1>1. ~damaged /\ Covered /\ DataOnly
  BY DEF LeakInv
<1>2. pc = "free" /\ pc' = "sync"
  BY DEF FreeAll
<1>3. /\ Works({this.slot}, {}) /\ dir' = dir
      /\ \A x \in Cluster : fat'[x] # Free =>
           fat[x] # Free /\ x \notin ClustersFrom(fat, At(dir, this.slot).first)
  BY <1>1, FreeAllWorks
<1>4. Covered'
  <2>1. \A s \in {this.slot} \cap OwnersOf(dir, Loose) :
          \A c \in Cluster : fat'[c] # Free => c \notin ClustersFrom(fat, At(dir, s).first)
    BY <1>3
  <2>2. QED
    BY <1>1, <1>2, <1>3, <2>1, CoveredKept
<1>5. DataOnly' /\ NamesNone'
  BY <1>1, <1>2, <1>3 DEF DataOnly, NamesNone
<1>6. QED
  BY <1>4, <1>5

\* A file that is written takes its cluster.
LEMMA WritingLeaks ==
  ASSUME TInv, TInv', LeakInv, refused = 0, ~damaged', NEW s \in LiveSlots(View), NEW c \in Other,
         FileIsWritten(s, c)
  PROVE  Covered' /\ DataOnly' /\ NamesNone'
<1>1. ~damaged /\ Covered /\ DataOnly
  BY DEF LeakInv
<1>2. pc = "idle" /\ pc' = "idle"
  BY DEF FileIsWritten
<1>3. /\ Works({s}, {s}) /\ s \in Slot
      /\ At(dir, s).kind = "file" /\ At(dir, s).size = 0
      /\ s \in OwnersOf(dir', Loose') /\ At(dir', s).first = c /\ At(dir', s).size = 1
      /\ Chain(fat', c) = <<c>>
      /\ \A t \in Slot : t # s => At(dir', t) \in {Unnamed("file"), At(dir, t)}
      /\ \A x \in Cluster : x # c /\ fat'[x] # Free => fat[x] # Free
  BY <1>1, FileIsWrittenWorks
<1>4. \A x \in {s} \cap OwnersOf(dir, Loose) : FALSE
  BY <1>1, <1>2, <1>3 DEF DataOnly, OwnersOf
<1>5. Owned(fat', dir', Loose', c)
  <2>1. c \in ClustersFrom(fat', c)
    BY <1>3 DEF ClustersFrom
  <2>2. QED
    BY <1>3, <2>1 DEF Owned
<1>6. Covered'
  BY <1>1, <1>2, <1>3, <1>4, <1>5, CoveredKept
<1>7. DataOnly' /\ NamesNone'
  <2>1. Unnamed("file").first = NoCluster
    BY DEF Unnamed, Entry
  <2>2. QED
    BY <1>1, <1>2, <1>3, <2>1 DEF DataOnly, NamesNone
<1>8. QED
  BY <1>6, <1>7

\* Where a removal begins without freeing anything.
LEMMA MarkedNext ==
  ASSUME TInv, ~damaged, Quiet, ~damaged', pc' \in {"syncFlush", "delete"}
  PROVE  \/ pc = "syncFlush" /\ this' = this
         \/ /\ pc \in {"search", "rmRf"} /\ this'.slot \in Slot
            /\ At(dir, this'.slot).kind = "file" /\ At(dir, this'.slot).size = 0
<1>1. CASE SyncFlush
  BY <1>1 DEF SyncFlush, FlushesTo, locals
<1>2. CASE SearchFinds
  <2> DEFINE s == <<Here, Least(Stops)>>
  <2>1. pc = "search" /\ Searching /\ Stops # {}
    BY <1>2 DEF SearchFinds, Searching
  <2>2. this' = Opened(s) /\ Opened(s).type = "file" /\ pc' = Truncate(Opened(s))
    BY <1>2 DEF SearchFinds, Returns
  <2>3. /\ Opened(s).slot = s /\ Opened(s).type = At(dir, s).kind
        /\ Opened(s).type # "dir" => Opened(s).size = At(dir, s).size
    BY DEF Opened, EntryAt, View, At
  <2>4. s \in Slot
    BY <2>1, StopsAre, SearchedBlock
  <2>5. QED
    BY <2>1, <2>2, <2>3, <2>4 DEF Truncate
<1>3. CASE RmRfFile
  <2>1. /\ pc = "rmRf" /\ InTop /\ EntryAt(View, TopSlot).kind = "file" /\ this' = Opened(TopSlot)
        /\ pc' = Truncate(Opened(TopSlot))
    BY <1>3 DEF RmRfFile, InTop
  <2>2. TopSlot \in Slot /\ EntryAt(View, TopSlot) = At(dir, TopSlot)
    BY <2>1, TopSlotIs
  <2>3. Opened(TopSlot).slot = TopSlot /\ Opened(TopSlot).size = At(dir, TopSlot).size
    BY <2>1, <2>2 DEF Opened
  <2>4. QED
    BY <2>1, <2>2, <2>3 DEF Truncate
<1>4. CASE ScanEnds
  <2>1. pc = "scan" /\ pc' = Truncate(this)
    BY <1>4 DEF ScanEnds
  <2>2. this.size # 0
    BY <2>1, ScanState
  <2>3. QED
    BY <2>1, <2>2 DEF Truncate
<1>5. CASE SearchNext \/ SearchEnds \/ SearchFails \/ NoSpace \/ Fails
  BY <1>5 DEF SearchNext, SearchEnds, SearchFails, NoSpace, Searching, NoEntry, Return, Returns, Fails
<1>6. CASE FillFlush \/ OwnFlush \/ DotsFlush \/ DeleteFlush \/ ScanNext \/ ScanFindsEntry
  BY <1>6 DEF FillFlush, OwnFlush, DotsFlush, DeleteFlush, ScanNext, ScanFindsEntry, FlushesTo,
     RemoveReturns, Return, Returns
<1>7. CASE RmRfSkips \/ RmRfDir \/ RmRfEnds
  BY <1>7 DEF RmRfSkips, RmRfDir, RmRfEnds, InTop, Return, Returns
<1>8. CASE \/ RmDirCall \/ Close
           \/ \E op \in {"open", "create", "mkdir", "remove"}, d \in {"root", "h"}, n \in Name :
                OpenCall(op, d, n)
           \/ \E d \in {"root", "h"} : RmRfCall(d)
  BY <1>8 DEF RmDirCall, Close, OpenCall, RmRfCall, Begin
<1>9. QED
  BY <1>1, <1>2, <1>3, <1>4, <1>5, <1>6, <1>7, <1>8 DEF Quiet

\* Where a file has a cluster and no data yet, only the flush comes next.
LEMMA OwningNext ==
  ASSUME Quiet, ~Fails, pc \in {"ownZero", "ownSync", "ownFlush", "attribute"}
  PROVE  pc = "ownFlush" /\ pc' = "attribute" /\ this' = this
<1>1. \/ OwnFlush \/ SearchFinds \/ DotsFlush \/ RmRfEnds
      \/ ~(SearchNext \/ SearchEnds \/ SearchFails \/ NoSpace \/ FillFlush \/ SyncFlush \/ DeleteFlush
           \/ ScanNext \/ ScanFindsEntry \/ ScanEnds \/ RmRfSkips \/ RmRfFile \/ RmRfDir)
  BY DEF SearchNext, SearchEnds, SearchFails, NoSpace, FillFlush, SyncFlush, DeleteFlush,
     ScanNext, ScanFindsEntry, ScanEnds, RmRfSkips, RmRfFile, RmRfDir, Searching, InTop
<1>2. ~SearchFinds /\ ~DotsFlush /\ ~RmRfEnds
  BY DEF SearchFinds, Searching, DotsFlush, RmRfEnds, InTop
<1>3. /\ ~RmDirCall /\ ~Close
      /\ ~\E op \in {"open", "create", "mkdir", "remove"}, d \in {"root", "h"}, n \in Name :
            OpenCall(op, d, n)
      /\ ~\E d \in {"root", "h"} : RmRfCall(d)
  BY DEF RmDirCall, Close, OpenCall, RmRfCall, Begin
<1>4. OwnFlush
  BY <1>1, <1>2, <1>3 DEF Quiet
<1>5. QED
  BY <1>4 DEF OwnFlush, FlushesTo, locals

\* The other steps leave it all.
LEMMA QuietLeaks ==
  ASSUME TInv, TInv', LeakInv, refused = 0, refused' = 0, ~damaged', Quiet
  PROVE  Covered' /\ DataOnly' /\ NamesNone'
<1>1. ~damaged /\ Covered /\ DataOnly /\ NamesNone
  BY DEF LeakInv
<1>2. Works({}, {}) /\ fat' = fat /\ dir' = dir
  BY <1>1, QuietWorks
<1>3. ~Fails
  BY DEF Fails
<1>4. pc \in {"ownZero", "ownSync", "ownFlush", "attribute"} =>
        pc = "ownFlush" /\ pc' = "attribute" /\ this' = this
  BY <1>3, OwningNext
<1>5. Covered'
  BY <1>1, <1>2, <1>4, CoveredKept
<1>6. DataOnly'
  BY <1>1, <1>2, <1>4 DEF DataOnly
<1>7. NamesNone'
  <2>1. SUFFICES ASSUME pc' \in {"syncFlush", "delete"} PROVE At(dir, this'.slot).first = NoCluster
    BY <1>2 DEF NamesNone
  <2>2. CASE pc = "syncFlush" /\ this' = this
    BY <1>1, <2>2 DEF NamesNone
  <2>3. CASE /\ pc \in {"search", "rmRf"} /\ this'.slot \in Slot
             /\ At(dir, this'.slot).kind = "file" /\ At(dir, this'.slot).size = 0
    BY <1>1, <2>3 DEF DataOnly
  <2>4. QED
    BY <1>1, <2>1, <2>2, <2>3, MarkedNext
<1>8. QED
  BY <1>5, <1>6, <1>7

\* A volume just mounted has clusters in its root only.
LEMMA InitLeak == Init => LeakInv
<1>1. SUFFICES ASSUME Init PROVE LeakInv
  OBVIOUS
<1>2. PICK r \in {Root16} \cup Roots32, full \in BOOLEAN, label \in Name \cup {NoName} :
        /\ fat = [c \in Cluster |->
                   IF \A j \in DOMAIN r.clusters : r.clusters[j] # c THEN Free
                   ELSE IF c = r.clusters[Len(r.clusters)] THEN EOC ELSE r.clusters[2]]
        /\ dir = RootImage(r.clusters, full, label)
  BY <1>1 DEF Init
<1>3. TInv /\ refused = 0 /\ pc = "idle" /\ ~damaged
  BY <1>1, InitTInv DEF Init
<1> DEFINE R == r.clusters
<1>4. R = <<Root>> \/ \E c \in Other : R = <<Root, c>>
  BY DEF Root16, Roots32
<1>5. R \in Seq(Cluster) /\ R[1] = Root
  <2>1. CASE R = <<Root>>
    BY <2>1 DEF Cluster
  <2>2. CASE \E c \in Other : R = <<Root, c>>
    <3>1. PICK c \in Other : R = <<Root, c>>
      BY <2>2
    <3>2. Root \in Cluster /\ c \in Cluster
      BY DEF Cluster
    <3>3. QED
      BY <3>1, <3>2
  <2>3. QED
    BY <1>4, <2>1, <2>2
<1>6. fat \in FatType
  BY <1>3 DEF TInv, TypeInv
<1>7. Chain(fat, Root) = R
  BY <1>2, <1>4, <1>5, <1>6, RootChain
<1>8. Covered
  <2>1. ASSUME NEW c \in Cluster, fat[c] # Free PROVE c \in ClustersFrom(fat, Root)
    <3>1. \E j \in DOMAIN R : R[j] = c
      BY <1>2, <2>1
    <3>2. QED
      BY <1>7, <3>1 DEF ClustersFrom
  <2>2. QED
    BY <2>1 DEF Covered, Owned
<1>9. DataOnly
  <2>1. \A kind, n : Unnamed(kind).first = NoCluster /\ Label(n).first = NoCluster
    BY DEF Unnamed, Label, Entry
  <2>2. \A c \in Cluster, i \in Index : dir[c][i].first = NoCluster
    BY <1>2, <2>1 DEF RootImage, Data
  <2>3. QED
    BY <2>2 DEF DataOnly, At, Slot
<1>10. QED
  BY <1>3, <1>8, <1>9 DEF LeakInv, NamesNone

\* Each step loses no cluster.
LEMMA NextLeak ==
  ASSUME ~EmptyFiles, TInv, LeakInv, [Next]_vars
  PROVE  LeakInv'
<1>1. CASE Next
  <2>1. (refused' = refused /\ damaged' = damaged) \/ Fails
    <3>1. CASE Quiet
      <4>1. CASE SearchNext \/ SearchFinds \/ SearchEnds \/ SearchFails \/ NoSpace
        BY <4>1 DEF SearchNext, SearchFinds, SearchEnds, SearchFails, NoSpace, NoEntry, Return, goesOn
      <4>2. CASE FillFlush \/ OwnFlush \/ DotsFlush \/ SyncFlush \/ DeleteFlush
        BY <4>2 DEF FillFlush, OwnFlush, DotsFlush, SyncFlush, DeleteFlush, FlushesTo, RemoveReturns, Return, goesOn
      <4>3. CASE ScanNext \/ ScanFindsEntry \/ ScanEnds
        BY <4>3 DEF ScanNext, ScanFindsEntry, ScanEnds, Return, goesOn
      <4>4. CASE RmRfSkips \/ RmRfFile \/ RmRfDir \/ RmRfEnds
        BY <4>4 DEF RmRfSkips, RmRfFile, RmRfDir, RmRfEnds, Return, goesOn
      <4>5. CASE \/ RmDirCall \/ Close
                 \/ \E op \in {"open", "create", "mkdir", "remove"}, d \in {"root", "h"}, n \in Name :
                      OpenCall(op, d, n)
                 \/ \E d \in {"root", "h"} : RmRfCall(d)
        BY <4>5 DEF RmDirCall, Close, OpenCall, RmRfCall, Begin
      <4>6. QED
        BY <3>1, <4>1, <4>2, <4>3, <4>4, <4>5 DEF Quiet
    <3>2. CASE Zero \/ Fill \/ OwnZero \/ OwnSync \/ Attribute \/ Dots \/ FreeAll \/ Sync \/ Delete
      BY <3>2 DEF Zero, Fill, OwnZero, OwnSync, Attribute, Dots, FreeAll, Sync, Delete, Rewrites, goesOn
    <3>3. CASE \E c \in Other : Grow(c) \/ Own(c)
      BY <3>3 DEF Grow, Own, goesOn
    <3>4. CASE \E s \in LiveSlots(View), c \in Other : FileIsWritten(s, c)
      BY <3>4 DEF FileIsWritten
    <3>5. QED
      BY <1>1, <3>1, <3>2, <3>3, <3>4, NextCases
  <2>2. refused \in Nat
    BY DEF LeakInv
  <2>3. CASE Fails
    <3>1. refused' = refused + 1
      BY <2>3 DEF Fails
    <3>2. refused' \in Nat /\ refused' # 0
      BY <2>2, <3>1
    <3>3. QED
      BY <3>2 DEF LeakInv
  <2>4. CASE refused' = refused /\ damaged' = damaged
    <3>1. SUFFICES ASSUME refused = 0 PROVE ~damaged' /\ Covered' /\ DataOnly' /\ NamesNone'
      BY <2>2, <2>4 DEF LeakInv
    <3>2. ~damaged' /\ refused' = 0 /\ TInv'
      BY <1>1, <2>4, <3>1, NextTInv DEF LeakInv
    <3>3. CASE Quiet
      BY <3>1, <3>2, <3>3, QuietLeaks
    <3>4. CASE Zero \/ Fill \/ OwnZero \/ Dots
      BY <3>1, <3>2, <3>4, BlocksLeak
    <3>5. CASE OwnSync \/ Attribute \/ Sync \/ Delete
      BY <3>1, <3>2, <3>5, RewritesLeak
    <3>6. CASE FreeAll
      BY <3>1, <3>2, <3>6, FreeingLeaks
    <3>7. CASE \E c \in Other : Grow(c) \/ Own(c)
      BY <3>1, <3>2, <3>7, TakingKeeps
    <3>8. CASE \E s \in LiveSlots(View), c \in Other : FileIsWritten(s, c)
      BY <3>1, <3>2, <3>8, WritingLeaks
    <3>9. QED
      BY <1>1, <3>2, <3>3, <3>4, <3>5, <3>6, <3>7, <3>8, NextCases
  <2>5. QED
    BY <2>1, <2>3, <2>4
<1>2. CASE UNCHANGED vars
  <2>1. /\ fat' = fat /\ dir' = dir /\ this' = this /\ pc' = pc /\ refused' = refused /\ damaged' = damaged
    BY <1>2 DEF vars, storage, locals
  <2>2. Loose' = Loose
    BY <2>1 DEF Loose
  <2>3. (Covered' <=> Covered) /\ (DataOnly' <=> DataOnly) /\ (NamesNone' <=> NamesNone)
    BY <2>1, <2>2 DEF Covered, DataOnly, NamesNone
  <2>4. QED
    BY <2>1, <2>3 DEF LeakInv
<1>3. QED
  BY <1>1, <1>2

\* What is covered between calls is in a chain of the tree.
LEMMA LeakFollows == TInv /\ ReachInv /\ LeakInv => NoLeak
<1>1. SUFFICES ASSUME TInv, ReachInv, LeakInv, pc = "idle", refused = 0, NEW c \in Other, fat[c] # Free,
                      c \notin ClustersFrom(fat, Root)
      PROVE  \E s \in Tree : c \in ClustersFrom(fat, EntryAt(View, s).first)
  BY DEF NoLeak
<1>2. ~damaged /\ Covered /\ c \in Cluster
  BY <1>1 DEF LeakInv, Cluster
<1>3. Owned(fat, dir, Loose, c)
  BY <1>1, <1>2 DEF Covered
<1>4. PICK s \in OwnersOf(dir, Loose) : c \in ClustersFrom(fat, At(dir, s).first)
  BY <1>1, <1>3 DEF Owned
<1>5. s \in Slot /\ Live(At(dir, s)) /\ s[1] \in Space(fat, dir, Loose, Unzeroed)
  BY <1>1, <1>2, OwnersHeads DEF TInv, TreeInv
<1>6. s[1] \in DirClusters(View)
  BY <1>1, <1>2, <1>5, OwnersReached
<1>7. EntryAt(View, s) = At(dir, s)
  BY DEF EntryAt, View, At
<1>8. s \in Tree
  <2>1. s[2] \in Index /\ s = <<s[1], s[2]>>
    BY <1>5 DEF Slot
  <2>2. s \in DirClusters(View) \X Index
    BY <1>6, <2>1
  <2>3. QED
    BY <1>5, <1>7, <2>2 DEF Tree, LiveSlots
<1>9. QED
  BY <1>4, <1>7, <1>8

\* Unless an access was refused no cluster is lost: between calls each is free,
\* of the root or in the chain of an entry (addCluster, truncate, remove, rmDir,
\* rmRfStar), if callers pass no empty file as dirFile.
THEOREM NoClusterIsLost == ASSUME ~EmptyFiles PROVE Spec => []NoLeak
<1>1. Init => TInv /\ ReachInv /\ LeakInv
  BY InitTInv, InitReach, InitLeak
<1>2. TInv /\ ReachInv /\ LeakInv /\ [Next]_vars => (TInv /\ ReachInv /\ LeakInv)'
  BY StutterTInv, NextReach, NextLeak
<1>3. TInv /\ ReachInv /\ LeakInv => NoLeak
  BY LeakFollows
<1>4. QED
  BY <1>1, <1>2, <1>3, PTL DEF Spec

-----------------------------------------------------------------------------
(* What power loss spares. *)

\* Entry and chain of x are in the tree as they were when the call began.
Sparing(f, d, L, z, x) ==
  /\ x.slot \in Slot /\ x.slot[1] \in Space(f, d, L, z)
  /\ At(d, x.slot) = x.entry /\ Live(x.entry)
  /\ x.chain \in Seq(Cluster) /\ Len(x.chain) <= Len(Chain(f, x.entry.first))
  /\ \A j \in 1 .. Len(x.chain) : Chain(f, x.entry.first)[j] = x.chain[j]

\* The slot the call has made or has come to remove.
Threatened ==
  IF pc = "fillFlush" THEN {empty}
  ELSE IF pc \in {"own", "ownZero", "ownSync", "ownFlush", "attribute"} \/ Removing THEN {this.slot}
  ELSE {}

SparedInv ==
  /\ pc = "idle" => spared = {}
  /\ ~damaged =>
       \A x \in spared : Sparing(fat, dir, Loose, Unzeroed, x) /\ x.slot \notin Threatened

\* What a step does not touch stays spared.
LEMMA SparingLasts ==
  ASSUME TInv, TInv', ~damaged, ~damaged', NEW X, NEW T, Works(X, T), NEW x,
         Sparing(fat, dir, Loose, Unzeroed, x), x.slot \notin X, x.slot \notin T, x.slot \notin Loose
  PROVE  Sparing(fat', dir', Loose', Unzeroed', x)
<1>1. /\ x.slot \in Slot \ T /\ Live(At(dir, x.slot)) /\ x.slot[1] \in Space(fat, dir, Loose, Unzeroed)
      /\ At(dir, x.slot) = x.entry
  BY DEF Sparing
<1>2. At(dir', x.slot) = At(dir, x.slot) /\ x.slot[1] \in Space(fat', dir', Loose', Unzeroed')
  BY <1>1 DEF Works, Keeps
<1>3. CASE x.entry.first # NoCluster
  <2>1. x.slot \in OwnersOf(dir, Loose) \ X
    BY <1>1, <1>3 DEF OwnersOf
  <2>2. Longer(fat, fat', x.entry.first)
    BY <1>1, <2>1 DEF Works, Lasts
  <2>3. Len(x.chain) \in Nat
    BY DEF Sparing
  <2>4. /\ Len(x.chain) <= Len(Chain(fat', x.entry.first))
        /\ \A j \in 1 .. Len(x.chain) : Chain(fat', x.entry.first)[j] = x.chain[j]
    BY <2>2, <2>3 DEF Sparing, Longer
  <2>5. QED
    BY <1>1, <1>2, <2>4 DEF Sparing
<1>4. CASE x.entry.first = NoCluster
  <2>1. fat \in FatType /\ fat' \in FatType /\ NoCluster \in Link /\ NoCluster \notin Cluster
    BY MarksAreNoClusters DEF TInv, TypeInv, Link
  <2>2. Chain(fat, NoCluster) = << >> /\ Chain(fat', NoCluster) = << >>
    BY <2>1, ChainIs
  <2>3. QED
    BY <1>1, <1>2, <1>4, <2>2 DEF Sparing
<1>5. QED
  BY <1>3, <1>4

\* While a slot is loose it is the one the call is removing.
LEMMA LooseThreatened == ASSUME TInv, ~damaged PROVE Loose \subseteq Threatened
BY DEF Loose, Threatened, Removing, Marked

\* The steps of a call that change a block.
LEMMA ChangesSpare ==
  ASSUME TInv, TInv', ~damaged, ~damaged', SparedInv,
         \/ Zero \/ Fill \/ OwnZero \/ OwnSync \/ Attribute \/ Dots \/ FreeAll \/ Sync \/ Delete
         \/ \E c \in Other : Grow(c) \/ Own(c)
  PROVE  SparedInv'
<1>1. /\ spared' = spared /\ pc' # "idle"
  <2>1. CASE Zero \/ Fill \/ OwnZero \/ Dots \/ FreeAll
    BY <2>1 DEF Zero, Fill, OwnZero, Dots, FreeAll
  <2>2. CASE OwnSync \/ Attribute \/ Sync \/ Delete
    BY <2>2 DEF OwnSync, Attribute, Sync, Delete, Rewrites
  <2>3. CASE \E c \in Other : Grow(c) \/ Own(c)
    BY <2>3 DEF Grow, Own
  <2>4. QED
    BY <2>1, <2>2, <2>3
<1>2. SUFFICES ASSUME NEW x \in spared
      PROVE  Sparing(fat', dir', Loose', Unzeroed', x) /\ x.slot \notin Threatened'
  BY <1>1 DEF SparedInv
<1>3. Sparing(fat, dir, Loose, Unzeroed, x) /\ x.slot \notin Threatened
  BY <1>2 DEF SparedInv
<1>4. x.slot \notin Loose
  BY <1>3, LooseThreatened
<1>5. ASSUME NEW X, NEW T, Works(X, T), x.slot \notin X, x.slot \notin T
      PROVE  Sparing(fat', dir', Loose', Unzeroed', x)
  BY <1>3, <1>4, <1>5, SparingLasts
<1>6. CASE Zero \/ Dots
  <2>1. Works({}, {})
    BY <1>6, ZeroWorks, DotsWorks
  <2>2. pc' \in {"fill", "dotsFlush"}
    BY <1>6 DEF Zero, Dots
  <2>3. QED
    BY <1>5, <2>1, <2>2 DEF Threatened, Removing, Marked
<1>7. CASE Fill
  <2>1. Works({}, {}) /\ ~Live(At(dir, empty))
    BY <1>7, FillWorks
  <2>2. pc' = "fillFlush" /\ empty' = empty
    BY <1>7 DEF Fill, locals
  <2>3. x.slot # empty
    BY <1>3, <2>1 DEF Sparing
  <2>4. QED
    BY <1>5, <2>1, <2>2, <2>3 DEF Threatened
<1>8. CASE OwnZero
  <2>1. Works({}, {}) /\ this'.slot = this.slot
    BY <1>8, OwnZeroWorks
  <2>2. pc = "ownZero" /\ pc' = "ownSync"
    BY <1>8 DEF OwnZero
  <2>3. QED
    BY <1>3, <1>5, <2>1, <2>2 DEF Threatened, Removing, Marked
<1>9. CASE OwnSync \/ Attribute
  <2>1. Works({}, {this.slot}) /\ this' = this
    BY <1>9, OwnSyncWorks, AttributeWorks
  <2>2. (pc = "ownSync" /\ pc' = "ownFlush") \/ (pc = "attribute" /\ pc' = "dots")
    BY <1>9 DEF OwnSync, Attribute, Rewrites
  <2>3. x.slot # this.slot
    BY <1>3, <2>2 DEF Threatened
  <2>4. QED
    BY <1>5, <2>1, <2>2, <2>3 DEF Threatened, Removing, Marked
<1>10. CASE FreeAll
  <2>1. Works({this.slot}, {}) /\ this'.slot = this.slot
    BY <1>10, FreeAllWorks
  <2>2. pc = "free" /\ pc' = "sync"
    BY <1>10 DEF FreeAll
  <2>3. x.slot # this.slot
    BY <1>3, <2>2 DEF Threatened, Removing
  <2>4. QED
    BY <1>5, <2>1, <2>2, <2>3 DEF Threatened, Removing, Marked
<1>11. CASE Sync \/ Delete
  <2>1. \E X \in {{}, {this.slot}} : Works(X, {this.slot})
    BY <1>11, SyncWorks, DeleteWorks
  <2>2. this' = this /\ pc \in {"sync", "delete"} /\ pc' \in {"syncFlush", "deleteFlush"}
    BY <1>11 DEF Sync, Delete, Rewrites, locals
  <2>3. x.slot # this.slot
    BY <1>3, <2>2 DEF Threatened, Removing, Marked
  <2>4. QED
    BY <1>5, <2>1, <2>2, <2>3 DEF Threatened, Removing, Marked
<1>12. CASE \E c \in Other : Grow(c)
  <2>1. Works({}, {}) /\ pc' = "zero"
    BY <1>12, GrowWorks DEF Grow
  <2>2. QED
    BY <1>5, <2>1 DEF Threatened, Removing, Marked
<1>13. CASE \E c \in Other : Own(c)
  <2>1. Works({}, {}) /\ this'.slot = this.slot /\ pc = "own" /\ pc' = "ownZero"
    BY <1>13, OwnWorks DEF Own
  <2>2. QED
    BY <1>3, <1>5, <2>1 DEF Threatened, Removing, Marked
<1>14. QED
  BY <1>6, <1>7, <1>8, <1>9, <1>10, <1>11, <1>12, <1>13

\* What a call finds on the card when it begins is in the tree.
LEMMA PromisedAre ==
  ASSUME TInv, ~damaged, pc = "idle", NEW x \in Promised
  PROVE  Sparing(fat, dir, {}, NoCluster, x)
<1>1. Tree0(fat, dir) /\ View = View0(fat, dir) /\ fat \in FatType
  BY IdleTree DEF TInv, TypeInv
<1>2. card = View
  BY DEF Promised
<1>3. PICK s \in LiveSlots(View) :
        x = [slot |-> s, entry |-> EntryAt(View, s), chain |-> Chain(View.fat, EntryAt(View, s).first)]
  BY <1>2 DEF Promised
<1>4. s \in Slot /\ s[1] \in Space(fat, dir, {}, NoCluster) /\ Live(At(dir, s)) /\ EntryAt(View, s) = At(dir, s)
  BY <1>1, LiveSlotsAre
<1>5. x.slot = s /\ x.entry = At(dir, s) /\ x.chain = Chain(fat, At(dir, s).first)
  BY <1>3, <1>4 DEF View
<1>6. At(dir, s).first \in Link
  BY <1>1, <1>4, EntryTypes, OwnersHeads DEF Tree0, AnyEntry, Link
<1>7. x.chain \in Seq(Cluster)
  BY <1>1, <1>5, <1>6, ChainIs
<1>8. Len(x.chain) <= Len(x.chain)
  BY <1>7
<1>9. QED
  BY <1>4, <1>5, <1>7, <1>8 DEF Sparing

\* What a step that changes no block comes to make or to remove.
LEMMA QuietThreatens ==
  ASSUME TInv, ~damaged, Quiet, ~damaged'
  PROVE  \/ pc' = "idle" /\ spared' = {}
         \/ /\ spared' \subseteq spared
            /\ \/ Threatened' = {} \/ Threatened' \subseteq Threatened
               \/ \A x \in spared' : x.slot \notin Threatened'
         \/ pc = "idle" /\ pc' # "idle" /\ spared' = Promised /\ Threatened' = {}
         \/ pc = "idle" /\ pc' = "idle" /\ spared' = spared
<1> USE DEF Threatened, Removing, Marked
<1>1. CASE SearchNext \/ SearchEnds \/ SearchFails \/ NoSpace
  BY <1>1 DEF SearchNext, SearchEnds, SearchFails, NoSpace, Searching, NoEntry, Return, Returns
<1>2. CASE SearchFinds
  <2> DEFINE s == <<Here, Least(Stops)>>
  <2>1. \/ Returns(call.op = "open" \/ (call.op = "create" /\ Opened(s).type = "file"), Opened(s))
        \/ this' = Opened(s) /\ Spares(s) /\ pc' = Truncate(Opened(s))
    BY <1>2 DEF SearchFinds
  <2>2. Opened(s).slot = s
    BY DEF Opened
  <2>3. CASE pc' = "idle" /\ spared' = {}
    BY <2>3
  <2>4. CASE this' = Opened(s) /\ Spares(s) /\ pc' = Truncate(Opened(s))
    BY <2>2, <2>4 DEF Spares, Truncate
  <2>5. QED
    BY <2>1, <2>3, <2>4 DEF Returns
<1>3. CASE FillFlush
  <2>1. pc = "fillFlush"
    BY <1>3 DEF FillFlush
  <2>2. \/ this' = Opened(empty) /\ pc' = "own" /\ spared' = spared
        \/ pc' = "idle" /\ spared' = {}
    BY <1>3 DEF FillFlush, Return, Returns
  <2>3. Opened(empty).slot = empty
    BY DEF Opened
  <2>4. QED
    BY <2>1, <2>2, <2>3
<1>4. CASE OwnFlush \/ DotsFlush \/ SyncFlush
  BY <1>4 DEF OwnFlush, DotsFlush, SyncFlush, FlushesTo, locals, Return, Returns
<1>5. CASE DeleteFlush
  BY <1>5 DEF DeleteFlush, RemoveReturns, Return, Returns
<1>6. CASE ScanNext \/ ScanFindsEntry
  BY <1>6 DEF ScanNext, ScanFindsEntry, Return, Returns
<1>7. CASE ScanEnds
  <2>1. /\ spared' = {x \in spared : x.slot # this.slot} /\ this' = [this EXCEPT !.type = "file"]
        /\ pc' \in {"free", "delete"}
    BY <1>7 DEF ScanEnds, Spares, Truncate
  <2>2. this \in HandleType
    BY DEF TInv, TypeInv
  <2>3. this'.slot = this.slot
    BY <2>1, <2>2 DEF HandleType
  <2>4. QED
    BY <2>1, <2>3
<1>8. CASE RmRfSkips \/ RmRfDir \/ RmRfEnds
  BY <1>8 DEF RmRfSkips, RmRfDir, RmRfEnds, InTop, Return, Returns
<1>9. CASE RmRfFile
  <2>1. this' = Opened(TopSlot) /\ Spares(TopSlot) /\ pc' \in {"free", "delete"}
    BY <1>9 DEF RmRfFile, Truncate
  <2>2. Opened(TopSlot).slot = TopSlot
    BY DEF Opened
  <2>3. QED
    BY <2>1, <2>2 DEF Spares
<1>10. CASE Fails
  BY <1>10 DEF Fails, Returns
<1>11. CASE Close
  BY <1>11 DEF Close
<1>12. CASE \/ RmDirCall
            \/ \E op \in {"open", "create", "mkdir", "remove"}, d \in {"root", "h"}, n \in Name :
                 OpenCall(op, d, n)
            \/ \E d \in {"root", "h"} : RmRfCall(d)
  BY <1>12 DEF RmDirCall, OpenCall, RmRfCall, Begin
<1>13. QED
  BY <1>1, <1>2, <1>3, <1>4, <1>5, <1>6, <1>7, <1>8, <1>9, <1>10, <1>11, <1>12 DEF Quiet

\* The steps that change no block.
LEMMA QuietSpares ==
  ASSUME TInv, ~damaged, ~damaged', SparedInv, Quiet, pc' = "idle" => spared' = {} \/ pc = "idle"
  PROVE  SparedInv'
<1>1. fat' = fat /\ dir' = dir /\ Loose' = Loose /\ Unzeroed' = Unzeroed
  BY QuietSame
<1>2. CASE spared' = {}
  BY <1>2 DEF SparedInv
<1>3. CASE pc = "idle" /\ pc' = "idle" /\ spared' = spared
  BY <1>2, <1>3 DEF SparedInv
<1>4. CASE pc = "idle" /\ spared' = Promised /\ Threatened' = {} /\ pc' # "idle"
  <2>1. Loose = {} /\ Unzeroed = NoCluster
    BY <1>4, LooseIs
  <2>2. \A x \in spared' : Sparing(fat, dir, {}, NoCluster, x)
    BY <1>4, PromisedAre
  <2>3. QED
    BY <1>1, <1>4, <2>1, <2>2 DEF SparedInv
<1>5. CASE /\ spared' \subseteq spared
           /\ \/ Threatened' = {} \/ Threatened' \subseteq Threatened
              \/ \A x \in spared' : x.slot \notin Threatened'
  <2>1. \A x \in spared' : Sparing(fat, dir, Loose, Unzeroed, x) /\ x.slot \notin Threatened'
    BY <1>5 DEF SparedInv
  <2>2. pc' = "idle" => spared' = {}
    BY <1>5 DEF SparedInv
  <2>3. QED
    BY <1>1, <2>1, <2>2 DEF SparedInv
<1>6. QED
  BY <1>2, <1>3, <1>4, <1>5, QuietThreatens

\* What reaches the card is what a caller reads.
LEMMA WritesView ==
  ASSUME LacksOne, Next, card' # card, pc # "idle"
  PROVE  card' = View
<1>1. Stored(held) = View
  BY DEF LacksOne
<1>2. CASE Quiet
  <2>1. CASE SearchNext \/ SearchFinds \/ SearchEnds \/ SearchFails \/ NoSpace
    BY <1>1, <2>1 DEF SearchNext, SearchFinds, SearchEnds, SearchFails, NoSpace, ReadsHere, Reads, Flushes, storage
  <2>2. CASE FillFlush \/ OwnFlush \/ DotsFlush \/ SyncFlush \/ DeleteFlush
    BY <1>1, <2>2 DEF FillFlush, OwnFlush, DotsFlush, SyncFlush, DeleteFlush, FlushesTo, Flushes
  <2>3. CASE ScanNext \/ ScanFindsEntry \/ ScanEnds
    BY <1>1, <2>3 DEF ScanNext, ScanFindsEntry, ScanEnds, ReadsScanned, Reads, Flushes
  <2>4. CASE RmRfSkips \/ RmRfFile \/ RmRfDir \/ RmRfEnds
    BY <1>1, <2>4 DEF RmRfSkips, RmRfFile, RmRfDir, RmRfEnds, ReadsTop, Reads, Flushes
  <2>5. CASE Fails
    BY <1>1, <2>5 DEF Fails
  <2>6. CASE \/ RmDirCall \/ Close
             \/ \E op \in {"open", "create", "mkdir", "remove"}, d \in {"root", "h"}, n \in Name :
                  OpenCall(op, d, n)
             \/ \E d \in {"root", "h"} : RmRfCall(d)
    BY <2>6 DEF RmDirCall, Close, OpenCall, RmRfCall, Begin
  <2>7. QED
    BY <1>2, <2>1, <2>2, <2>3, <2>4, <2>5, <2>6 DEF Quiet
<1>3. CASE Zero \/ OwnZero
  BY <1>1, <1>3 DEF Zero, OwnZero, Zeroes
<1>4. CASE Fill \/ OwnSync \/ Attribute \/ Sync \/ Delete \/ Dots
  BY <1>1, <1>4 DEF Fill, OwnSync, Attribute, Sync, Delete, Dots, Rewrites, Puts, Holds
<1>5. CASE FreeAll
  BY <1>1, <1>5 DEF FreeAll, PutsFat, Holds
<1>6. CASE \E c \in Other : Grow(c) \/ Own(c)
  BY <1>1, <1>6 DEF Grow, Own, PutsFat, Holds
<1>7. CASE \E s \in LiveSlots(View), c \in Other : FileIsWritten(s, c)
  BY <1>7 DEF FileIsWritten
<1>8. QED
  BY <1>2, <1>3, <1>4, <1>5, <1>6, <1>7, NextCases

\* What is spared is there wherever a caller looks for it.
LEMMA SparedIsThere ==
  ASSUME TInv, ReachInv, SparedInv, ~damaged, NEW x \in spared
  PROVE  /\ x.slot \in LiveSlots(View) /\ EntryAt(View, x.slot) = x.entry
         /\ SubSeq(Chain(View.fat, x.entry.first), 1, Len(x.chain)) = x.chain
<1> DEFINE s == x.slot
           C == Chain(fat, x.entry.first)
           n == Len(x.chain)
<1>1. /\ s \in Slot /\ s[1] \in Space(fat, dir, Loose, Unzeroed)
      /\ At(dir, s) = x.entry /\ Live(x.entry)
      /\ x.chain \in Seq(Cluster) /\ n <= Len(C) /\ \A j \in 1 .. n : C[j] = x.chain[j]
  BY DEF SparedInv, Sparing
<1>2. EntryAt(View, s) = At(dir, s) /\ View.fat = fat
  BY DEF EntryAt, View, At
<1>3. s[1] \in DirClusters(View)
  BY <1>1, OwnersReached
<1>4. s \in LiveSlots(View)
  <2>1. s[2] \in Index /\ s = <<s[1], s[2]>>
    BY <1>1 DEF Slot
  <2>2. s \in DirClusters(View) \X Index
    BY <1>3, <2>1
  <2>3. QED
    BY <1>1, <1>2, <2>2 DEF LiveSlots
<1>5. SubSeq(C, 1, n) = x.chain
  <2>1. n \in Nat /\ \A j \in 1 .. n : C[j] \in Cluster
    BY <1>1
  <2> HIDE DEF n, C
  <2>2. /\ SubSeq(C, 1, n) \in Seq(Cluster)
        /\ Len(SubSeq(C, 1, n)) = IF 1 <= n THEN n - 1 + 1 ELSE 0
        /\ \A j \in 1 .. n - 1 + 1 : SubSeq(C, 1, n)[j] = C[1 + j - 1]
    BY <2>1, SubSeqProperties
  <2>3. Len(SubSeq(C, 1, n)) = n /\ \A j \in 1 .. n : SubSeq(C, 1, n)[j] = C[j]
    BY <2>1, <2>2
  <2>4. n = Len(x.chain)
    BY DEF n
  <2>5. \A j \in 1 .. n : SubSeq(C, 1, n)[j] = x.chain[j]
    BY <1>1, <2>3
  <2>6. QED
    BY <1>1, <2>2, <2>3, <2>4, <2>5, SeqEqual
<1>6. QED
  BY <1>1, <1>2, <1>4, <1>5

\* No promise outlives its call.
LEMMA PromisesEnd ==
  ASSUME SparedInv, Next
  PROVE  pc' = "idle" => spared' = {}
<1>1. SUFFICES ASSUME pc' = "idle", ~(pc = "idle" /\ spared' = spared) PROVE spared' = {}
  BY DEF SparedInv
<1>2. CASE Quiet
  <2>1. CASE SearchNext \/ SearchFinds \/ SearchEnds \/ SearchFails \/ NoSpace
    BY <1>1, <2>1 DEF SearchNext, SearchFinds, SearchEnds, SearchFails, NoSpace, Searching, NoEntry,
       Truncate, Return, Returns
  <2>2. CASE FillFlush \/ OwnFlush \/ DotsFlush \/ SyncFlush \/ DeleteFlush
    BY <1>1, <2>2 DEF FillFlush, OwnFlush, DotsFlush, SyncFlush, DeleteFlush, FlushesTo, RemoveReturns,
       Return, Returns
  <2>3. CASE ScanNext \/ ScanFindsEntry \/ ScanEnds
    BY <1>1, <2>3 DEF ScanNext, ScanFindsEntry, ScanEnds, Truncate, Return, Returns
  <2>4. CASE RmRfSkips \/ RmRfFile \/ RmRfDir \/ RmRfEnds
    BY <1>1, <2>4 DEF RmRfSkips, RmRfFile, RmRfDir, RmRfEnds, InTop, Truncate, Return, Returns
  <2>5. CASE Fails
    BY <2>5 DEF Fails, Returns
  <2>6. CASE \/ RmDirCall \/ Close
             \/ \E op \in {"open", "create", "mkdir", "remove"}, d \in {"root", "h"}, n \in Name :
                  OpenCall(op, d, n)
             \/ \E d \in {"root", "h"} : RmRfCall(d)
    BY <1>1, <2>6 DEF RmDirCall, Close, OpenCall, RmRfCall, Begin
  <2>7. QED
    BY <1>2, <2>1, <2>2, <2>3, <2>4, <2>5, <2>6 DEF Quiet
<1>3. CASE Zero \/ Fill \/ OwnZero \/ OwnSync \/ Attribute \/ Dots \/ FreeAll \/ Sync \/ Delete
  BY <1>1, <1>3 DEF Zero, Fill, OwnZero, OwnSync, Attribute, Dots, FreeAll, Sync, Delete, Rewrites
<1>4. CASE \E c \in Other : Grow(c) \/ Own(c)
  BY <1>1, <1>4 DEF Grow, Own
<1>5. CASE \E s \in LiveSlots(View), c \in Other : FileIsWritten(s, c)
  BY <1>1, <1>5 DEF FileIsWritten
<1>6. QED
  BY <1>2, <1>3, <1>4, <1>5, NextCases

\* Each step spares what it has to.
LEMMA NextSpared ==
  ASSUME ~EmptyFiles, TInv, SparedInv, [Next]_vars
  PROVE  SparedInv'
<1>1. CASE Next /\ ~damaged'
  <2>1. ~damaged /\ TInv'
    BY <1>1, DamageStays, NextTInv
  <2>2. CASE Quiet
    <3>1. pc' = "idle" => spared' = {} \/ pc = "idle"
      BY <1>1, PromisesEnd
    <3>2. QED
      BY <1>1, <2>1, <2>2, <3>1, QuietSpares
  <2>3. CASE \/ Zero \/ Fill \/ OwnZero \/ OwnSync \/ Attribute \/ Dots \/ FreeAll \/ Sync \/ Delete
             \/ \E c \in Other : Grow(c) \/ Own(c)
    BY <1>1, <2>1, <2>3, ChangesSpare
  <2>4. CASE \E s \in LiveSlots(View), c \in Other : FileIsWritten(s, c)
    <3>1. pc = "idle" /\ pc' = "idle" /\ spared' = spared
      BY <2>4 DEF FileIsWritten
    <3>2. spared' = {}
      BY <3>1 DEF SparedInv
    <3>3. QED
      BY <3>2 DEF SparedInv
  <2>5. QED
    BY <1>1, <2>2, <2>3, <2>4, NextCases
<1>2. CASE Next /\ damaged'
  BY <1>2, PromisesEnd DEF SparedInv
<1>3. CASE UNCHANGED vars
  <2>1. /\ fat' = fat /\ dir' = dir /\ hand' = hand /\ this' = this /\ pc' = pc /\ call' = call
        /\ empty' = empty /\ damaged' = damaged /\ spared' = spared
    BY <1>3 DEF vars, storage, locals
  <2>2. Loose' = Loose /\ Unzeroed' = Unzeroed /\ Threatened' = Threatened
    BY <2>1 DEF Loose, Unzeroed, dirFile, Threatened, Removing, Marked
  <2>3. QED
    BY <2>1, <2>2 DEF SparedInv
<1>4. QED
  BY <1>1, <1>2, <1>3

\* Before the first call nothing is promised.
LEMMA InitSpared == Init => SparedInv
  BY DEF Init, SparedInv

\* The power may go after any write to the card: by then every entry of the
\* volume before the call, other than the one it replaces or removes, is where
\* it was, with the clusters it had (open, truncate, remove, rmRfStar), if
\* callers pass no empty file as dirFile.
THEOREM OthersAreSpared == ASSUME ~EmptyFiles PROVE Spec => CrashSparesOthers
<1> DEFINE I == DInv /\ TInv /\ ReachInv /\ SparedInv
           Safe == card' # card =>
                     \A x \in spared :
                       /\ x.slot \in LiveSlots(card') /\ EntryAt(card', x.slot) = x.entry
                       /\ SubSeq(Chain(card'.fat, x.entry.first), 1, Len(x.chain)) = x.chain
<1>1. Init => I
  BY InitDInv, InitTInv, InitReach, InitSpared
<1>2. I /\ [Next]_vars => I'
  BY StutterDInv, StutterTInv, NextReach, NextSpared
<1>3. I /\ [Next]_vars => [Safe]_vars
  <2>1. SUFFICES ASSUME I, Next, card' # card, NEW x \in spared
        PROVE  /\ x.slot \in LiveSlots(card') /\ EntryAt(card', x.slot) = x.entry
               /\ SubSeq(Chain(card'.fat, x.entry.first), 1, Len(x.chain)) = x.chain
    OBVIOUS
  <2>2. pc # "idle"
    BY <2>1 DEF SparedInv
  <2>3. ~damaged
    BY <2>1, <2>2 DEF TInv
  <2>4. card' = View
    BY <2>1, <2>2, WritesView DEF DInv
  <2>5. QED
    BY <2>1, <2>3, <2>4, SparedIsThere
<1>4. QED
  BY <1>1, <1>2, <1>3, PTL DEF Spec, CrashSparesOthers

=============================================================================
