-------------------------- MODULE DirectoryProofs --------------------------
(***************************************************************************)
(* Proofs about Directory, for any set of clusters, names and entries in a *)
(* cluster and any number of refused accesses.                             *)
(*                                                                         *)
(* What the card lacks is the block the cache holds: written back, it      *)
(* gives what a caller reads (LacksOne).  Each step changes one block,     *)
(* which then is the one held, or begins a new one after the old has been  *)
(* flushed.  Each call ends with a flush or without a change since the     *)
(* last one (Flushed).                                                     *)
(*                                                                         *)
(* The rest is about the tree (TInv).  The FAT spells out chains that end  *)
(* and share nothing; a chain begins at the root or in an entry, and an    *)
(* entry in use stands in a cluster a directory counts; a directory is in  *)
(* order when no never used entry comes before one in use and no name is   *)
(* in it twice.  While a call runs, a slot may be out of order (Loose) or  *)
(* a directory not zeroed yet (Unzeroed); pc says which.  What handles and *)
(* the frames of rmRfStar say of their directories stays true because the  *)
(* clusters between a handle and the root keep their entries until the     *)
(* call itself changes them.                                               *)
(***************************************************************************)
EXTENDS Directory, SequenceTheorems, FiniteSetTheorems, WellFoundedInduction, TLAPS

-----------------------------------------------------------------------------
(* The block the cache holds is all the card lacks. *)

Shape ==
  /\ DOMAIN fat = Cluster /\ fat = [c \in Cluster |-> fat[c]]
  /\ DOMAIN dir = Cluster /\ dir = [c \in Cluster |-> dir[c]]

\* The block held, written back, gives what a caller reads.
LacksOne == Shape /\ Stored(held) = View

\* Where a call has nothing left to flush, unless an access was refused.
Flushed ==
  /\ refused \in Nat
  /\ pc \in {"idle", "search", "grow", "own", "attribute", "delete", "free", "scan", "rmRf"}
       /\ refused = 0 => card = View

\* A flush leaves nothing to flush.
LEMMA FlushKeeps ==
  ASSUME LacksOne, UNCHANGED image, Flushes
  PROVE  LacksOne' /\ card' = View'
BY DEF LacksOne, Shape, Flushes, Stored, View, image

\* Nor does reading, which flushes or does nothing.
LEMMA ReadKeeps ==
  ASSUME LacksOne, UNCHANGED image, NEW bs, Reads(bs)
  PROVE  LacksOne' /\ (card = View => card' = View')
<1>1. CASE UNCHANGED <<card, held>>
  BY <1>1 DEF LacksOne, Shape, Stored, View, image
<1>2. CASE Flushes
  BY <1>2, FlushKeeps
<1>3. QED
  BY <1>1, <1>2 DEF Reads

\* A refused access leaves the card as it is, or has flushed.
LEMMA RefusalKeeps ==
  ASSUME LacksOne, UNCHANGED <<image, held>>, card' \in {card, Stored(held)}
  PROVE  LacksOne'
<1>1. held' = held /\ fat' = fat /\ dir' = dir
  BY DEF image
<1>2. CASE card' = card
  BY <1>1, <1>2 DEF LacksOne, Shape, Stored, View
<1>3. CASE card' = Stored(held)
  <2>1. card' = View' /\ View' = View
    BY <1>1, <1>3 DEF LacksOne, View
  <2>2. Stored(held)' = View'
    BY <1>1, <2>1 DEF LacksOne, Shape, Stored, View
  <2>3. QED
    BY <1>1, <2>2 DEF LacksOne, Shape
<1>4. QED
  BY <1>2, <1>3

\* Changing one block only, which then is the one held.
LEMMA HoldsKeeps ==
  ASSUME LacksOne, NEW b, Holds(b), UNCHANGED fat,
         DOMAIN dir' = Cluster, dir' = [c \in Cluster |-> dir'[c]],
         \A c \in Cluster \ {b} : dir'[c] = dir[c]
  PROVE  LacksOne'
<1>1. Shape'
  BY DEF LacksOne, Shape
<1>2. CASE held = b
  <2>1. card' = card /\ held' = b
    BY <1>2 DEF Holds
  <2>2. CASE b \in Cluster
    <3>1. b # NoBlock /\ b # FatBlock
      BY <2>2, BlocksAssumption
    <3>2. [card EXCEPT !.dir[b] = dir[b]] = [fat |-> fat, dir |-> dir]
      BY <1>2, <3>1 DEF LacksOne, Stored, View
    <3>3. [card EXCEPT !.dir[b] = dir'[b]] = [fat |-> fat, dir |-> dir']
      BY <2>2, <3>2 DEF LacksOne, Shape
    <3>4. QED
      BY <1>1, <2>1, <3>1, <3>3 DEF LacksOne, Stored, View
  <2>3. CASE b \notin Cluster
    <3>1. dir' = dir
      BY <2>3 DEF LacksOne, Shape
    <3>2. QED
      BY <1>1, <1>2, <2>1, <3>1 DEF LacksOne, Stored, View
  <2>4. QED
    BY <2>2, <2>3
<1>3. CASE held # b
  <2>1. card' = View /\ held' = b
    BY <1>3 DEF Holds, LacksOne
  <2>2. CASE b \in Cluster
    <3>1. b # NoBlock /\ b # FatBlock
      BY <2>2, BlocksAssumption
    <3>2. [View EXCEPT !.dir[b] = dir'[b]] = [fat |-> fat, dir |-> dir']
      BY <2>2 DEF LacksOne, Shape, View
    <3>3. QED
      BY <1>1, <2>1, <3>1, <3>2 DEF LacksOne, Stored, View
  <2>3. CASE b \notin Cluster
    <3>1. dir' = dir /\ View' = View
      BY <2>3 DEF LacksOne, Shape, View
    <3>2. Stored(held)' = View'
      BY <1>1, <2>1, <3>1 DEF LacksOne, Shape, Stored, View
    <3>3. QED
      BY <1>1, <3>2 DEF LacksOne
  <2>4. QED
    BY <2>2, <2>3
<1>4. QED
  BY <1>2, <1>3

\* Nor does changing a block: another one held is flushed first.
LEMMA PutKeeps ==
  ASSUME LacksOne, UNCHANGED fat, NEW s, NEW e, Puts(s, e)
  PROVE  LacksOne'
<1>1. DOMAIN dir' = Cluster /\ dir' = [c \in Cluster |-> dir'[c]]
      /\ \A c \in Cluster \ {s[1]} : dir'[c] = dir[c]
  BY DEF LacksOne, Shape, Puts
<1>2. QED
  BY <1>1, HoldsKeeps DEF Puts

\* The FAT is one block.
LEMMA PutFatKeeps ==
  ASSUME LacksOne, UNCHANGED dir, NEW f, f = [c \in Cluster |-> f[c]], PutsFat(f)
  PROVE  LacksOne'
<1>1. fat' = f /\ held' = FatBlock /\ card' = (IF held = FatBlock THEN card ELSE View)
  BY DEF PutsFat, Holds, LacksOne
<1>2. Shape'
  BY <1>1 DEF LacksOne, Shape
<1>3. [card' EXCEPT !.fat = f] = [fat |-> f, dir |-> dir]
  <2>1. CASE held = FatBlock
    <3>1. [card EXCEPT !.fat = fat] = [fat |-> fat, dir |-> dir]
      BY <2>1 DEF LacksOne, Stored, View, FatBlock, NoBlock
    <3>2. QED
      BY <1>1, <2>1, <3>1
  <2>2. CASE held # FatBlock
    BY <1>1, <2>2 DEF View
  <2>3. QED
    BY <2>1, <2>2
<1>4. QED
  BY <1>1, <1>2, <1>3 DEF LacksOne, Stored, View, FatBlock, NoBlock

\* A block that begins empty replaces the one held.
LEMMA ZeroedKeeps ==
  ASSUME LacksOne, UNCHANGED fat, NEW c, Zeroes(c)
  PROVE  LacksOne'
<1>1. card' = View /\ held' = c /\ dir' = [dir EXCEPT ![c] = Zeroed]
  BY DEF Zeroes, LacksOne
<1>2. Shape'
  BY <1>1 DEF LacksOne, Shape
<1>3. CASE c \in Cluster
  <2>1. c # NoBlock /\ c # FatBlock
    BY <1>3, BlocksAssumption
  <2>2. [View EXCEPT !.dir[c] = dir'[c]] = [fat |-> fat, dir |-> dir']
    BY <1>1, <1>3 DEF LacksOne, Shape, View
  <2>3. QED
    BY <1>1, <1>2, <2>1, <2>2 DEF LacksOne, Stored, View
<1>4. CASE c \notin Cluster
  <2>1. dir' = dir /\ View' = View
    BY <1>1, <1>4 DEF LacksOne, Shape, View
  <2>2. Stored(held)' = View'
    BY <1>1, <1>2, <2>1 DEF LacksOne, Shape, Stored, View
  <2>3. QED
    BY <1>2, <2>2 DEF LacksOne
<1>5. QED
  BY <1>3, <1>4

DInv == LacksOne /\ Flushed

pcs == <<pc, refused>>

\* On a volume just mounted the card has all there is.
LEMMA InitDInv == Init => DInv
<1>1. SUFFICES ASSUME Init PROVE DInv
  OBVIOUS
<1>2. PICK r \in {Root16} \cup Roots32, full \in BOOLEAN, label \in Name \cup {NoName} :
        /\ fat = [c \in Cluster |->
                   IF \A j \in DOMAIN r.clusters : r.clusters[j] # c THEN Free
                   ELSE IF c = r.clusters[Len(r.clusters)] THEN EOC ELSE r.clusters[2]]
        /\ dir = RootImage(r.clusters, full, label)
  BY <1>1 DEF Init
<1>3. DOMAIN fat = Cluster /\ fat = [c \in Cluster |-> fat[c]]
  BY <1>2
<1>4. DOMAIN dir = Cluster /\ dir = [c \in Cluster |-> dir[c]]
  BY <1>2 DEF RootImage
<1>5. card = View /\ held = NoBlock /\ refused = 0
  BY <1>1 DEF Init
<1>a. Stored(held) = View
  BY <1>5 DEF Stored
<1>6. LacksOne
  BY <1>3, <1>4, <1>a DEF LacksOne, Shape
<1>7. QED
  BY <1>5, <1>6 DEF DInv, Flushed

\* A step that changes no block but may write the one held.
LEMMA ReadSteps ==
  ASSUME DInv, UNCHANGED image, refused' = refused,
         \/ UNCHANGED storage
         \/ Flushes
         \/ \E bs : Reads(bs),
         \/ pc \in {"idle", "search", "grow", "own", "attribute", "delete", "free", "scan", "rmRf"}
         \/ pc' \notin {"idle", "search", "grow", "own", "attribute", "delete", "free", "scan", "rmRf"}
         \/ Flushes
  PROVE  DInv'
<1>1. CASE UNCHANGED storage
  BY <1>1, FlushKeeps DEF DInv, storage, Flushed, LacksOne, Shape, Stored, View
<1>2. CASE Flushes
  BY <1>2, FlushKeeps DEF DInv, Flushed
<1>3. CASE \E bs : Reads(bs)
  <2>1. PICK bs : Reads(bs)
    BY <1>3
  <2>2. LacksOne' /\ (card = View => card' = View')
    BY <2>1, ReadKeeps DEF DInv
  <2>3. CASE Flushes
    BY <2>3, <1>2
  <2>4. CASE ~Flushes
    BY <2>2, <2>4 DEF DInv, Flushed
  <2>5. QED
    BY <2>3, <2>4
<1>4. QED
  BY <1>1, <1>2, <1>3

\* A step that leaves something to flush.
LEMMA WriteSteps ==
  ASSUME DInv, LacksOne', refused' = refused,
         pc' \notin {"idle", "search", "grow", "own", "attribute", "delete", "free", "scan", "rmRf"}
  PROVE  DInv'
BY DEF DInv, Flushed

\* Each step inside a call keeps it.
LEMMA StepDInv == ASSUME DInv, Step PROVE DInv'
<1> USE DEF goesOn
<1>1. CASE SearchNext
  BY <1>1, ReadSteps DEF SearchNext, Searching, ReadsHere
<1>2. CASE SearchFinds
  <2>1. UNCHANGED image /\ refused' = refused /\ pc = "search" /\ \E bs : Reads(bs)
    BY <1>2 DEF SearchFinds, Searching, ReadsHere
  <2>2. QED
    BY <2>1, ReadSteps
<1>3. CASE SearchEnds
  <2>1. UNCHANGED image /\ refused' = refused /\ pc = "search" /\ (UNCHANGED storage \/ \E bs : Reads(bs))
    BY <1>3 DEF SearchEnds, Searching, ReadsHere, NoEntry, Return, storage, image
  <2>2. QED
    BY <2>1, ReadSteps
<1>4. CASE SearchFails
  <2>1. UNCHANGED image /\ refused' = refused /\ pc = "search" /\ (UNCHANGED storage \/ \E bs : Reads(bs))
    BY <1>4 DEF SearchFails, Searching, ReadsHere, Return, storage, image
  <2>2. QED
    BY <2>1, ReadSteps
<1>5. CASE NoSpace
  BY <1>5, ReadSteps DEF NoSpace, Return, storage, image
<1>6. ASSUME NEW c \in Other, Grow(c) PROVE DInv'
  <2>1. LacksOne'
    BY <1>6, PutFatKeeps DEF Grow, DInv, Appended
  <2>2. QED
    BY <1>6, <2>1, WriteSteps DEF Grow
<1>7. ASSUME NEW c \in Other, Own(c) PROVE DInv'
  <2>1. LacksOne'
    BY <1>7, PutFatKeeps DEF Own, DInv, Appended
  <2>2. QED
    BY <1>7, <2>1, WriteSteps DEF Own
<1>8. CASE Zero
  BY <1>8, ZeroedKeeps, WriteSteps DEF Zero, DInv
<1>9. CASE Fill
  BY <1>9, PutKeeps, WriteSteps DEF Fill, DInv
<1>10. CASE FillFlush
  <2>1. UNCHANGED image /\ refused' = refused /\ Flushes
    BY <1>10 DEF FillFlush, Return
  <2>2. QED
    BY <2>1, ReadSteps
<1>11. CASE OwnZero
  BY <1>11, ZeroedKeeps, WriteSteps DEF OwnZero, DInv
<1>12. CASE OwnSync
  BY <1>12, PutKeeps, WriteSteps DEF OwnSync, Rewrites, DInv
<1>13. CASE OwnFlush
  BY <1>13, ReadSteps DEF OwnFlush, FlushesTo
<1>14. CASE Attribute
  BY <1>14, PutKeeps, WriteSteps DEF Attribute, Rewrites, DInv
<1>15. CASE Dots
  <2>1. DOMAIN dir' = Cluster /\ dir' = [c \in Cluster |-> dir'[c]]
        /\ \A c \in Cluster \ {this.first} : dir'[c] = dir[c]
    BY <1>15 DEF Dots, DInv, LacksOne, Shape
  <2>2. LacksOne'
    BY <1>15, <2>1, HoldsKeeps DEF Dots, DInv
  <2>3. QED
    BY <1>15, <2>2, WriteSteps DEF Dots
<1>16. CASE DotsFlush
  BY <1>16, ReadSteps DEF DotsFlush, Return
<1>17. CASE FreeAll
  BY <1>17, PutFatKeeps, WriteSteps DEF FreeAll, DInv
<1>18. CASE Sync
  BY <1>18, PutKeeps, WriteSteps DEF Sync, Rewrites, DInv
<1>19. CASE SyncFlush
  BY <1>19, ReadSteps DEF SyncFlush, FlushesTo
<1>20. CASE Delete
  BY <1>20, PutKeeps, WriteSteps DEF Delete, Rewrites, DInv
<1>21. CASE DeleteFlush
  <2>1. UNCHANGED image /\ refused' = refused /\ Flushes
    BY <1>21 DEF DeleteFlush, RemoveReturns, Return
  <2>2. QED
    BY <2>1, ReadSteps
<1>22. CASE ScanNext
  BY <1>22, ReadSteps DEF ScanNext, ReadsScanned
<1>23. CASE ScanFindsEntry
  BY <1>23, ReadSteps DEF ScanFindsEntry, ReadsScanned, Return
<1>24. CASE ScanEnds
  BY <1>24, ReadSteps DEF ScanEnds, ReadsScanned
<1>25. CASE RmRfSkips
  BY <1>25, ReadSteps DEF RmRfSkips, InTop, ReadsTop
<1>26. CASE RmRfFile
  BY <1>26, ReadSteps DEF RmRfFile, InTop, ReadsTop
<1>27. CASE RmRfDir
  BY <1>27, ReadSteps DEF RmRfDir, InTop
<1>28. CASE RmRfEnds
  <2>1. UNCHANGED image /\ refused' = refused /\ pc = "rmRf" /\ (UNCHANGED storage \/ \E bs : Reads(bs))
    BY <1>28 DEF RmRfEnds, InTop, ReadsTop, Return, storage, image
  <2>2. QED
    BY <2>1, ReadSteps
<1>29. QED
  BY <1>1, <1>2, <1>3, <1>4, <1>5, <1>6, <1>7, <1>8, <1>9, <1>10, <1>11, <1>12, <1>13, <1>14,
     <1>15, <1>16, <1>17, <1>18, <1>19, <1>20, <1>21, <1>22, <1>23, <1>24, <1>25, <1>26, <1>27,
     <1>28 DEF Step

\* So does any step.
LEMMA NextDInv == ASSUME DInv, Next PROVE DInv'
<1>1. CASE Step
  BY <1>1, StepDInv
<1>2. CASE Fails
  <2>1. LacksOne'
    BY <1>2, RefusalKeeps DEF Fails, DInv
  <2>2. refused \in Nat /\ refused' = refused + 1
    BY <1>2 DEF Fails, DInv, Flushed
  <2>3. QED
    BY <2>1, <2>2 DEF DInv, Flushed
<1>3. ASSUME NEW op, NEW d, NEW n, Begin(op, d, n) PROVE DInv'
  BY <1>3, ReadSteps DEF Begin, storage, image
<1>4. CASE Close
  BY <1>4, ReadSteps DEF Close
<1>5. ASSUME NEW s \in LiveSlots(View), NEW c \in Other, FileIsWritten(s, c) PROVE DInv'
  <2> DEFINE first(cc) == [dir EXCEPT ![cc] = Data, ![s[1]][s[2]].first = cc, ![s[1]][s[2]].size = 1]
  <2>1. \E cc : fat' = Appended(NoCluster, cc) /\ dir' = first(cc)
    BY <1>5 DEF FileIsWritten
  <2>2. PICK cc : fat' = Appended(NoCluster, cc) /\ dir' = first(cc)
    BY <2>1
  <2>3. DOMAIN dir = Cluster
    BY DEF DInv, LacksOne, Shape
  <2>4. DOMAIN dir' = Cluster /\ dir' = [x \in Cluster |-> dir'[x]]
    BY <2>2, <2>3
  <2>5. DOMAIN fat' = Cluster /\ fat' = [x \in Cluster |-> fat'[x]]
    BY <2>2 DEF Appended
  <2>6. card' = View' /\ held' = NoBlock /\ refused' = refused /\ refused \in Nat
    BY <1>5 DEF FileIsWritten, DInv, Flushed
  <2>a. Stored(held)' = View'
    BY <2>6 DEF Stored
  <2>7. LacksOne'
    BY <2>4, <2>5, <2>a DEF LacksOne, Shape
  <2>8. QED
    BY <2>6, <2>7 DEF DInv, Flushed
<1>6. CASE Call
  <2>1. ASSUME NEW op, NEW d, NEW n, OpenCall(op, d, n) PROVE DInv'
    BY <2>1, <1>3 DEF OpenCall
  <2>2. CASE RmDirCall
    BY <2>2, <1>3 DEF RmDirCall
  <2>3. ASSUME NEW d, RmRfCall(d) PROVE DInv'
    BY <2>3, <1>3 DEF RmRfCall
  <2>4. QED
    BY <1>4, <1>5, <1>6, <2>1, <2>2, <2>3 DEF Call
<1>7. QED
  BY <1>1, <1>2, <1>6 DEF Next

\* And one that changes nothing.
LEMMA StutterDInv == ASSUME DInv, [Next]_vars PROVE DInv'
<1>1. CASE Next
  BY <1>1, NextDInv
<1>2. CASE UNCHANGED vars
  <2>1. UNCHANGED <<fat, dir, card, held, pc, refused>>
    BY <1>2 DEF vars, storage
  <2>2. Stored(held)' = Stored(held) /\ View' = View
    BY <2>1 DEF Stored, View
  <2>3. QED
    BY <2>1, <2>2 DEF DInv, LacksOne, Shape, Flushed
<1>3. QED
  BY <1>1, <1>2

\* Of all that was changed the card lacks at most the block the cache holds,
\* whichever accesses were refused (SpiSdVolume.cpp:131-156).
THEOREM CardLacksOneBlock == Spec => [](Stored(held) = View)
<1>1. DInv => Stored(held) = View
  BY DEF DInv, LacksOne
<1>2. QED
  BY InitDInv, StutterDInv, <1>1, PTL DEF Spec

\* A call that returned is on the card, unless an access was refused: each
\* ends in a sync (SpiSdFile.cpp:320, 448, 749, 970).
THEOREM DoneIsDurable == Spec => []Durable
<1>1. DInv => Durable
  BY DEF DInv, Flushed, Durable
<1>2. QED
  BY InitDInv, StutterDInv, <1>1, PTL DEF Spec

-----------------------------------------------------------------------------
(* Chains of clusters. *)

N == Cardinality(Cluster)

\* There are finitely many clusters, and the root is one.
LEMMA ClustersAreFinite == IsFiniteSet(Cluster) /\ N \in Nat /\ N >= 1
<1>1. IsFiniteSet(Other) /\ Cluster = Other \cup {Root}
  BY DirectoryAssumption DEF Cluster
<1>2. IsFiniteSet(Cluster)
  BY <1>1, FS_AddElement
<1>3. N \in Nat
  BY <1>2, FS_CardinalityType DEF N
<1>4. N # 0
  BY <1>1, <1>2, FS_EmptySet DEF N
<1>5. QED
  BY <1>2, <1>3, <1>4

\* A set of numbers that is not empty has a least one.
LEMMA LeastOf ==
  ASSUME NEW S \in SUBSET Nat, S # {}
  PROVE  \E x \in S : \A y \in S : x <= y
<1> DEFINE below == {0 .. x : x \in S}
<1>1. below \subseteq FiniteSubsetsOf(Nat)
  <2>1. SUFFICES ASSUME NEW x \in S PROVE (0 .. x) \in FiniteSubsetsOf(Nat)
    OBVIOUS
  <2>2. IsFiniteSet(0 .. x)
    BY FS_Interval
  <2>3. QED
    BY <2>2 DEF FiniteSubsetsOf
<1>2. below # {}
  OBVIOUS
<1>3. PICK b \in below : \A u \in below : ~ (<<u, b>> \in StrictSubsetOrdering(Nat))
  <2> HIDE DEF below
  <2> QED
    BY <1>1, <1>2, WFMin, FS_StrictSubsetOrderingWellFounded
<1>4. PICK x \in S : b = 0 .. x
  OBVIOUS
<1>5. ASSUME NEW y \in S, y < x PROVE FALSE
  <2>1. (0 .. y) \subseteq 0 .. x /\ x \in 0 .. x /\ x \notin 0 .. y
    BY <1>5
  <2>2. <<0 .. y, b>> \in StrictSubsetOrdering(Nat)
    BY <1>4, <2>1 DEF StrictSubsetOrdering
  <2>3. QED
    BY <1>3, <2>2
<1>6. QED
  BY <1>5

\* Least finds it.
LEMMA LeastIs ==
  ASSUME NEW S \in SUBSET Nat, S # {}
  PROVE  Least(S) \in S /\ \A y \in S : Least(S) <= y
BY LeastOf DEF Least

\* A function that is defined from the value before is one.
LEMMA Recursion ==
  ASSUME NEW m \in Nat, NEW S, NEW first \in S, NEW step \in [S -> S]
  PROVE  \E g \in [0 .. m -> S] :
           g = [n \in 0 .. m |-> IF n = 0 THEN first ELSE step[g[n - 1]]]
<1> DEFINE defined(n) ==
      \E g \in [0 .. n -> S] : g = [i \in 0 .. n |-> IF i = 0 THEN first ELSE step[g[i - 1]]]
<1> DEFINE missing == {n \in Nat : ~defined(n)}
<1>1. SUFFICES ASSUME missing # {} PROVE FALSE
  BY <1>1
<1>2. PICK n \in missing : \A y \in missing : n <= y
  <2> HIDE DEF missing
  <2>1. missing \in SUBSET Nat
    BY DEF missing
  <2>2. QED
    BY <1>1, <2>1, LeastOf
<1>3. CASE n = 0
  <2> DEFINE g == [i \in 0 .. 0 |-> first]
  <2>1. g \in [0 .. n -> S] /\ g = [i \in 0 .. n |-> IF i = 0 THEN first ELSE step[g[i - 1]]]
    BY <1>3
  <2>2. defined(n)
    BY <2>1
  <2>3. QED
    BY <2>2
<1>4. CASE n # 0
  <2>1. n - 1 \in Nat /\ n - 1 \notin missing /\ n \in Nat
    BY <1>2, <1>4
  <2>2. PICK g \in [0 .. n - 1 -> S] :
          g = [i \in 0 .. n - 1 |-> IF i = 0 THEN first ELSE step[g[i - 1]]]
    BY <2>1
  <2> DEFINE h == [i \in 0 .. n |-> IF i = n THEN step[g[n - 1]] ELSE g[i]]
  <2>3. h \in [0 .. n -> S]
    BY <2>1, <2>2
  <2>4. ASSUME NEW i \in 0 .. n PROVE h[i] = IF i = 0 THEN first ELSE step[h[i - 1]]
    BY <1>4, <2>1, <2>2
  <2>5. h = [i \in 0 .. n |-> IF i = 0 THEN first ELSE step[h[i - 1]]]
    <3> HIDE DEF h
    <3> QED
      BY <2>3, <2>4
  <2>6. defined(n)
    <3> HIDE DEF h
    <3> QED
      BY <2>3, <2>5
  <2>7. QED
    BY <2>6
<1>5. QED
  BY <1>3, <1>4

FatType == [Cluster -> Cluster \cup {EOC, Free}]

\* What an entry of the FAT, or of a directory, can name.
Link == Cluster \cup {NoCluster, EOC, Free}

\* Chains do not meet.
Apart(f) == \A x, y \in Cluster : f[x] \in Cluster /\ f[x] = f[y] => x = y

\* No chain goes on in a free cluster.
Taken(f) == \A x \in Cluster : f[x] \in Cluster => f[f[x]] # Free

Begins(f, c) == f[c] # Free /\ \A x \in Cluster : f[x] # c

Linked(f, s) ==
  /\ s \in Seq(Cluster) /\ Len(s) >= 1
  /\ \A i \in 1 .. Len(s) - 1 : f[s[i]] = s[i + 1]

\* What is listed of a chain from d in n steps.
Walked(f, s, d, n) ==
  /\ s \in Seq(Cluster) /\ Len(s) <= n
  /\ d \notin Cluster => s = << >>
  /\ d \in Cluster /\ n > 0 =>
       /\ Linked(f, s) /\ s[1] = d
       /\ Len(s) < n => f[s[Len(s)]] \notin Cluster

\* A cluster put before what is listed of the chain behind it.
LEMMA WalkOn ==
  ASSUME NEW f \in FatType, NEW d \in Cluster, NEW n \in Nat, NEW s, Walked(f, s, f[d], n)
  PROVE  Walked(f, <<d>> \o s, d, n + 1)
<1> DEFINE t == <<d>> \o s
<1>1. s \in Seq(Cluster) /\ Len(s) <= n /\ Len(s) \in Nat
  BY DEF Walked
<1>2. /\ t \in Seq(Cluster) /\ Len(t) = Len(s) + 1 /\ t[1] = d
      /\ \A i \in 1 .. Len(s) : t[i + 1] = s[i]
  BY <1>1
<1> HIDE DEF t
<1>3. CASE f[d] \notin Cluster
  <2>1. s = << >> /\ Len(t) = 1
    BY <1>2, <1>3 DEF Walked
  <2>2. Linked(f, t)
    BY <1>2, <2>1 DEF Linked
  <2>3. QED
    BY <1>1, <1>2, <1>3, <2>1, <2>2 DEF Walked, t
<1>4. CASE f[d] \in Cluster /\ n = 0
  <2>1. Len(t) = 1 /\ 1 .. Len(t) - 1 = {}
    BY <1>1, <1>2, <1>4
  <2>2. Linked(f, t)
    BY <1>2, <2>1 DEF Linked
  <2>3. Len(t) <= n + 1 /\ ~ (Len(t) < n + 1)
    BY <1>4, <2>1
  <2>4. QED
    BY <1>2, <2>2, <2>3 DEF Walked, t
<1>5. CASE f[d] \in Cluster /\ n # 0
  <2>1. n > 0
    BY <1>5
  <2>2. Linked(f, s) /\ s[1] = f[d] /\ (Len(s) < n => f[s[Len(s)]] \notin Cluster)
    BY <1>5, <2>1 DEF Walked
  <2>3. Len(s) >= 1 /\ \A i \in 1 .. Len(s) - 1 : f[s[i]] = s[i + 1]
    BY <2>2 DEF Linked
  <2>4. ASSUME NEW i \in 1 .. Len(t) - 1 PROVE f[t[i]] = t[i + 1]
    <3>1. CASE i = 1
      <4>1. 1 \in 1 .. Len(s)
        BY <1>1, <2>3
      <4>2. QED
        BY <1>2, <2>2, <3>1, <4>1
    <3>2. CASE i # 1
      <4>1. i - 1 \in 1 .. Len(s) - 1 /\ i - 1 \in 1 .. Len(s) /\ i - 1 + 1 = i /\ i \in 1 .. Len(s)
        BY <1>1, <1>2, <3>2
      <4>2. t[i - 1 + 1] = s[i - 1] /\ t[i + 1] = s[i] /\ f[s[i - 1]] = s[i - 1 + 1]
        BY <1>2, <2>3, <4>1
      <4>3. QED
        BY <4>1, <4>2
    <3>3. QED
      BY <3>1, <3>2
  <2>5. Linked(f, t)
    BY <1>1, <1>2, <2>4 DEF Linked
  <2>6. t[Len(t)] = s[Len(s)]
    <3>1. Len(s) \in 1 .. Len(s)
      BY <1>1, <2>3
    <3>2. QED
      BY <1>2, <3>1
  <2>7. Len(t) <= n + 1 /\ (Len(t) < n + 1 => Len(s) < n)
    BY <1>1, <1>2
  <2>8. QED
    BY <1>2, <1>5, <2>2, <2>5, <2>6, <2>7 DEF Walked, t
<1>6. QED
  BY <1>3, <1>4, <1>5

\* The chains from all clusters, listed so far.
Table == [Link -> Seq(Cluster)]

\* The lists of n steps, for every n, are a function of n.
LEMMA TableRecursion ==
  ASSUME NEW none \in Table, NEW step \in [Table -> Table]
  PROVE  \E g \in [0 .. N -> Table] :
           g = [n \in 0 .. N |-> IF n = 0 THEN none ELSE step[g[n - 1]]]
<1>1. N \in Nat
  BY ClustersAreFinite
<1>2. QED
  BY <1>1, Recursion

\* A chain is a sequence of clusters, each named by the entry of the one before.
LEMMA ChainWalked ==
  ASSUME NEW f \in FatType, NEW c \in Link
  PROVE  Walked(f, Chain(f, c), c, N)
<1> DEFINE none == [d \in Link |-> << >>]
           step == [h \in Table |->
                     [d \in Link |-> IF d \in Cluster THEN <<d>> \o h[f[d]] ELSE << >>]]
           from == CHOOSE from : from = [n \in 0 .. N |-> [d \in Link |->
                     IF n = 0 \/ d \notin Cluster THEN << >> ELSE <<d>> \o from[n - 1][f[d]]]]
<1>1. none \in Table
  BY DEF Table
<1>2. step \in [Table -> Table]
  <2>1. SUFFICES ASSUME NEW h \in Table, NEW d \in Cluster
        PROVE  <<d>> \o h[f[d]] \in Seq(Cluster)
    BY DEF Table
  <2>2. f[d] \in Link
    BY DEF FatType, Link
  <2>3. h[f[d]] \in Seq(Cluster) /\ <<d>> \in Seq(Cluster)
    BY <2>2 DEF Table
  <2>4. QED
    BY <2>3
<1>3. PICK g \in [0 .. N -> Table] :
        g = [n \in 0 .. N |-> IF n = 0 THEN none ELSE step[g[n - 1]]]
  <2> HIDE DEF step, none
  <2> QED
    BY <1>1, <1>2, TableRecursion
<1>4. \A n \in 0 .. N : (IF n = 0 THEN none ELSE step[g[n - 1]]) = [d \in Link |->
          IF n = 0 \/ d \notin Cluster THEN << >> ELSE <<d>> \o g[n - 1][f[d]]]
  <2>1. SUFFICES ASSUME NEW n \in 0 .. N, n # 0
        PROVE  step[g[n - 1]] = [d \in Link |->
                 IF n = 0 \/ d \notin Cluster THEN << >> ELSE <<d>> \o g[n - 1][f[d]]]
    OBVIOUS
  <2>2. n - 1 \in 0 .. N
    BY <2>1, ClustersAreFinite
  <2>3. g[n - 1] \in Table
    BY <1>3, <2>2
  <2>4. QED
    BY <2>1, <2>3
<1>5. g = [n \in 0 .. N |-> [d \in Link |->
          IF n = 0 \/ d \notin Cluster THEN << >> ELSE <<d>> \o g[n - 1][f[d]]]]
  <2> HIDE DEF step, none
  <2> QED
    BY <1>3, <1>4
<1>6. from = [n \in 0 .. N |-> [d \in Link |->
          IF n = 0 \/ d \notin Cluster THEN << >> ELSE <<d>> \o from[n - 1][f[d]]]]
  BY <1>5
<1>7. Chain(f, c) = from[N][c]
  BY DEF Chain, N, Link
<1> HIDE DEF from
<1>8. ASSUME NEW h, h = [n \in 0 .. N |-> [d \in Link |->
          IF n = 0 \/ d \notin Cluster THEN << >> ELSE <<d>> \o h[n - 1][f[d]]]]
      PROVE  \A n \in 0 .. N, d \in Link :
               h[n][d] = IF n = 0 \/ d \notin Cluster THEN << >> ELSE <<d>> \o h[n - 1][f[d]]
  <2>1. SUFFICES ASSUME NEW n \in 0 .. N, NEW d \in Link
        PROVE  h[n][d] = IF n = 0 \/ d \notin Cluster THEN << >> ELSE <<d>> \o h[n - 1][f[d]]
    OBVIOUS
  <2>2. h[n] = [e \in Link |->
          IF n = 0 \/ e \notin Cluster THEN << >> ELSE <<e>> \o h[n - 1][f[e]]]
    BY <1>8, Zenon
  <2>3. QED
    BY <2>2
<1>9. \A n \in 0 .. N, d \in Link :
        from[n][d] = IF n = 0 \/ d \notin Cluster THEN << >> ELSE <<d>> \o from[n - 1][f[d]]
  BY <1>6, <1>8
<1> DEFINE bad == {n \in 0 .. N : \E d \in Link : ~Walked(f, from[n][d], d, n)}
<1>10. bad = {}
  <2>1. SUFFICES ASSUME bad # {} PROVE FALSE
    OBVIOUS
  <2>2. PICK n \in bad : \A y \in bad : n <= y
    <3>1. bad \in SUBSET Nat
      BY ClustersAreFinite
    <3> HIDE DEF bad
    <3>2. QED
      BY <2>1, <3>1, LeastOf
  <2>3. PICK d \in Link : ~Walked(f, from[n][d], d, n)
    BY <2>2
  <2>4. n \in 0 .. N /\ n \in Nat
    BY <2>2, ClustersAreFinite
  <2>5. CASE n = 0 \/ d \notin Cluster
    <3>1. from[n][d] = << >>
      BY <1>9, <2>4, <2>5
    <3>2. Len(<< >>) = 0 /\ << >> \in Seq(Cluster)
      OBVIOUS
    <3>3. QED
      BY <2>3, <2>4, <2>5, <3>1, <3>2 DEF Walked
  <2>6. CASE n # 0 /\ d \in Cluster
    <3>1. n - 1 \in 0 .. N /\ n - 1 \in Nat /\ n - 1 \notin bad /\ n - 1 + 1 = n
      BY <2>2, <2>4, <2>6, ClustersAreFinite
    <3>2. f[d] \in Link
      BY <2>6 DEF FatType, Link
    <3>3. Walked(f, from[n - 1][f[d]], f[d], n - 1)
      BY <3>1, <3>2
    <3>4. Walked(f, <<d>> \o from[n - 1][f[d]], d, n - 1 + 1)
      <4> HIDE DEF bad
      <4> QED
        BY <2>6, <3>1, <3>3, WalkOn
    <3>5. from[n][d] = <<d>> \o from[n - 1][f[d]]
      BY <1>9, <2>4, <2>6
    <3>6. QED
      BY <2>3, <3>1, <3>4, <3>5
  <2>7. QED
    BY <2>5, <2>6
<1>11. N \in 0 .. N
  BY ClustersAreFinite
<1>12. QED
  BY <1>7, <1>10, <1>11

\* What Chain lists, whatever stands in the FAT.
LEMMA ChainIs ==
  ASSUME NEW f \in FatType, NEW c \in Link
  PROVE  /\ Chain(f, c) \in Seq(Cluster) /\ Len(Chain(f, c)) <= N
         /\ c \notin Cluster => Chain(f, c) = << >>
         /\ c \in Cluster =>
              /\ Linked(f, Chain(f, c)) /\ Chain(f, c)[1] = c
              /\ Len(Chain(f, c)) < N => f[Chain(f, c)[Len(Chain(f, c))]] \notin Cluster
<1>1. N > 0
  BY ClustersAreFinite
<1>2. QED
  BY <1>1, ChainWalked DEF Walked

\* A sequence that follows the entries to an end is the chain.
LEMMA ChainOf ==
  ASSUME NEW f \in FatType, NEW s, Linked(f, s), Len(s) <= N, f[s[Len(s)]] \notin Cluster
  PROVE  Chain(f, s[1]) = s
<1> DEFINE t == Chain(f, s[1])
<1>1. s \in Seq(Cluster) /\ Len(s) \in Nat /\ Len(s) >= 1 /\ s[1] \in Cluster
  BY DEF Linked
<1>2. /\ t \in Seq(Cluster) /\ Len(t) <= N /\ Linked(f, t) /\ t[1] = s[1]
      /\ Len(t) < N => f[t[Len(t)]] \notin Cluster
  BY <1>1, ChainIs DEF Link
<1> HIDE DEF t
<1>3. Len(t) \in Nat /\ Len(t) >= 1
  BY <1>2 DEF Linked
<1>4. ASSUME NEW i \in 1 .. Len(s), i <= Len(t) PROVE t[i] = s[i]
  <2> DEFINE bad == {j \in 1 .. Len(s) : j <= Len(t) /\ t[j] # s[j]}
  <2>1. SUFFICES ASSUME bad # {} PROVE FALSE
    BY <1>4, <2>1
  <2>2. bad \in SUBSET Nat
    OBVIOUS
  <2>3. PICK j \in bad : \A y \in bad : j <= y
    <3> HIDE DEF bad
    <3> QED
      BY <2>1, <2>2, LeastOf
  <2>4. j # 1 /\ j \in 1 .. Len(s) /\ j <= Len(t)
    BY <1>2, <2>3
  <2>5. j - 1 \in 1 .. Len(s) - 1 /\ j - 1 \in 1 .. Len(t) - 1 /\ j - 1 \notin bad /\ j - 1 + 1 = j
    BY <1>1, <1>3, <2>3, <2>4
  <2>6. t[j - 1] = s[j - 1]
    BY <2>5, <1>1
  <2>7. f[t[j - 1]] = t[j] /\ f[s[j - 1]] = s[j]
    BY <1>2, <2>5 DEF Linked
  <2>8. QED
    BY <2>3, <2>6, <2>7
<1>5. Len(t) <= Len(s)
  <2>1. SUFFICES ASSUME Len(t) > Len(s) PROVE FALSE
    BY <1>1, <1>3
  <2>2. Len(s) \in 1 .. Len(s) /\ Len(s) \in 1 .. Len(t) - 1 /\ Len(s) + 1 \in 1 .. Len(t)
    BY <1>1, <1>3, <2>1
  <2>3. t[Len(s)] = s[Len(s)]
    BY <1>4, <2>2
  <2>4. f[t[Len(s)]] = t[Len(s) + 1] /\ t[Len(s) + 1] \in Cluster
    BY <1>2, <2>2 DEF Linked
  <2>5. QED
    BY <2>3, <2>4
<1>6. Len(t) >= Len(s)
  <2>1. SUFFICES ASSUME Len(t) < Len(s) PROVE FALSE
    BY <1>1, <1>3
  <2>2. Len(t) \in 1 .. Len(s) - 1 /\ Len(t) < N /\ Len(t) + 1 \in 1 .. Len(s)
    BY <1>1, <1>3, <2>1, ClustersAreFinite
  <2>3. t[Len(t)] = s[Len(t)]
    BY <1>4, <1>3, <2>2
  <2>4. f[s[Len(t)]] = s[Len(t) + 1] /\ s[Len(t) + 1] \in Cluster
    BY <1>1, <2>2 DEF Linked
  <2>5. QED
    BY <1>2, <2>2, <2>3, <2>4
<1>7. Len(t) = Len(s) /\ \A i \in 1 .. Len(s) : t[i] = s[i]
  BY <1>1, <1>3, <1>4, <1>5, <1>6
<1>8. t = s
  BY <1>1, <1>2, <1>7
<1>9. QED
  BY <1>8 DEF t

\* Chains of different heads share no cluster, and one has no cluster twice.
LEMMA LinksApart ==
  ASSUME NEW f \in FatType, Apart(f), NEW s, Linked(f, s), NEW t, Linked(f, t),
         \A x \in Cluster : f[x] # s[1] /\ f[x] # t[1],
         NEW i \in 1 .. Len(s), NEW j \in 1 .. Len(t), s[i] = t[j]
  PROVE  s[1] = t[1] /\ i = j
<1> DEFINE meet == {m \in 1 .. Len(s) : \E n \in 1 .. Len(t) : s[m] = t[n] /\ (s[1] # t[1] \/ m # n)}
<1>1. SUFFICES ASSUME meet # {} PROVE FALSE
  BY <1>1
<1>2. /\ s \in Seq(Cluster) /\ t \in Seq(Cluster) /\ Len(s) \in Nat /\ Len(t) \in Nat
      /\ Len(s) >= 1 /\ Len(t) >= 1
  BY DEF Linked
<1>3. meet \in SUBSET Nat
  BY <1>2
<1>4. PICK m \in meet : \A y \in meet : m <= y
  <2> HIDE DEF meet
  <2> QED
    BY <1>1, <1>3, LeastOf
<1>5. PICK n \in 1 .. Len(t) : s[m] = t[n] /\ (s[1] # t[1] \/ m # n)
  BY <1>4
<1>6. m \in 1 .. Len(s)
  BY <1>4
<1>7. \A x \in 2 .. Len(s) : x - 1 \in 1 .. Len(s) /\ s[x - 1] \in Cluster /\ f[s[x - 1]] = s[x]
  <2>1. SUFFICES ASSUME NEW x \in 2 .. Len(s)
        PROVE x - 1 \in 1 .. Len(s) /\ s[x - 1] \in Cluster /\ f[s[x - 1]] = s[x]
    OBVIOUS
  <2>2. x - 1 \in 1 .. Len(s) - 1 /\ x - 1 \in 1 .. Len(s) /\ x - 1 + 1 = x
    BY <1>2
  <2>3. f[s[x - 1]] = s[x - 1 + 1]
    BY <2>2 DEF Linked
  <2>4. s[x - 1] \in Cluster
    BY <1>2, <2>2
  <2>5. QED
    BY <2>2, <2>3, <2>4
<1>8. \A x \in 2 .. Len(t) : x - 1 \in 1 .. Len(t) /\ t[x - 1] \in Cluster /\ f[t[x - 1]] = t[x]
  <2>1. SUFFICES ASSUME NEW x \in 2 .. Len(t)
        PROVE x - 1 \in 1 .. Len(t) /\ t[x - 1] \in Cluster /\ f[t[x - 1]] = t[x]
    OBVIOUS
  <2>2. x - 1 \in 1 .. Len(t) - 1 /\ x - 1 \in 1 .. Len(t) /\ x - 1 + 1 = x
    BY <1>2
  <2>3. f[t[x - 1]] = t[x - 1 + 1]
    BY <2>2 DEF Linked
  <2>4. t[x - 1] \in Cluster
    BY <1>2, <2>2
  <2>5. QED
    BY <2>2, <2>3, <2>4
<1>9. CASE m = 1
  <2>1. n = 1
    <3>1. SUFFICES ASSUME n # 1 PROVE FALSE
      BY <3>1
    <3>2. n \in 2 .. Len(t)
      BY <1>2, <1>5, <3>1
    <3>3. QED
      BY <1>5, <1>8, <1>9, <3>2
  <2>2. QED
    BY <1>5, <1>9, <2>1
<1>10. CASE m # 1
  <2>1. m \in 2 .. Len(s)
    BY <1>2, <1>6, <1>10
  <2>2. n # 1
    BY <1>5, <1>7, <2>1
  <2>3. n \in 2 .. Len(t)
    BY <1>2, <1>5, <2>2
  <2>4. s[m] \in Cluster
    BY <1>2, <1>6
  <2>5. s[m - 1] = t[n - 1]
    <3>1. f[s[m - 1]] = s[m] /\ s[m - 1] \in Cluster
      BY <1>7, <2>1
    <3>2. f[t[n - 1]] = t[n] /\ t[n - 1] \in Cluster
      BY <1>8, <2>3
    <3>3. QED
      BY <1>5, <2>4, <3>1, <3>2 DEF Apart
  <2>6. m - 1 \in 1 .. Len(s) /\ n - 1 \in 1 .. Len(t) /\ (m - 1 # n - 1 \/ s[1] # t[1])
    BY <1>5, <2>1, <2>3, <1>7, <1>8
  <2>7. m - 1 \in meet
    BY <2>5, <2>6
  <2>8. QED
    BY <1>2, <1>4, <1>6, <2>7
<1>11. QED
  BY <1>9, <1>10

\* Such a sequence is no longer than there are clusters.
LEMMA LinksBounded ==
  ASSUME NEW f \in FatType, Apart(f), NEW s, Linked(f, s), \A x \in Cluster : f[x] # s[1]
  PROVE  Len(s) <= N
<1>1. s \in Seq(Cluster) /\ Len(s) \in Nat
  BY DEF Linked
<1>2. \A i, j \in 1 .. Len(s) : s[i] = s[j] => i = j
  BY LinksApart
<1>3. s \in Injection(1 .. Len(s), Cluster)
  BY <1>1, <1>2 DEF Injection, IsInjective
<1>4. Cardinality(1 .. Len(s)) <= Cardinality(Cluster)
  BY <1>3, FS_Injection, ClustersAreFinite
<1>5. Cardinality(1 .. Len(s)) = Len(s)
  <2>1. Cardinality(1 .. Len(s)) = IF 1 > Len(s) THEN 0 ELSE Len(s) - 1 + 1
    BY <1>1, FS_Interval
  <2>2. QED
    BY <1>1, <2>1
<1>6. QED
  BY <1>4, <1>5 DEF N

Sound(f) == f \in FatType /\ Apart(f) /\ Taken(f)

\* The marks of the FAT are no clusters and not one another.
LEMMA MarksAreNoClusters ==
  /\ NoCluster \notin Cluster /\ EOC \notin Cluster /\ Free \notin Cluster
  /\ EOC # Free /\ EOC # NoCluster /\ Free # NoCluster
<1>1. \A a, b : Cardinality({a, b}) # 3
  <2>1. SUFFICES ASSUME NEW a, NEW b PROVE Cardinality({a, b}) # 3
    OBVIOUS
  <2>2. IsFiniteSet({a}) /\ Cardinality({a}) = 1
    BY FS_Singleton
  <2>3. Cardinality({a} \cup {b}) \in {1, 2}
    BY <2>2, FS_AddElement
  <2>4. {a, b} = {a} \cup {b}
    OBVIOUS
  <2>5. QED
    BY <2>3, <2>4
<1>2. Cardinality({NoCluster, EOC, Free}) = 3
  BY DirectoryAssumption
<1>3. EOC # Free
  <2>1. SUFFICES ASSUME EOC = Free PROVE FALSE
    OBVIOUS
  <2>2. {NoCluster, EOC, Free} = {NoCluster, EOC}
    BY <2>1
  <2>3. QED
    BY <1>1, <1>2, <2>2
<1>4. EOC # NoCluster
  <2>1. SUFFICES ASSUME EOC = NoCluster PROVE FALSE
    OBVIOUS
  <2>2. {NoCluster, EOC, Free} = {NoCluster, Free}
    BY <2>1
  <2>3. QED
    BY <1>1, <1>2, <2>2
<1>5. Free # NoCluster
  <2>1. SUFFICES ASSUME Free = NoCluster PROVE FALSE
    OBVIOUS
  <2>2. {NoCluster, EOC, Free} = {NoCluster, EOC}
    BY <2>1
  <2>3. QED
    BY <1>1, <1>2, <2>2
<1>6. QED
  BY <1>3, <1>4, <1>5, DirectoryAssumption DEF Cluster

\* The chain from a head: it ends, and all its clusters are taken.
LEMMA HeadChain ==
  ASSUME NEW f, Sound(f), NEW c \in Cluster, Begins(f, c)
  PROVE  /\ Chain(f, c) \in Seq(Cluster) /\ Len(Chain(f, c)) \in 1 .. N
         /\ Linked(f, Chain(f, c)) /\ Chain(f, c)[1] = c
         /\ f[Chain(f, c)[Len(Chain(f, c))]] = EOC
         /\ \A x \in ClustersFrom(f, c) : x \in Cluster /\ f[x] # Free
         /\ c \in ClustersFrom(f, c)
<1> DEFINE s == Chain(f, c)
<1>1. f \in FatType /\ Apart(f) /\ Taken(f)
  BY DEF Sound
<1>2. /\ s \in Seq(Cluster) /\ Len(s) <= N /\ Linked(f, s) /\ s[1] = c
      /\ Len(s) < N => f[s[Len(s)]] \notin Cluster
  BY <1>1, ChainIs DEF Link
<1>3. ClustersFrom(f, c) = {s[i] : i \in DOMAIN s}
  BY DEF ClustersFrom
<1> HIDE DEF s
<1>4. Len(s) \in 1 .. N
  BY <1>2, ClustersAreFinite DEF Linked
<1>5. \A i \in 1 .. Len(s) : s[i] \in Cluster /\ f[s[i]] # Free
  <2>1. SUFFICES ASSUME NEW i \in 1 .. Len(s) PROVE f[s[i]] # Free
    BY <1>2
  <2>2. CASE i = 1
    BY <1>2, <2>2 DEF Begins
  <2>3. CASE i # 1
    <3>1. i - 1 \in 1 .. Len(s) - 1 /\ i - 1 \in 1 .. Len(s) /\ i - 1 + 1 = i
      BY <1>4, <2>3
    <3>2. f[s[i - 1]] = s[i - 1 + 1]
      BY <1>2, <3>1 DEF Linked
    <3>3. s[i - 1] \in Cluster /\ s[i] \in Cluster
      BY <1>2, <3>1
    <3>4. QED
      BY <1>1, <3>1, <3>2, <3>3 DEF Taken
  <2>4. QED
    BY <2>2, <2>3
<1>6. f[s[Len(s)]] \notin Cluster
  <2>1. SUFFICES ASSUME f[s[Len(s)]] \in Cluster, Len(s) = N PROVE FALSE
    BY <1>2, <1>4, ClustersAreFinite
  <2> DEFINE d == f[s[Len(s)]]
             t == Append(s, d)
  <2>2. t \in Seq(Cluster) /\ Len(t) = Len(s) + 1 /\ (\A i \in 1 .. Len(s) : t[i] = s[i])
        /\ t[Len(s) + 1] = d
    BY <1>2, <2>1
  <2> HIDE DEF t
  <2>3. ASSUME NEW i \in 1 .. Len(t) - 1 PROVE f[t[i]] = t[i + 1]
    <3>1. i \in 1 .. Len(s) /\ (i = Len(s) \/ (i \in 1 .. Len(s) - 1 /\ i + 1 \in 1 .. Len(s)))
      BY <1>4, <2>2, ClustersAreFinite
    <3>2. CASE i = Len(s)
      BY <2>2, <3>1, <3>2
    <3>3. CASE i \in 1 .. Len(s) - 1 /\ i + 1 \in 1 .. Len(s)
      BY <1>2, <2>2, <3>1, <3>3 DEF Linked
    <3>4. QED
      BY <3>1, <3>2, <3>3
  <2>4. Linked(f, t) /\ t[1] = c
    <3>1. Len(t) >= 1 /\ 1 \in 1 .. Len(s)
      BY <1>4, <2>2, ClustersAreFinite
    <3>2. QED
      BY <1>2, <2>2, <2>3, <3>1 DEF Linked
  <2>5. Len(t) <= N
    BY <1>1, <2>4, LinksBounded DEF Begins
  <2>6. QED
    BY <2>1, <2>2, <2>5, ClustersAreFinite
<1>7. f[s[Len(s)]] = EOC
  <2>1. Len(s) \in 1 .. Len(s) /\ s[Len(s)] \in Cluster
    BY <1>2, <1>4
  <2>2. QED
    BY <1>1, <1>5, <1>6, <2>1 DEF FatType
<1>8. DOMAIN s = 1 .. Len(s) /\ 1 \in 1 .. Len(s)
  BY <1>2, <1>4
<1>9. QED
  BY <1>2, <1>3, <1>4, <1>5, <1>7, <1>8 DEF s

\* The clusters of a chain, by their places.
LEMMA ClusterPlace ==
  ASSUME NEW f, Sound(f), NEW c \in Cluster, Begins(f, c), NEW x
  PROVE  x \in ClustersFrom(f, c) <=> \E i \in 1 .. Len(Chain(f, c)) : x = Chain(f, c)[i]
<1>1. DOMAIN Chain(f, c) = 1 .. Len(Chain(f, c))
  BY HeadChain
<1>2. QED
  BY <1>1 DEF ClustersFrom

\* Chains from different heads share no cluster, and no head is inside a chain.
LEMMA HeadsApart ==
  ASSUME NEW f, Sound(f), NEW c \in Cluster, Begins(f, c), NEW d \in Cluster, Begins(f, d), c # d
  PROVE  /\ ClustersFrom(f, c) \cap ClustersFrom(f, d) = {}
         /\ d \notin ClustersFrom(f, c)
<1>1. /\ Linked(f, Chain(f, c)) /\ Chain(f, c)[1] = c
      /\ Linked(f, Chain(f, d)) /\ Chain(f, d)[1] = d
      /\ d \in ClustersFrom(f, d)
  BY HeadChain
<1>2. f \in FatType /\ Apart(f) /\ \A x \in Cluster : f[x] # c /\ f[x] # d
  BY DEF Sound, Begins
<1>3. ASSUME NEW x \in ClustersFrom(f, c), x \in ClustersFrom(f, d) PROVE FALSE
  <2>1. PICK i \in 1 .. Len(Chain(f, c)) : x = Chain(f, c)[i]
    BY <1>3, ClusterPlace
  <2>2. PICK j \in 1 .. Len(Chain(f, d)) : x = Chain(f, d)[j]
    BY <1>3, ClusterPlace
  <2> DEFINE s == Chain(f, c)
             t == Chain(f, d)
  <2>3. Linked(f, s) /\ Linked(f, t) /\ s[1] = c /\ t[1] = d /\ s[i] = t[j]
    BY <1>1, <2>1, <2>2
  <2>4. i \in 1 .. Len(s) /\ j \in 1 .. Len(t)
    OBVIOUS
  <2> HIDE DEF s, t
  <2>5. s[1] = t[1]
    BY <1>2, <2>3, <2>4, LinksApart
  <2>6. QED
    BY <2>3, <2>5
<1>4. QED
  BY <1>1, <1>3

\* No cluster stands twice in a chain.
LEMMA PlacesApart ==
  ASSUME NEW f, Sound(f), NEW c \in Cluster, Begins(f, c),
         NEW i \in 1 .. Len(Chain(f, c)), NEW j \in 1 .. Len(Chain(f, c)),
         Chain(f, c)[i] = Chain(f, c)[j]
  PROVE  i = j
<1> DEFINE s == Chain(f, c)
<1>1. Linked(f, s) /\ s[1] = c
  BY HeadChain
<1>2. i \in 1 .. Len(s) /\ j \in 1 .. Len(s) /\ s[i] = s[j]
  OBVIOUS
<1> HIDE DEF s
<1>3. f \in FatType /\ Apart(f) /\ \A x \in Cluster : f[x] # c
  BY DEF Sound, Begins
<1>4. QED
  BY <1>1, <1>2, <1>3, LinksApart

\* A chain whose entries stay is the same chain.
LEMMA SameChain ==
  ASSUME NEW f, Sound(f), NEW g \in FatType, NEW c \in Cluster, Begins(f, c),
         \A x \in ClustersFrom(f, c) : g[x] = f[x]
  PROVE  Chain(g, c) = Chain(f, c)
<1> DEFINE s == Chain(f, c)
<1>1. /\ s \in Seq(Cluster) /\ Len(s) \in 1 .. N /\ Linked(f, s) /\ s[1] = c
      /\ f[s[Len(s)]] = EOC
  BY HeadChain
<1>2. \A i \in 1 .. Len(s) : g[s[i]] = f[s[i]]
  BY ClusterPlace
<1> HIDE DEF s
<1>3. Linked(g, s)
  <2>1. ASSUME NEW i \in 1 .. Len(s) - 1 PROVE g[s[i]] = s[i + 1]
    <3>1. i \in 1 .. Len(s)
      BY <1>1, ClustersAreFinite
    <3>2. QED
      BY <1>1, <1>2, <3>1 DEF Linked
  <2>2. QED
    BY <1>1, <2>1 DEF Linked
<1>4. g[s[Len(s)]] \notin Cluster /\ Len(s) <= N
  <2>1. Len(s) \in 1 .. Len(s)
    BY <1>1, ClustersAreFinite
  <2>2. QED
    BY <1>1, <1>2, <2>1, MarksAreNoClusters, ClustersAreFinite
<1>5. Chain(g, s[1]) = s
  BY <1>3, <1>4, ChainOf
<1>6. QED
  BY <1>1, <1>5 DEF s

-----------------------------------------------------------------------------
(* What becomes of the chains when the FAT is changed. *)

AppendedTo(f, last, c) ==
  [x \in Cluster |-> IF x = c THEN EOC ELSE IF x = last THEN c ELSE f[x]]

\* A cluster that was free or begins a chain becomes a chain of its own.
LEMMA NewChain ==
  ASSUME NEW f, Sound(f), NEW c \in Cluster, f[c] = Free \/ Begins(f, c),
         NEW g, g = AppendedTo(f, NoCluster, c)
  PROVE  /\ Sound(g) /\ Begins(g, c) /\ g[c] = EOC /\ Chain(g, c) = <<c>>
         /\ \A h \in Cluster : Begins(f, h) /\ h # c =>
              Begins(g, h) /\ Chain(g, h) = Chain(f, h) /\ c \notin ClustersFrom(f, h)
<1>1. f \in FatType /\ Apart(f) /\ Taken(f)
  BY DEF Sound
<1>2. g \in FatType /\ \A x \in Cluster : g[x] = IF x = c THEN EOC ELSE f[x]
  BY <1>1, MarksAreNoClusters DEF AppendedTo, FatType
<1>3. \A x \in Cluster : f[x] # c
  BY <1>1 DEF Begins, Taken
<1>4. Sound(g)
  <2>1. Apart(g)
    BY <1>1, <1>2, MarksAreNoClusters DEF Apart
  <2>2. ASSUME NEW x \in Cluster, g[x] \in Cluster PROVE g[g[x]] # Free
    <3>1. g[x] = f[x] /\ g[x] # c
      BY <1>2, <1>3, <2>2, MarksAreNoClusters
    <3>2. QED
      BY <1>1, <1>2, <2>2, <3>1 DEF Taken
  <2>3. QED
    BY <1>2, <2>1, <2>2 DEF Sound, Taken
<1>5. Begins(g, c) /\ g[c] = EOC
  BY <1>2, <1>3, MarksAreNoClusters DEF Begins
<1>6. Chain(g, c) = <<c>>
  <2> DEFINE s == <<c>>
  <2>1. s \in Seq(Cluster) /\ Len(s) = 1 /\ s[1] = c /\ 1 .. Len(s) - 1 = {}
    OBVIOUS
  <2> HIDE DEF s
  <2>2. Linked(g, s)
    BY <2>1 DEF Linked
  <2>3. Len(s) <= N /\ g[s[Len(s)]] \notin Cluster
    BY <1>5, <2>1, ClustersAreFinite, MarksAreNoClusters
  <2>4. Chain(g, s[1]) = s
    BY <1>2, <2>2, <2>3, ChainOf
  <2>5. QED
    BY <2>1, <2>4 DEF s
<1>7. ASSUME NEW h \in Cluster, Begins(f, h), h # c
      PROVE  Begins(g, h) /\ Chain(g, h) = Chain(f, h) /\ c \notin ClustersFrom(f, h)
  <2>1. Begins(g, h)
    BY <1>2, <1>7, MarksAreNoClusters DEF Begins
  <2>2. c \notin ClustersFrom(f, h)
    <3>1. CASE f[c] = Free
      BY <1>7, <3>1, HeadChain
    <3>2. CASE Begins(f, c)
      BY <1>7, <3>2, HeadsApart
    <3>3. QED
      BY <3>1, <3>2
  <2>3. \A x \in ClustersFrom(f, h) : g[x] = f[x]
    BY <1>2, <1>7, <2>2, HeadChain
  <2>4. Chain(g, h) = Chain(f, h)
    BY <1>2, <1>7, <2>3, SameChain
  <2>5. QED
    BY <2>1, <2>2, <2>4
<1>8. QED
  BY <1>4, <1>5, <1>6, <1>7

\* A free cluster is appended to the last one of a chain.
LEMMA LongerChain ==
  ASSUME NEW f, Sound(f), NEW h \in Cluster, Begins(f, h), NEW c \in Cluster, f[c] = Free,
         NEW g, g = AppendedTo(f, Chain(f, h)[Len(Chain(f, h))], c)
  PROVE  /\ Sound(g) /\ Begins(g, h) /\ Chain(g, h) = Append(Chain(f, h), c)
         /\ c \notin ClustersFrom(f, h)
         /\ \A x \in Cluster : Begins(f, x) /\ x # h =>
              Begins(g, x) /\ Chain(g, x) = Chain(f, x) /\ c \notin ClustersFrom(f, x)
<1> DEFINE s == Chain(f, h)
           last == s[Len(s)]
<1>1. f \in FatType /\ Apart(f) /\ Taken(f)
  BY DEF Sound
<1>2. /\ s \in Seq(Cluster) /\ Len(s) \in 1 .. N /\ Linked(f, s) /\ s[1] = h /\ f[last] = EOC
      /\ last \in Cluster
  <2>1. s \in Seq(Cluster) /\ Len(s) \in 1 .. N /\ Linked(f, s) /\ s[1] = h /\ f[s[Len(s)]] = EOC
    BY HeadChain
  <2>2. s[Len(s)] \in Cluster
    <3> HIDE DEF s
    <3> QED
      BY <2>1, ClustersAreFinite
  <2>3. QED
    BY <2>1, <2>2
<1>3. \A i \in 1 .. Len(s) : s[i] \in ClustersFrom(f, h) /\ s[i] \in Cluster /\ f[s[i]] # Free /\ s[i] # c
  BY ClusterPlace, HeadChain
<1>4. g = AppendedTo(f, last, c) /\ last # c
  <2>1. g = AppendedTo(f, last, c)
    OBVIOUS
  <2>2. f[last] # f[c]
    BY <1>2, MarksAreNoClusters
  <2>3. QED
    BY <2>1, <2>2
<1>5. last \in ClustersFrom(f, h) /\ c \notin ClustersFrom(f, h)
  <2>1. Len(s) \in 1 .. Len(s)
    <3> HIDE DEF s
    <3> QED
      BY <1>2, ClustersAreFinite
  <2>2. QED
    BY <1>3, <2>1, HeadChain
<1>6. ASSUME NEW i \in 1 .. Len(s), i # Len(s) PROVE s[i] # last
  <2>1. Len(s) \in 1 .. Len(s)
    <3> HIDE DEF s
    <3> QED
      BY <1>2, ClustersAreFinite
  <2>2. QED
    BY <1>6, <2>1, PlacesApart
<1> HIDE DEF s
<1> HIDE DEF last
<1>7. g \in FatType /\ \A x \in Cluster : g[x] = IF x = c THEN EOC ELSE IF x = last THEN c ELSE f[x]
  BY <1>1, <1>4 DEF AppendedTo, FatType
<1>8. \A x \in Cluster : f[x] # c
  BY <1>1 DEF Taken
<1>9. Sound(g)
  <2>1. Apart(g)
    BY <1>1, <1>7, <1>8, MarksAreNoClusters DEF Apart
  <2>2. ASSUME NEW x \in Cluster, g[x] \in Cluster PROVE g[g[x]] # Free
    <3>1. CASE x = last
      BY <1>2, <1>4, <1>7, <3>1, MarksAreNoClusters
    <3>2. CASE x # last
      <4>1. x # c /\ g[x] = f[x] /\ g[x] # c
        BY <1>7, <1>8, <2>2, <3>2, MarksAreNoClusters
      <4>2. f[g[x]] # Free
        BY <1>1, <2>2, <4>1 DEF Taken
      <4>3. g[g[x]] = f[g[x]] \/ g[g[x]] = c
        BY <1>7, <2>2, <4>1
      <4>4. QED
        BY <4>2, <4>3, MarksAreNoClusters
    <3>3. QED
      BY <3>1, <3>2
  <2>3. QED
    BY <1>7, <2>1, <2>2 DEF Sound, Taken
<1>10. \A x \in Cluster : Begins(f, x) => x # c /\ Begins(g, x)
  BY <1>7, <1>4, MarksAreNoClusters DEF Begins
<1>11. ASSUME NEW x \in Cluster, Begins(f, x), x # h
       PROVE  Chain(g, x) = Chain(f, x) /\ c \notin ClustersFrom(f, x)
  <2>1. last \notin ClustersFrom(f, x)
    BY <1>5, <1>11, HeadsApart
  <2>2. c \notin ClustersFrom(f, x)
    BY <1>11, HeadChain
  <2>3. \A y \in ClustersFrom(f, x) : g[y] = f[y]
    BY <1>7, <1>11, <2>1, <2>2, HeadChain
  <2>4. QED
    BY <1>7, <1>11, <2>2, <2>3, SameChain
<1>12. Chain(g, h) = Append(s, c)
  <2> DEFINE t == Append(s, c)
  <2>1. /\ t \in Seq(Cluster) /\ Len(t) = Len(s) + 1 /\ t[Len(s) + 1] = c
        /\ \A i \in 1 .. Len(s) : t[i] = s[i]
    BY <1>2
  <2>2. Len(s) \in Nat /\ Len(s) >= 1
    BY <1>2, ClustersAreFinite
  <2> HIDE DEF t
  <2>3. ASSUME NEW i \in 1 .. Len(t) - 1 PROVE g[t[i]] = t[i + 1]
    <3>1. i \in 1 .. Len(s)
      BY <2>1, <2>2
    <3>2. CASE i = Len(s)
      BY <1>2, <1>4, <1>7, <2>1, <3>1, <3>2 DEF last
    <3>3. CASE i # Len(s)
      <4>1. i \in 1 .. Len(s) - 1 /\ i + 1 \in 1 .. Len(s)
        BY <2>2, <3>1, <3>3
      <4>2. s[i] # last /\ s[i] # c /\ s[i] \in Cluster
        BY <1>3, <1>6, <3>1, <3>3
      <4>3. f[s[i]] = s[i + 1]
        BY <1>2, <4>1 DEF Linked
      <4>4. QED
        BY <1>7, <2>1, <3>1, <4>1, <4>2, <4>3
    <3>4. QED
      BY <3>2, <3>3
  <2>4. Linked(g, t) /\ t[1] = h
    <3>1. Len(t) >= 1 /\ 1 \in 1 .. Len(s)
      BY <2>1, <2>2
    <3>2. QED
      BY <1>2, <2>1, <2>3, <3>1 DEF Linked
  <2>5. g[t[Len(t)]] \notin Cluster
    BY <1>7, <2>1, MarksAreNoClusters
  <2>6. Len(t) <= N
    <3>1. \A x \in Cluster : g[x] # t[1]
      BY <1>10, <2>4 DEF Begins
    <3>2. QED
      BY <1>7, <1>9, <2>4, <3>1, LinksBounded DEF Sound
  <2>7. Chain(g, t[1]) = t
    BY <1>7, <2>4, <2>5, <2>6, ChainOf
  <2>8. QED
    BY <2>4, <2>7 DEF t
<1>13. QED
  BY <1>5, <1>9, <1>10, <1>11, <1>12 DEF s

\* A whole chain is freed.
FreedFrom(f, h) == [x \in Cluster |-> IF x \in ClustersFrom(f, h) THEN Free ELSE f[x]]

\* truncate(0) frees a whole chain: the others stay as they are.
LEMMA FreedChain ==
  ASSUME NEW f, Sound(f), NEW h \in Cluster, Begins(f, h),
         NEW g, g = FreedFrom(f, h)
  PROVE  /\ Sound(g)
         /\ \A x \in Cluster : Begins(f, x) /\ x # h =>
              Begins(g, x) /\ Chain(g, x) = Chain(f, x)
<1>1. f \in FatType /\ Apart(f) /\ Taken(f)
  BY DEF Sound
<1>2. g \in FatType
  BY <1>1 DEF FatType, FreedFrom
<1>3. \A x \in Cluster : g[x] = IF x \in ClustersFrom(f, h) THEN Free ELSE f[x]
  BY DEF FreedFrom
<1>4. ASSUME NEW x \in Cluster, f[x] \in ClustersFrom(f, h) PROVE x \in ClustersFrom(f, h)
  <2> DEFINE s == Chain(f, h)
  <2>1. /\ s \in Seq(Cluster) /\ Len(s) \in 1 .. N /\ Linked(f, s) /\ s[1] = h
    BY HeadChain
  <2>2. PICK i \in 1 .. Len(s) : f[x] = s[i]
    BY <1>4, ClusterPlace
  <2>3. i # 1
    BY <2>1, <2>2 DEF Begins
  <2>4. i - 1 \in 1 .. Len(s) => s[i - 1] \in ClustersFrom(f, h)
    BY ClusterPlace
  <2> HIDE DEF s
  <2>5. i - 1 \in 1 .. Len(s) - 1 /\ i - 1 \in 1 .. Len(s) /\ i - 1 + 1 = i
    BY <2>1, <2>3, ClustersAreFinite
  <2>6. s[i - 1] \in Cluster /\ s[i] \in Cluster /\ f[s[i - 1]] = s[i - 1 + 1]
    BY <2>1, <2>5 DEF Linked
  <2>7. s[i - 1] = x
    BY <1>1, <2>2, <2>5, <2>6 DEF Apart
  <2>8. QED
    BY <2>4, <2>5, <2>7
<1>5. Sound(g)
  <2>1. Apart(g)
    BY <1>1, <1>3, MarksAreNoClusters DEF Apart
  <2>2. ASSUME NEW x \in Cluster, g[x] \in Cluster PROVE g[g[x]] # Free
    <3>1. x \notin ClustersFrom(f, h) /\ g[x] = f[x]
      BY <1>3, <2>2, MarksAreNoClusters
    <3>2. g[x] \notin ClustersFrom(f, h)
      BY <1>4, <3>1
    <3>3. QED
      BY <1>1, <1>3, <2>2, <3>1, <3>2 DEF Taken
  <2>3. QED
    BY <1>2, <2>1, <2>2 DEF Sound, Taken
<1>6. ASSUME NEW x \in Cluster, Begins(f, x), x # h
      PROVE  Begins(g, x) /\ Chain(g, x) = Chain(f, x)
  <2>1. x \notin ClustersFrom(f, h) /\ ClustersFrom(f, h) \cap ClustersFrom(f, x) = {}
    BY <1>6, HeadsApart
  <2>2. Begins(g, x)
    BY <1>3, <1>6, <2>1, MarksAreNoClusters DEF Begins
  <2>3. \A y \in ClustersFrom(f, x) : g[y] = f[y]
    BY <1>3, <1>6, <2>1, HeadChain
  <2>4. QED
    BY <1>2, <1>6, <2>2, <2>3, SameChain
<1>7. QED
  BY <1>5, <1>6

-----------------------------------------------------------------------------
(* The invariant of the tree.  f is a FAT, d what is in the clusters, L the *)
(* slots whose chain was freed before they were changed, z the directory    *)
(* whose last cluster has not been zeroed.                                  *)

Contents == [Cluster -> [Index -> AnyEntry]]

At(d, s) == d[s[1]][s[2]]

\* The entries in use that have a chain; those of directories; their heads.
OwnersOf(d, L) == {s \in Slot \ L : Live(At(d, s)) /\ At(d, s).first # NoCluster}

DirsOf(d, L) == {s \in OwnersOf(d, L) : At(d, s).kind = "dir"}

HeadsOf(d, L) == {Root} \cup {At(d, s).first : s \in DirsOf(d, L)}

Counted(f, z, h) == IF h = z THEN Len(Chain(f, h)) - 1 ELSE Len(Chain(f, h))

\* The clusters of directories that have been zeroed.
Space(f, d, L, z) ==
  {c \in Cluster : \E h \in HeadsOf(d, L) : \E j \in 1 .. Counted(f, z, h) : c = Chain(f, h)[j]}

\* The chains of the FAT begin at the root and in the entries, each in one.
OwnersAreHeads(f, d, L) ==
  /\ \A s \in OwnersOf(d, L) : At(d, s).first \in Other /\ Begins(f, At(d, s).first)
  /\ \A s, t \in OwnersOf(d, L) : At(d, s).first = At(d, t).first => s = t

EntriesAreSound(d, L) ==
  /\ d \in Contents
  /\ \A s \in Slot \ L :
       At(d, s).kind = "dir" \/ (At(d, s).kind = "file" /\ At(d, s).size > 0)
         => At(d, s).first # NoCluster

Of(f, d, h, j, i) == d[Chain(f, h)[j]][i]

Before(j, i, jj, ii) == j < jj \/ (j = jj /\ i < ii)

\* In a directory no entry in use comes behind one never used, and no two have
\* one name.
Ordered(f, d, z, h) ==
  /\ \A j \in 1 .. Counted(f, z, h), i \in Index :
       Live(Of(f, d, h, j, i)) => Of(f, d, h, j, i).name \in Name
  /\ \A j, jj \in 1 .. Counted(f, z, h), i, ii \in Index :
       Before(j, i, jj, ii) /\ Live(Of(f, d, h, jj, ii)) =>
         Of(f, d, h, j, i).kind # "free" /\ Of(f, d, h, j, i).name # Of(f, d, h, jj, ii).name

TreeOK(f, d, L, z) ==
  /\ Sound(f) /\ Begins(f, Root)
  /\ EntriesAreSound(d, L)
  /\ OwnersAreHeads(f, d, L)
  /\ \A s \in OwnersOf(d, L) : s[1] \in Space(f, d, L, z)
  /\ \A h \in HeadsOf(d, L) : Ordered(f, d, z, h)

RootHandle(f, z, x) ==
  /\ x.type \in {"root16", "root32"} /\ x.first = Root /\ x.slot = NoSlot
  /\ x.size = Counted(f, z, Root)

DirHandle(f, d, L, z, x) ==
  /\ x.type = "dir" /\ x.slot \in DirsOf(d, L) /\ At(d, x.slot).first = x.first
  /\ x.size = Counted(f, z, x.first)

DirectoryHandle(f, d, L, z, x) == RootHandle(f, z, x) \/ DirHandle(f, d, L, z, x)

FileHandle(x) == x.type = "file" /\ x.size = 1

-----------------------------------------------------------------------------
(* What of this holds at which step of a call. *)

\* From truncate(0), which freed the chain, to the end of remove.
Marked == pc \in {"sync", "syncFlush", "delete", "deleteFlush"}

\* All of truncate(0) and remove.
Removing == pc = "free" \/ Marked

\* The slot whose entry names a chain no more, or not as a directory.
Loose ==
  IF pc = "sync" \/ (pc \in {"syncFlush", "delete"} /\ At(dir, this.slot).kind = "dir")
    THEN {this.slot} ELSE {}

\* The directory whose last cluster addDirCluster has yet to zero.
Unzeroed == IF pc = "zero" THEN dirFile.first ELSE NoCluster

IsRoot(x) == RootHandle(fat, Unzeroed, x)

IsDir(x) == DirHandle(fat, dir, Loose, Unzeroed, x)

IsDirectory(x) == DirectoryHandle(fat, dir, Loose, Unzeroed, x)

InDirectory(s) == s \in Slot /\ s[1] \in Space(fat, dir, Loose, Unzeroed)

\* The handle h may be left over from the directory that is being removed.
HandInv ==
  /\ IsRoot(hand["root"])
  /\ \/ hand["h"] = Closed \/ FileHandle(hand["h"]) \/ IsDir(hand["h"])
     \/ Marked /\ call.op \in {"rmDir", "rmRf"} /\ this.slot = hand["h"].slot

\* Each frame of rmRfStar is a directory with its entry in the one below.
StackInv ==
  /\ pc = "rmRf" => stack # << >>
  /\ stack # << >> =>
       /\ pc \in {"rmRf", "scan"} \/ Removing
       /\ call.op = "rmRf" /\ (pc = "scan" \/ k = 1)
       /\ stack[1].handle = hand[call.d] /\ (call.d = "root" => hand["h"] = Closed)
       /\ pc = "scan" => this.slot[1] \in ClustersFrom(fat, Top.handle.first)
  /\ \A i \in DOMAIN stack :
       /\ stack[i].pos \in Nat \ {0}
       /\ IsDir(stack[i].handle) \/ (i = 1 /\ IsRoot(stack[i].handle))
       /\ i > 1 => stack[i].handle.slot[1] \in ClustersFrom(fat, stack[i - 1].handle.first)
       /\ Removing => stack[i].handle.slot # this.slot

\* Entry i of cluster j of the directory searched.
Found(j, i) == Of(fat, dir, dirFile.first, j, i)

\* What a search knows that has gone on behind cluster n.
Scanned(n) ==
  \A j \in 1 .. n, i \in Index : Found(j, i).kind # "free" /\ Found(j, i).name # call.name

\* What is true at each step of a call of the variables the code has there.
AtIdle == this = Closed /\ k = 1 /\ empty = NoSlot

AtSearch ==
  /\ k \in 1 .. dirFile.size + 1 /\ this = Closed
  /\ (IsDirectory(dirFile) /\ Scanned(k - 1)) \/ (FileHandle(dirFile) /\ k = 1)
  /\ empty # NoSlot =>
       \E j \in 1 .. k - 1, i \in Index :
         empty = <<Chain(fat, dirFile.first)[j], i>> /\ Found(j, i).kind = "deleted"

AtGrow == IsDirectory(dirFile) /\ Scanned(dirFile.size) /\ this = Closed

AtZero ==
  /\ AtGrow /\ dirFile.size > 0
  /\ empty = <<Chain(fat, dirFile.first)[dirFile.size + 1], 1>>

AtFill ==
  /\ IsDirectory(dirFile) /\ this = Closed
  /\ \E j \in 1 .. dirFile.size, i \in Index :
       /\ empty = <<Chain(fat, dirFile.first)[j], i>>
       /\ ~Live(Found(j, i))
       /\ \A jj \in 1 .. j, ii \in Index :
            Before(jj, ii, j, i) => Found(jj, ii).kind # "free" /\ Found(jj, ii).name # call.name
  /\ \A j \in 1 .. dirFile.size, i \in Index : Live(Found(j, i)) => Found(j, i).name # call.name

NewEntry(first) == Entry("file", call.name, first, 0)

AtFillFlush ==
  InDirectory(empty) /\ At(dir, empty) = NewEntry(NoCluster) /\ this = Closed

\* The cluster addCluster gave makeDir.
NewHead(c) == c \in Other /\ Begins(fat, c) /\ fat[c] = EOC

\* No entry names c.
OwnerOfNone(c) == \A s \in OwnersOf(dir, Loose) : At(dir, s).first # c

AtOwn ==
  /\ InDirectory(this.slot) /\ At(dir, this.slot) = NewEntry(NoCluster)
  /\ this = [type |-> "file", first |-> NoCluster, size |-> 0, slot |-> this.slot]

AtOwnZero ==
  /\ InDirectory(this.slot) /\ At(dir, this.slot) = NewEntry(NoCluster)
  /\ NewHead(this.first) /\ OwnerOfNone(this.first)

AtOwnSync == AtOwnZero /\ dir[this.first] = Zeroed

AtOwnFlush ==
  /\ InDirectory(this.slot) /\ At(dir, this.slot) = NewEntry(this.first)
  /\ NewHead(this.first) /\ dir[this.first] = Zeroed

AtDots ==
  /\ this.first \in HeadsOf(dir, Loose) /\ NewHead(this.first) /\ dir[this.first] = Zeroed

AtScan ==
  /\ IsDir(this) /\ k \in 1 .. this.size
  /\ \A j \in 1 .. k - 1, i \in Index :
       LET e == Of(fat, dir, this.first, j, i) IN e.kind # "free" /\ ~Live(e)

AtFree ==
  /\ this.slot \in OwnersOf(dir, Loose) /\ At(dir, this.slot).first = this.first
  /\ At(dir, this.slot).kind = "dir" =>
       /\ call.op \in {"rmDir", "rmRf"}
       /\ \A c \in ClustersFrom(fat, this.first), i \in Index : ~Live(dir[c][i])

CallInv ==
  /\ call.op \in {"none", "open", "create", "mkdir", "remove", "rmDir", "rmRf"}
  /\ call.d \in {"root", "h"}
  /\ pc \in {"search", "grow", "zero", "fill"} => call.op \in {"open", "create", "mkdir", "remove"}
  /\ pc \in {"search", "grow", "zero", "fill", "fillFlush", "own", "ownZero", "ownSync",
             "ownFlush", "attribute"} => call.name \in Name
  /\ pc \in {"own", "ownZero", "ownSync", "ownFlush", "attribute", "dots", "dotsFlush"} =>
       call.op = "mkdir"
  /\ pc = "scan" => call.op \in {"rmDir", "rmRf"}
  /\ Removing => call.op \in {"remove", "rmDir", "rmRf"}

PlaceInv ==
  /\ pc = "idle" => AtIdle
  /\ pc = "search" => AtSearch
  /\ pc = "grow" => AtGrow
  /\ pc = "zero" => AtZero
  /\ pc = "fill" => AtFill
  /\ pc = "fillFlush" => AtFillFlush
  /\ pc = "own" => AtOwn
  /\ pc = "ownZero" => AtOwnZero
  /\ pc = "ownSync" => AtOwnSync
  /\ pc \in {"ownFlush", "attribute"} => AtOwnFlush
  /\ pc = "dots" => AtDots
  /\ pc = "scan" => AtScan
  /\ pc = "free" => AtFree
  /\ Marked => this.slot \in Slot
  /\ pc \in {"sync", "syncFlush", "delete"} => Live(At(dir, this.slot))

HandleType ==
  [type : {"closed", "file", "dir", "root16", "root32"}, first : Cluster \cup {NoCluster},
   size : 0 .. N, slot : Slot \cup {NoSlot}]

FrameType == [handle : HandleType, pos : Nat]

Steps ==
  {"idle", "search", "grow", "zero", "fill", "fillFlush", "own", "ownZero", "ownSync",
   "ownFlush", "attribute", "dots", "dotsFlush", "free", "sync", "syncFlush", "delete",
   "deleteFlush", "scan", "rmRf"}

TypeInv ==
  /\ fat \in FatType
  /\ dir \in Contents
  /\ card \in [fat : FatType, dir : Contents]
  /\ held \in Cluster \cup {FatBlock, NoBlock}
  /\ hand \in [{"root", "h"} -> HandleType]
  /\ this \in HandleType
  /\ stack \in Seq(FrameType)
  /\ k \in 1 .. N + 1
  /\ empty \in Slot \cup {NoSlot}
  /\ pc \in Steps

TreeInv == TreeOK(fat, dir, Loose, Unzeroed) /\ HandInv /\ StackInv /\ CallInv /\ PlaceInv

\* The invariant; of a volume given up it says only that no call runs on it.
TInv ==
  /\ TypeInv
  /\ damaged => pc = "idle" /\ stack = << >> /\ AtIdle
  /\ ~damaged => TreeInv

-----------------------------------------------------------------------------
(* Facts about trees that are in order. *)

Tree0(f, d) == TreeOK(f, d, {}, NoCluster)

\* A slot is a cluster and a place in it, where an entry is.
LEMMA EntryTypes ==
  ASSUME NEW d \in Contents, NEW s \in Slot
  PROVE  At(d, s) \in AnyEntry /\ s[1] \in Cluster /\ s[2] \in Index /\ s = <<s[1], s[2]>>
BY DEF At, Slot, Contents

\* Every head begins a chain, which ends and of which one cluster at most is not zeroed.
LEMMA HeadsAre ==
  ASSUME NEW f, NEW d, NEW L, NEW z, TreeOK(f, d, L, z), NEW h \in HeadsOf(d, L)
  PROVE  /\ h \in Cluster /\ Begins(f, h) /\ h # NoCluster
         /\ Chain(f, h) \in Seq(Cluster) /\ Len(Chain(f, h)) \in 1 .. N /\ Chain(f, h)[1] = h
         /\ Counted(f, z, h) \in 0 .. N
         /\ Counted(f, z, h) = Len(Chain(f, h)) \/ Counted(f, z, h) = Len(Chain(f, h)) - 1
         /\ h # z => Counted(f, z, h) = Len(Chain(f, h))
         /\ \A j \in 1 .. Counted(f, z, h) : j \in 1 .. Len(Chain(f, h))
         /\ \A j \in 1 .. Len(Chain(f, h)) :
              Chain(f, h)[j] \in Cluster /\ Chain(f, h)[j] \in ClustersFrom(f, h)
<1>1. h \in Cluster /\ Begins(f, h)
  BY DEF TreeOK, HeadsOf, DirsOf, OwnersAreHeads, Cluster
<1>2. Sound(f)
  BY DEF TreeOK
<1>3. Chain(f, h) \in Seq(Cluster) /\ Len(Chain(f, h)) \in 1 .. N /\ Chain(f, h)[1] = h
  BY <1>1, <1>2, HeadChain
<1>4. \A j \in 1 .. Len(Chain(f, h)) :
        Chain(f, h)[j] \in Cluster /\ Chain(f, h)[j] \in ClustersFrom(f, h)
  BY <1>1, <1>2, <1>3, ClusterPlace
<1> DEFINE n == Len(Chain(f, h))
<1>5. n \in 1 .. N /\ (Counted(f, z, h) = IF h = z THEN n - 1 ELSE n)
  BY <1>3 DEF Counted
<1> HIDE DEF n
<1>6. /\ Counted(f, z, h) \in 0 .. N /\ (Counted(f, z, h) = n \/ Counted(f, z, h) = n - 1)
      /\ h # z => Counted(f, z, h) = n
      /\ \A j \in 1 .. Counted(f, z, h) : j \in 1 .. n
  BY <1>5, ClustersAreFinite
<1>7. h # NoCluster
  BY <1>1, MarksAreNoClusters
<1>8. QED
  BY <1>1, <1>3, <1>4, <1>6, <1>7 DEF n

\* A cluster has one place among all directories.
LEMMA OnePlace ==
  ASSUME NEW f, NEW d, NEW L, NEW z, TreeOK(f, d, L, z),
         NEW h \in HeadsOf(d, L), NEW j \in 1 .. Len(Chain(f, h)),
         NEW hh \in HeadsOf(d, L), NEW jj \in 1 .. Len(Chain(f, hh)),
         Chain(f, h)[j] = Chain(f, hh)[jj]
  PROVE  h = hh /\ j = jj
<1>1. Sound(f) /\ h \in Cluster /\ Begins(f, h) /\ hh \in Cluster /\ Begins(f, hh)
  BY HeadsAre DEF TreeOK
<1>2. h = hh
  <2>1. Chain(f, h)[j] \in ClustersFrom(f, h) /\ Chain(f, hh)[jj] \in ClustersFrom(f, hh)
    BY HeadsAre
  <2>2. QED
    BY <1>1, <2>1, HeadsApart
<1>3. QED
  BY <1>1, <1>2, PlacesApart

\* Every counted cluster of a directory is in the space of directories.
LEMMA SpaceIs ==
  ASSUME NEW f, NEW d, NEW L, NEW z, TreeOK(f, d, L, z)
  PROVE  \A h \in HeadsOf(d, L) : \A j \in 1 .. Counted(f, z, h) :
           Chain(f, h)[j] \in Space(f, d, L, z)
<1>1. SUFFICES ASSUME NEW h \in HeadsOf(d, L), NEW j \in 1 .. Counted(f, z, h)
      PROVE  Chain(f, h)[j] \in Space(f, d, L, z)
  OBVIOUS
<1>2. Chain(f, h)[j] \in Cluster
  BY HeadsAre
<1>3. QED
  BY <1>2 DEF Space

\* A chain no directory has lies outside all directories.
LEMMA OutOfSpace ==
  ASSUME NEW f, NEW d, NEW L, NEW z, TreeOK(f, d, L, z), NEW c \in Cluster,
         f[c] = Free \/ (Begins(f, c) /\ c \notin HeadsOf(d, L))
  PROVE  /\ c \notin Space(f, d, L, z)
         /\ \A h \in HeadsOf(d, L) : h # c /\ \A j \in 1 .. Len(Chain(f, h)) : Chain(f, h)[j] # c
<1>1. ASSUME NEW h \in HeadsOf(d, L), NEW j \in 1 .. Len(Chain(f, h))
      PROVE  h # c /\ Chain(f, h)[j] # c
  <2>1. h \in Cluster /\ Begins(f, h) /\ Sound(f) /\ Chain(f, h)[j] \in ClustersFrom(f, h)
    BY HeadsAre DEF TreeOK
  <2>2. CASE f[c] = Free
    BY <2>1, <2>2, HeadChain DEF Begins
  <2>3. CASE Begins(f, c) /\ c \notin HeadsOf(d, L)
    <3>1. h # c
      BY <2>3
    <3>2. QED
      BY <2>1, <2>3, <3>1, HeadsApart
  <2>4. QED
    BY <2>2, <2>3
<1>2. ASSUME NEW h \in HeadsOf(d, L) PROVE h # c
  <2>1. 1 \in 1 .. Len(Chain(f, h))
    BY HeadsAre
  <2>2. QED
    BY <1>1, <2>1
<1>3. c \notin Space(f, d, L, z)
  BY <1>1, HeadsAre DEF Space
<1>4. QED
  BY <1>1, <1>2, <1>3

\* An entry that is at most taken out of use.
Tamer(y, x) ==
  /\ Live(y) => Live(x) /\ y.name = x.name
  /\ y.kind = "free" => x.kind = "free"
  /\ y.name \in {x.name, NoName}

\* A directory stays in order when its counted clusters stay and its entries
\* are at most taken out of use.
LEMMA OrderedKept ==
  ASSUME NEW f, NEW d, NEW z, NEW h, Ordered(f, d, z, h), NEW g, NEW e, NEW y,
         Counted(g, y, h) = Counted(f, z, h),
         \A j \in 1 .. Counted(f, z, h) :
           /\ Chain(g, h)[j] = Chain(f, h)[j]
           /\ \A i \in Index : Tamer(e[Chain(f, h)[j]][i], d[Chain(f, h)[j]][i])
  PROVE  Ordered(g, e, y, h)
<1> DEFINE n == Counted(f, z, h)
           old(j, i) == Of(f, d, h, j, i)
           new(j, i) == Of(g, e, h, j, i)
<1>1. \A j \in 1 .. n, i \in Index : Tamer(new(j, i), old(j, i))
  BY DEF Of
<1>2. \A j \in 1 .. n, i \in Index : Live(old(j, i)) => old(j, i).name \in Name
  BY DEF Ordered
<1>3. \A j, jj \in 1 .. n, i, ii \in Index :
        Before(j, i, jj, ii) /\ Live(old(jj, ii)) =>
          old(j, i).kind # "free" /\ old(j, i).name # old(jj, ii).name
  BY DEF Ordered
<1> HIDE DEF old, new
<1>4. \A j \in 1 .. n, i \in Index : Live(new(j, i)) => new(j, i).name \in Name
  BY <1>1, <1>2 DEF Tamer
<1>5. \A j, jj \in 1 .. n, i, ii \in Index :
        Before(j, i, jj, ii) /\ Live(new(jj, ii)) =>
          new(j, i).kind # "free" /\ new(j, i).name # new(jj, ii).name
  <2>1. SUFFICES ASSUME NEW j \in 1 .. n, NEW jj \in 1 .. n, NEW i \in Index, NEW ii \in Index,
                        Before(j, i, jj, ii), Live(new(jj, ii))
        PROVE  new(j, i).kind # "free" /\ new(j, i).name # new(jj, ii).name
    OBVIOUS
  <2>2. Live(old(jj, ii)) /\ new(jj, ii).name = old(jj, ii).name /\ old(jj, ii).name \in Name
    BY <1>1, <1>2, <2>1 DEF Tamer
  <2>3. old(j, i).kind # "free" /\ old(j, i).name # old(jj, ii).name
    BY <1>3, <2>1, <2>2
  <2>4. new(j, i).kind # "free" /\ new(j, i).name \in {old(j, i).name, NoName}
    BY <1>1, <2>3 DEF Tamer
  <2>5. QED
    BY <2>2, <2>3, <2>4, DirectoryAssumption
<1>6. QED
  BY <1>4, <1>5 DEF Ordered, new

\* A tree stays in order when its directories keep their clusters and entries
\* are at most taken out of use in them.
LEMMA TreeKept ==
  ASSUME NEW f, NEW d, NEW L, NEW z, TreeOK(f, d, L, z), NEW g, NEW e, NEW M, NEW y,
         Sound(g), Begins(g, Root), EntriesAreSound(e, M), OwnersAreHeads(g, e, M),
         \A h \in HeadsOf(e, M) :
           /\ h \in HeadsOf(d, L)
           /\ Counted(g, y, h) = Counted(f, z, h)
           /\ \A j \in 1 .. Counted(f, z, h) :
                /\ Chain(g, h)[j] = Chain(f, h)[j]
                /\ \A i \in Index : Tamer(e[Chain(f, h)[j]][i], d[Chain(f, h)[j]][i]),
         \A s \in OwnersOf(e, M) : s[1] \in Space(g, e, M, y)
  PROVE  TreeOK(g, e, M, y)
<1>1. ASSUME NEW h \in HeadsOf(e, M) PROVE Ordered(g, e, y, h)
  <2>1. Ordered(f, d, z, h)
    BY DEF TreeOK
  <2>2. QED
    BY <2>1, OrderedKept
<1>2. QED
  BY <1>1 DEF TreeOK

\* What the handles on directories say of them stays true, but for those in T.
Stays(f, d, L, z, g, e, M, y, T) ==
  /\ Counted(g, y, Root) = Counted(f, z, Root)
  /\ \A s \in DirsOf(d, L) \ T :
       /\ s \in DirsOf(e, M) /\ At(e, s).first = At(d, s).first
       /\ Counted(g, y, At(d, s).first) = Counted(f, z, At(d, s).first)

\* What a handle says of its directory stays true when the directory stays.
LEMMA HandlesStay ==
  ASSUME NEW f, NEW d, NEW L, NEW z, NEW g, NEW e, NEW M, NEW y, NEW T,
         Stays(f, d, L, z, g, e, M, y, T), NEW x, x.slot \notin T
  PROVE  /\ RootHandle(f, z, x) => RootHandle(g, y, x)
         /\ DirHandle(f, d, L, z, x) => DirHandle(g, e, M, y, x)
BY DEF Stays, RootHandle, DirHandle

\* One entry is rewritten.
PutIn(d, s, v) == [d EXCEPT ![s[1]][s[2]] = v]

\* What an image is after one entry was rewritten.
LEMMA PutIs ==
  ASSUME NEW d \in Contents, NEW s \in Slot, NEW v \in AnyEntry,
         NEW e, e = PutIn(d, s, v)
  PROVE  /\ e \in Contents
         /\ \A c \in Cluster, i \in Index : e[c][i] = IF <<c, i>> = s THEN v ELSE d[c][i]
         /\ \A t \in Slot : At(e, t) = IF t = s THEN v ELSE At(d, t)
<1>1. s[1] \in Cluster /\ s[2] \in Index /\ s = <<s[1], s[2]>>
  BY DEF Slot
<1>2. e \in Contents
  BY <1>1 DEF Contents, PutIn
<1>3. \A c \in Cluster, i \in Index : e[c][i] = IF <<c, i>> = s THEN v ELSE d[c][i]
  BY <1>1 DEF Contents, PutIn
<1>4. ASSUME NEW t \in Slot PROVE At(e, t) = IF t = s THEN v ELSE At(d, t)
  <2>1. t[1] \in Cluster /\ t[2] \in Index /\ t = <<t[1], t[2]>>
    BY DEF Slot
  <2>2. QED
    BY <1>3, <2>1 DEF At
<1>5. QED
  BY <1>2, <1>3, <1>4

-----------------------------------------------------------------------------
(* What the calls do to a tree that is in order: clusters are added. *)

\* An entry left alone is taken out of use at most.
LEMMA TamerSame == \A x : Tamer(x, x)
BY DEF Tamer

\* Directories that keep their clusters keep the space of directories.
LEMMA SameSpace ==
  ASSUME NEW f, NEW d, NEW L, NEW z, NEW g, NEW e, NEW M, NEW y,
         \A h \in HeadsOf(d, L) :
           /\ h \in HeadsOf(e, M) /\ Counted(g, y, h) = Counted(f, z, h)
           /\ \A j \in 1 .. Counted(f, z, h) : Chain(g, h)[j] = Chain(f, h)[j]
  PROVE  Space(f, d, L, z) \subseteq Space(g, e, M, y)
<1>1. SUFFICES ASSUME NEW c \in Space(f, d, L, z) PROVE c \in Space(g, e, M, y)
  OBVIOUS
<1>2. c \in Cluster
  BY DEF Space
<1>3. PICK h \in HeadsOf(d, L) : \E j \in 1 .. Counted(f, z, h) : c = Chain(f, h)[j]
  BY DEF Space
<1>4. PICK j \in 1 .. Counted(f, z, h) : c = Chain(f, h)[j]
  BY <1>3
<1>5. h \in HeadsOf(e, M) /\ j \in 1 .. Counted(g, y, h) /\ c = Chain(g, h)[j]
  BY <1>4
<1>6. QED
  BY <1>2, <1>5 DEF Space

\* Heads of chains stay heads when no chain loses its head.
LEMMA OwnersBegin ==
  ASSUME NEW f, NEW d, NEW L, OwnersAreHeads(f, d, L), NEW g,
         \A x \in Cluster : Begins(f, x) => Begins(g, x)
  PROVE  OwnersAreHeads(g, d, L)
BY DEF OwnersAreHeads, Cluster

\* The first cluster of a directory is a head.
LEMMA DirHeads ==
  ASSUME NEW d, NEW L, NEW s \in DirsOf(d, L)
  PROVE  At(d, s).first \in HeadsOf(d, L)
BY DEF HeadsOf

\* So is the root.
LEMMA RootHead == \A d, L : Root \in HeadsOf(d, L)
BY DEF HeadsOf

\* addCluster to a directory: the new cluster is not zeroed yet.
LEMMA TreeGrows ==
  ASSUME NEW f, NEW d, Tree0(f, d), NEW h \in HeadsOf(d, {}), NEW c \in Other, f[c] = Free,
         NEW g, g = AppendedTo(f, Chain(f, h)[Len(Chain(f, h))], c)
  PROVE  /\ TreeOK(g, d, {}, h) /\ Stays(f, d, {}, NoCluster, g, d, {}, h, {})
         /\ Chain(g, h) = Append(Chain(f, h), c)
<1> USE DEF Tree0
<1>1. Sound(f) /\ h \in Cluster /\ Begins(f, h) /\ c \in Cluster
  BY HeadsAre DEF TreeOK, Cluster
<1>2. /\ Sound(g) /\ Begins(g, h) /\ Chain(g, h) = Append(Chain(f, h), c)
      /\ \A x \in Cluster : Begins(f, x) /\ x # h =>
           Begins(g, x) /\ Chain(g, x) = Chain(f, x)
  BY <1>1, LongerChain
<1>3. ASSUME NEW x \in HeadsOf(d, {})
      PROVE  /\ Counted(f, NoCluster, x) = Len(Chain(f, x)) /\ Counted(g, h, x) = Len(Chain(f, x))
             /\ \A j \in 1 .. Len(Chain(f, x)) : Chain(g, x)[j] = Chain(f, x)[j]
  <2>1. /\ x \in Cluster /\ Begins(f, x) /\ x # NoCluster
        /\ Chain(f, x) \in Seq(Cluster) /\ Len(Chain(f, x)) \in 1 .. N
        /\ Counted(f, NoCluster, x) = Len(Chain(f, x))
    BY HeadsAre
  <2>2. CASE x = h
    <3> DEFINE s == Chain(f, x)
    <3>1. s \in Seq(Cluster) /\ Len(s) \in 1 .. N /\ Chain(g, x) = Append(s, c)
      BY <1>2, <2>1, <2>2
    <3> HIDE DEF s
    <3>2. /\ Len(Append(s, c)) = Len(s) + 1 /\ Len(s) + 1 - 1 = Len(s)
          /\ \A j \in 1 .. Len(s) : Append(s, c)[j] = s[j]
      BY <1>1, <3>1, ClustersAreFinite
    <3>3. Counted(g, h, x) = Len(s)
      BY <2>2, <3>1, <3>2 DEF Counted
    <3>4. QED
      BY <2>1, <3>1, <3>2, <3>3 DEF s
  <2>3. CASE x # h
    BY <1>2, <2>1, <2>3 DEF Counted
  <2>4. QED
    BY <2>2, <2>3
<1>4. OwnersAreHeads(g, d, {})
  BY <1>2, OwnersBegin DEF TreeOK
<1>5. Begins(g, Root)
  <2>1. Begins(f, Root) /\ Root \in Cluster
    BY DEF TreeOK, Cluster
  <2>2. QED
    BY <1>2, <2>1
<1>6. Space(f, d, {}, NoCluster) \subseteq Space(g, d, {}, h)
  BY <1>3, SameSpace
<1>7. TreeOK(g, d, {}, h)
  <2>1. EntriesAreSound(d, {}) /\ \A s \in OwnersOf(d, {}) : s[1] \in Space(g, d, {}, h)
    BY <1>6 DEF TreeOK
  <2>2. QED
    BY <1>2, <1>3, <1>4, <1>5, <2>1, TreeKept, TamerSame
<1>8. Stays(f, d, {}, NoCluster, g, d, {}, h, {})
  BY <1>3, DirHeads, RootHead DEF Stays
<1>9. QED
  BY <1>2, <1>7, <1>8

\* A cluster that is free becomes a chain of its own.
LEMMA TreeGetsChain ==
  ASSUME NEW f, NEW d, Tree0(f, d), NEW c \in Other, f[c] = Free,
         NEW g, g = AppendedTo(f, NoCluster, c)
  PROVE  /\ Tree0(g, d) /\ Stays(f, d, {}, NoCluster, g, d, {}, NoCluster, {})
         /\ Begins(g, c) /\ g[c] = EOC
         /\ \A s \in OwnersOf(d, {}) : At(d, s).first # c
         /\ Space(f, d, {}, NoCluster) \subseteq Space(g, d, {}, NoCluster)
<1> USE DEF Tree0
<1>1. Sound(f) /\ c \in Cluster
  BY DEF TreeOK, Cluster
<1>2. /\ Sound(g) /\ Begins(g, c) /\ g[c] = EOC
      /\ \A x \in Cluster : Begins(f, x) /\ x # c => Begins(g, x) /\ Chain(g, x) = Chain(f, x)
  BY <1>1, NewChain
<1>3. \A x \in Cluster : Begins(f, x) => x # c
  BY DEF Begins
<1>4. ASSUME NEW x \in HeadsOf(d, {})
      PROVE  Counted(g, NoCluster, x) = Counted(f, NoCluster, x) /\ Chain(g, x) = Chain(f, x)
  <2>1. x \in Cluster /\ Begins(f, x)
    BY HeadsAre
  <2>2. QED
    BY <1>2, <1>3, <2>1 DEF Counted
<1>5. OwnersAreHeads(g, d, {})
  BY <1>2, <1>3, OwnersBegin DEF TreeOK
<1>6. Begins(g, Root)
  BY <1>2, <1>3 DEF TreeOK, Cluster
<1>7. Space(f, d, {}, NoCluster) \subseteq Space(g, d, {}, NoCluster)
  BY <1>4, SameSpace
<1>8. TreeOK(g, d, {}, NoCluster)
  <2>1. EntriesAreSound(d, {}) /\ \A s \in OwnersOf(d, {}) : s[1] \in Space(g, d, {}, NoCluster)
    BY <1>7 DEF TreeOK
  <2>2. QED
    BY <1>2, <1>4, <1>5, <1>6, <2>1, TreeKept, TamerSame
<1>9. Stays(f, d, {}, NoCluster, g, d, {}, NoCluster, {})
  BY <1>4, DirHeads, RootHead DEF Stays
<1>10. \A s \in OwnersOf(d, {}) : At(d, s).first # c
  BY <1>3, <1>1 DEF TreeOK, OwnersAreHeads, Cluster
<1>11. QED
  BY <1>2, <1>7, <1>8, <1>9, <1>10

\* A block that begins empty has no entries.
LEMMA ZeroedIs ==
  /\ Zeroed \in [Index -> AnyEntry]
  /\ \A i \in Index : Zeroed[i] = Unnamed("free") /\ ~Live(Zeroed[i])
BY DEF Zeroed, Unnamed, Entry, AnyEntry, Live

\* A cluster is zeroed.
Cleaned(d, c) == [d EXCEPT ![c] = Zeroed]

\* cacheZeroBlock changes one cluster only.
LEMMA CleanClusters ==
  ASSUME NEW d \in Contents, NEW c \in Cluster,
         NEW e, e = Cleaned(d, c)
  PROVE  /\ e \in Contents /\ e[c] = Zeroed
         /\ \A x \in Cluster : x # c => e[x] = d[x]
         /\ \A s \in Slot : s[1] # c => At(e, s) = At(d, s)
         /\ \A s \in Slot : s[1] = c => At(e, s) = Unnamed("free") /\ ~Live(At(e, s))
<1>1. e \in Contents /\ e[c] = Zeroed /\ \A x \in Cluster : x # c => e[x] = d[x]
  BY ZeroedIs DEF Contents, Cleaned
<1>2. \A s \in Slot : s[1] \in Cluster /\ s[2] \in Index
  BY DEF Slot
<1>3. QED
  BY <1>1, <1>2, ZeroedIs DEF At

-----------------------------------------------------------------------------
(* What the calls do to a tree that is in order: clusters are zeroed. *)

\* Zeroing a cluster outside all directories takes no entry out of use.
LEMMA CleanOwners ==
  ASSUME NEW f, NEW d, EntriesAreSound(d, {}), OwnersAreHeads(f, d, {}), NEW c \in Cluster,
         \A s \in OwnersOf(d, {}) : s[1] # c, NEW e, e = Cleaned(d, c)
  PROVE  /\ EntriesAreSound(e, {}) /\ OwnersAreHeads(f, e, {})
         /\ OwnersOf(e, {}) = OwnersOf(d, {}) /\ DirsOf(e, {}) = DirsOf(d, {})
         /\ HeadsOf(e, {}) = HeadsOf(d, {})
         /\ \A s \in OwnersOf(d, {}) : At(e, s) = At(d, s)
<1>1. /\ e \in Contents
      /\ \A s \in Slot : s[1] # c => At(e, s) = At(d, s)
      /\ \A s \in Slot : s[1] = c => At(e, s) = Unnamed("free") /\ ~Live(At(e, s))
  BY CleanClusters DEF EntriesAreSound
<1>2. OwnersOf(e, {}) = OwnersOf(d, {}) /\ \A s \in OwnersOf(d, {}) : At(e, s) = At(d, s)
  BY <1>1 DEF OwnersOf
<1>3. DirsOf(e, {}) = DirsOf(d, {})
  BY <1>2 DEF DirsOf
<1>4. HeadsOf(e, {}) = HeadsOf(d, {})
  <2>1. \A s \in DirsOf(d, {}) : At(e, s).first = At(d, s).first
    BY <1>2 DEF DirsOf
  <2>2. QED
    BY <1>3, <2>1 DEF HeadsOf
<1>5. OwnersAreHeads(f, e, {})
  BY <1>2 DEF OwnersAreHeads
<1>6. Unnamed("free").kind = "free"
  BY DEF Unnamed, Entry
<1>7. EntriesAreSound(e, {})
  <2>1. \A s \in Slot : At(e, s).kind = "dir" \/ (At(e, s).kind = "file" /\ At(e, s).size > 0)
          => At(e, s).first # NoCluster
    BY <1>1, <1>6 DEF EntriesAreSound
  <2>2. QED
    BY <1>1, <2>1 DEF EntriesAreSound
<1>8. QED
  BY <1>2, <1>3, <1>4, <1>5, <1>7

\* A directory that is in order stays so with one more cluster of free entries.
LEMMA OrderedMore ==
  ASSUME NEW f, NEW d, NEW h, Ordered(f, d, h, h), h # NoCluster, Len(Chain(f, h)) \in Nat \ {0},
         \A i \in Index : LET x == Of(f, d, h, Len(Chain(f, h)), i) IN ~Live(x)
  PROVE  Ordered(f, d, NoCluster, h)
<1> DEFINE n == Len(Chain(f, h))
           at(j, i) == Of(f, d, h, j, i)
<1>1. n \in Nat \ {0} /\ Counted(f, h, h) = n - 1 /\ Counted(f, NoCluster, h) = n
  BY DEF Counted
<1>2. \A j \in 1 .. n - 1, i \in Index : Live(at(j, i)) => at(j, i).name \in Name
  BY <1>1 DEF Ordered
<1>3. \A j, jj \in 1 .. n - 1, i, ii \in Index :
        Before(j, i, jj, ii) /\ Live(at(jj, ii)) =>
          at(j, i).kind # "free" /\ at(j, i).name # at(jj, ii).name
  BY <1>1 DEF Ordered
<1>4. \A i \in Index : ~Live(at(n, i))
  OBVIOUS
<1> HIDE DEF n, at
<1>5. \A j \in 1 .. n, i \in Index : Live(at(j, i)) => j \in 1 .. n - 1
  <2>1. SUFFICES ASSUME NEW j \in 1 .. n, NEW i \in Index, Live(at(j, i)) PROVE j \in 1 .. n - 1
    OBVIOUS
  <2>2. j # n
    BY <1>4, <2>1
  <2>3. QED
    BY <1>1, <2>2
<1>6. \A j, jj \in 1 .. n, i, ii \in Index :
        Before(j, i, jj, ii) /\ Live(at(jj, ii)) => j \in 1 .. n - 1 /\ jj \in 1 .. n - 1
  <2>1. SUFFICES ASSUME NEW j \in 1 .. n, NEW jj \in 1 .. n, NEW i \in Index, NEW ii \in Index,
                        Before(j, i, jj, ii), Live(at(jj, ii))
        PROVE  j \in 1 .. n - 1 /\ jj \in 1 .. n - 1
    OBVIOUS
  <2>2. jj \in 1 .. n - 1
    BY <1>5, <2>1
  <2>3. j <= jj
    BY <1>1, <2>1 DEF Before
  <2>4. QED
    BY <1>1, <2>2, <2>3
<1>7. \A j \in 1 .. n, i \in Index : Live(at(j, i)) => at(j, i).name \in Name
  BY <1>2, <1>5
<1>8. \A j, jj \in 1 .. n, i, ii \in Index :
        Before(j, i, jj, ii) /\ Live(at(jj, ii)) =>
          at(j, i).kind # "free" /\ at(j, i).name # at(jj, ii).name
  BY <1>3, <1>6
<1>9. QED
  BY <1>1, <1>7, <1>8 DEF Ordered, at

\* addDirCluster: the last cluster of the directory is zeroed.
LEMMA TreeZeroes ==
  ASSUME NEW f, NEW d, NEW h, TreeOK(f, d, {}, h), h \in HeadsOf(d, {}),
         NEW c, c = Chain(f, h)[Len(Chain(f, h))], NEW e, e = Cleaned(d, c)
  PROVE  /\ Tree0(f, e) /\ DirsOf(e, {}) = DirsOf(d, {}) /\ HeadsOf(e, {}) = HeadsOf(d, {})
         /\ \A s \in DirsOf(d, {}) : At(e, s) = At(d, s)
         /\ e[c] = Zeroed
         /\ \A j \in 1 .. Counted(f, h, h) : e[Chain(f, h)[j]] = d[Chain(f, h)[j]]
<1> DEFINE n == Len(Chain(f, h))
<1>1. /\ n \in 1 .. N /\ n \in Nat \ {0} /\ n \in 1 .. n /\ Counted(f, h, h) = n - 1
      /\ c \in Cluster /\ h # NoCluster
      /\ \A j \in 1 .. n : Chain(f, h)[j] \in Cluster
  <2>1. /\ n \in 1 .. N /\ h # NoCluster /\ Counted(f, h, h) = n - 1
        /\ \A j \in 1 .. n : Chain(f, h)[j] \in Cluster
    BY HeadsAre DEF Counted
  <2>2. c = Chain(f, h)[n]
    OBVIOUS
  <2> HIDE DEF n
  <2>3. n \in Nat \ {0} /\ n \in 1 .. n
    BY <2>1, ClustersAreFinite
  <2>4. QED
    BY <2>1, <2>2, <2>3
<1>2. ASSUME NEW x \in HeadsOf(d, {}), NEW j \in 1 .. Counted(f, h, x) PROVE Chain(f, x)[j] # c
  <2>1. j \in 1 .. Len(Chain(f, x))
    BY HeadsAre
  <2>2. SUFFICES ASSUME Chain(f, x)[j] = Chain(f, h)[n] PROVE FALSE
    OBVIOUS
  <2>3. x = h /\ j = n
    BY <1>1, <2>1, <2>2, OnePlace
  <2>4. j \in 1 .. n - 1
    BY <1>1, <2>3
  <2> HIDE DEF n
  <2>5. QED
    BY <1>1, <2>3, <2>4
<1>3. \A s \in OwnersOf(d, {}) : s[1] # c
  BY <1>2 DEF TreeOK, Space
<1>4. /\ EntriesAreSound(e, {}) /\ OwnersAreHeads(f, e, {})
      /\ OwnersOf(e, {}) = OwnersOf(d, {}) /\ DirsOf(e, {}) = DirsOf(d, {})
      /\ HeadsOf(e, {}) = HeadsOf(d, {})
      /\ \A s \in OwnersOf(d, {}) : At(e, s) = At(d, s)
  BY <1>1, <1>3, CleanOwners DEF TreeOK
<1>5. e[c] = Zeroed /\ \A x \in Cluster : x # c => e[x] = d[x]
  BY <1>1, CleanClusters DEF TreeOK, EntriesAreSound
<1>6. ASSUME NEW x \in HeadsOf(d, {}), NEW j \in 1 .. Counted(f, h, x)
      PROVE  e[Chain(f, x)[j]] = d[Chain(f, x)[j]]
  <2>1. Chain(f, x)[j] \in Cluster
    BY HeadsAre
  <2>2. QED
    BY <1>2, <1>5, <2>1
<1>7. ASSUME NEW x \in HeadsOf(d, {}) PROVE Ordered(f, e, h, x)
  <2>1. Ordered(f, d, h, x)
    BY DEF TreeOK
  <2>2. QED
    BY <1>6, <2>1, OrderedKept, TamerSame
<1>8. ASSUME NEW x \in HeadsOf(d, {}) PROVE Ordered(f, e, NoCluster, x)
  <2>1. CASE x = h
    <3>1. \A i \in Index : ~Live(Of(f, e, h, n, i))
      BY <1>5, ZeroedIs DEF Of
    <3>2. Ordered(f, e, h, h)
      BY <1>7, <2>1
    <3>3. Ordered(f, e, NoCluster, h)
      BY <1>1, <3>1, <3>2, OrderedMore
    <3>4. QED
      BY <2>1, <3>3
  <2>2. CASE x # h
    <3>1. Counted(f, NoCluster, x) = Counted(f, h, x)
      BY <2>2, HeadsAre DEF Counted
    <3>2. Ordered(f, e, h, x)
      BY <1>7
    <3>3. QED
      BY <3>1, <3>2 DEF Ordered
  <2>3. QED
    BY <2>1, <2>2
<1>9. Space(f, d, {}, h) \subseteq Space(f, e, {}, NoCluster)
  <2>1. SUFFICES ASSUME NEW x \in Space(f, d, {}, h) PROVE x \in Space(f, e, {}, NoCluster)
    OBVIOUS
  <2>2. PICK y \in HeadsOf(d, {}) : \E j \in 1 .. Counted(f, h, y) : x = Chain(f, y)[j]
    BY DEF Space
  <2>3. PICK j \in 1 .. Counted(f, h, y) : x = Chain(f, y)[j]
    BY <2>2
  <2>4. j \in 1 .. Counted(f, NoCluster, y)
    <3>1. y # NoCluster /\ j \in 1 .. Len(Chain(f, y))
      BY HeadsAre
    <3>2. QED
      BY <3>1 DEF Counted
  <2>5. QED
    BY <1>4, <2>3, <2>4 DEF Space
<1>10. Tree0(f, e)
  BY <1>4, <1>8, <1>9 DEF Tree0, TreeOK
<1>11. \A s \in DirsOf(d, {}) : At(e, s) = At(d, s)
  BY <1>4 DEF DirsOf
<1>12. QED
  BY <1>4, <1>5, <1>6, <1>10, <1>11

\* makeDir: the cluster of the new directory is zeroed.
LEMMA TreeZeroesNew ==
  ASSUME NEW f, NEW d, Tree0(f, d), NEW c \in Other, Begins(f, c),
         \A s \in OwnersOf(d, {}) : At(d, s).first # c, NEW e, e = Cleaned(d, c)
  PROVE  /\ Tree0(f, e) /\ Stays(f, d, {}, NoCluster, f, e, {}, NoCluster, {})
         /\ OwnersOf(e, {}) = OwnersOf(d, {}) /\ e[c] = Zeroed
         /\ \A s \in OwnersOf(d, {}) : At(e, s) = At(d, s)
         /\ \A s \in Slot : s[1] \in Space(f, d, {}, NoCluster) => At(e, s) = At(d, s)
         /\ Space(f, d, {}, NoCluster) \subseteq Space(f, e, {}, NoCluster)
<1> USE DEF Tree0
<1>1. c \in Cluster /\ c # Root
  BY DirectoryAssumption DEF Cluster
<1>2. c \notin HeadsOf(d, {})
  BY <1>1 DEF HeadsOf, DirsOf
<1>3. /\ c \notin Space(f, d, {}, NoCluster)
      /\ \A h \in HeadsOf(d, {}) : \A j \in 1 .. Len(Chain(f, h)) : Chain(f, h)[j] # c
  BY <1>1, <1>2, OutOfSpace
<1>4. \A s \in OwnersOf(d, {}) : s[1] # c
  BY <1>3 DEF TreeOK
<1>5. /\ EntriesAreSound(e, {}) /\ OwnersAreHeads(f, e, {})
      /\ OwnersOf(e, {}) = OwnersOf(d, {}) /\ DirsOf(e, {}) = DirsOf(d, {})
      /\ HeadsOf(e, {}) = HeadsOf(d, {})
      /\ \A s \in OwnersOf(d, {}) : At(e, s) = At(d, s)
  BY <1>1, <1>4, CleanOwners DEF TreeOK
<1>6. /\ e[c] = Zeroed /\ \A x \in Cluster : x # c => e[x] = d[x]
      /\ \A s \in Slot : s[1] # c => At(e, s) = At(d, s)
  BY <1>1, CleanClusters DEF TreeOK, EntriesAreSound
<1>7. ASSUME NEW h \in HeadsOf(d, {}), NEW j \in 1 .. Counted(f, NoCluster, h)
      PROVE  e[Chain(f, h)[j]] = d[Chain(f, h)[j]]
  <2>1. j \in 1 .. Len(Chain(f, h)) /\ Chain(f, h)[j] \in Cluster
    BY HeadsAre
  <2>2. QED
    BY <1>3, <1>6, <2>1
<1>8. Space(f, d, {}, NoCluster) \subseteq Space(f, e, {}, NoCluster)
  BY <1>5, SameSpace
<1>9. TreeOK(f, e, {}, NoCluster)
  <2>1. \A s \in OwnersOf(e, {}) : s[1] \in Space(f, e, {}, NoCluster)
    BY <1>5, <1>8 DEF TreeOK
  <2>2. Sound(f) /\ Begins(f, Root)
    BY DEF TreeOK
  <2>3. \A h \in HeadsOf(e, {}) :
          /\ h \in HeadsOf(d, {}) /\ Counted(f, NoCluster, h) = Counted(f, NoCluster, h)
          /\ \A j \in 1 .. Counted(f, NoCluster, h) :
               /\ Chain(f, h)[j] = Chain(f, h)[j]
               /\ \A i \in Index : Tamer(e[Chain(f, h)[j]][i], d[Chain(f, h)[j]][i])
    BY <1>5, <1>7, TamerSame
  <2>4. QED
    BY <1>5, <2>1, <2>2, <2>3, TreeKept
<1>10. Stays(f, d, {}, NoCluster, f, e, {}, NoCluster, {})
  BY <1>5 DEF Stays, DirsOf
<1>11. \A s \in Slot : s[1] \in Space(f, d, {}, NoCluster) => At(e, s) = At(d, s)
  BY <1>3, <1>6
<1>12. QED
  BY <1>5, <1>6, <1>8, <1>9, <1>10, <1>11

-----------------------------------------------------------------------------
(* What the calls do to a tree that is in order: one entry is rewritten. *)

\* The rest of an order stays when an entry gets kind, name, first and size of v
\* and is no entry of a directory before and after.
LEMMA PutPlain ==
  ASSUME NEW f, NEW d, NEW L, TreeOK(f, d, L, NoCluster), NEW s \in Slot, NEW v \in AnyEntry,
         NEW e, e = PutIn(d, s, v), NEW M, L \ {s} = M \ {s},
         s \notin DirsOf(d, L), v.kind # "dir" \/ s \in M,
         s \notin M /\ v.kind = "file" /\ v.size > 0 => v.first # NoCluster,
         s \notin M /\ Live(v) /\ v.first # NoCluster =>
           /\ v.first \in Other /\ Begins(f, v.first) /\ s[1] \in Space(f, d, L, NoCluster)
           /\ \A t \in OwnersOf(d, L) : t # s => At(d, t).first # v.first
  PROVE  /\ EntriesAreSound(e, M) /\ OwnersAreHeads(f, e, M)
         /\ DirsOf(e, M) = DirsOf(d, L) /\ HeadsOf(e, M) = HeadsOf(d, L)
         /\ Space(f, e, M, NoCluster) = Space(f, d, L, NoCluster)
         /\ \A t \in OwnersOf(e, M) : t[1] \in Space(f, e, M, NoCluster)
         /\ Stays(f, d, L, NoCluster, f, e, M, NoCluster, {})
<1>1. EntriesAreSound(d, L) /\ OwnersAreHeads(f, d, L)
  BY DEF TreeOK
<1>2. /\ e \in Contents /\ At(e, s) = v
      /\ \A t \in Slot : t # s => At(e, t) = At(d, t)
  BY <1>1, PutIs DEF EntriesAreSound
<1>3. \A t \in Slot : t # s => (t \in L <=> t \in M)
  OBVIOUS
<1>4. EntriesAreSound(e, M)
  <2>1. \A t \in Slot \ M : At(e, t).kind = "dir" \/ (At(e, t).kind = "file" /\ At(e, t).size > 0)
          => At(e, t).first # NoCluster
    <3>1. SUFFICES ASSUME NEW t \in Slot \ M,
                          At(e, t).kind = "dir" \/ (At(e, t).kind = "file" /\ At(e, t).size > 0)
          PROVE  At(e, t).first # NoCluster
      OBVIOUS
    <3>2. CASE t = s
      BY <1>2, <3>1, <3>2
    <3>3. CASE t # s
      BY <1>1, <1>2, <1>3, <3>1, <3>3 DEF EntriesAreSound
    <3>4. QED
      BY <3>2, <3>3
  <2>2. QED
    BY <1>2, <2>1 DEF EntriesAreSound
<1>5. /\ \A t \in OwnersOf(e, M) : t # s => t \in OwnersOf(d, L) /\ At(e, t) = At(d, t)
      /\ \A t \in OwnersOf(d, L) : t # s => t \in OwnersOf(e, M) /\ At(e, t) = At(d, t)
      /\ s \in OwnersOf(e, M) => s \notin M /\ Live(v) /\ v.first # NoCluster
  BY <1>2, <1>3 DEF OwnersOf
<1>6. OwnersAreHeads(f, e, M)
  <2>1. ASSUME NEW t \in OwnersOf(e, M) PROVE At(e, t).first \in Other /\ Begins(f, At(e, t).first)
    <3>1. CASE t = s
      BY <1>2, <1>5, <3>1
    <3>2. CASE t # s
      BY <1>1, <1>5, <3>2 DEF OwnersAreHeads
    <3>3. QED
      BY <3>1, <3>2
  <2>2. ASSUME NEW t \in OwnersOf(e, M), NEW u \in OwnersOf(e, M), At(e, t).first = At(e, u).first,
               t # u
        PROVE  FALSE
    <3>1. CASE t = s
      BY <1>2, <1>5, <2>2, <3>1
    <3>2. CASE u = s
      BY <1>2, <1>5, <2>2, <3>2
    <3>3. CASE t # s /\ u # s
      BY <1>1, <1>5, <2>2, <3>3 DEF OwnersAreHeads
    <3>4. QED
      BY <3>1, <3>2, <3>3
  <2>3. QED
    BY <2>1, <2>2 DEF OwnersAreHeads
<1>7. DirsOf(e, M) = DirsOf(d, L) /\ \A t \in DirsOf(d, L) : At(e, t) = At(d, t)
  <2>1. s \notin DirsOf(e, M)
    BY <1>2 DEF DirsOf, OwnersOf
  <2>2. \A t \in OwnersOf(d, L) : t # s /\ At(d, t).kind = "dir" =>
          t \in DirsOf(e, M) /\ At(e, t) = At(d, t)
    BY <1>5 DEF DirsOf
  <2>3. \A t \in OwnersOf(e, M) : t # s /\ At(e, t).kind = "dir" => t \in DirsOf(d, L)
    BY <1>5 DEF DirsOf
  <2>4. QED
    BY <2>1, <2>2, <2>3 DEF DirsOf
<1>8. HeadsOf(e, M) = HeadsOf(d, L)
  BY <1>7 DEF HeadsOf
<1>9. Space(f, e, M, NoCluster) = Space(f, d, L, NoCluster)
  BY <1>8 DEF Space
<1>10. \A t \in OwnersOf(e, M) : t[1] \in Space(f, e, M, NoCluster)
  <2>1. SUFFICES ASSUME NEW t \in OwnersOf(e, M) PROVE t[1] \in Space(f, d, L, NoCluster)
    BY <1>9
  <2>2. CASE t = s
    BY <1>5, <2>2
  <2>3. CASE t # s
    BY <1>5, <2>3 DEF TreeOK
  <2>4. QED
    BY <2>2, <2>3
<1>11. Stays(f, d, L, NoCluster, f, e, M, NoCluster, {})
  BY <1>7 DEF Stays
<1>12. QED
  BY <1>4, <1>6, <1>7, <1>8, <1>9, <1>10, <1>11

\* The entry is at most taken out of use.
LEMMA PutTame ==
  ASSUME NEW f, NEW d, NEW L, TreeOK(f, d, L, NoCluster), NEW s \in Slot, NEW v \in AnyEntry,
         NEW e, e = PutIn(d, s, v), NEW M, Tamer(v, At(d, s)),
         EntriesAreSound(e, M), OwnersAreHeads(f, e, M), HeadsOf(e, M) = HeadsOf(d, L),
         \A t \in OwnersOf(e, M) : t[1] \in Space(f, e, M, NoCluster)
  PROVE  TreeOK(f, e, M, NoCluster)
<1>1. \A c \in Cluster, i \in Index : e[c][i] = IF <<c, i>> = s THEN v ELSE d[c][i]
  BY PutIs DEF TreeOK, EntriesAreSound
<1>2. \A c \in Cluster, i \in Index : Tamer(e[c][i], d[c][i])
  <2>1. \A c, i : <<c, i>> = s => At(d, s) = d[c][i]
    BY DEF At
  <2>2. QED
    BY <1>1, <2>1, TamerSame
<1>3. \A h \in HeadsOf(e, M) : \A j \in 1 .. Counted(f, NoCluster, h) : Chain(f, h)[j] \in Cluster
  BY HeadsAre
<1>4. \A h \in HeadsOf(e, M) :
        /\ h \in HeadsOf(d, L) /\ Counted(f, NoCluster, h) = Counted(f, NoCluster, h)
        /\ \A j \in 1 .. Counted(f, NoCluster, h) :
             /\ Chain(f, h)[j] = Chain(f, h)[j]
             /\ \A i \in Index : Tamer(e[Chain(f, h)[j]][i], d[Chain(f, h)[j]][i])
  BY <1>2, <1>3
<1>5. Sound(f) /\ Begins(f, Root)
  BY DEF TreeOK
<1>6. QED
  BY <1>4, <1>5, TreeKept

\* What an entry without a name is.
LEMMA UnnamedIs ==
  \A kind \in {"free", "deleted", "other", "dot"} :
    /\ Unnamed(kind) \in AnyEntry /\ Unnamed(kind).kind = kind /\ ~Live(Unnamed(kind))
    /\ Unnamed(kind).name = NoName
BY DEF Unnamed, Entry, AnyEntry, Live

\* An entry that is none of a directory is deleted or becomes . or ..
LEMMA TreeForgets ==
  ASSUME NEW f, NEW d, NEW s \in Slot, NEW L \in {{}, {s}}, TreeOK(f, d, L, NoCluster),
         s \notin DirsOf(d, L), NEW kind \in {"deleted", "dot"},
         NEW e, e = PutIn(d, s, Unnamed(kind))
  PROVE  Tree0(f, e) /\ Stays(f, d, L, NoCluster, f, e, {}, NoCluster, {})
<1> DEFINE v == Unnamed(kind)
<1>1. v \in AnyEntry /\ v.kind = kind /\ ~Live(v) /\ v.name = NoName /\ v = Unnamed(v.kind)
  BY UnnamedIs
<1>2. v.kind # "dir" /\ v.kind # "file" /\ v.kind # "free" /\ L \ {s} = {} \ {s} /\ e = PutIn(d, s, v)
  BY <1>1
<1> HIDE DEF v
<1>3. Tamer(v, At(d, s))
  BY <1>1, <1>2 DEF Tamer
<1>4. /\ EntriesAreSound(e, {}) /\ OwnersAreHeads(f, e, {})
      /\ HeadsOf(e, {}) = HeadsOf(d, L)
      /\ \A t \in OwnersOf(e, {}) : t[1] \in Space(f, e, {}, NoCluster)
      /\ Stays(f, d, L, NoCluster, f, e, {}, NoCluster, {})
  BY <1>1, <1>2, PutPlain
<1>5. TreeOK(f, e, {}, NoCluster)
  BY <1>1, <1>2, <1>3, <1>4, PutTame
<1>6. QED
  BY <1>4, <1>5 DEF Tree0

\* What an entry is that open has just made.
LEMMA NewIs ==
  ASSUME NEW kind \in {"file", "dir"}, NEW n \in Name, NEW c \in Cluster \cup {NoCluster},
         NEW size \in 0 .. 1
  PROVE  /\ Entry(kind, n, c, size) \in AnyEntry /\ Live(Entry(kind, n, c, size))
         /\ Entry(kind, n, c, size).kind = kind /\ Entry(kind, n, c, size).name = n
         /\ Entry(kind, n, c, size).first = c /\ Entry(kind, n, c, size).size = size
BY DEF Entry, AnyEntry, Live

\* sync in makeDir: the entry gets the cluster of the new directory.
LEMMA TreeNamesCluster ==
  ASSUME NEW f, NEW d, Tree0(f, d), NEW s \in Slot, s[1] \in Space(f, d, {}, NoCluster),
         NEW n \in Name, At(d, s) = Entry("file", n, NoCluster, 0),
         NEW c \in Other, Begins(f, c), \A t \in OwnersOf(d, {}) : At(d, t).first # c,
         NEW e, e = PutIn(d, s, Entry("file", n, c, 0))
  PROVE  /\ Tree0(f, e) /\ Stays(f, d, {}, NoCluster, f, e, {}, NoCluster, {})
         /\ Space(f, e, {}, NoCluster) = Space(f, d, {}, NoCluster)
         /\ At(e, s) = Entry("file", n, c, 0)
         /\ \A x \in Cluster : x # s[1] => e[x] = d[x]
<1> DEFINE v == Entry("file", n, c, 0)
<1>1. v \in AnyEntry /\ v.kind = "file" /\ Live(v) /\ v.name = n /\ v.first = c /\ v.size = 0
  BY NewIs DEF Cluster
<1>2. e = PutIn(d, s, v)
  OBVIOUS
<1> HIDE DEF v
<1>3. Live(At(d, s)) /\ At(d, s).name = n /\ At(d, s).kind = "file"
  BY NewIs
<1>4. Tamer(v, At(d, s))
  BY <1>1, <1>3 DEF Tamer
<1>5. s \notin DirsOf(d, {})
  BY <1>3 DEF DirsOf
<1>6. /\ EntriesAreSound(e, {}) /\ OwnersAreHeads(f, e, {})
      /\ HeadsOf(e, {}) = HeadsOf(d, {})
      /\ Space(f, e, {}, NoCluster) = Space(f, d, {}, NoCluster)
      /\ \A t \in OwnersOf(e, {}) : t[1] \in Space(f, e, {}, NoCluster)
      /\ Stays(f, d, {}, NoCluster, f, e, {}, NoCluster, {})
  BY <1>1, <1>2, <1>5, PutPlain DEF Tree0
<1>7. TreeOK(f, e, {}, NoCluster)
  BY <1>1, <1>2, <1>4, <1>6, PutTame DEF Tree0
<1>8. At(e, s) = v /\ \A x \in Cluster, i \in Index : e[x][i] = IF <<x, i>> = s THEN v ELSE d[x][i]
  BY <1>1, <1>2, PutIs DEF Tree0, TreeOK, EntriesAreSound
<1>9. \A x \in Cluster : x # s[1] => e[x] = d[x]
  <2>1. d \in Contents
    BY DEF Tree0, TreeOK, EntriesAreSound
  <2>2. \A x : x # s[1] => e[x] = d[x]
    BY <1>2, <2>1 DEF PutIn, Contents
  <2>3. QED
    BY <2>2
<1>10. QED
  BY <1>6, <1>7, <1>8, <1>9 DEF Tree0, v

\* sync in truncate(0): the entry whose chain was freed names none.
Emptied(x) == [x EXCEPT !.first = NoCluster, !.size = 0]

\* What an entry is after its chain was cut off.
LEMMA EmptiedIs ==
  ASSUME NEW x \in AnyEntry
  PROVE  /\ Emptied(x) \in AnyEntry /\ Emptied(x).first = NoCluster /\ Emptied(x).size = 0
         /\ Emptied(x).kind = x.kind /\ Emptied(x).name = x.name
<1>1. \A y \in AnyEntry : [y EXCEPT !.first = NoCluster] \in AnyEntry
  BY DEF AnyEntry
<1>2. \A y \in AnyEntry : [y EXCEPT !.size = 0] \in AnyEntry
  BY DEF AnyEntry
<1>3. Emptied(x) = [[x EXCEPT !.first = NoCluster] EXCEPT !.size = 0]
  BY DEF Emptied
<1>4. /\ Emptied(x).first = NoCluster /\ Emptied(x).size = 0
      /\ Emptied(x).kind = x.kind /\ Emptied(x).name = x.name
  BY DEF Emptied, AnyEntry
<1>5. QED
  BY <1>1, <1>2, <1>3, <1>4

\* sync after truncate(0): the entry names no chain any more.
LEMMA TreeNamesNone ==
  ASSUME NEW f, NEW d, NEW s \in Slot, TreeOK(f, d, {s}, NoCluster), Live(At(d, s)),
         NEW v, v = Emptied(At(d, s)),
         NEW e, e = PutIn(d, s, v), NEW M, M = IF v.kind = "dir" THEN {s} ELSE {}
  PROVE  /\ TreeOK(f, e, M, NoCluster) /\ Stays(f, d, {s}, NoCluster, f, e, M, NoCluster, {})
         /\ At(e, s) = v /\ Live(v) /\ v.kind = At(d, s).kind
<1>1. At(d, s) \in AnyEntry
  BY EntryTypes DEF TreeOK, EntriesAreSound
<1>2. /\ v \in AnyEntry /\ v.first = NoCluster /\ v.size = 0 /\ v.kind = At(d, s).kind
      /\ v.name = At(d, s).name
  BY <1>1, EmptiedIs
<1>3. Live(v) /\ Tamer(v, At(d, s))
  BY <1>2 DEF Live, Tamer
<1>4. s \notin DirsOf(d, {s}) /\ (v.kind # "dir" \/ s \in M) /\ {s} \ {s} = M \ {s}
  BY DEF DirsOf, OwnersOf
<1>5. /\ EntriesAreSound(e, M) /\ OwnersAreHeads(f, e, M)
      /\ HeadsOf(e, M) = HeadsOf(d, {s})
      /\ \A t \in OwnersOf(e, M) : t[1] \in Space(f, e, M, NoCluster)
      /\ Stays(f, d, {s}, NoCluster, f, e, M, NoCluster, {})
  BY <1>2, <1>3, <1>4, PutPlain
<1>6. TreeOK(f, e, M, NoCluster)
  BY <1>2, <1>3, <1>5, PutTame
<1>7. At(e, s) = v
  BY <1>2, PutIs DEF TreeOK, EntriesAreSound
<1>8. QED
  BY <1>2, <1>3, <1>5, <1>6, <1>7

-----------------------------------------------------------------------------
(* What the calls do to a tree that is in order: entries, directories and   *)
(* files come and go.                                                       *)

\* Where the entry of slot s is rewritten, in terms of a directory's places.
LEMMA PlaceOfPut ==
  ASSUME NEW f, NEW d, NEW L, NEW z, TreeOK(f, d, L, z), NEW s \in Slot, NEW v \in AnyEntry,
         NEW e, e = PutIn(d, s, v), NEW h \in HeadsOf(d, L), NEW j \in 1 .. Len(Chain(f, h)),
         NEW i \in Index
  PROVE  Of(f, e, h, j, i) = IF <<Chain(f, h)[j], i>> = s THEN v ELSE Of(f, d, h, j, i)
<1>1. Chain(f, h)[j] \in Cluster
  BY HeadsAre
<1>2. \A c \in Cluster, ii \in Index : e[c][ii] = IF <<c, ii>> = s THEN v ELSE d[c][ii]
  BY PutIs DEF TreeOK, EntriesAreSound
<1>3. QED
  BY <1>1, <1>2 DEF Of

\* open puts a new entry where nothing in use comes behind; no entry before it,
\* a volume label included, and none in use has its name.
LEMMA TreeFills ==
  ASSUME NEW f, NEW d, Tree0(f, d), NEW h \in HeadsOf(d, {}),
         NEW j \in 1 .. Len(Chain(f, h)), NEW i \in Index, NEW s, s = <<Chain(f, h)[j], i>>,
         NEW n \in Name, ~Live(Of(f, d, h, j, i)),
         \A jj \in 1 .. j, ii \in Index :
           Before(jj, ii, j, i) => Of(f, d, h, jj, ii).kind # "free" /\ Of(f, d, h, jj, ii).name # n,
         \A jj \in 1 .. Len(Chain(f, h)), ii \in Index :
           Live(Of(f, d, h, jj, ii)) => Of(f, d, h, jj, ii).name # n,
         NEW e, e = PutIn(d, s, Entry("file", n, NoCluster, 0))
  PROVE  /\ Tree0(f, e) /\ Stays(f, d, {}, NoCluster, f, e, {}, NoCluster, {})
         /\ s \in Slot /\ s[1] \in Space(f, e, {}, NoCluster)
         /\ At(e, s) = Entry("file", n, NoCluster, 0)
<1> DEFINE v == Entry("file", n, NoCluster, 0)
           c == Chain(f, h)[j]
           m == Len(Chain(f, h))
<1> USE DEF Tree0
<1>1. v \in AnyEntry /\ v.kind = "file" /\ Live(v) /\ v.name = n /\ v.first = NoCluster /\ v.size = 0
  BY NewIs
<1>2. /\ c \in Cluster /\ s \in Slot /\ s[1] = c /\ s[2] = i /\ m \in 1 .. N
      /\ Counted(f, NoCluster, h) = m /\ j \in 1 .. m
  BY HeadsAre DEF Slot
<1>3. ~Live(At(d, s)) /\ e = PutIn(d, s, v)
  BY <1>2 DEF At, Of
<1> HIDE DEF v
<1>4. s \notin DirsOf(d, {})
  BY <1>3 DEF DirsOf, OwnersOf
<1>5. /\ EntriesAreSound(e, {}) /\ OwnersAreHeads(f, e, {})
      /\ HeadsOf(e, {}) = HeadsOf(d, {})
      /\ Space(f, e, {}, NoCluster) = Space(f, d, {}, NoCluster)
      /\ \A t \in OwnersOf(e, {}) : t[1] \in Space(f, e, {}, NoCluster)
      /\ Stays(f, d, {}, NoCluster, f, e, {}, NoCluster, {})
  BY <1>1, <1>2, <1>3, <1>4, PutPlain
<1>6. At(e, s) = v /\ s[1] \in Space(f, e, {}, NoCluster)
  <2>1. At(e, s) = v
    BY <1>1, <1>2, <1>3, PutIs DEF TreeOK, EntriesAreSound
  <2>2. c \in Space(f, d, {}, NoCluster)
    BY <1>2, SpaceIs
  <2>3. QED
    BY <1>2, <1>5, <2>1, <2>2
<1>7. ASSUME NEW x \in HeadsOf(d, {}), NEW y \in 1 .. Len(Chain(f, x)), NEW ii \in Index
      PROVE  Of(f, e, x, y, ii) = IF x = h /\ y = j /\ ii = i THEN v ELSE Of(f, d, x, y, ii)
  <2>1. Of(f, e, x, y, ii) = IF <<Chain(f, x)[y], ii>> = s THEN v ELSE Of(f, d, x, y, ii)
    BY <1>1, <1>2, <1>3, PlaceOfPut
  <2>2. <<Chain(f, x)[y], ii>> = s => x = h /\ y = j /\ ii = i
    <3>1. SUFFICES ASSUME Chain(f, x)[y] = Chain(f, h)[j], ii = i PROVE x = h /\ y = j
      OBVIOUS
    <3>2. QED
      BY <3>1, OnePlace
  <2>3. x = h /\ y = j /\ ii = i => <<Chain(f, x)[y], ii>> = s
    OBVIOUS
  <2>4. CASE <<Chain(f, x)[y], ii>> = s
    BY <2>1, <2>2, <2>4
  <2>5. CASE <<Chain(f, x)[y], ii>> # s
    BY <2>1, <2>3, <2>5
  <2>6. QED
    BY <2>4, <2>5
<1>8. ASSUME NEW x \in HeadsOf(d, {}), x # h PROVE Ordered(f, e, NoCluster, x)
  <2>1. Counted(f, NoCluster, x) = Len(Chain(f, x)) /\ Ordered(f, d, NoCluster, x)
    <3>1. Counted(f, NoCluster, x) = Len(Chain(f, x))
      BY HeadsAre
    <3>2. Ordered(f, d, NoCluster, x)
      BY DEF TreeOK
    <3>3. QED
      BY <3>1, <3>2
  <2>2. \A y \in 1 .. Len(Chain(f, x)), ii \in Index : Of(f, e, x, y, ii) = Of(f, d, x, y, ii)
    BY <1>7, <1>8
  <2>3. QED
    BY <2>1, <2>2 DEF Ordered
<1>9. Ordered(f, e, NoCluster, h)
  <2> DEFINE old(y, ii) == Of(f, d, h, y, ii)
             new(y, ii) == Of(f, e, h, y, ii)
  <2>1. \A y \in 1 .. m, ii \in Index : new(y, ii) = IF y = j /\ ii = i THEN v ELSE old(y, ii)
    BY <1>7
  <2>2. Ordered(f, d, NoCluster, h)
    BY DEF TreeOK
  <2>3. \A y \in 1 .. m, ii \in Index : Live(old(y, ii)) => old(y, ii).name \in Name
    BY <1>2, <2>2 DEF Ordered
  <2>4. \A y, yy \in 1 .. m, ii, iii \in Index :
          Before(y, ii, yy, iii) /\ Live(old(yy, iii)) =>
            old(y, ii).kind # "free" /\ old(y, ii).name # old(yy, iii).name
    BY <1>2, <2>2 DEF Ordered
  <2>5. \A y \in 1 .. m, ii \in Index : Live(old(y, ii)) => old(y, ii).name # n
    OBVIOUS
  <2>6. \A y \in 1 .. m, ii \in Index :
          Before(y, ii, j, i) => old(y, ii).kind # "free" /\ old(y, ii).name # n
    <3>1. SUFFICES ASSUME NEW y \in 1 .. m, NEW ii \in Index, Before(y, ii, j, i)
          PROVE  old(y, ii).kind # "free" /\ old(y, ii).name # n
      OBVIOUS
    <3>2. y \in 1 .. j
      BY <1>2, <3>1 DEF Before
    <3>3. QED
      BY <3>1, <3>2
  <2> HIDE DEF old, new, m
  <2>7. \A y \in 1 .. m, ii \in Index : Live(new(y, ii)) => new(y, ii).name \in Name
    BY <1>1, <2>1, <2>3
  <2>8. \A y, yy \in 1 .. m, ii, iii \in Index :
          Before(y, ii, yy, iii) /\ Live(new(yy, iii)) =>
            new(y, ii).kind # "free" /\ new(y, ii).name # new(yy, iii).name
    <3>1. SUFFICES ASSUME NEW y \in 1 .. m, NEW yy \in 1 .. m, NEW ii \in Index, NEW iii \in Index,
                          Before(y, ii, yy, iii), Live(new(yy, iii))
          PROVE  new(y, ii).kind # "free" /\ new(y, ii).name # new(yy, iii).name
      OBVIOUS
    <3>2. CASE yy = j /\ iii = i
      <4>1. ~ (y = j /\ ii = i)
        BY <1>2, <3>1, <3>2 DEF Before, Index
      <4>2. new(y, ii) = old(y, ii) /\ new(yy, iii) = v
        BY <2>1, <3>2, <4>1
      <4>3. old(y, ii).kind # "free" /\ old(y, ii).name # n
        BY <2>6, <3>1, <3>2
      <4>4. QED
        BY <1>1, <4>2, <4>3
    <3>3. CASE ~ (yy = j /\ iii = i)
      <4>1. new(yy, iii) = old(yy, iii) /\ Live(old(yy, iii))
        BY <2>1, <3>1, <3>3
      <4>2. old(y, ii).kind # "free" /\ old(y, ii).name # old(yy, iii).name
        BY <2>4, <3>1, <4>1
      <4>3. CASE y = j /\ ii = i
        BY <1>1, <2>1, <2>5, <4>1, <4>3
      <4>4. CASE ~ (y = j /\ ii = i)
        BY <2>1, <4>1, <4>2, <4>4
      <4>5. QED
        BY <4>3, <4>4
    <3>4. QED
      BY <3>2, <3>3
  <2>9. QED
    BY <1>2, <2>7, <2>8 DEF Ordered, new, m
<1>10. TreeOK(f, e, {}, NoCluster)
  BY <1>5, <1>8, <1>9 DEF TreeOK
<1>11. QED
  BY <1>2, <1>5, <1>6, <1>10 DEF v

\* A directory with no entry in use is in order.
LEMMA OrderedEmpty ==
  ASSUME NEW f, NEW d, NEW z, NEW h,
         \A j \in 1 .. Counted(f, z, h), i \in Index : ~Live(Of(f, d, h, j, i))
  PROVE  Ordered(f, d, z, h)
BY DEF Ordered

\* makeDir: the file becomes a directory.
LEMMA TreeGetsDir ==
  ASSUME NEW f, NEW d, Tree0(f, d), NEW s \in Slot, NEW n \in Name, NEW c \in Other,
         At(d, s) = Entry("file", n, c, 0), Begins(f, c), f[c] = EOC, d[c] = Zeroed,
         NEW e, e = PutIn(d, s, Entry("dir", n, c, 0))
  PROVE  /\ Tree0(f, e) /\ Stays(f, d, {}, NoCluster, f, e, {}, NoCluster, {})
         /\ c \in HeadsOf(e, {}) /\ e[c] = Zeroed
<1> DEFINE v == Entry("dir", n, c, 0)
<1> USE DEF Tree0
<1>1. v \in AnyEntry /\ v.kind = "dir" /\ Live(v) /\ v.name = n /\ v.first = c /\ v.size = 0
  BY NewIs DEF Cluster
<1>2. e = PutIn(d, s, v)
  OBVIOUS
<1> HIDE DEF v
<1>3. /\ Live(At(d, s)) /\ At(d, s).name = n /\ At(d, s).kind = "file" /\ At(d, s).first = c
      /\ c \in Cluster /\ c # NoCluster /\ c # Root
  BY NewIs, MarksAreNoClusters, DirectoryAssumption DEF Cluster
<1>4. s \in OwnersOf(d, {}) /\ s \notin DirsOf(d, {})
  BY <1>3 DEF OwnersOf, DirsOf
<1>5. c \notin HeadsOf(d, {})
  <2>1. SUFFICES ASSUME NEW t \in DirsOf(d, {}), At(d, t).first = c PROVE FALSE
    BY <1>3 DEF HeadsOf
  <2>2. t \in OwnersOf(d, {})
    BY DEF DirsOf
  <2>3. t = s
    BY <1>3, <1>4, <2>1, <2>2 DEF TreeOK, OwnersAreHeads
  <2>4. QED
    BY <1>4, <2>3
<1>6. s[1] # c
  BY <1>3, <1>4, <1>5, OutOfSpace DEF TreeOK
<1>7. /\ e \in Contents /\ At(e, s) = v /\ (\A t \in Slot : t # s => At(e, t) = At(d, t))
      /\ \A x \in Cluster, i \in Index : e[x][i] = IF <<x, i>> = s THEN v ELSE d[x][i]
  BY <1>1, <1>2, PutIs DEF TreeOK, EntriesAreSound
<1>8. e[c] = Zeroed
  BY <1>2, <1>3, <1>6 DEF PutIn, TreeOK, EntriesAreSound, Contents
<1>9. OwnersOf(e, {}) = OwnersOf(d, {}) /\ \A t \in OwnersOf(d, {}) : At(e, t).first = At(d, t).first
  BY <1>1, <1>3, <1>4, <1>7 DEF OwnersOf
<1>10. /\ s \in DirsOf(e, {})
       /\ \A t \in DirsOf(d, {}) : t \in DirsOf(e, {}) /\ At(e, t) = At(d, t)
       /\ \A t \in DirsOf(e, {}) : t = s \/ t \in DirsOf(d, {})
  <2>1. \A t \in OwnersOf(d, {}) : t # s => At(e, t) = At(d, t)
    BY <1>7 DEF OwnersOf
  <2>2. QED
    BY <1>1, <1>4, <1>7, <1>9, <2>1 DEF DirsOf
<1>11. HeadsOf(e, {}) = HeadsOf(d, {}) \cup {c}
  BY <1>1, <1>7, <1>10 DEF HeadsOf
<1>12. OwnersAreHeads(f, e, {})
  BY <1>9 DEF TreeOK, OwnersAreHeads
<1>13. EntriesAreSound(e, {})
  <2>1. EntriesAreSound(d, {})
    BY DEF TreeOK
  <2>2. \A t \in Slot : At(e, t).kind = "dir" \/ (At(e, t).kind = "file" /\ At(e, t).size > 0)
          => At(e, t).first # NoCluster
    BY <1>1, <1>3, <1>7, <2>1 DEF EntriesAreSound
  <2>3. QED
    BY <1>7, <2>2 DEF EntriesAreSound
<1>14. Space(f, d, {}, NoCluster) \subseteq Space(f, e, {}, NoCluster)
  BY <1>11, SameSpace
<1>15. ASSUME NEW h \in HeadsOf(d, {}) PROVE Ordered(f, e, NoCluster, h)
  <2>1. \A x \in Cluster, i \in Index : Tamer(e[x][i], d[x][i])
    <3>1. \A x, i : <<x, i>> = s => At(d, s) = d[x][i]
      BY DEF At
    <3>2. Tamer(v, At(d, s))
      BY <1>1, <1>3 DEF Tamer
    <3>3. QED
      BY <1>7, <3>1, <3>2, TamerSame
  <2>2. \A j \in 1 .. Counted(f, NoCluster, h) : Chain(f, h)[j] \in Cluster
    BY HeadsAre
  <2>3. Ordered(f, d, NoCluster, h)
    BY DEF TreeOK
  <2>4. QED
    BY <2>1, <2>2, <2>3, OrderedKept
<1>16. Ordered(f, e, NoCluster, c)
  <2>1. Chain(f, c) = <<c>>
    <3> DEFINE q == <<c>>
    <3>1. q \in Seq(Cluster) /\ Len(q) = 1 /\ q[1] = c /\ 1 .. Len(q) - 1 = {}
      BY <1>3
    <3> HIDE DEF q
    <3>2. Linked(f, q) /\ Len(q) <= N /\ f[q[Len(q)]] \notin Cluster
      BY <3>1, ClustersAreFinite, MarksAreNoClusters DEF Linked
    <3>3. Chain(f, q[1]) = q
      BY <3>2, ChainOf DEF TreeOK, Sound
    <3>4. QED
      BY <3>1, <3>3 DEF q
  <2>2. Counted(f, NoCluster, c) = 1
    BY <1>3, <2>1 DEF Counted
  <2>3. \A j \in 1 .. 1 : <<c>>[j] = c
    OBVIOUS
  <2>4. \A j \in 1 .. 1, i \in Index : ~Live(Of(f, e, c, j, i))
    BY <1>8, <2>1, <2>3, ZeroedIs DEF Of
  <2>5. QED
    BY <2>2, <2>4, OrderedEmpty
<1>17. TreeOK(f, e, {}, NoCluster)
  <2>1. \A t \in OwnersOf(e, {}) : t[1] \in Space(f, e, {}, NoCluster)
    BY <1>9, <1>14 DEF TreeOK
  <2>2. QED
    BY <1>11, <1>12, <1>13, <1>15, <1>16, <2>1 DEF TreeOK
<1>18. Stays(f, d, {}, NoCluster, f, e, {}, NoCluster, {})
  BY <1>10 DEF Stays
<1>19. QED
  BY <1>8, <1>11, <1>17, <1>18

-----------------------------------------------------------------------------
(* What the calls do to a tree that is in order: chains are freed, and files *)
(* are written.                                                             *)

\* h is the head of the chain of an entry, g the FAT with that chain freed.
Frees(f, d, s, h, g) == h = At(d, s).first /\ g = FreedFrom(f, h)

\* truncate(0) frees the chain of a file, or of a directory with no entry in use.
LEMMA TreeFrees ==
  ASSUME NEW f, NEW d, Tree0(f, d), NEW s \in OwnersOf(d, {}), NEW h, NEW g, Frees(f, d, s, h, g),
         At(d, s).kind = "dir" => \A c \in ClustersFrom(f, h), i \in Index : ~Live(d[c][i])
  PROVE  /\ TreeOK(g, d, {s}, NoCluster)
         /\ Stays(f, d, {}, NoCluster, g, d, {s}, NoCluster, {s})
         /\ \A x \in HeadsOf(d, {}) : x # h => Chain(g, x) = Chain(f, x)
<1>0. h = At(d, s).first /\ g = FreedFrom(f, h)
  BY DEF Frees
<1>1. /\ Sound(f) /\ Begins(f, Root) /\ EntriesAreSound(d, {}) /\ OwnersAreHeads(f, d, {})
      /\ \A t \in OwnersOf(d, {}) : t[1] \in Space(f, d, {}, NoCluster)
  BY DEF Tree0, TreeOK
<1>2. TreeOK(f, d, {}, NoCluster)
  BY DEF Tree0
<1>3. h \in Other /\ h \in Cluster /\ Begins(f, h) /\ Root # h /\ Root \in Cluster
  BY <1>0, <1>1, DirectoryAssumption DEF OwnersAreHeads, Cluster
<1>4. /\ Sound(g)
      /\ \A x \in Cluster : Begins(f, x) /\ x # h => Begins(g, x) /\ Chain(g, x) = Chain(f, x)
  BY <1>0, <1>1, <1>3, FreedChain
<1>5. Begins(g, Root)
  BY <1>1, <1>3, <1>4
<1>6. EntriesAreSound(d, {s})
  BY <1>1 DEF EntriesAreSound
<1>7. \A t : t \in OwnersOf(d, {s}) <=> t \in OwnersOf(d, {}) /\ t # s
  BY DEF OwnersOf
<1>8. \A t \in OwnersOf(d, {s}) : At(d, t).first # h /\ At(d, t).first \in Other
  BY <1>0, <1>1, <1>7 DEF OwnersAreHeads
<1>9. OwnersAreHeads(g, d, {s})
  <2>1. \A t \in OwnersOf(d, {s}) : At(d, t).first \in Other /\ Begins(f, At(d, t).first)
    BY <1>1, <1>7 DEF OwnersAreHeads
  <2>2. \A t \in OwnersOf(d, {s}) : Begins(g, At(d, t).first)
    BY <1>4, <1>8, <2>1 DEF Cluster
  <2>3. \A t, u \in OwnersOf(d, {s}) : At(d, t).first = At(d, u).first => t = u
    BY <1>1, <1>7 DEF OwnersAreHeads
  <2>4. QED
    BY <2>1, <2>2, <2>3 DEF OwnersAreHeads
<1>10. \A t : t \in DirsOf(d, {s}) <=> t \in DirsOf(d, {}) /\ t # s
  BY <1>7 DEF DirsOf
<1>11. \A x : x \in HeadsOf(d, {s}) <=> x \in HeadsOf(d, {}) /\ x # h
  <2>1. \A x \in HeadsOf(d, {s}) : x \in HeadsOf(d, {}) /\ x # h
    BY <1>3, <1>8, <1>10 DEF HeadsOf, DirsOf
  <2>2. \A x \in HeadsOf(d, {}) : x # h => x \in HeadsOf(d, {s})
    BY <1>0, <1>10 DEF HeadsOf
  <2>3. QED
    BY <2>1, <2>2
<1>12. \A x \in HeadsOf(d, {}) : x # h => Begins(g, x) /\ Chain(g, x) = Chain(f, x) /\ x # NoCluster
  <2>1. \A x \in HeadsOf(d, {}) : x \in Cluster /\ Begins(f, x) /\ x # NoCluster
    BY <1>2, HeadsAre
  <2>2. QED
    BY <1>4, <2>1
<1>13. \A x \in HeadsOf(d, {}) : x # h => Counted(g, NoCluster, x) = Counted(f, NoCluster, x)
  BY <1>12 DEF Counted
<1>14. \A x \in HeadsOf(d, {s}) :
         /\ x \in HeadsOf(d, {})
         /\ Counted(g, NoCluster, x) = Counted(f, NoCluster, x)
         /\ \A j \in 1 .. Counted(f, NoCluster, x) :
              /\ Chain(g, x)[j] = Chain(f, x)[j]
              /\ \A i \in Index : Tamer(d[Chain(f, x)[j]][i], d[Chain(f, x)[j]][i])
  BY <1>11, <1>12, <1>13, TamerSame
<1>15. ASSUME NEW t \in OwnersOf(d, {s}) PROVE t[1] \in Space(g, d, {s}, NoCluster)
  <2>1. t \in OwnersOf(d, {}) /\ t \in Slot /\ Live(At(d, t))
    BY <1>7 DEF OwnersOf
  <2>2. PICK x \in HeadsOf(d, {}) : \E j \in 1 .. Counted(f, NoCluster, x) : t[1] = Chain(f, x)[j]
    BY <1>1, <2>1 DEF Space
  <2>3. PICK j \in 1 .. Counted(f, NoCluster, x) : t[1] = Chain(f, x)[j]
    BY <2>2
  <2>4. t[1] \in ClustersFrom(f, x) /\ t[1] \in Cluster
    BY <1>2, <2>3, HeadsAre
  <2>5. x # h
    <3>1. SUFFICES ASSUME x = h PROVE FALSE
      OBVIOUS
    <3>2. PICK u \in DirsOf(d, {}) : At(d, u).first = h
      BY <1>3, <3>1 DEF HeadsOf
    <3>3. u = s /\ At(d, s).kind = "dir"
      BY <1>0, <1>1, <3>2 DEF DirsOf, OwnersAreHeads
    <3>4. ~Live(d[t[1]][t[2]])
      BY <2>1, <2>4, <3>1, <3>3 DEF Slot
    <3>5. QED
      BY <2>1, <3>4 DEF At
  <2>6. /\ x \in HeadsOf(d, {s}) /\ j \in 1 .. Counted(g, NoCluster, x) /\ t[1] = Chain(g, x)[j]
    BY <1>11, <1>12, <1>13, <2>3, <2>5
  <2>7. QED
    BY <2>4, <2>6 DEF Space
<1>16. TreeOK(g, d, {s}, NoCluster)
  <2>1. Sound(g)
    BY <1>4
  <2>2. \A t \in OwnersOf(d, {s}) : t[1] \in Space(g, d, {s}, NoCluster)
    BY <1>15
  <2>3. QED
    BY <1>2, <1>5, <1>6, <1>9, <1>14, <2>1, <2>2, TreeKept, ZenonT(60)
<1>17. Stays(f, d, {}, NoCluster, g, d, {s}, NoCluster, {s})
  <2>1. Counted(g, NoCluster, Root) = Counted(f, NoCluster, Root)
    BY <1>3, <1>13, RootHead
  <2>2. ASSUME NEW t \in DirsOf(d, {}) \ {s}
        PROVE  /\ t \in DirsOf(d, {s})
               /\ Counted(g, NoCluster, At(d, t).first) = Counted(f, NoCluster, At(d, t).first)
    <3>1. t \in DirsOf(d, {s}) /\ t \in OwnersOf(d, {s})
      BY <1>10 DEF DirsOf
    <3>2. At(d, t).first \in HeadsOf(d, {})
      BY DirHeads
    <3>3. QED
      BY <1>8, <1>13, <3>1, <3>2
  <2>3. QED
    BY <2>1, <2>2 DEF Stays
<1>18. QED
  BY <1>12, <1>16, <1>17

\* A file gets its first cluster and data, which may look like entries.
Written(d, s, c) == [d EXCEPT ![c] = Data, ![s[1]][s[2]].first = c, ![s[1]][s[2]].size = 1]

\* What an image is after a file's first cluster was written.
LEMMA WrittenIs ==
  ASSUME NEW d \in Contents, NEW s \in Slot, NEW c \in Cluster, s[1] # c,
         NEW e, e = Written(d, s, c)
  PROVE  /\ e \in Contents
         /\ \A x \in Cluster, i \in Index :
              <<x, i>> # s => e[x][i] = IF x = c THEN Unnamed("file") ELSE d[x][i]
         /\ At(e, s) \in AnyEntry /\ At(e, s).first = c /\ At(e, s).size = 1
         /\ At(e, s).kind = At(d, s).kind /\ At(e, s).name = At(d, s).name
<1> DEFINE e1 == [d EXCEPT ![c] = Data]
           v1 == [At(d, s) EXCEPT !.first = c]
           v == [v1 EXCEPT !.size = 1]
<1>1. s[1] \in Cluster /\ s[2] \in Index /\ s = <<s[1], s[2]>> /\ At(d, s) \in AnyEntry
  BY EntryTypes
<1>2. Unnamed("file") \in AnyEntry
  BY DEF Unnamed, Entry, AnyEntry
<1>3. Data \in [Index -> AnyEntry] /\ \A i \in Index : Data[i] = Unnamed("file")
  BY <1>2 DEF Data
<1>4. d \in [Cluster -> [Index -> AnyEntry]]
  BY DEF Contents
<1>5. v1 \in AnyEntry /\ v1.first = c /\ v1.kind = At(d, s).kind /\ v1.name = At(d, s).name
  BY <1>1 DEF AnyEntry
<1>6. /\ v \in AnyEntry /\ v.first = c /\ v.size = 1
      /\ v.kind = At(d, s).kind /\ v.name = At(d, s).name
  <2> HIDE DEF v1
  <2>1. QED
    BY <1>5 DEF AnyEntry
<1>7. /\ e1 \in Contents /\ e1[c] = Data
      /\ \A x \in Cluster : x # c => e1[x] = d[x]
  BY <1>3, <1>4 DEF Contents
<1>8. At(e1, s) = At(d, s)
  BY <1>1, <1>7 DEF At
<1>9. e = PutIn(e1, s, v)
  <2>1. e1[s[1]] = d[s[1]]
    BY <1>1, <1>7
  <2>2. d[s[1]] \in [Index -> AnyEntry]
    BY <1>1, <1>4
  <2>3. e = [x \in Cluster |-> IF x = s[1] THEN [d[s[1]] EXCEPT ![s[2]] = v]
                              ELSE IF x = c THEN Data ELSE d[x]]
    BY <1>1, <1>4, <2>2 DEF Written, At
  <2>4. PutIn(e1, s, v) = [x \in Cluster |-> IF x = s[1] THEN [d[s[1]] EXCEPT ![s[2]] = v]
                              ELSE IF x = c THEN Data ELSE d[x]]
    <3> HIDE DEF v
    <3>1. QED
      BY <1>1, <1>4, <2>1 DEF PutIn
  <2>5. QED
    BY <2>3, <2>4
<1> HIDE DEF v, e1
<1>10. /\ e \in Contents
       /\ \A x \in Cluster, i \in Index : e[x][i] = IF <<x, i>> = s THEN v ELSE e1[x][i]
       /\ At(e, s) = v
  BY <1>6, <1>7, <1>9, PutIs
<1>11. \A x \in Cluster, i \in Index : e1[x][i] = IF x = c THEN Unnamed("file") ELSE d[x][i]
  BY <1>3, <1>7
<1>12. QED
  BY <1>6, <1>10, <1>11

\* g and e are the FAT and the clusters after a file's first cluster was written.
Writes(f, d, s, c, g, e) == g = AppendedTo(f, NoCluster, c) /\ e = Written(d, s, c)

\* SpiSdFile allocates and writes a file's first cluster: whatever the data
\* look like, no directory takes them for entries.
LEMMA TreeGetsFile ==
  ASSUME NEW f, NEW d, Tree0(f, d), NEW s \in Slot, s[1] \in Space(f, d, {}, NoCluster),
         At(d, s).kind = "file", NEW c \in Other,
         IF At(d, s).first = NoCluster THEN f[c] = Free ELSE c = At(d, s).first,
         NEW g, NEW e, Writes(f, d, s, c, g, e)
  PROVE  /\ Tree0(g, e) /\ Stays(f, d, {}, NoCluster, g, e, {}, NoCluster, {})
         /\ DirsOf(e, {}) = DirsOf(d, {}) /\ \A t \in DirsOf(d, {}) : At(e, t) = At(d, t)
         /\ \A h \in HeadsOf(d, {}) : Chain(g, h) = Chain(f, h)
         /\ s \in OwnersOf(e, {}) /\ At(e, s).first = c /\ At(e, s).size = 1
         /\ \A t \in OwnersOf(d, {}) : t # s =>
              /\ t \in OwnersOf(e, {}) /\ At(e, t) = At(d, t) /\ At(d, t).first # c
         /\ \A t \in Slot : t # s => At(e, t) \in {Unnamed("file"), At(d, t)}
<1>1. /\ Sound(f) /\ Begins(f, Root) /\ EntriesAreSound(d, {}) /\ OwnersAreHeads(f, d, {})
      /\ \A t \in OwnersOf(d, {}) : t[1] \in Space(f, d, {}, NoCluster)
      /\ d \in Contents
  BY DEF Tree0, TreeOK, EntriesAreSound
<1>2. TreeOK(f, d, {}, NoCluster)
  BY DEF Tree0
<1>3. c \in Cluster /\ c # Root /\ c # NoCluster
  BY DirectoryAssumption DEF Cluster
<1>4. Live(At(d, s)) /\ s \notin DirsOf(d, {})
  BY DEF Live, DirsOf
<1>5. \/ f[c] = Free
      \/ s \in OwnersOf(d, {}) /\ At(d, s).first = c /\ Begins(f, c)
  BY <1>1, <1>4 DEF OwnersOf, OwnersAreHeads
<1>6. c \notin HeadsOf(d, {})
  <2>1. SUFFICES ASSUME NEW t \in DirsOf(d, {}), At(d, t).first = c PROVE FALSE
    BY <1>3 DEF HeadsOf
  <2>2. t \in OwnersOf(d, {}) /\ t # s
    BY <1>4 DEF DirsOf
  <2>3. Begins(f, c)
    BY <1>1, <2>1, <2>2 DEF OwnersAreHeads
  <2>4. f[c] # Free
    BY <2>3 DEF Begins
  <2>5. QED
    BY <1>1, <1>5, <2>1, <2>2, <2>4 DEF OwnersAreHeads
<1>7. f[c] = Free \/ (Begins(f, c) /\ c \notin HeadsOf(d, {}))
  BY <1>5, <1>6
<1>8. c \notin Space(f, d, {}, NoCluster) /\ s[1] # c
  BY <1>2, <1>3, <1>7, OutOfSpace
<1>9. /\ e \in Contents
      /\ \A x \in Cluster, i \in Index :
           <<x, i>> # s => e[x][i] = IF x = c THEN Unnamed("file") ELSE d[x][i]
      /\ At(e, s) \in AnyEntry /\ At(e, s).first = c /\ At(e, s).size = 1
      /\ At(e, s).kind = At(d, s).kind /\ At(e, s).name = At(d, s).name
  BY <1>1, <1>3, <1>8, WrittenIs DEF Writes
<1>10. /\ Sound(g) /\ Begins(g, c) /\ g[c] = EOC /\ Chain(g, c) = <<c>>
       /\ \A h \in Cluster : Begins(f, h) /\ h # c => Begins(g, h) /\ Chain(g, h) = Chain(f, h)
  BY <1>1, <1>3, <1>7, NewChain DEF Writes
<1>11. \A t \in Slot : t # s => At(e, t) = IF t[1] = c THEN Unnamed("file") ELSE At(d, t)
  BY <1>9 DEF At, Slot
<1>12. /\ Unnamed("file").kind = "file" /\ Unnamed("file").first = NoCluster
       /\ Unnamed("file").size = 0 /\ Live(Unnamed("file"))
  BY DEF Unnamed, Entry, Live
<1>13. \A t \in OwnersOf(d, {}) : t \in Slot /\ Live(At(d, t)) /\ At(d, t).first # NoCluster /\ t[1] # c
  BY <1>1, <1>8 DEF OwnersOf
<1>14. /\ s \in OwnersOf(e, {}) /\ At(e, s).kind = "file" /\ Live(At(e, s))
       /\ \A t \in OwnersOf(d, {}) : t # s => t \in OwnersOf(e, {}) /\ At(e, t) = At(d, t)
       /\ \A t \in OwnersOf(e, {}) : t # s => t \in OwnersOf(d, {}) /\ At(e, t) = At(d, t)
  <2>1. At(e, s).kind = "file" /\ Live(At(e, s)) /\ s \in OwnersOf(e, {})
    BY <1>3, <1>9 DEF OwnersOf, Live
  <2>2. \A t \in OwnersOf(d, {}) : t # s => t \in OwnersOf(e, {}) /\ At(e, t) = At(d, t)
    BY <1>11, <1>13 DEF OwnersOf
  <2>3. ASSUME NEW t \in OwnersOf(e, {}), t # s PROVE t \in OwnersOf(d, {}) /\ At(e, t) = At(d, t)
    <3>1. t \in Slot /\ Live(At(e, t)) /\ At(e, t).first # NoCluster
      BY DEF OwnersOf
    <3>2. t[1] # c
      BY <1>11, <1>12, <2>3, <3>1
    <3>3. At(e, t) = At(d, t)
      BY <1>11, <2>3, <3>1, <3>2
    <3>4. QED
      BY <3>1, <3>3 DEF OwnersOf
  <2>4. QED
    BY <2>1, <2>2, <2>3
<1>15. /\ \A t \in DirsOf(d, {}) : t \in DirsOf(e, {}) /\ At(e, t) = At(d, t)
       /\ \A t \in DirsOf(e, {}) : t \in DirsOf(d, {}) /\ At(e, t) = At(d, t)
  BY <1>4, <1>14 DEF DirsOf
<1>16. HeadsOf(e, {}) = HeadsOf(d, {})
  BY <1>15 DEF HeadsOf
<1>17. \A h \in HeadsOf(d, {}) :
         /\ h \in Cluster /\ Begins(f, h) /\ h # NoCluster /\ h # c
         /\ Begins(g, h) /\ Chain(g, h) = Chain(f, h)
  <2>1. \A h \in HeadsOf(d, {}) : h \in Cluster /\ Begins(f, h) /\ h # NoCluster
    BY <1>2, HeadsAre
  <2>2. QED
    BY <1>6, <1>10, <2>1
<1>18. \A h \in HeadsOf(d, {}) : Counted(g, NoCluster, h) = Counted(f, NoCluster, h)
  BY <1>17 DEF Counted
<1>19. Begins(g, Root)
  BY <1>17, RootHead
<1>20. EntriesAreSound(e, {})
  <2>1. \A t \in Slot : At(e, t).kind = "dir" \/ (At(e, t).kind = "file" /\ At(e, t).size > 0)
          => At(e, t).first # NoCluster
    BY <1>1, <1>3, <1>9, <1>11, <1>12 DEF EntriesAreSound
  <2>2. QED
    BY <1>9, <2>1 DEF EntriesAreSound
<1>21. \A t \in OwnersOf(d, {}) : t # s => At(d, t).first # c
  <2>1. SUFFICES ASSUME NEW t \in OwnersOf(d, {}), t # s, At(d, t).first = c PROVE FALSE
    OBVIOUS
  <2>2. f[c] # Free
    BY <1>1, <2>1 DEF Begins, OwnersAreHeads
  <2>3. QED
    BY <1>1, <1>5, <2>1, <2>2 DEF OwnersAreHeads
<1>22. OwnersAreHeads(g, e, {})
  <2>1. \A t \in OwnersOf(d, {}) : At(d, t).first \in Other /\ Begins(f, At(d, t).first)
    BY <1>1 DEF OwnersAreHeads
  <2>2. \A t \in OwnersOf(e, {}) : At(e, t).first \in Other /\ Begins(g, At(e, t).first)
    BY <1>9, <1>10, <1>14, <2>1, <1>21 DEF Cluster
  <2>3. \A t, u \in OwnersOf(d, {}) : At(d, t).first = At(d, u).first => t = u
    BY <1>1 DEF OwnersAreHeads
  <2>4. \A t, u \in OwnersOf(e, {}) : At(e, t).first = At(e, u).first => t = u
    <3>1. SUFFICES ASSUME NEW t \in OwnersOf(e, {}), NEW u \in OwnersOf(e, {}), t # u
          PROVE  At(e, t).first # At(e, u).first
      OBVIOUS
    <3>2. CASE t = s
      BY <1>9, <1>14, <1>21, <3>1, <3>2
    <3>3. CASE u = s
      BY <1>9, <1>14, <1>21, <3>1, <3>3
    <3>4. CASE t # s /\ u # s
      BY <1>14, <2>3, <3>1, <3>4
    <3>5. QED
      BY <3>2, <3>3, <3>4
  <2>5. QED
    BY <2>2, <2>4 DEF OwnersAreHeads
<1>23. \A x \in Cluster, i \in Index : x # c => Tamer(e[x][i], d[x][i])
  <2>1. SUFFICES ASSUME NEW x \in Cluster, NEW i \in Index, x # c PROVE Tamer(e[x][i], d[x][i])
    OBVIOUS
  <2>2. CASE <<x, i>> = s
    <3>1. e[x][i] = At(e, s) /\ d[x][i] = At(d, s)
      BY <2>2 DEF At
    <3>2. Tamer(At(e, s), At(d, s))
      BY <1>4, <1>9, <1>14 DEF Tamer
    <3>3. QED
      BY <3>1, <3>2
  <2>3. CASE <<x, i>> # s
    BY <1>9, <2>1, <2>3, TamerSame
  <2>4. QED
    BY <2>2, <2>3
<1>24. \A h \in HeadsOf(d, {}) : \A j \in 1 .. Counted(f, NoCluster, h) :
         Chain(f, h)[j] \in Cluster /\ Chain(f, h)[j] # c
  BY <1>2, <1>8, HeadsAre, SpaceIs
<1>25. \A h \in HeadsOf(e, {}) :
         /\ h \in HeadsOf(d, {})
         /\ Counted(g, NoCluster, h) = Counted(f, NoCluster, h)
         /\ \A j \in 1 .. Counted(f, NoCluster, h) :
              /\ Chain(g, h)[j] = Chain(f, h)[j]
              /\ \A i \in Index : Tamer(e[Chain(f, h)[j]][i], d[Chain(f, h)[j]][i])
  BY <1>16, <1>17, <1>18, <1>23, <1>24
<1>26. Space(f, d, {}, NoCluster) \subseteq Space(g, e, {}, NoCluster)
  BY <1>16, <1>17, <1>18, SameSpace
<1>27. \A t \in OwnersOf(e, {}) : t[1] \in Space(g, e, {}, NoCluster)
  BY <1>1, <1>14, <1>26
<1>28. TreeOK(g, e, {}, NoCluster)
  <2>1. Sound(g)
    BY <1>10
  <2>2. QED
    BY <1>2, <1>19, <1>20, <1>22, <1>25, <1>27, <2>1, TreeKept
<1>29. Stays(f, d, {}, NoCluster, g, e, {}, NoCluster, {})
  <2>1. Counted(g, NoCluster, Root) = Counted(f, NoCluster, Root)
    BY <1>18, RootHead
  <2>2. \A t \in DirsOf(d, {}) : Counted(g, NoCluster, At(d, t).first) = Counted(f, NoCluster, At(d, t).first)
    BY <1>18, DirHeads
  <2>3. QED
    BY <1>15, <2>1, <2>2 DEF Stays
<1>30. \A t \in Slot : t # s => At(e, t) \in {Unnamed("file"), At(d, t)}
  BY <1>11
<1>31. DirsOf(e, {}) = DirsOf(d, {})
  BY <1>15
<1>32. QED
  BY <1>9, <1>14, <1>15, <1>17, <1>21, <1>28, <1>29, <1>30, <1>31 DEF Tree0

-----------------------------------------------------------------------------
(* The directories that can be reached from the root are in order. *)

View0(f, d) == [fat |-> f, dir |-> d]

\* The clusters of the directories in T and of those with an entry in T.
Deeper(f, d, T) ==
  T \cup UNION {ClustersFrom(f, At(d, s).first) : s \in {t \in T \X Index : At(d, t).kind = "dir"}}

\* One level deeper all clusters are clusters of directories in order.
LEMMA DeeperInSpace ==
  ASSUME NEW f, NEW d, Tree0(f, d), NEW T \in SUBSET Space(f, d, {}, NoCluster)
  PROVE  Deeper(f, d, T) \in SUBSET Space(f, d, {}, NoCluster)
<1>1. TreeOK(f, d, {}, NoCluster)
  BY DEF Tree0
<1>2. SUFFICES ASSUME NEW s \in T \X Index, At(d, s).kind = "dir",
                      NEW c \in ClustersFrom(f, At(d, s).first)
      PROVE  c \in Space(f, d, {}, NoCluster)
  BY DEF Deeper
<1>3. s \in Slot /\ Live(At(d, s))
  BY <1>2 DEF Space, Slot, Live
<1>4. s \in DirsOf(d, {})
  BY <1>1, <1>2, <1>3 DEF TreeOK, EntriesAreSound, DirsOf, OwnersOf
<1>5. At(d, s).first \in HeadsOf(d, {})
  BY <1>4, DirHeads
<1> DEFINE h == At(d, s).first
<1>6. h \in Cluster /\ Begins(f, h) /\ Counted(f, NoCluster, h) = Len(Chain(f, h))
  BY <1>1, <1>5, HeadsAre
<1>7. PICK j \in 1 .. Len(Chain(f, h)) : c = Chain(f, h)[j]
  <2>1. Sound(f)
    BY <1>1 DEF TreeOK
  <2>2. QED
    BY <1>2, <1>6, <2>1, ClusterPlace
<1>8. QED
  BY <1>1, <1>5, <1>6, <1>7, SpaceIs

\* The clusters of the root are.
LEMMA RootInSpace ==
  ASSUME NEW f, NEW d, Tree0(f, d)
  PROVE  ClustersFrom(f, Root) \in SUBSET Space(f, d, {}, NoCluster)
<1>1. TreeOK(f, d, {}, NoCluster)
  BY DEF Tree0
<1>2. Root \in HeadsOf(d, {})
  BY RootHead
<1>3. /\ Root \in Cluster /\ Begins(f, Root) /\ Sound(f)
      /\ Counted(f, NoCluster, Root) = Len(Chain(f, Root))
  <2>1. Sound(f)
    BY <1>1 DEF TreeOK
  <2>2. QED
    BY <1>1, <1>2, <2>1, HeadsAre
<1>4. QED
  BY <1>1, <1>2, <1>3, ClusterPlace, SpaceIs

\* The clusters of directories are in every set that has those of the root and
\* of each directory with an entry in it.
LEMMA DirClustersIn ==
  ASSUME NEW f, NEW d, NEW R, ClustersFrom(f, Root) \subseteq R,
         \A T \in SUBSET R : Deeper(f, d, T) \in SUBSET R
  PROVE  DirClusters(View0(f, d)) \subseteq R
<1> DEFINE S == SUBSET R
           start == ClustersFrom(f, Root)
           step == [T \in S |-> Deeper(f, d, T)]
           below == CHOOSE below : below = [n \in 0 .. N |->
                      IF n = 0 THEN start ELSE Deeper(f, d, below[n - 1])]
<1>1. start \in S
  OBVIOUS
<1>2. step \in [S -> S]
  OBVIOUS
<1>3. N \in Nat
  BY ClustersAreFinite
<1>4. PICK g \in [0 .. N -> S] :
        g = [n \in 0 .. N |-> IF n = 0 THEN start ELSE step[g[n - 1]]]
  <2> HIDE DEF step, start, S
  <2> QED
    BY <1>1, <1>2, <1>3, Recursion
<1>5. \A n \in 0 .. N : (IF n = 0 THEN start ELSE step[g[n - 1]])
        = IF n = 0 THEN start ELSE Deeper(f, d, g[n - 1])
  <2>1. SUFFICES ASSUME NEW n \in 0 .. N, n # 0
        PROVE  step[g[n - 1]] = Deeper(f, d, g[n - 1])
    OBVIOUS
  <2>2. n - 1 \in 0 .. N
    BY <1>3, <2>1
  <2>3. g[n - 1] \in S
    BY <1>4, <2>2
  <2>4. QED
    BY <2>3
<1>6. g = [n \in 0 .. N |-> IF n = 0 THEN start ELSE Deeper(f, d, g[n - 1])]
  <2> HIDE DEF step, start, S
  <2> QED
    BY <1>4, <1>5
<1>7. below = [n \in 0 .. N |-> IF n = 0 THEN start ELSE Deeper(f, d, below[n - 1])]
  BY <1>6
<1>8. DirClusters(View0(f, d)) = below[N]
  BY DEF DirClusters, N, View0, EntryAt, At, Deeper
<1> HIDE DEF below, start, S, step
<1>9. \A n \in 0 .. N : below[n] = IF n = 0 THEN start ELSE Deeper(f, d, below[n - 1])
  BY <1>7, Zenon
<1> DEFINE bad == {n \in 0 .. N : below[n] \notin S}
<1>10. bad = {}
  <2>1. SUFFICES ASSUME bad # {} PROVE FALSE
    OBVIOUS
  <2>2. PICK n \in bad : \A y \in bad : n <= y
    <3>1. bad \in SUBSET Nat
      BY <1>3
    <3> HIDE DEF bad
    <3>2. QED
      BY <2>1, <3>1, LeastOf
  <2>3. n \in 0 .. N /\ below[n] \notin S
    BY <2>2
  <2>4. n # 0
    BY <1>1, <1>9, <2>3
  <2>5. n - 1 \in 0 .. N /\ n - 1 \notin bad
    BY <1>3, <2>2, <2>3, <2>4
  <2>6. below[n - 1] \in S
    BY <2>5
  <2>7. below[n] = Deeper(f, d, below[n - 1])
    BY <1>9, <2>3, <2>4
  <2>8. below[n] \in S
    BY <2>6, <2>7 DEF S
  <2>9. QED
    BY <2>3, <2>8
<1>11. QED
  BY <1>3, <1>8, <1>10 DEF S

\* So all directories that can be reached are in order.
LEMMA DirClustersInSpace ==
  ASSUME NEW f, NEW d, Tree0(f, d)
  PROVE  DirClusters(View0(f, d)) \in SUBSET Space(f, d, {}, NoCluster)
<1>1. ClustersFrom(f, Root) \in SUBSET Space(f, d, {}, NoCluster)
  BY RootInSpace
<1>2. \A T \in SUBSET Space(f, d, {}, NoCluster) :
        Deeper(f, d, T) \in SUBSET Space(f, d, {}, NoCluster)
  BY DeeperInSpace
<1>3. DirClusters(View0(f, d)) \subseteq Space(f, d, {}, NoCluster)
  BY <1>1, <1>2, DirClustersIn
<1>4. QED
  BY <1>3

\* What the entries in use below the root are.
LEMMA LiveSlotsAre ==
  ASSUME NEW f, NEW d, Tree0(f, d), NEW s \in LiveSlots(View0(f, d))
  PROVE  /\ s \in Slot /\ s[1] \in Space(f, d, {}, NoCluster) /\ Live(At(d, s))
         /\ EntryAt(View0(f, d), s) = At(d, s)
<1>1. EntryAt(View0(f, d), s) = At(d, s)
  BY DEF EntryAt, View0, At
<1>2. s \in DirClusters(View0(f, d)) \X Index /\ Live(At(d, s))
  BY <1>1 DEF LiveSlots
<1>3. s[1] \in Space(f, d, {}, NoCluster) /\ s[2] \in Index /\ s = <<s[1], s[2]>>
  BY <1>2, DirClustersInSpace
<1>4. QED
  BY <1>1, <1>2, <1>3 DEF Slot, Space

-----------------------------------------------------------------------------
(* What the invariant implies. *)

\* The type invariant of Directory.
LEMMA TypesFollow == TInv => TypeOK
<1> SUFFICES ASSUME TInv PROVE TypeOK
  OBVIOUS
<1> USE DEF TInv
<1>1. \A h \in HandleType :
        /\ h.type \in {"closed", "file", "dir", "root16", "root32"}
        /\ h.first \in Cluster \cup {NoCluster}
        /\ h.size \in 0 .. Cardinality(Cluster)
        /\ h.slot \in Slot \cup {NoSlot}
  BY DEF HandleType, N
<1>2. hand["root"] \in HandleType /\ hand["h"] \in HandleType /\ this \in HandleType
  BY DEF TypeInv
<1>3. \A i \in DOMAIN stack : stack[i].handle \in HandleType
  <2>1. stack \in Seq(FrameType)
    BY DEF TypeInv
  <2>2. \A i \in DOMAIN stack : stack[i] \in FrameType
    BY <2>1
  <2>3. QED
    BY <2>2 DEF FrameType
<1>4. /\ fat \in [Cluster -> Cluster \cup {EOC, Free}]
      /\ dir \in [Cluster -> [Index -> AnyEntry]]
      /\ card \in [fat : [Cluster -> Cluster \cup {EOC, Free}], dir : [Cluster -> [Index -> AnyEntry]]]
      /\ held \in Cluster \cup {FatBlock, NoBlock}
      /\ k \in 1 .. Cardinality(Cluster) + 1
      /\ empty \in Slot \cup {NoSlot}
  <2>1. fat \in FatType /\ dir \in Contents /\ card \in [fat : FatType, dir : Contents]
    BY DEF TypeInv
  <2>2. held \in Cluster \cup {FatBlock, NoBlock} /\ k \in 1 .. N + 1 /\ empty \in Slot \cup {NoSlot}
    BY DEF TypeInv
  <2> HIDE DEF TInv
  <2>3. QED
    BY <2>1, <2>2, Zenon DEF FatType, Contents, N
<1>5. QED
  BY <1>1, <1>2, <1>3, <1>4 DEF TypeOK

\* Between calls the whole tree is in order.
LEMMA IdleTree ==
  TInv /\ pc = "idle" /\ ~damaged => Tree0(fat, dir) /\ View = View0(fat, dir)
BY DEF TInv, TreeInv, Tree0, Loose, Unzeroed, View, View0

\* The search for an entry in use ends at it.
LEMMA FoundFollows == TInv => EveryEntryIsFound
<1>1. SUFFICES ASSUME TInv, pc = "idle", ~damaged,
                      NEW first \in {Root} \cup
                        {EntryAt(View, s).first : s \in {t \in Tree : EntryAt(View, t).kind = "dir"}},
                      NEW j \in DOMAIN Chain(fat, first), NEW i \in Index,
                      Live(dir[Chain(fat, first)[j]][i]), NEW jj \in 1 .. j, NEW ii \in Index,
                      jj < j \/ ii < i
      PROVE  /\ dir[Chain(fat, first)[jj]][ii].kind # "free"
             /\ dir[Chain(fat, first)[jj]][ii].name # dir[Chain(fat, first)[j]][i].name
  BY DEF EveryEntryIsFound
<1>2. Tree0(fat, dir) /\ View = View0(fat, dir) /\ TreeOK(fat, dir, {}, NoCluster)
  BY <1>1, IdleTree DEF Tree0
<1>3. first \in HeadsOf(dir, {})
  <2>1. CASE first = Root
    BY <2>1, RootHead
  <2>2. ASSUME NEW s \in Tree, EntryAt(View, s).kind = "dir", first = EntryAt(View, s).first
        PROVE  first \in HeadsOf(dir, {})
    <3>1. s \in Slot /\ Live(At(dir, s)) /\ EntryAt(View, s) = At(dir, s)
      BY <1>2, LiveSlotsAre DEF Tree
    <3>2. s \in DirsOf(dir, {})
      BY <1>2, <2>2, <3>1 DEF TreeOK, EntriesAreSound, DirsOf, OwnersOf
    <3>3. QED
      BY <2>2, <3>1, <3>2, DirHeads
  <2>3. QED
    BY <2>1, <2>2
<1>4. Ordered(fat, dir, NoCluster, first)
  BY <1>2, <1>3 DEF TreeOK
<1>5. /\ Counted(fat, NoCluster, first) = Len(Chain(fat, first))
      /\ Chain(fat, first) \in Seq(Cluster) /\ Len(Chain(fat, first)) \in 1 .. N
  BY <1>2, <1>3, HeadsAre
<1>6. j \in 1 .. Len(Chain(fat, first)) /\ jj \in 1 .. Len(Chain(fat, first))
  BY <1>5
<1>7. Before(jj, ii, j, i)
  BY <1>1, <1>6 DEF Before
<1>8. QED
  BY <1>1, <1>4, <1>5, <1>6, <1>7 DEF Ordered, Of

\* Chains end and share no cluster.
LEMMA SoundFollows == TInv => TreeIsSound
<1>1. SUFFICES ASSUME TInv, pc = "idle", ~damaged PROVE TreeIsSound
  BY DEF TreeIsSound
<1>2. Tree0(fat, dir) /\ View = View0(fat, dir) /\ TreeOK(fat, dir, {}, NoCluster)
  BY <1>1, IdleTree DEF Tree0
<1>3. Sound(fat) /\ Begins(fat, Root) /\ OwnersAreHeads(fat, dir, {}) /\ EntriesAreSound(dir, {})
  BY <1>2 DEF TreeOK
<1> DEFINE first(s) == IF s = NoSlot THEN Root ELSE EntryAt(View, s).first
<1>4. \A s \in Tree : /\ s \in Slot /\ Live(At(dir, s)) /\ EntryAt(View, s) = At(dir, s)
                      /\ s # NoSlot /\ first(s) = At(dir, s).first
  <2>1. \A s \in Tree : s \in Slot /\ Live(At(dir, s)) /\ EntryAt(View, s) = At(dir, s)
    BY <1>2, LiveSlotsAre DEF Tree
  <2>2. NoSlot \notin Slot
    BY MarksAreNoClusters DEF NoSlot, Slot
  <2>3. QED
    BY <2>1, <2>2
<1>5. \A s \in Tree : At(dir, s).first \in Cluster \cup {NoCluster}
  BY <1>3, <1>4, EntryTypes DEF EntriesAreSound, AnyEntry
<1>6. \A s \in Tree : first(s) # NoCluster =>
        s \in OwnersOf(dir, {}) /\ first(s) \in Other /\ first(s) \in Cluster /\ Begins(fat, first(s))
  BY <1>3, <1>4 DEF OwnersOf, OwnersAreHeads, Cluster
<1>7. first(NoSlot) = Root /\ Root \in Cluster /\ Root \notin Other
  BY DirectoryAssumption DEF Cluster
<1>8. \A s \in Tree \cup {NoSlot} : first(s) # NoCluster => first(s) \in Cluster /\ Begins(fat, first(s))
  BY <1>3, <1>6, <1>7
<1>9. \A s, t \in Tree \cup {NoSlot} : s # t /\ first(s) # NoCluster => first(s) # first(t)
  <2>1. \A s, t \in Tree : s # t /\ first(s) # NoCluster => first(s) # first(t)
    BY <1>3, <1>4, <1>6 DEF OwnersAreHeads
  <2>2. \A s \in Tree : first(s) # Root
    BY <1>6, <1>7, MarksAreNoClusters
  <2>3. QED
    BY <1>7, <2>1, <2>2
<1>10. \A s \in Tree : EntryAt(View, s).kind = "dir" \/ EntryAt(View, s).size > 0 => first(s) # NoCluster
  BY <1>3, <1>4 DEF EntriesAreSound, Live
<1>11. \A s \in Tree \cup {NoSlot} : first(s) # NoCluster => EndsInEOC(first(s))
  BY <1>3, <1>8, HeadChain DEF EndsInEOC
<1> HIDE DEF first
<1>12. ClustersFrom(fat, NoCluster) = {}
  <2>1. Chain(fat, NoCluster) = << >>
    BY <1>3, ChainIs, MarksAreNoClusters DEF Sound, Link
  <2>2. QED
    BY <2>1 DEF ClustersFrom
<1>13. \A s, t \in Tree \cup {NoSlot} :
         s # t => ClustersFrom(fat, first(s)) \cap ClustersFrom(fat, first(t)) = {}
  <2>1. SUFFICES ASSUME NEW s \in Tree \cup {NoSlot}, NEW t \in Tree \cup {NoSlot}, s # t
        PROVE  ClustersFrom(fat, first(s)) \cap ClustersFrom(fat, first(t)) = {}
    OBVIOUS
  <2>2. CASE first(s) = NoCluster \/ first(t) = NoCluster
    BY <1>12, <2>2
  <2>3. CASE first(s) # NoCluster /\ first(t) # NoCluster
    <3>1. first(s) \in Cluster /\ Begins(fat, first(s)) /\ first(t) \in Cluster /\ Begins(fat, first(t))
      BY <1>8, <2>3
    <3>2. first(s) # first(t)
      BY <1>9, <2>1, <2>3
    <3>3. QED
      BY <1>3, <3>1, <3>2, HeadsApart
  <2>4. QED
    BY <2>2, <2>3
<1>14. QED
  BY <1>10, <1>11, <1>13 DEF TreeIsSound, first

\* What rmDir and rmRfStar free has no entry in use.
LEMMA RemovedFollows == TInv => RemovedIsEmpty
<1>1. SUFFICES ASSUME TInv, pc = "free", thisEntry.kind = "dir",
                      NEW c \in ClustersFrom(fat, this.first), NEW i \in Index
      PROVE  ~Live(dir[c][i])
  BY DEF RemovedIsEmpty
<1>2. AtFree
  BY <1>1 DEF TInv, TreeInv, PlaceInv
<1>3. thisEntry = At(dir, this.slot)
  BY DEF thisEntry, EntryAt, View, At
<1>4. QED
  BY <1>1, <1>2, <1>3 DEF AtFree

-----------------------------------------------------------------------------
(* What the steps have in common. *)

\* Only a removal and addDirCluster leave the tree out of order for a while.
LEMMA LooseIs ==
  /\ pc \notin {"sync", "syncFlush", "delete"} => Loose = {}
  /\ pc' \notin {"sync", "syncFlush", "delete"} => Loose' = {}
  /\ pc # "zero" => Unzeroed = NoCluster
  /\ pc' # "zero" => Unzeroed' = NoCluster
BY DEF Loose, Unzeroed

CardOK == card \in [fat : FatType, dir : Contents] /\ held \in Cluster \cup {FatBlock, NoBlock}

\* A flush writes a block of the volume.
LEMMA StoredType ==
  ASSUME TypeInv, NEW b \in Cluster \cup {FatBlock, NoBlock}
  PROVE  Stored(b) \in [fat : FatType, dir : Contents]
<1> DEFINE T == [fat : FatType, dir : Contents]
<1>1. fat \in FatType /\ dir \in Contents /\ card \in T
  BY DEF TypeInv
<1>2. CASE b = NoBlock
  BY <1>1, <1>2 DEF Stored
<1>3. CASE b = FatBlock
  <2>1. [card EXCEPT !.fat = fat] \in T
    BY <1>1
  <2>2. QED
    BY <1>1, <1>3, <2>1 DEF Stored
<1>4. CASE b \in Cluster /\ b # NoBlock /\ b # FatBlock
  <2>1. [card.dir EXCEPT ![b] = dir[b]] \in Contents
    BY <1>1, <1>4 DEF Contents
  <2>2. [card EXCEPT !.dir[b] = dir[b]] = [card EXCEPT !.dir = [card.dir EXCEPT ![b] = dir[b]]]
    OBVIOUS
  <2>3. [card EXCEPT !.dir = [card.dir EXCEPT ![b] = dir[b]]] \in T
    BY <1>1, <2>1
  <2>4. QED
    BY <1>4, <2>2, <2>3 DEF Stored
<1>5. QED
  BY <1>2, <1>3, <1>4

\* A flush, or none, leaves the card an image of the volume.
LEMMA CardFlushes ==
  ASSUME TypeInv, Flushes \/ UNCHANGED <<card, held>>
  PROVE  CardOK'
BY StoredType DEF TypeInv, CardOK, Flushes

\* So does reading.
LEMMA CardReads ==
  ASSUME TypeInv, NEW B, Reads(B)
  PROVE  CardOK'
BY CardFlushes DEF Reads

\* So does changing a block.
LEMMA CardHolds ==
  ASSUME TypeInv, NEW b \in Cluster \cup {FatBlock}, Holds(b)
  PROVE  CardOK'
<1>1. held \in Cluster \cup {FatBlock, NoBlock} /\ card \in [fat : FatType, dir : Contents]
  BY DEF TypeInv
<1>2. QED
  BY <1>1, StoredType DEF CardOK, Holds

\* What the application keeps when no empty file is passed as dirFile.
LEMMA KeptIs ==
  ASSUME NEW ok, NEW h, ~EmptyFiles
  PROVE  Kept(ok, h) =
           IF ok /\ call.op = "open" /\ (h.type = "dir" \/ h.size > 0) THEN [hand EXCEPT !["h"] = h]
           ELSE IF call.op \in {"rmDir", "rmRf"} /\ pc # "scan" THEN [hand EXCEPT !["h"] = Closed]
           ELSE hand
<1> DEFINE A == ok /\ call.op = "open" /\ (h.type = "dir" \/ h.size > 0)
           B == call.op \in {"rmDir", "rmRf"} /\ pc # "scan"
<1>1. (ok /\ call.op = "open" /\ (h.type = "dir" \/ h.size > 0 \/ EmptyFiles)) <=> A
  OBVIOUS
<1>2. A => ~B
  OBVIOUS
<1> HIDE DEF B
<1>3. CASE A
  BY <1>2, <1>3, Zenon DEF Kept, B
<1>4. CASE ~A /\ B
  BY <1>1, <1>4, Zenon DEF Kept, B
<1>5. CASE ~A /\ ~B
  BY <1>1, <1>5, Zenon DEF Kept, B
<1>6. QED
  BY <1>3, <1>4, <1>5 DEF B

\* A closed handle is a handle.
LEMMA ClosedType == Closed \in HandleType
BY ClustersAreFinite DEF Closed, HandleType

\* Between calls, whatever went on before, the locals are gone.
LEMMA IdlePlace ==
  ASSUME this = Closed, k = 1, empty = NoSlot, stack = << >>, pc = "idle", call = NoCall
  PROVE  StackInv /\ CallInv /\ PlaceInv /\ AtIdle
<1>1. AtIdle
  BY DEF AtIdle
<1>2. StackInv
  BY DEF StackInv
<1>3. CallInv
  BY DEF CallInv, NoCall, Removing, Marked
<1>4. PlaceInv
  BY <1>1 DEF PlaceInv, Marked
<1>5. QED
  BY <1>1, <1>2, <1>3, <1>4

\* The same of the state a step leads to.
LEMMA IdlePlaceNext ==
  ASSUME this' = Closed, k' = 1, empty' = NoSlot, stack' = << >>, pc' = "idle", call' = NoCall
  PROVE  StackInv' /\ CallInv' /\ PlaceInv' /\ AtIdle'
<1>1. AtIdle'
  BY DEF AtIdle
<1>2. StackInv'
  BY DEF StackInv
<1>3. CallInv'
  BY DEF CallInv, NoCall, Removing, Marked
<1>4. PlaceInv'
  BY <1>1 DEF PlaceInv, Marked
<1>5. QED
  BY <1>1, <1>2, <1>3, <1>4

\* A call returns, and what it leaves is in order or given up.
LEMMA Returned ==
  ASSUME ~EmptyFiles, TInv, ~damaged, NEW ok, NEW h, Returns(ok, h), UNCHANGED image, CardOK',
         ~damaged' => Loose = {} /\ Unzeroed = NoCluster,
         ok /\ call.op = "open" /\ (h.type = "dir" \/ h.size > 0) =>
           h \in HandleType /\ (FileHandle(h) \/ IsDir(h))
  PROVE  TInv'
<1> DEFINE A == ok /\ call.op = "open" /\ (h.type = "dir" \/ h.size > 0)
           B == call.op \in {"rmDir", "rmRf"} /\ pc # "scan"
<1>1. TypeInv /\ TreeInv
  BY DEF TInv
<1>2. /\ hand' = Kept(ok, h) /\ this' = Closed /\ k' = 1 /\ empty' = NoSlot
      /\ stack' = << >> /\ pc' = "idle" /\ call' = NoCall /\ fat' = fat /\ dir' = dir
  BY DEF Returns, image
<1>3. hand' = IF A THEN [hand EXCEPT !["h"] = h] ELSE IF B THEN [hand EXCEPT !["h"] = Closed] ELSE hand
  BY <1>2, KeptIs
<1>4. hand \in [{"root", "h"} -> HandleType]
  BY <1>1 DEF TypeInv
<1>5. /\ hand' \in [{"root", "h"} -> HandleType] /\ hand'["root"] = hand["root"]
      /\ hand'["h"] = IF A THEN h ELSE IF B THEN Closed ELSE hand["h"]
  <2> HIDE DEF B
  <2>1. CASE A
    <3>1. h \in HandleType /\ hand' = [hand EXCEPT !["h"] = h]
      BY <1>3, <2>1
    <3> HIDE DEF A
    <3>2. QED
      BY <1>4, <2>1, <3>1
  <2> HIDE DEF A
  <2>2. CASE ~A /\ B
    BY <1>3, <1>4, <2>2, ClosedType
  <2>3. CASE ~A /\ ~B
    BY <1>3, <1>4, <2>3
  <2>4. QED
    BY <2>1, <2>2, <2>3
<1>6. TypeInv'
  <2>1. fat' \in FatType /\ dir' \in Contents
    BY <1>1, <1>2 DEF TypeInv
  <2>2. this' \in HandleType /\ stack' \in Seq(FrameType) /\ empty' \in Slot \cup {NoSlot}
    BY <1>2, ClosedType
  <2>3. k' \in 1 .. N + 1 /\ pc' \in Steps
    BY <1>2, ClustersAreFinite DEF Steps
  <2> HIDE DEF A, B
  <2>4. QED
    BY <1>5, <2>1, <2>2, <2>3 DEF TypeInv, CardOK
<1>7. StackInv' /\ CallInv' /\ PlaceInv' /\ AtIdle'
  BY <1>2, IdlePlaceNext
<1>8. ASSUME ~damaged' PROVE TreeInv'
  <2>1. Loose = {} /\ Unzeroed = NoCluster /\ Loose' = {} /\ Unzeroed' = NoCluster
    BY <1>2, <1>8, LooseIs
  <2>2. TreeOK(fat', dir', Loose', Unzeroed')
    BY <1>1, <1>2, <2>1 DEF TreeInv
  <2>3. IsRoot(hand["root"])
    BY <1>1 DEF TreeInv, HandInv
  <2>4. \/ hand["h"] = Closed \/ FileHandle(hand["h"]) \/ IsDir(hand["h"])
        \/ Marked /\ call.op \in {"rmDir", "rmRf"}
    BY <1>1 DEF TreeInv, HandInv
  <2>5. hand'["h"] = Closed \/ FileHandle(hand'["h"]) \/ IsDir(hand'["h"])
    <3>1. CASE A
      BY <1>5, <3>1
    <3>2. CASE ~A /\ B
      BY <1>5, <3>2
    <3>3. CASE ~A /\ ~B
      <4>1. ~(Marked /\ call.op \in {"rmDir", "rmRf"})
        BY <3>3 DEF Marked
      <4>2. QED
        BY <1>5, <2>4, <3>3, <4>1
    <3>4. QED
      BY <3>1, <3>2, <3>3
  <2>6. \A x : IsDir(x) => DirHandle(fat', dir', Loose', Unzeroed', x)
    BY <1>2, <2>1 DEF IsDir
  <2>7. RootHandle(fat', Unzeroed', hand'["root"])
    BY <1>2, <1>5, <2>1, <2>3 DEF IsRoot
  <2>8. HandInv'
    <3> HIDE DEF A, B
    <3>1. QED
      BY <2>5, <2>6, <2>7 DEF HandInv, IsRoot, IsDir
  <2>9. QED
    BY <1>7, <2>2, <2>8 DEF TreeInv
<1>9. QED
  BY <1>2, <1>6, <1>7, <1>8 DEF TInv

-----------------------------------------------------------------------------
(* The search of open. *)

\* What is left alone stays.
LEMMA StaysSame == \A f, d, L, z, T : Stays(f, d, L, z, f, d, L, z, T)
BY DEF Stays

\* A step of a call that walks no tree of directories.
LEMMA Goes ==
  ASSUME TInv, ~damaged, pc \notin {"rmRf", "scan"}, ~Removing, stack' = stack, pc' # "rmRf",
         hand' = hand, damaged' = damaged, TypeInv',
         TreeOK(fat', dir', Loose', Unzeroed'),
         Stays(fat, dir, Loose, Unzeroed, fat', dir', Loose', Unzeroed', {}),
         CallInv', PlaceInv'
  PROVE  TInv'
<1>1. HandInv /\ StackInv
  BY DEF TInv, TreeInv
<1>2. stack' = << >>
  BY <1>1 DEF StackInv
<1>3. StackInv'
  BY <1>2 DEF StackInv
<1>4. IsRoot(hand["root"]) /\ (hand["h"] = Closed \/ FileHandle(hand["h"]) \/ IsDir(hand["h"]))
  BY <1>1 DEF HandInv, Removing
<1>5. RootHandle(fat', Unzeroed', hand["root"])
  BY <1>4, HandlesStay DEF IsRoot
<1>6. IsDir(hand["h"]) => DirHandle(fat', dir', Loose', Unzeroed', hand["h"])
  BY HandlesStay DEF IsDir
<1>7. HandInv'
  BY <1>4, <1>5, <1>6 DEF HandInv, IsRoot, IsDir
<1>8. QED
  BY <1>3, <1>7 DEF TInv, TreeInv

\* What a handle on a directory says of it.
LEMMA DirectoryIs ==
  ASSUME NEW f, NEW d, NEW L, NEW z, TreeOK(f, d, L, z), NEW x, DirectoryHandle(f, d, L, z, x)
  PROVE  /\ x.first \in HeadsOf(d, L) /\ x.type \in {"dir", "root16", "root32"}
         /\ x.size = Counted(f, z, x.first) /\ x.size \in 0 .. N
         /\ x.first # z => x.size = Len(Chain(f, x.first)) /\ x.size >= 1
<1>1. /\ x.first \in HeadsOf(d, L) /\ x.type \in {"dir", "root16", "root32"}
      /\ x.size = Counted(f, z, x.first)
  <2>1. CASE RootHandle(f, z, x)
    BY <2>1, RootHead DEF RootHandle
  <2>2. CASE DirHandle(f, d, L, z, x)
    BY <2>2, DirHeads DEF DirHandle
  <2>3. QED
    BY <2>1, <2>2 DEF DirectoryHandle
<1>2. /\ Counted(f, z, x.first) \in 0 .. N
      /\ x.first # z => Counted(f, z, x.first) = Len(Chain(f, x.first))
      /\ Len(Chain(f, x.first)) \in 1 .. N
  BY <1>1, HeadsAre
<1>3. QED
  BY <1>1, <1>2, ClustersAreFinite

\* The handle an entry in use is opened as.
LEMMA OpenedIs ==
  ASSUME Tree0(fat, dir), NEW s \in Slot, Live(At(dir, s))
  PROVE  /\ Opened(s) \in HandleType /\ Opened(s).slot = s
         /\ Opened(s).type = At(dir, s).kind /\ Opened(s).first = At(dir, s).first
         /\ At(dir, s).kind = "dir" => DirHandle(fat, dir, {}, NoCluster, Opened(s))
         /\ At(dir, s).kind = "file" => Opened(s).size = At(dir, s).size /\ Opened(s).size \in 0 .. 1
         /\ At(dir, s).kind = "file" /\ Opened(s).size # 0 =>
              FileHandle(Opened(s)) /\ s \in OwnersOf(dir, {})
<1> DEFINE x == At(dir, s)
           size == IF x.kind = "dir" THEN Len(Chain(fat, x.first)) ELSE x.size
<1>1. Opened(s) = [type |-> x.kind, first |-> x.first, slot |-> s, size |-> size]
  BY DEF Opened, EntryAt, View, At
<1>2. TreeOK(fat, dir, {}, NoCluster) /\ EntriesAreSound(dir, {}) /\ dir \in Contents
  BY DEF Tree0, TreeOK, EntriesAreSound
<1>3. x \in AnyEntry /\ x.kind \in {"file", "dir"}
  BY <1>2, EntryTypes DEF Live
<1>4. x.first \in Cluster \cup {NoCluster} /\ x.size \in 0 .. 1
  BY <1>3 DEF AnyEntry
<1>5. x.kind = "dir" \/ (x.kind = "file" /\ x.size # 0) => x.first # NoCluster /\ s \in OwnersOf(dir, {})
  BY <1>2, <1>4 DEF EntriesAreSound, OwnersOf
<1>6. x.kind = "dir" => s \in DirsOf(dir, {}) /\ size = Counted(fat, NoCluster, x.first) /\ size \in 0 .. N
  <2>1. SUFFICES ASSUME x.kind = "dir"
        PROVE  s \in DirsOf(dir, {}) /\ size = Counted(fat, NoCluster, x.first) /\ size \in 0 .. N
    OBVIOUS
  <2>2. s \in DirsOf(dir, {})
    BY <1>5, <2>1 DEF DirsOf
  <2>3. x.first \in HeadsOf(dir, {})
    BY <2>2, DirHeads
  <2>4. Counted(fat, NoCluster, x.first) = Len(Chain(fat, x.first)) /\ Len(Chain(fat, x.first)) \in 1 .. N
    BY <1>2, <2>3, HeadsAre
  <2>5. QED
    BY <2>1, <2>2, <2>4
<1>7. size \in 0 .. N
  BY <1>3, <1>4, <1>6, ClustersAreFinite
<1> HIDE DEF x, size
<1>8. Opened(s) \in HandleType
  BY <1>1, <1>3, <1>4, <1>7 DEF HandleType
<1>9. x.kind = "file" => size = x.size
  BY DEF size
<1>10. QED
  BY <1>1, <1>3, <1>4, <1>5, <1>6, <1>8, <1>9 DEF x, DirHandle, FileHandle

\* While no call is changing the tree.
LEMMA Calm ==
  ASSUME TInv, ~damaged, pc \notin {"sync", "syncFlush", "delete", "zero"}
  PROVE  /\ Tree0(fat, dir) /\ TreeOK(fat, dir, {}, NoCluster) /\ Loose = {} /\ Unzeroed = NoCluster
         /\ TypeInv /\ HandInv /\ StackInv /\ CallInv /\ PlaceInv
         /\ fat \in FatType /\ dir \in Contents
BY LooseIs DEF TInv, TreeInv, Tree0, TypeInv

\* A step of a call that changes nothing in the tree.
LEMMA QuietGoes ==
  ASSUME TInv, ~damaged, pc \notin {"rmRf", "scan", "zero"}, ~Removing,
         UNCHANGED <<image, hand, stack, damaged>>,
         pc' \notin {"rmRf", "sync", "syncFlush", "zero"}, Loose' = {},
         TypeInv', CallInv', PlaceInv'
  PROVE  TInv'
<1>1. pc \notin {"sync", "syncFlush", "delete", "zero"}
  BY DEF Removing, Marked
<1>2. TreeOK(fat, dir, {}, NoCluster) /\ Loose = {} /\ Unzeroed = NoCluster
  BY <1>1, Calm
<1>3. /\ fat' = fat /\ dir' = dir /\ hand' = hand /\ stack' = stack /\ damaged' = damaged
      /\ Unzeroed' = NoCluster
  BY LooseIs DEF image
<1>4. TreeOK(fat', dir', Loose', Unzeroed')
  BY <1>2, <1>3
<1>5. Stays(fat, dir, Loose, Unzeroed, fat', dir', Loose', Unzeroed', {})
  BY <1>2, <1>3, StaysSame
<1>6. QED
  BY <1>3, <1>4, <1>5, Goes

\* The block the search looks at.
LEMMA SearchedBlock ==
  ASSUME TInv, ~damaged, Searching
  PROVE  /\ IsDirectory(dirFile) /\ Scanned(k - 1) /\ k \in 1 .. dirFile.size
         /\ dirFile.size = Len(Chain(fat, dirFile.first)) /\ dirFile.size \in 1 .. N
         /\ dirFile.first \in HeadsOf(dir, {}) /\ call.name \in Name
         /\ Here \in Cluster
         /\ \A i \in Index : /\ Found(k, i) = Block[i] /\ <<Here, i>> \in Slot
                             /\ At(dir, <<Here, i>>) = Block[i]
<1>1. pc = "search" /\ k <= dirFile.size /\ dirFile.type # "file"
  BY DEF Searching
<1>2. /\ Tree0(fat, dir) /\ TreeOK(fat, dir, {}, NoCluster) /\ Loose = {} /\ Unzeroed = NoCluster
      /\ AtSearch /\ CallInv
  BY <1>1, Calm DEF PlaceInv
<1>3. IsDirectory(dirFile) /\ Scanned(k - 1) /\ k \in 1 .. dirFile.size
  BY <1>1, <1>2 DEF AtSearch, FileHandle
<1>4. DirectoryHandle(fat, dir, {}, NoCluster, dirFile)
  BY <1>2, <1>3 DEF IsDirectory
<1>5. /\ dirFile.first \in HeadsOf(dir, {}) /\ dirFile.size \in 0 .. N
      /\ dirFile.size = Counted(fat, NoCluster, dirFile.first)
  BY <1>2, <1>4, DirectoryIs
<1>6. /\ dirFile.size = Len(Chain(fat, dirFile.first)) /\ dirFile.size \in 1 .. N
      /\ Chain(fat, dirFile.first)[k] \in Cluster
  BY <1>2, <1>3, <1>5, HeadsAre
<1>7. call.name \in Name
  BY <1>1, <1>2 DEF CallInv
<1>8. Here \in Cluster
  BY <1>6 DEF Here
<1>9. ASSUME NEW i \in Index
      PROVE  /\ Found(k, i) = Block[i] /\ <<Here, i>> \in Slot
             /\ At(dir, <<Here, i>>) = Block[i]
  BY <1>8 DEF Found, Of, Block, Here, Slot, At
<1>10. QED
  BY <1>3, <1>5, <1>6, <1>7, <1>8, <1>9

\* The entry the search stops at is the first to stop it.
LEMMA StopsAre ==
  ASSUME TInv, ~damaged, Searching, Stops # {}
  PROVE  /\ Least(Stops) \in Index /\ Least(Stops) \in Stops /\ \A i \in Stops : Least(Stops) <= i
<1>1. Stops \in SUBSET Nat /\ Stops \in SUBSET Index
  BY DirectoryAssumption DEF Stops, Index
<1>2. QED
  BY <1>1, LeastIs

\* The first empty slot, in this block or before it.
LEMMA FirstEmptyIs ==
  ASSUME TInv, ~damaged, Searching
  PROVE  /\ FirstEmpty \in Slot \cup {NoSlot}
         /\ FirstEmpty # NoSlot =>
              \E j \in 1 .. k, i \in Index :
                /\ FirstEmpty = <<Chain(fat, dirFile.first)[j], i>> /\ ~Live(Found(j, i))
                /\ Stops = {} => Found(j, i).kind = "deleted"
                /\ \A jj \in 1 .. j, ii \in Index :
                     Before(jj, ii, j, i) =>
                       Found(jj, ii).kind # "free" /\ Found(jj, ii).name # call.name
<1>1. /\ IsDirectory(dirFile) /\ Scanned(k - 1) /\ k \in 1 .. dirFile.size /\ Here \in Cluster
      /\ dirFile.size \in 1 .. N
  BY SearchedBlock
<1>2. \A i \in Index : Found(k, i) = Block[i] /\ <<Here, i>> \in Slot
  BY SearchedBlock
<1>3. AtSearch /\ empty \in Slot \cup {NoSlot}
  BY Calm DEF Searching, PlaceInv, TypeInv
<1>4. k \in Nat /\ k >= 1
  BY <1>1
<1>5. CASE empty # NoSlot
  <2>1. FirstEmpty = empty
    BY <1>5 DEF FirstEmpty
  <2>2. PICK j \in 1 .. k - 1, i \in Index :
          empty = <<Chain(fat, dirFile.first)[j], i>> /\ Found(j, i).kind = "deleted"
    BY <1>3, <1>5 DEF AtSearch
  <2>3. ~Live(Found(j, i))
    BY <2>2 DEF Live
  <2>4. \A jj \in 1 .. j : jj \in 1 .. k - 1
    BY <1>4
  <2>5. \A jj \in 1 .. j, ii \in Index :
          Found(jj, ii).kind # "free" /\ Found(jj, ii).name # call.name
    BY <1>1, <2>4 DEF Scanned
  <2>6. j \in 1 .. k
    BY <1>4
  <2>7. QED
    BY <1>3, <2>1, <2>2, <2>3, <2>5, <2>6
<1>6. CASE empty = NoSlot /\ EmptyHere = {}
  BY <1>3, <1>6 DEF FirstEmpty
<1>7. CASE empty = NoSlot /\ EmptyHere # {}
  <2> DEFINE i == Least(EmptyHere)
  <2>1. EmptyHere \in SUBSET Nat /\ EmptyHere \in SUBSET Index
    BY DirectoryAssumption DEF EmptyHere, Index
  <2>2. i \in EmptyHere /\ i \in Index /\ i \in Nat
    BY <1>7, <2>1, LeastIs
  <2>3. FirstEmpty = <<Here, i>>
    BY <1>7 DEF FirstEmpty
  <2> HIDE DEF i
  <2>4. Found(k, i).kind \in {"free", "deleted"} /\ \A j \in Stops : i <= j
    BY <1>2, <2>2 DEF EmptyHere
  <2>5. ~Live(Found(k, i))
    BY <2>4 DEF Live
  <2>6. Stops = {} => Found(k, i).kind = "deleted"
    <3>1. SUFFICES ASSUME Found(k, i).kind = "free" PROVE i \in Stops
      BY <2>4
    <3>2. QED
      BY <1>2, <2>2, <3>1 DEF Stops
  <2>7. ASSUME NEW jj \in 1 .. k, NEW ii \in Index, Before(jj, ii, k, i)
        PROVE  Found(jj, ii).kind # "free" /\ Found(jj, ii).name # call.name
    <3>1. CASE jj < k
      <4>1. jj \in 1 .. k - 1
        BY <1>4, <3>1
      <4>2. QED
        BY <1>1, <4>1 DEF Scanned
    <3>2. CASE jj = k /\ ii < i
      <4>1. SUFFICES ASSUME Found(k, ii).kind = "free" \/ Found(k, ii).name = call.name PROVE FALSE
        BY <3>2
      <4>2. ii \in Stops
        BY <1>2, <4>1 DEF Stops
      <4>3. i <= ii /\ ii \in Nat
        BY <2>4, <4>2, DirectoryAssumption DEF Index
      <4>4. QED
        BY <2>2, <3>2, <4>3
    <3>3. QED
      BY <2>7, <3>1, <3>2 DEF Before
  <2>8. k \in 1 .. k /\ FirstEmpty = <<Chain(fat, dirFile.first)[k], i>> /\ FirstEmpty \in Slot
    BY <1>2, <1>4, <2>2, <2>3 DEF Here
  <2>9. QED
    BY <2>2, <2>5, <2>6, <2>7, <2>8
<1>8. QED
  BY <1>5, <1>6, <1>7

-----------------------------------------------------------------------------
(* Each step of the search keeps the invariant. *)

\* The directory searched is the same as long as the tree is.
LEMMA SameDirectory ==
  ASSUME UNCHANGED <<image, hand, call>>, Loose = {}, Loose' = {},
         Unzeroed = NoCluster, Unzeroed' = NoCluster
  PROVE  /\ dirFile' = dirFile /\ (IsDirectory(dirFile) => IsDirectory(dirFile)')
         /\ \A j, i : Found(j, i)' = Found(j, i)
         /\ \A n : Scanned(n) => Scanned(n)'
<1>1. fat' = fat /\ dir' = dir /\ hand' = hand /\ call' = call
  BY DEF image
<1>2. dirFile' = dirFile
  BY <1>1 DEF dirFile
<1>3. \A j, i : Found(j, i)' = Found(j, i)
  BY <1>1, <1>2 DEF Found
<1>4. IsDirectory(dirFile) => IsDirectory(dirFile)'
  BY <1>1, <1>2 DEF IsDirectory
<1>5. \A n : Scanned(n) => Scanned(n)'
  BY <1>1, <1>3 DEF Scanned
<1>6. QED
  BY <1>2, <1>3, <1>4, <1>5

\* The part of TypeInv a step of the search leaves alone.
LEMMA TypesOfCard ==
  ASSUME TypeInv, UNCHANGED <<image, hand>>, CardOK', this' \in HandleType,
         stack' \in Seq(FrameType), k' \in 1 .. N + 1, empty' \in Slot \cup {NoSlot}, pc' \in Steps
  PROVE  TypeInv'
BY DEF TypeInv, CardOK, image

\* The search goes on to the next block.
LEMMA SearchNextKeeps ==
  ASSUME TInv, ~damaged, SearchNext
  PROVE  TInv'
<1>1. /\ Searching /\ Stops = {} /\ ReadsHere /\ empty' = FirstEmpty /\ k' = k + 1
      /\ UNCHANGED <<image, hand, call>> /\ this' = this /\ stack' = stack /\ pc' = pc
      /\ damaged' = damaged /\ pc = "search"
  BY DEF SearchNext, goesOn, Searching
<1>2. /\ Loose = {} /\ Unzeroed = NoCluster /\ TypeInv /\ CallInv /\ PlaceInv
  BY <1>1, Calm
<1>3. Loose' = {} /\ Unzeroed' = NoCluster
  BY <1>1, LooseIs
<1>4. /\ IsDirectory(dirFile) /\ Scanned(k - 1) /\ k \in 1 .. dirFile.size
      /\ dirFile.size \in 1 .. N
  BY <1>1, SearchedBlock
<1>5. \A i \in Index : Found(k, i) = Block[i]
  BY <1>1, SearchedBlock
<1>6. k + 1 - 1 = k /\ k + 1 \in 1 .. dirFile.size + 1 /\ k + 1 \in 1 .. N + 1 /\ k \in Nat
  BY <1>4, ClustersAreFinite
<1>7. /\ FirstEmpty \in Slot \cup {NoSlot}
      /\ FirstEmpty # NoSlot =>
           \E j \in 1 .. k, i \in Index :
             FirstEmpty = <<Chain(fat, dirFile.first)[j], i>> /\ Found(j, i).kind = "deleted"
  BY <1>1, FirstEmptyIs
<1>8. Scanned(k)
  <2>1. SUFFICES ASSUME NEW j \in 1 .. k, NEW i \in Index
        PROVE  Found(j, i).kind # "free" /\ Found(j, i).name # call.name
    BY DEF Scanned
  <2>2. CASE j = k
    BY <1>1, <1>5, <2>2 DEF Stops
  <2>3. CASE j # k
    <3>1. j \in 1 .. k - 1
      BY <1>6, <2>3
    <3>2. QED
      BY <1>4, <3>1 DEF Scanned
  <2>4. QED
    BY <2>2, <2>3
<1>9. /\ dirFile' = dirFile /\ IsDirectory(dirFile)' /\ (\A n : n = k => Scanned(n)')
      /\ \A j, i : Found(j, i)' = Found(j, i)
  BY <1>1, <1>2, <1>3, <1>4, <1>8, SameDirectory
<1>10. AtSearch'
  <2>1. this = Closed
    BY <1>1, <1>2 DEF PlaceInv, AtSearch
  <2>2. Scanned(k - 1)'
    BY <1>1, <1>6, <1>9
  <2>3. fat' = fat
    BY <1>1 DEF image
  <2>4. empty' # NoSlot =>
          \E j \in 1 .. k' - 1, i \in Index :
            empty' = <<Chain(fat', dirFile'.first)[j], i>> /\ Found(j, i)'.kind = "deleted"
    BY <1>1, <1>6, <1>7, <1>9, <2>3
  <2>5. k' \in 1 .. dirFile'.size + 1 /\ this' = Closed
    BY <1>1, <1>6, <1>9, <2>1
  <2>6. QED
    BY <1>9, <2>2, <2>4, <2>5 DEF AtSearch
<1>11. PlaceInv'
  BY <1>1, <1>10 DEF PlaceInv, Marked
<1>12. CallInv'
  BY <1>1, <1>2 DEF CallInv, Removing, Marked
<1>13. CardOK'
  BY <1>1, <1>2, CardReads DEF ReadsHere
<1>14. TypeInv'
  <2>1. this' \in HandleType /\ stack' \in Seq(FrameType) /\ pc' \in Steps
    BY <1>1, <1>2 DEF TypeInv
  <2>2. QED
    BY <1>1, <1>2, <1>6, <1>7, <1>13, <2>1, TypesOfCard
<1>15. QED
  BY <1>1, <1>3, <1>11, <1>12, <1>14, QuietGoes DEF Removing, Marked

\* truncate(0) of a file that was opened: what is freed or marked is its own.
LEMMA RemoveBegins ==
  ASSUME TInv, ~damaged, Loose = {}, Unzeroed = NoCluster, NEW s \in Slot, At(dir, s).kind = "file",
         call.op \in {"remove", "rmDir", "rmRf"},
         this' = Opened(s), pc' = Truncate(Opened(s)), UNCHANGED <<image, call>>
  PROVE  /\ Loose' = {} /\ Unzeroed' = NoCluster /\ this' \in HandleType /\ this'.slot = s
         /\ pc' \in {"free", "delete"} /\ CallInv' /\ PlaceInv'
<1>1. Tree0(fat, dir) /\ Live(At(dir, s)) /\ fat' = fat /\ dir' = dir /\ call' = call
  BY DEF TInv, TreeInv, Tree0, Live, image
<1>2. /\ Opened(s) \in HandleType /\ Opened(s).slot = s /\ Opened(s).first = At(dir, s).first
      /\ Opened(s).size # 0 => s \in OwnersOf(dir, {})
  BY <1>1, OpenedIs
<1>3. pc' = IF Opened(s).size = 0 THEN "delete" ELSE "free"
  BY DEF Truncate
<1>4. At(dir', this'.slot).kind = "file"
  BY <1>1, <1>2
<1>5. Loose' = {} /\ Unzeroed' = NoCluster
  BY <1>3, <1>4 DEF Loose, Unzeroed
<1>6. CallInv'
  <2>1. call.d \in {"root", "h"}
    BY DEF TInv, TreeInv, CallInv
  <2>2. QED
    BY <1>1, <1>3, <2>1 DEF CallInv
<1>7. PlaceInv'
  <2>1. Marked' => this'.slot \in Slot
    BY <1>2
  <2>2. pc' \in {"sync", "syncFlush", "delete"} => Live(At(dir', this'.slot))
    BY <1>1, <1>2
  <2>3. pc' = "free" => AtFree'
    <3>1. SUFFICES ASSUME pc' = "free" PROVE AtFree'
      OBVIOUS
    <3>2. s \in OwnersOf(dir, {})
      BY <1>2, <1>3, <3>1
    <3>3. /\ this'.slot \in OwnersOf(dir', Loose') /\ At(dir', this'.slot).first = this'.first
          /\ At(dir', this'.slot).kind # "dir"
      BY <1>1, <1>2, <1>4, <1>5, <3>2
    <3>4. QED
      BY <3>3 DEF AtFree
  <2>4. QED
    BY <1>3, <2>1, <2>2, <2>3 DEF PlaceInv
<1>8. QED
  BY <1>2, <1>3, <1>5, <1>6, <1>7

\* The search finds the name: the call returns, or remove goes on.
LEMMA SearchFindsKeeps ==
  ASSUME ~EmptyFiles, TInv, ~damaged, SearchFinds
  PROVE  TInv'
<1> DEFINE s == <<Here, Least(Stops)>>
           h == Opened(s)
           ok == call.op = "open" \/ (call.op = "create" /\ h.type = "file")
<1>1. /\ Searching /\ Stops # {} /\ pc = "search"
      /\ h.type \in {"file", "dir"} /\ UNCHANGED image
      /\ Reads({Here, FatBlock}) \/ ReadsHere
      /\ \/ /\ call.op = "remove" /\ h.type = "file" /\ this' = h /\ pc' = Truncate(h)
            /\ k' = k /\ empty' = empty /\ stack' = stack
            /\ UNCHANGED <<hand, call>> /\ damaged' = damaged
         \/ Returns(ok, h) /\ damaged' = damaged
  BY DEF SearchFinds, goesOn, Searching
<1>2. /\ Tree0(fat, dir) /\ Loose = {} /\ Unzeroed = NoCluster /\ TypeInv /\ CallInv /\ PlaceInv
  BY <1>1, Calm
<1>3. Least(Stops) \in Index
  BY <1>1, StopsAre
<1>4. s \in Slot
  BY <1>1, <1>3, SearchedBlock
<1> HIDE DEF s
<1>5. h.type = At(dir, s).kind
  BY DEF Opened, EntryAt, View, At
<1>6. Live(At(dir, s))
  BY <1>1, <1>5 DEF Live
<1>7. /\ h \in HandleType
      /\ At(dir, s).kind = "dir" => DirHandle(fat, dir, {}, NoCluster, h)
      /\ At(dir, s).kind = "file" /\ h.size # 0 => FileHandle(h)
      /\ At(dir, s).kind = "file" => h.size \in 0 .. 1
  BY <1>2, <1>4, <1>6, OpenedIs
<1>8. CardOK'
  BY <1>1, <1>2, CardReads DEF ReadsHere
<1> HIDE DEF h
<1>9. CASE Returns(ok, h) /\ damaged' = damaged
  <2>1. h.type = "dir" \/ h.size > 0 => FileHandle(h) \/ IsDir(h)
    BY <1>1, <1>2, <1>5, <1>7 DEF IsDir
  <2> HIDE DEF ok
  <2>2. QED
    BY <1>1, <1>2, <1>7, <1>8, <1>9, <2>1, Returned
<1>10. CASE /\ call.op = "remove" /\ h.type = "file" /\ this' = h /\ pc' = Truncate(h)
            /\ k' = k /\ empty' = empty /\ stack' = stack
            /\ UNCHANGED <<hand, call>> /\ damaged' = damaged
  <2>1. /\ Loose' = {} /\ Unzeroed' = NoCluster /\ this' \in HandleType /\ this'.slot = s
        /\ pc' \in {"free", "delete"} /\ CallInv' /\ PlaceInv'
    BY <1>1, <1>2, <1>4, <1>5, <1>10, RemoveBegins DEF h
  <2>2. TypeInv'
    <3>1. stack' \in Seq(FrameType) /\ k' \in 1 .. N + 1 /\ empty' \in Slot \cup {NoSlot} /\ pc' \in Steps
      BY <1>2, <1>10, <2>1 DEF TypeInv, Steps
    <3>2. QED
      BY <1>1, <1>2, <1>8, <1>10, <2>1, <3>1, TypesOfCard
  <2>3. QED
    BY <1>1, <1>10, <2>1, <2>2, QuietGoes DEF Removing, Marked
<1>11. QED
  BY <1>1, <1>9, <1>10

\* A name that was found nowhere gets an entry, or a cluster for one.
LEMMA NoEntryKeeps ==
  ASSUME ~EmptyFiles, TInv, ~damaged, pc = "search", UNCHANGED image, CardOK',
         NEW slot \in Slot \cup {NoSlot}, NoEntry(slot),
         FileHandle(dirFile) \/ IsDirectory(dirFile),
         FileHandle(dirFile) => ~Creates,
         slot = NoSlot => Scanned(dirFile.size),
         slot # NoSlot =>
           \E j \in 1 .. dirFile.size, i \in Index :
             /\ slot = <<Chain(fat, dirFile.first)[j], i>> /\ ~Live(Found(j, i))
             /\ \A jj \in 1 .. j, ii \in Index :
                  Before(jj, ii, j, i) => Found(jj, ii).kind # "free" /\ Found(jj, ii).name # call.name,
         \A j \in 1 .. dirFile.size, i \in Index : Live(Found(j, i)) => Found(j, i).name # call.name
  PROVE  TInv'
<1>1. Loose = {} /\ Unzeroed = NoCluster /\ TypeInv /\ CallInv /\ PlaceInv
  BY Calm
<1>2. CASE Return(FALSE)
  <2>1. Returns(FALSE, this) /\ damaged' = damaged
    BY <1>2 DEF Return
  <2>2. QED
    BY <1>1, <2>1, Returned
<1>3. CASE ~Return(FALSE)
  <2>1. /\ Creates /\ empty' = slot /\ pc' = (IF slot = NoSlot THEN "grow" ELSE "fill")
        /\ this' = this /\ k' = k /\ stack' = stack /\ UNCHANGED <<hand, call>> /\ damaged' = damaged
    BY <1>3 DEF NoEntry, goesOn
  <2>2. pc' \in {"grow", "fill"} /\ Loose' = {} /\ Unzeroed' = NoCluster
    BY <2>1, LooseIs
  <2>3. /\ dirFile' = dirFile /\ IsDirectory(dirFile)' /\ fat' = fat /\ call' = call
        /\ \A j, i : Found(j, i)' = Found(j, i)
        /\ \A n : Scanned(n) => Scanned(n)'
    BY <1>1, <2>1, <2>2, SameDirectory DEF image
  <2>4. this' = Closed
    BY <1>1, <2>1 DEF PlaceInv, AtSearch
  <2>5. pc' = "grow" => AtGrow'
    <3>1. \A n : n = dirFile.size /\ slot = NoSlot => Scanned(n)'
      BY <2>3
    <3>2. slot = NoSlot => Scanned(dirFile.size)'
      BY <2>3, <3>1
    <3>3. QED
      BY <2>1, <2>3, <2>4, <3>2 DEF AtGrow
  <2>6. pc' = "fill" => AtFill'
    <3>1. SUFFICES ASSUME slot # NoSlot PROVE AtFill'
      BY <2>1
    <3>2. \E j \in 1 .. dirFile'.size, i \in Index :
             /\ empty' = <<Chain(fat', dirFile'.first)[j], i>> /\ ~Live(Found(j, i)')
             /\ \A jj \in 1 .. j, ii \in Index :
                  Before(jj, ii, j, i) =>
                    Found(jj, ii)'.kind # "free" /\ Found(jj, ii)'.name # call'.name
      BY <2>1, <2>3, <3>1
    <3>3. \A j \in 1 .. dirFile'.size, i \in Index : Live(Found(j, i)') => Found(j, i)'.name # call'.name
      BY <2>3
    <3>4. QED
      BY <2>3, <2>4, <3>2, <3>3 DEF AtFill
  <2>7. PlaceInv'
    BY <2>2, <2>5, <2>6 DEF PlaceInv, Marked
  <2>8. CallInv'
    BY <1>1, <2>2, <2>3 DEF CallInv, Removing, Marked
  <2>9. TypeInv'
    <3>1. this' \in HandleType /\ stack' \in Seq(FrameType) /\ k' \in 1 .. N + 1 /\ pc' \in Steps
      BY <1>1, <2>1 DEF TypeInv, Steps
    <3>2. QED
      BY <1>1, <2>1, <3>1, TypesOfCard
  <2>10. QED
    BY <2>1, <2>2, <2>7, <2>8, <2>9, QuietGoes DEF Removing, Marked
<1>4. QED
  BY <1>2, <1>3

\* The search ends at a free entry or behind the last block.
LEMMA SearchEndsKeeps ==
  ASSUME ~EmptyFiles, TInv, ~damaged, SearchEnds
  PROVE  TInv'
<1>1. pc = "search" /\ UNCHANGED image
  BY DEF SearchEnds, Searching, storage, image
<1>2. /\ TypeInv /\ CallInv /\ AtSearch /\ TreeOK(fat, dir, {}, NoCluster)
      /\ Loose = {} /\ Unzeroed = NoCluster
  BY <1>1, Calm DEF PlaceInv
<1>3. CASE /\ Searching /\ Stops # {} /\ Block[Least(Stops)].kind = "free"
           /\ ReadsHere /\ NoEntry(FirstEmpty)
  <2> DEFINE i0 == Least(Stops)
  <2>1. i0 \in Index /\ i0 \in Stops /\ \A i \in Stops : i0 <= i
    BY <1>3, StopsAre
  <2>2. /\ IsDirectory(dirFile) /\ Scanned(k - 1) /\ k \in 1 .. dirFile.size
        /\ dirFile.size = Len(Chain(fat, dirFile.first)) /\ dirFile.size \in 1 .. N
        /\ dirFile.first \in HeadsOf(dir, {})
    BY <1>3, SearchedBlock
  <2>3. \A i \in Index : Found(k, i) = Block[i]
    BY <1>3, SearchedBlock
  <2>4. Found(k, i0).kind = "free"
    BY <1>3, <2>1, <2>3
  <2> HIDE DEF i0
  <2>5. EmptyHere # {}
    BY <2>1, <2>3, <2>4 DEF EmptyHere
  <2>6. k \in Nat /\ k >= 1 /\ dirFile.size \in Nat
    BY <2>2, ClustersAreFinite
  <2>7. FirstEmpty # NoSlot
    <3>1. Here # NoCluster
      BY <1>3, SearchedBlock, MarksAreNoClusters
    <3>2. QED
      BY <2>5, <3>1 DEF FirstEmpty, NoSlot
  <2>8. FirstEmpty \in Slot \cup {NoSlot}
    BY <1>3, FirstEmptyIs
  <2>9. PICK j \in 1 .. k, i \in Index :
          /\ FirstEmpty = <<Chain(fat, dirFile.first)[j], i>> /\ ~Live(Found(j, i))
          /\ \A jj \in 1 .. j, ii \in Index :
               Before(jj, ii, j, i) => Found(jj, ii).kind # "free" /\ Found(jj, ii).name # call.name
    BY <1>3, <2>7, FirstEmptyIs
  <2>10. j \in 1 .. dirFile.size
    BY <2>2, <2>6
  <2>11. ASSUME NEW jj \in 1 .. dirFile.size, NEW ii \in Index, Live(Found(jj, ii))
         PROVE  Found(jj, ii).name # call.name
    <3>1. Ordered(fat, dir, NoCluster, dirFile.first)
      BY <1>2, <2>2 DEF TreeOK
    <3>2. Counted(fat, NoCluster, dirFile.first) = dirFile.size
      BY <1>2, <2>2, HeadsAre
    <3>3. ~Before(k, i0, jj, ii)
      <4>1. Before(k, i0, jj, ii) /\ Live(Of(fat, dir, dirFile.first, jj, ii))
              => Of(fat, dir, dirFile.first, k, i0).kind # "free"
        BY <2>1, <2>2, <3>1, <3>2 DEF Ordered
      <4>2. QED
        BY <2>4, <2>11, <4>1 DEF Found
    <3>4. jj \in Nat /\ ii \in Nat /\ i0 \in Nat
      BY <2>1, <2>6, DirectoryAssumption DEF Index
    <3>5. CASE jj < k
      <4>1. jj \in 1 .. k - 1
        BY <2>6, <3>5
      <4>2. QED
        BY <2>2, <4>1 DEF Scanned
    <3>6. CASE jj = k /\ ii < i0
      <4>1. ii \notin Stops
        BY <2>1, <3>4, <3>6
      <4>2. QED
        BY <2>3, <3>6, <4>1 DEF Stops
    <3>7. CASE jj = k /\ ii = i0
      BY <2>4, <2>11, <3>7 DEF Live
    <3>8. QED
      BY <2>6, <3>3, <3>4, <3>5, <3>6, <3>7 DEF Before
  <2>12. CardOK'
    BY <1>2, <1>3, CardReads DEF ReadsHere
  <2>13. ~FileHandle(dirFile)
    BY <1>3 DEF FileHandle, Searching
  <2>14. \E jj \in 1 .. dirFile.size, ii \in Index :
             /\ FirstEmpty = <<Chain(fat, dirFile.first)[jj], ii>> /\ ~Live(Found(jj, ii))
             /\ \A jjj \in 1 .. jj, iii \in Index :
                  Before(jjj, iii, jj, ii) =>
                    Found(jjj, iii).kind # "free" /\ Found(jjj, iii).name # call.name
    BY <2>9, <2>10
  <2>15. QED
    BY <1>1, <1>3, <2>2, <2>7, <2>8, <2>11, <2>12, <2>13, <2>14, NoEntryKeeps
<1>4. CASE pc = "search" /\ k > dirFile.size /\ NoEntry(empty) /\ UNCHANGED storage
  <2>1. ~(FileHandle(dirFile) /\ k = 1)
    BY <1>4 DEF FileHandle
  <2>2. IsDirectory(dirFile) /\ Scanned(k - 1) /\ k \in 1 .. dirFile.size + 1
    BY <1>2, <2>1 DEF AtSearch
  <2>3. DirectoryHandle(fat, dir, {}, NoCluster, dirFile)
    BY <1>2, <2>2 DEF IsDirectory
  <2>4. dirFile.size \in 0 .. N /\ dirFile.type \in {"dir", "root16", "root32"}
    BY <1>2, <2>3, DirectoryIs
  <2>5. k - 1 = dirFile.size /\ dirFile.size \in Nat
    BY <1>4, <2>2, <2>4, ClustersAreFinite
  <2>6. Scanned(dirFile.size)
    BY <2>2, <2>5
  <2>7. empty # NoSlot =>
          \E j \in 1 .. dirFile.size, i \in Index :
            /\ empty = <<Chain(fat, dirFile.first)[j], i>> /\ ~Live(Found(j, i))
            /\ \A jj \in 1 .. j, ii \in Index :
                 Before(jj, ii, j, i) => Found(jj, ii).kind # "free" /\ Found(jj, ii).name # call.name
    <3>1. SUFFICES ASSUME empty # NoSlot
          PROVE  \E j \in 1 .. dirFile.size, i \in Index :
            /\ empty = <<Chain(fat, dirFile.first)[j], i>> /\ ~Live(Found(j, i))
            /\ \A jj \in 1 .. j, ii \in Index :
                 Before(jj, ii, j, i) => Found(jj, ii).kind # "free" /\ Found(jj, ii).name # call.name
      OBVIOUS
    <3>2. PICK j \in 1 .. dirFile.size, i \in Index :
            empty = <<Chain(fat, dirFile.first)[j], i>> /\ Found(j, i).kind = "deleted"
      BY <1>2, <2>5, <3>1 DEF AtSearch
    <3>3. \A jj \in 1 .. j : jj \in 1 .. dirFile.size
      BY <2>5
    <3>4. /\ ~Live(Found(j, i))
          /\ \A jj \in 1 .. j, ii \in Index :
               Found(jj, ii).kind # "free" /\ Found(jj, ii).name # call.name
      BY <2>6, <3>2, <3>3 DEF Live, Scanned
    <3>5. QED
      BY <3>2, <3>4
  <2>8. \A j \in 1 .. dirFile.size, i \in Index : Live(Found(j, i)) => Found(j, i).name # call.name
    BY <2>6 DEF Scanned
  <2>9. CardOK'
    <3>1. UNCHANGED <<card, held>>
      BY <1>4 DEF storage
    <3>2. QED
      BY <1>2, <3>1, CardFlushes
  <2>10. empty \in Slot \cup {NoSlot} /\ ~FileHandle(dirFile)
    BY <1>2, <2>4 DEF TypeInv, FileHandle
  <2>11. QED
    BY <1>1, <1>4, <2>2, <2>6, <2>7, <2>8, <2>9, <2>10, NoEntryKeeps
<1>5. QED
  BY <1>3, <1>4 DEF SearchEnds

\* The directory is a file, the volume label has the name, or there is no free
\* cluster: the call fails.
LEMMA FailedCallKeeps ==
  ASSUME ~EmptyFiles, TInv, ~damaged, SearchFails \/ NoSpace
  PROVE  TInv'
<1>1. /\ pc \in {"search", "grow", "own"} /\ Return(FALSE) /\ UNCHANGED image
      /\ UNCHANGED <<card, held>> \/ ReadsHere
  BY DEF SearchFails, NoSpace, Searching, storage, image
<1>2. UNCHANGED image /\ Returns(FALSE, this) /\ damaged' = damaged
  BY <1>1 DEF Return
<1>3. TypeInv /\ Loose = {} /\ Unzeroed = NoCluster
  BY <1>1, Calm
<1>4. CardOK'
  <2>1. CASE UNCHANGED <<card, held>>
    BY <1>3, <2>1, CardFlushes
  <2>2. CASE ReadsHere
    BY <1>2, <1>3, <2>2, CardReads DEF ReadsHere
  <2>3. QED
    BY <1>1, <2>1, <2>2
<1>5. QED
  BY <1>2, <1>3, <1>4, Returned

-----------------------------------------------------------------------------
(* A new entry and, before it, a new cluster of the directory. *)

\* The types after a step, from those of its parts.
LEMMA TypesNext ==
  ASSUME CardOK', fat' \in FatType, dir' \in Contents, hand' \in [{"root", "h"} -> HandleType],
         this' \in HandleType, stack' \in Seq(FrameType), k' \in 1 .. N + 1,
         empty' \in Slot \cup {NoSlot}, pc' \in Steps
  PROVE  TypeInv'
BY DEF TypeInv, CardOK

\* After an entry of the FAT was changed its block is held.
LEMMA FatIsHeld ==
  ASSUME TypeInv, NEW f, PutsFat(f)
  PROVE  CardOK' /\ fat' = f
BY CardHolds DEF PutsFat

\* A tree in order is an image of the volume.
LEMMA TreeTypes ==
  ASSUME NEW f, NEW d, NEW L, NEW z, TreeOK(f, d, L, z)
  PROVE  f \in FatType /\ d \in Contents
BY DEF TreeOK, Sound, EntriesAreSound

\* addDirCluster, first half: the chain of the directory gets longer.
LEMMA GrowKeeps ==
  ASSUME TInv, ~damaged, NEW c \in Other, Grow(c)
  PROVE  TInv'
<1> DEFINE h == dirFile.first
           m == dirFile.size
<1>1. /\ pc = "grow" /\ fat[c] = Free /\ PutsFat(Appended(LastOf(dirFile), c))
      /\ hand' = (IF dirFile.first = NoCluster THEN [hand EXCEPT ![call.d].first = c] ELSE hand)
      /\ empty' = <<c, 1>> /\ pc' = "zero" /\ damaged' = damaged
      /\ dir' = dir /\ this' = this /\ k' = k /\ stack' = stack /\ call' = call
  BY DEF Grow
<1>2. /\ Tree0(fat, dir) /\ TreeOK(fat, dir, {}, NoCluster) /\ Loose = {} /\ Unzeroed = NoCluster
      /\ TypeInv /\ CallInv /\ AtGrow
  BY <1>1, Calm DEF PlaceInv
<1>3. DirectoryHandle(fat, dir, {}, NoCluster, dirFile) /\ Scanned(m) /\ this = Closed
  BY <1>2 DEF AtGrow, IsDirectory
<1>4. /\ h \in HeadsOf(dir, {}) /\ m = Counted(fat, NoCluster, h) /\ m \in 0 .. N
      /\ h # NoCluster => m = Len(Chain(fat, h)) /\ m >= 1
  BY <1>2, <1>3, DirectoryIs
<1>5. /\ h # NoCluster /\ m = Len(Chain(fat, h)) /\ m >= 1 /\ m \in Nat /\ h \in Cluster
      /\ Chain(fat, h) \in Seq(Cluster)
  BY <1>2, <1>4, HeadsAre, ClustersAreFinite
<1>6. hand' = hand /\ dirFile' = dirFile
  BY <1>1, <1>5 DEF dirFile
<1>7. CardOK' /\ fat' = AppendedTo(fat, Chain(fat, h)[Len(Chain(fat, h))], c)
  <2>1. Appended(LastOf(dirFile), c) = AppendedTo(fat, Chain(fat, h)[Len(Chain(fat, h))], c)
    BY <1>5 DEF Appended, LastOf, AppendedTo
  <2>2. QED
    BY <1>1, <1>2, <2>1, FatIsHeld
<1>8. /\ TreeOK(fat', dir, {}, h) /\ Stays(fat, dir, {}, NoCluster, fat', dir, {}, h, {})
      /\ Chain(fat', h) = Append(Chain(fat, h), c)
  BY <1>1, <1>2, <1>4, <1>7, TreeGrows
<1>9. Loose' = {} /\ Unzeroed' = h
  BY <1>1, <1>6, LooseIs DEF Unzeroed
<1> HIDE DEF h, m
<1>10. /\ Chain(fat', h)[m + 1] = c /\ \A j \in 1 .. m : Chain(fat', h)[j] = Chain(fat, h)[j]
  BY <1>5, <1>8 DEF Cluster
<1>11. \A j \in 1 .. m, i \in Index : Found(j, i)' = Found(j, i)
  BY <1>1, <1>6, <1>10 DEF Found, Of, h
<1>12. Scanned(dirFile.size)'
  BY <1>1, <1>3, <1>6, <1>11 DEF Scanned, m
<1>13. DirectoryHandle(fat', dir', Loose', Unzeroed', dirFile')
  <2>1. RootHandle(fat, NoCluster, dirFile) => RootHandle(fat', h, dirFile)
    BY <1>8, HandlesStay
  <2>2. DirHandle(fat, dir, {}, NoCluster, dirFile) => DirHandle(fat', dir, {}, h, dirFile)
    BY <1>8, HandlesStay
  <2>3. QED
    BY <1>1, <1>3, <1>6, <1>9, <2>1, <2>2 DEF DirectoryHandle
<1>14. AtZero'
  <2>1. AtGrow'
    BY <1>1, <1>3, <1>12, <1>13 DEF AtGrow, IsDirectory
  <2>2. dirFile'.size > 0 /\ empty' = <<Chain(fat', dirFile'.first)[dirFile'.size + 1], 1>>
    BY <1>1, <1>5, <1>6, <1>10 DEF h, m
  <2>3. QED
    BY <2>1, <2>2 DEF AtZero
<1>15. PlaceInv'
  BY <1>1, <1>14 DEF PlaceInv, Marked
<1>16. CallInv'
  BY <1>1, <1>2 DEF CallInv, Removing, Marked
<1>17. TypeInv'
  <2>1. fat' \in FatType /\ dir' \in Contents
    BY <1>1, <1>8, TreeTypes
  <2>2. c \in Cluster /\ 1 \in Index
    BY DirectoryAssumption DEF Cluster, Index
  <2>3. empty' \in Slot \cup {NoSlot}
    BY <1>1, <2>2 DEF Slot
  <2>4. /\ hand' \in [{"root", "h"} -> HandleType] /\ this' \in HandleType
        /\ stack' \in Seq(FrameType) /\ k' \in 1 .. N + 1 /\ pc' \in Steps
    BY <1>1, <1>2, <1>6 DEF TypeInv, Steps
  <2>5. QED
    BY <1>7, <2>1, <2>3, <2>4, TypesNext
<1>18. TreeOK(fat', dir', Loose', Unzeroed')
  BY <1>1, <1>8, <1>9
<1>19. Stays(fat, dir, Loose, Unzeroed, fat', dir', Loose', Unzeroed', {})
  BY <1>1, <1>2, <1>8, <1>9
<1>20. QED
  BY <1>1, <1>6, <1>15, <1>16, <1>17, <1>18, <1>19, Goes DEF Removing, Marked

\* cacheZeroBlock leaves the card an image of the volume.
LEMMA CardZeroes ==
  ASSUME TypeInv, NEW c \in Cluster, Zeroes(c)
  PROVE  CardOK' /\ dir' = Cleaned(dir, c)
BY StoredType DEF TypeInv, CardOK, Zeroes, Cleaned

\* What a call knows of the directory while its last cluster is not zeroed.
LEMMA UnzeroedDirectory ==
  ASSUME TInv, ~damaged, pc = "zero"
  PROVE  /\ TreeOK(fat, dir, {}, dirFile.first) /\ Loose = {} /\ Unzeroed = dirFile.first
         /\ TypeInv /\ HandInv /\ StackInv /\ CallInv /\ AtZero
         /\ dirFile.first \in HeadsOf(dir, {}) /\ dirFile.first # NoCluster
         /\ dirFile.size \in Nat /\ dirFile.size >= 1 /\ dirFile.size + 1 \in 1 .. N
         /\ dirFile.size = Counted(fat, dirFile.first, dirFile.first)
         /\ Len(Chain(fat, dirFile.first)) = dirFile.size + 1
<1>1. /\ Loose = {} /\ Unzeroed = dirFile.first
  BY LooseIs DEF Unzeroed
<1>2. TreeOK(fat, dir, {}, dirFile.first) /\ TypeInv /\ HandInv /\ StackInv /\ CallInv /\ AtZero
  BY <1>1 DEF TInv, TreeInv, PlaceInv
<1>3. DirectoryHandle(fat, dir, {}, dirFile.first, dirFile) /\ dirFile.size > 0
  BY <1>1, <1>2 DEF AtZero, AtGrow, IsDirectory
<1>4. /\ dirFile.first \in HeadsOf(dir, {}) /\ dirFile.size \in 0 .. N
      /\ dirFile.size = Counted(fat, dirFile.first, dirFile.first)
  BY <1>2, <1>3, DirectoryIs
<1>5. dirFile.first # NoCluster /\ Len(Chain(fat, dirFile.first)) \in 1 .. N
  BY <1>2, <1>4, HeadsAre
<1>6. dirFile.size = Len(Chain(fat, dirFile.first)) - 1
  BY <1>4 DEF Counted
<1>7. QED
  BY <1>1, <1>2, <1>3, <1>4, <1>5, <1>6, ClustersAreFinite

\* addDirCluster, second half: the new cluster is zeroed and counted.
LEMMA ZeroKeeps ==
  ASSUME TInv, ~damaged, Zero
  PROVE  TInv'
<1> DEFINE h == dirFile.first
           m == dirFile.size
           c == Chain(fat, h)[Len(Chain(fat, h))]
<1>1. /\ pc = "zero" /\ Zeroes(empty[1]) /\ hand' = [hand EXCEPT ![call.d].size = Grown]
      /\ pc' = "fill" /\ fat' = fat /\ this' = this /\ k' = k /\ empty' = empty /\ stack' = stack
      /\ call' = call /\ damaged' = damaged
  BY DEF Zero, locals
<1>2. /\ TreeOK(fat, dir, {}, h) /\ Loose = {} /\ Unzeroed = h
      /\ TypeInv /\ HandInv /\ StackInv /\ CallInv /\ AtZero
  BY <1>1, UnzeroedDirectory
<1>3. /\ h \in HeadsOf(dir, {}) /\ h # NoCluster /\ m \in Nat /\ m >= 1 /\ m + 1 \in 1 .. N
      /\ m = Counted(fat, h, h) /\ Len(Chain(fat, h)) = m + 1
  BY <1>1, UnzeroedDirectory
<1>4. /\ DirectoryHandle(fat, dir, {}, h, dirFile) /\ Scanned(m) /\ this = Closed
      /\ empty = <<Chain(fat, h)[m + 1], 1>> /\ empty[1] = c
  BY <1>2, <1>3 DEF AtZero, AtGrow, IsDirectory
<1>5. c \in Cluster /\ Chain(fat, h) \in Seq(Cluster)
  BY <1>2, <1>3, HeadsAre
<1>6. CardOK' /\ dir' = Cleaned(dir, c)
  BY <1>1, <1>2, <1>4, <1>5, CardZeroes
<1>7. /\ Tree0(fat, dir') /\ DirsOf(dir', {}) = DirsOf(dir, {}) /\ HeadsOf(dir', {}) = HeadsOf(dir, {})
      /\ \A s \in DirsOf(dir, {}) : At(dir', s) = At(dir, s)
      /\ dir'[c] = Zeroed
      /\ \A j \in 1 .. Counted(fat, h, h) : dir'[Chain(fat, h)[j]] = dir[Chain(fat, h)[j]]
  BY <1>2, <1>3, <1>6, TreeZeroes
<1>8. Loose' = {} /\ Unzeroed' = NoCluster
  BY <1>1, LooseIs
<1>9. Grown = m + 1
  BY DEF Grown
<1> HIDE DEF c
<1>10. hand \in [{"root", "h"} -> HandleType] /\ call.d \in {"root", "h"} /\ dirFile = hand[call.d]
  BY <1>2 DEF TypeInv, CallInv, dirFile
<1> DEFINE new == [dirFile EXCEPT !.size = m + 1]
<1>11. dirFile \in HandleType /\ new \in HandleType /\ new.type = dirFile.type /\ new.first = h
       /\ new.size = m + 1 /\ new.slot = dirFile.slot
  <2>1. dirFile \in HandleType
    BY <1>10
  <2>2. m + 1 \in 0 .. N
    BY <1>3
  <2> HIDE DEF m
  <2>3. QED
    BY <2>1, <2>2 DEF HandleType
<1>12. hand' = [hand EXCEPT ![call.d] = new]
  BY <1>1, <1>9, <1>10
<1> HIDE DEF new
<1>13. /\ hand' \in [{"root", "h"} -> HandleType] /\ hand'[call.d] = new
       /\ \A x \in {"root", "h"} : x # call.d => hand'[x] = hand[x]
  BY <1>10, <1>11, <1>12
<1>14. dirFile' = new
  BY <1>1, <1>13 DEF dirFile
<1>15. \A x \in HeadsOf(dir, {}) :
         /\ x # NoCluster /\ Counted(fat, NoCluster, x) = Len(Chain(fat, x))
         /\ x # h => Counted(fat, h, x) = Len(Chain(fat, x))
  <2>1. \A x \in HeadsOf(dir, {}) : x # NoCluster
    BY <1>2, HeadsAre
  <2>2. QED
    BY <2>1 DEF Counted
<1>16. IsRoot(hand["root"]) /\ (hand["h"] = Closed \/ FileHandle(hand["h"]) \/ IsDir(hand["h"]))
  BY <1>1, <1>2 DEF HandInv, Marked
<1>17. RootHandle(fat, h, hand["root"]) /\ (IsDir(hand["h"]) => DirHandle(fat, dir, {}, h, hand["h"]))
  BY <1>2, <1>16 DEF IsRoot, IsDir
<1>18. Root \in HeadsOf(dir, {}) /\ \A s \in DirsOf(dir, {}) : At(dir, s).first # Root
  <2>1. \A s \in DirsOf(dir, {}) : At(dir, s).first \in Other
    BY <1>2 DEF TreeOK, OwnersAreHeads, DirsOf
  <2>2. QED
    BY <2>1, RootHead, DirectoryAssumption
<1>19. /\ RootHandle(fat, NoCluster, hand'["root"])
       /\ hand'["h"] = Closed \/ FileHandle(hand'["h"]) \/ DirHandle(fat, dir', {}, NoCluster, hand'["h"])
       /\ DirectoryHandle(fat, dir', {}, NoCluster, new)
  <2>1. CASE call.d = "root"
    <3>1. hand'["root"] = new /\ hand'["h"] = hand["h"] /\ dirFile = hand["root"]
      BY <1>10, <1>13, <2>1
    <3>2. h = Root
      BY <1>17, <3>1 DEF RootHandle
    <3>3. RootHandle(fat, NoCluster, new)
      <4>1. Counted(fat, NoCluster, Root) = m + 1
        BY <1>3, <1>15, <1>18, <3>2
      <4>2. dirFile.type \in {"root16", "root32"} /\ dirFile.slot = NoSlot
        BY <1>17, <3>1 DEF RootHandle
      <4> HIDE DEF m, h
      <4>3. QED
        BY <1>11, <3>2, <4>1, <4>2 DEF RootHandle
    <3>4. DirHandle(fat, dir, {}, h, hand["h"]) => DirHandle(fat, dir', {}, NoCluster, hand["h"])
      <4>1. SUFFICES ASSUME DirHandle(fat, dir, {}, h, hand["h"])
            PROVE  DirHandle(fat, dir', {}, NoCluster, hand["h"])
        OBVIOUS
      <4>2. hand["h"].slot \in DirsOf(dir, {}) /\ At(dir, hand["h"].slot).first = hand["h"].first
        BY <4>1 DEF DirHandle
      <4>3. hand["h"].first \in HeadsOf(dir, {}) /\ hand["h"].first # h
        BY <1>18, <3>2, <4>2, DirHeads
      <4>4. Counted(fat, NoCluster, hand["h"].first) = Counted(fat, h, hand["h"].first)
        BY <1>15, <4>3
      <4>5. hand["h"].slot \in DirsOf(dir', {}) /\ At(dir', hand["h"].slot).first = hand["h"].first
        BY <1>7, <4>2
      <4>6. hand["h"].type = "dir" /\ hand["h"].size = Counted(fat, h, hand["h"].first)
        BY <4>1 DEF DirHandle
      <4>7. QED
        BY <4>4, <4>5, <4>6 DEF DirHandle
    <3>5. QED
      BY <1>16, <1>17, <3>1, <3>3, <3>4 DEF DirectoryHandle
  <2>2. CASE call.d = "h"
    <3>1. hand'["h"] = new /\ hand'["root"] = hand["root"] /\ dirFile = hand["h"]
      BY <1>10, <1>13, <2>2
    <3>2. dirFile.type \in {"dir", "root16", "root32"}
      BY <1>2, <1>4, DirectoryIs
    <3>3. DirHandle(fat, dir, {}, h, dirFile)
      BY <1>16, <1>17, <3>1, <3>2 DEF Closed, FileHandle
    <3>4. dirFile.slot \in DirsOf(dir, {}) /\ At(dir, dirFile.slot).first = h /\ h # Root
      BY <1>18, <3>3 DEF DirHandle
    <3>5. DirHandle(fat, dir', {}, NoCluster, new)
      <4>1. new.type = "dir" /\ new.slot \in DirsOf(dir', {}) /\ At(dir', new.slot).first = new.first
        BY <1>7, <1>11, <3>3, <3>4 DEF DirHandle
      <4>2. Counted(fat, NoCluster, new.first) = new.size
        BY <1>3, <1>11, <1>15
      <4>3. QED
        BY <4>1, <4>2 DEF DirHandle
    <3>6. RootHandle(fat, NoCluster, hand["root"])
      <4>1. Counted(fat, NoCluster, Root) = Counted(fat, h, Root)
        BY <1>15, <1>18, <3>4
      <4>2. QED
        BY <1>17, <4>1 DEF RootHandle
    <3>7. QED
      BY <3>1, <3>5, <3>6 DEF DirectoryHandle
  <2>3. QED
    BY <1>10, <2>1, <2>2
<1>20. HandInv'
  BY <1>1, <1>8, <1>19 DEF HandInv, IsRoot, IsDir
<1>21. StackInv'
  <2>1. stack = << >>
    BY <1>1, <1>2 DEF StackInv, Removing, Marked
  <2>2. QED
    BY <1>1, <2>1 DEF StackInv
<1>22. CallInv'
  BY <1>1, <1>2 DEF CallInv, Removing, Marked
<1>23. Chain(fat, h)[m + 1] = c /\ \A j \in 1 .. m : dir'[Chain(fat, h)[j]] = dir[Chain(fat, h)[j]]
  BY <1>3, <1>7 DEF c
<1>24. PICK n \in Nat : n = m + 1
  BY <1>3
<1>25. /\ \A j \in 1 .. m, i \in Index : Found(j, i)' = Found(j, i)
       /\ \A i \in Index : ~Live(Found(n, i)')
  <2>1. \A j \in 1 .. m, i \in Index : Found(j, i)' = Found(j, i)
    BY <1>1, <1>11, <1>14, <1>23 DEF Found, Of
  <2>2. \A i \in Index : Found(n, i)' = Zeroed[i]
    BY <1>1, <1>7, <1>11, <1>14, <1>23, <1>24 DEF Found, Of
  <2>3. QED
    BY <2>1, <2>2, ZeroedIs
<1>26. AtFill'
  <2>1. IsDirectory(dirFile)'
    BY <1>1, <1>8, <1>14, <1>19 DEF IsDirectory
  <2>2. dirFile'.size = n /\ dirFile'.first = h
    BY <1>11, <1>14, <1>24
  <2>3. \A j \in 1 .. n, i \in Index : j # n => j \in 1 .. m
    BY <1>3, <1>24
  <2>4. \A j \in 1 .. n, i \in Index : Live(Found(j, i)') => Found(j, i)'.name # call'.name
    BY <1>1, <1>4, <1>25, <2>3 DEF Scanned
  <2>5. 1 \in Index /\ n \in 1 .. n /\ \A i \in Index : ~ (i < 1)
    BY <1>3, <1>24, DirectoryAssumption DEF Index
  <2>6. \A jj \in 1 .. n, ii \in Index :
          Before(jj, ii, n, 1) => Found(jj, ii)'.kind # "free" /\ Found(jj, ii)'.name # call'.name
    <3>1. SUFFICES ASSUME NEW jj \in 1 .. n, NEW ii \in Index, Before(jj, ii, n, 1)
          PROVE  Found(jj, ii)'.kind # "free" /\ Found(jj, ii)'.name # call'.name
      OBVIOUS
    <3>2. jj # n
      BY <2>5, <3>1 DEF Before
    <3>3. QED
      BY <1>1, <1>4, <1>25, <2>3, <3>2 DEF Scanned
  <2>7. empty' = <<Chain(fat', dirFile'.first)[n], 1>> /\ ~Live(Found(n, 1)')
    BY <1>1, <1>4, <1>24, <1>25, <2>2, <2>5
  <2>8. this' = Closed
    BY <1>1, <1>4
  <2>9. QED
    BY <2>1, <2>2, <2>4, <2>5, <2>6, <2>7, <2>8 DEF AtFill
<1>27. PlaceInv'
  BY <1>1, <1>26 DEF PlaceInv, Marked
<1>28. TypeInv'
  <2>1. fat' \in FatType /\ dir' \in Contents
    BY <1>1, <1>7, TreeTypes DEF Tree0
  <2>2. this' \in HandleType /\ stack' \in Seq(FrameType) /\ k' \in 1 .. N + 1 /\ pc' \in Steps
        /\ empty' \in Slot \cup {NoSlot}
    BY <1>1, <1>2 DEF TypeInv, Steps
  <2>3. QED
    BY <1>6, <1>13, <2>1, <2>2, TypesNext
<1>29. TreeOK(fat', dir', Loose', Unzeroed')
  BY <1>1, <1>7, <1>8 DEF Tree0
<1>30. QED
  BY <1>1, <1>20, <1>21, <1>22, <1>27, <1>28, <1>29 DEF TInv, TreeInv

-----------------------------------------------------------------------------
(* The new entry, and what makeDir makes of it. *)

\* An entry rewritten in its slot, in the cache.
LEMMA SlotPut ==
  ASSUME TypeInv, NEW s \in Slot, NEW e, Puts(s, e)
  PROVE  CardOK' /\ dir' = PutIn(dir, s, e)
<1>1. s[1] \in Cluster \cup {FatBlock}
  BY DEF Slot
<1>2. QED
  BY <1>1, CardHolds DEF Puts, PutIn

\* The types after a step that rewrites blocks and changes this and pc at most.
LEMMA TypesOfStep ==
  ASSUME TypeInv, CardOK', fat' \in FatType, dir' \in Contents, hand' = hand,
         this' \in HandleType, k' = k, empty' = empty, stack' = stack, pc' \in Steps
  PROVE  TypeInv'
BY TypesNext DEF TypeInv

\* open fills the slot it found with the new entry.
LEMMA FillKeeps ==
  ASSUME TInv, ~damaged, Fill
  PROVE  TInv'
<1> DEFINE h == dirFile.first
<1>1. /\ pc = "fill" /\ Puts(empty, Entry("file", call.name, NoCluster, 0)) /\ pc' = "fillFlush"
      /\ fat' = fat /\ this' = this /\ k' = k /\ empty' = empty /\ stack' = stack
      /\ hand' = hand /\ call' = call /\ damaged' = damaged
  BY DEF Fill, locals, goesOn
<1>2. /\ Tree0(fat, dir) /\ TreeOK(fat, dir, {}, NoCluster) /\ Loose = {} /\ Unzeroed = NoCluster
      /\ TypeInv /\ CallInv /\ AtFill /\ Loose' = {} /\ Unzeroed' = NoCluster
  BY <1>1, Calm, LooseIs DEF PlaceInv
<1>3. DirectoryHandle(fat, dir, {}, NoCluster, dirFile) /\ this = Closed /\ call.name \in Name
  BY <1>1, <1>2 DEF AtFill, IsDirectory, CallInv
<1>4. /\ h \in HeadsOf(dir, {}) /\ h # NoCluster /\ dirFile.size = Len(Chain(fat, h))
  <2>1. h \in HeadsOf(dir, {})
    BY <1>2, <1>3, DirectoryIs
  <2>2. h # NoCluster
    BY <1>2, <2>1, HeadsAre
  <2>3. QED
    BY <1>2, <1>3, <2>1, <2>2, DirectoryIs
<1>5. PICK j \in 1 .. Len(Chain(fat, h)), i \in Index :
        /\ empty = <<Chain(fat, h)[j], i>> /\ ~Live(Of(fat, dir, h, j, i))
        /\ \A jj \in 1 .. j, ii \in Index :
             Before(jj, ii, j, i) =>
               Of(fat, dir, h, jj, ii).kind # "free" /\ Of(fat, dir, h, jj, ii).name # call.name
  BY <1>2, <1>4 DEF AtFill, Found
<1>6. \A jj \in 1 .. Len(Chain(fat, h)), ii \in Index :
        Live(Of(fat, dir, h, jj, ii)) => Of(fat, dir, h, jj, ii).name # call.name
  BY <1>2, <1>4 DEF AtFill, Found
<1>7. empty \in Slot
  <2>1. Chain(fat, h)[j] \in Cluster
    BY <1>2, <1>4, HeadsAre
  <2>2. QED
    BY <1>5, <2>1 DEF Slot
<1>8. CardOK' /\ dir' = PutIn(dir, empty, Entry("file", call.name, NoCluster, 0))
  BY <1>1, <1>2, <1>7, SlotPut
<1> HIDE DEF h
<1>9. /\ Tree0(fat, dir') /\ Stays(fat, dir, {}, NoCluster, fat, dir', {}, NoCluster, {})
      /\ empty[1] \in Space(fat, dir', {}, NoCluster)
      /\ At(dir', empty) = Entry("file", call.name, NoCluster, 0)
  <2>1. PICK n \in Name : n = call.name
    BY <1>3
  <2>2. /\ \A jj \in 1 .. j, ii \in Index :
             Before(jj, ii, j, i) => Of(fat, dir, h, jj, ii).kind # "free" /\ Of(fat, dir, h, jj, ii).name # n
        /\ \A jj \in 1 .. Len(Chain(fat, h)), ii \in Index :
             Live(Of(fat, dir, h, jj, ii)) => Of(fat, dir, h, jj, ii).name # n
    BY <1>5, <1>6, <2>1
  <2>3. Tree0(fat, dir) /\ h \in HeadsOf(dir, {}) /\ ~Live(Of(fat, dir, h, j, i))
    BY <1>2, <1>4, <1>5
  <2>4. empty = <<Chain(fat, h)[j], i>> /\ dir' = PutIn(dir, empty, Entry("file", n, NoCluster, 0))
    BY <1>5, <1>8, <2>1
  <2>5. QED
    BY <2>1, <2>2, <2>3, <2>4, TreeFills
<1>10. AtFillFlush'
  BY <1>1, <1>2, <1>3, <1>7, <1>9 DEF AtFillFlush, InDirectory, NewEntry
<1>11. PlaceInv'
  BY <1>1, <1>10 DEF PlaceInv, Marked
<1>12. CallInv'
  BY <1>1, <1>2 DEF CallInv, Removing, Marked
<1>13. TreeOK(fat', dir', Loose', Unzeroed')
  BY <1>1, <1>2, <1>9 DEF Tree0
<1>14. Stays(fat, dir, Loose, Unzeroed, fat', dir', Loose', Unzeroed', {})
  BY <1>1, <1>2, <1>9
<1>15. TypeInv'
  <2>1. fat' \in FatType /\ dir' \in Contents
    BY <1>13, TreeTypes
  <2>2. this' \in HandleType /\ pc' \in Steps
    BY <1>1, <1>2 DEF TypeInv, Steps
  <2>3. QED
    BY <1>1, <1>2, <1>8, <2>1, <2>2, TypesOfStep
<1>16. QED
  BY <1>1, <1>11, <1>12, <1>13, <1>14, <1>15, Goes DEF Removing, Marked

\* open syncs the new entry; makeDir goes on with it.
LEMMA FillFlushKeeps ==
  ASSUME ~EmptyFiles, TInv, ~damaged, FillFlush
  PROVE  TInv'
<1>1. /\ pc = "fillFlush" /\ Flushes /\ UNCHANGED image /\ fat' = fat /\ dir' = dir
      /\ IF call.op = "mkdir"
           THEN /\ this' = Opened(empty) /\ pc' = "own" /\ k' = k /\ empty' = empty /\ stack' = stack
                /\ hand' = hand /\ call' = call /\ damaged' = damaged
           ELSE Returns(TRUE, this) /\ damaged' = damaged
  BY DEF FillFlush, goesOn, image, Return
<1>2. /\ Tree0(fat, dir) /\ Loose = {} /\ Unzeroed = NoCluster /\ TypeInv /\ CallInv /\ AtFillFlush
  BY <1>1, Calm DEF PlaceInv
<1>3. CardOK'
  BY <1>1, <1>2, CardFlushes
<1>4. CASE call.op # "mkdir"
  <2>1. this.type # "dir" /\ ~(this.size > 0)
    BY <1>2 DEF AtFillFlush, Closed
  <2>2. QED
    BY <1>1, <1>2, <1>3, <1>4, <2>1, Returned
<1>5. CASE call.op = "mkdir"
  <2>1. /\ empty \in Slot /\ empty[1] \in Space(fat, dir, {}, NoCluster)
        /\ At(dir, empty) = Entry("file", call.name, NoCluster, 0) /\ call.name \in Name
    BY <1>1, <1>2 DEF AtFillFlush, InDirectory, NewEntry, CallInv
  <2>2. Opened(empty) = [type |-> "file", first |-> NoCluster, slot |-> empty, size |-> 0]
    BY <2>1 DEF Opened, EntryAt, View, At, Entry
  <2>3. this' \in HandleType
    BY <1>1, <1>5, <2>1, <2>2, ClustersAreFinite DEF HandleType
  <2>4. this'.slot = empty /\ this' = [type |-> "file", first |-> NoCluster, size |-> 0, slot |-> this'.slot]
    BY <1>1, <1>5, <2>2
  <2>5. Loose' = {} /\ Unzeroed' = NoCluster
    BY <1>1, <1>5, LooseIs
  <2>6. AtOwn'
    BY <1>1, <1>5, <2>1, <2>4, <2>5 DEF AtOwn, InDirectory, NewEntry
  <2>7. PlaceInv'
    BY <1>1, <1>5, <2>6 DEF PlaceInv, Marked
  <2>8. CallInv'
    BY <1>1, <1>2, <1>5 DEF CallInv, Removing, Marked
  <2>9. TypeInv'
    <3>1. fat' \in FatType /\ dir' \in Contents
      BY <1>1, <1>2 DEF TypeInv
    <3>2. pc' \in Steps
      BY <1>1, <1>5 DEF Steps
    <3>3. QED
      BY <1>1, <1>2, <1>3, <1>5, <2>3, <3>1, <3>2, TypesOfStep
  <2>10. QED
    BY <1>1, <1>5, <2>5, <2>7, <2>8, <2>9, QuietGoes DEF Removing, Marked
<1>6. QED
  BY <1>4, <1>5

\* The entry of the call's handle.
LEMMA ThisEntryIs == thisEntry = At(dir, this.slot)
BY DEF thisEntry, EntryAt, View, At

\* A handle with another first cluster or size is a handle.
LEMMA HandleChanged ==
  ASSUME NEW x \in HandleType, NEW c \in Cluster \cup {NoCluster}, NEW n \in 0 .. N
  PROVE  /\ [x EXCEPT !.type = "dir", !.first = c] \in HandleType
         /\ [x EXCEPT !.type = "dir", !.first = c].first = c
         /\ [x EXCEPT !.type = "dir", !.first = c].slot = x.slot
         /\ [x EXCEPT !.size = n] \in HandleType
         /\ [x EXCEPT !.size = n].first = x.first
         /\ [x EXCEPT !.size = n].slot = x.slot
         /\ [x EXCEPT !.type = "file"] \in HandleType
         /\ [x EXCEPT !.type = "file"].first = x.first
         /\ [x EXCEPT !.type = "file"].slot = x.slot
<1> DEFINE y == [x EXCEPT !.type = "dir"]
<1>1. y \in HandleType /\ y.slot = x.slot
  BY DEF HandleType
<1>3. [x EXCEPT !.type = "dir", !.first = c] = [y EXCEPT !.first = c]
  BY DEF HandleType
<1>5. /\ [x EXCEPT !.size = n] \in HandleType /\ [x EXCEPT !.size = n].first = x.first
      /\ [x EXCEPT !.size = n].slot = x.slot
  BY DEF HandleType
<1>6. /\ [x EXCEPT !.type = "file"] \in HandleType /\ [x EXCEPT !.type = "file"].first = x.first
      /\ [x EXCEPT !.type = "file"].slot = x.slot
  BY DEF HandleType
<1> HIDE DEF y
<1>7. /\ [y EXCEPT !.first = c] \in HandleType /\ [y EXCEPT !.first = c].first = c
      /\ [y EXCEPT !.first = c].slot = x.slot
  BY <1>1 DEF HandleType
<1>8. QED
  BY <1>3, <1>5, <1>6, <1>7

\* makeDir allocates the first cluster of the new directory.
LEMMA OwnKeeps ==
  ASSUME TInv, ~damaged, NEW c \in Other, Own(c)
  PROVE  TInv'
<1>1. /\ pc = "own" /\ fat[c] = Free /\ PutsFat(Appended(NoCluster, c)) /\ pc' = "ownZero"
      /\ this' = [this EXCEPT !.type = "dir", !.first = c]
      /\ dir' = dir /\ k' = k /\ empty' = empty /\ stack' = stack
      /\ hand' = hand /\ call' = call /\ damaged' = damaged
  BY DEF Own, goesOn
<1>2. /\ Tree0(fat, dir) /\ Loose = {} /\ Unzeroed = NoCluster
      /\ TypeInv /\ CallInv /\ AtOwn /\ Loose' = {} /\ Unzeroed' = NoCluster
  BY <1>1, Calm, LooseIs DEF PlaceInv
<1>3. CardOK' /\ fat' = AppendedTo(fat, NoCluster, c)
  <2>1. Appended(NoCluster, c) = AppendedTo(fat, NoCluster, c)
    BY DEF Appended, AppendedTo
  <2>2. QED
    BY <1>1, <1>2, <2>1, FatIsHeld
<1>4. /\ Tree0(fat', dir) /\ Stays(fat, dir, {}, NoCluster, fat', dir, {}, NoCluster, {})
      /\ Begins(fat', c) /\ fat'[c] = EOC
      /\ \A s \in OwnersOf(dir, {}) : At(dir, s).first # c
      /\ Space(fat, dir, {}, NoCluster) \subseteq Space(fat', dir, {}, NoCluster)
  BY <1>1, <1>2, <1>3, TreeGetsChain
<1>5. /\ this.slot \in Slot /\ this.slot[1] \in Space(fat, dir, {}, NoCluster)
      /\ At(dir, this.slot) = NewEntry(NoCluster)
  BY <1>2 DEF AtOwn, InDirectory
<1>6. this' \in HandleType /\ this'.first = c /\ this'.slot = this.slot
  <2>1. this \in HandleType /\ c \in Cluster \cup {NoCluster} /\ 0 \in 0 .. N
    BY <1>2, ClustersAreFinite DEF TypeInv, Cluster
  <2>2. QED
    BY <1>1, <2>1, HandleChanged
<1>7. AtOwnZero'
  <2>1. At(dir', this'.slot) = NewEntry(NoCluster)'
    BY <1>1, <1>5, <1>6 DEF NewEntry
  <2>2. InDirectory(this.slot)'
    BY <1>1, <1>2, <1>4, <1>5, <1>6 DEF InDirectory
  <2>3. NewHead(this.first)' /\ OwnerOfNone(this.first)'
    BY <1>1, <1>2, <1>4, <1>6 DEF NewHead, OwnerOfNone
  <2>4. QED
    BY <2>1, <2>2, <2>3 DEF AtOwnZero
<1>8. PlaceInv'
  BY <1>1, <1>7 DEF PlaceInv, Marked
<1>9. CallInv'
  BY <1>1, <1>2 DEF CallInv, Removing, Marked
<1>10. TreeOK(fat', dir', Loose', Unzeroed')
  BY <1>1, <1>2, <1>4 DEF Tree0
<1>11. Stays(fat, dir, Loose, Unzeroed, fat', dir', Loose', Unzeroed', {})
  BY <1>1, <1>2, <1>4
<1>12. TypeInv'
  <2>1. fat' \in FatType /\ dir' \in Contents
    BY <1>10, TreeTypes
  <2>2. pc' \in Steps
    BY <1>1 DEF Steps
  <2>3. QED
    BY <1>1, <1>2, <1>3, <1>6, <2>1, <2>2, TypesOfStep
<1>13. QED
  BY <1>1, <1>8, <1>9, <1>10, <1>11, <1>12, Goes DEF Removing, Marked

\* makeDir zeroes it.
LEMMA OwnZeroKeeps ==
  ASSUME TInv, ~damaged, OwnZero
  PROVE  TInv'
<1> DEFINE c == this.first
<1>1. /\ pc = "ownZero" /\ Zeroes(this.first) /\ this' = [this EXCEPT !.size = 1] /\ pc' = "ownSync"
      /\ fat' = fat /\ k' = k /\ empty' = empty /\ stack' = stack
      /\ hand' = hand /\ call' = call /\ damaged' = damaged
  BY DEF OwnZero, goesOn
<1>2. /\ Tree0(fat, dir) /\ Loose = {} /\ Unzeroed = NoCluster
      /\ TypeInv /\ CallInv /\ AtOwnZero /\ Loose' = {} /\ Unzeroed' = NoCluster
  BY <1>1, Calm, LooseIs DEF PlaceInv
<1>3. /\ this.slot \in Slot /\ this.slot[1] \in Space(fat, dir, {}, NoCluster)
      /\ At(dir, this.slot) = NewEntry(NoCluster)
      /\ c \in Other /\ c \in Cluster /\ Begins(fat, c) /\ fat[c] = EOC
      /\ \A s \in OwnersOf(dir, {}) : At(dir, s).first # c
  BY <1>2 DEF AtOwnZero, InDirectory, NewHead, OwnerOfNone, Cluster
<1>4. CardOK' /\ dir' = Cleaned(dir, c)
  BY <1>1, <1>2, <1>3, CardZeroes
<1>5. this' \in HandleType /\ this'.first = c /\ this'.slot = this.slot
  <2>1. this \in HandleType /\ 1 \in 0 .. N /\ NoCluster \in Cluster \cup {NoCluster}
    BY <1>2, ClustersAreFinite DEF TypeInv
  <2>2. QED
    BY <1>1, <2>1, HandleChanged
<1> HIDE DEF c
<1>6. /\ Tree0(fat, dir') /\ Stays(fat, dir, {}, NoCluster, fat, dir', {}, NoCluster, {})
      /\ OwnersOf(dir', {}) = OwnersOf(dir, {}) /\ dir'[c] = Zeroed
      /\ \A s \in OwnersOf(dir, {}) : At(dir', s) = At(dir, s)
      /\ \A s \in Slot : s[1] \in Space(fat, dir, {}, NoCluster) => At(dir', s) = At(dir, s)
      /\ Space(fat, dir, {}, NoCluster) \subseteq Space(fat, dir', {}, NoCluster)
  BY <1>2, <1>3, <1>4, TreeZeroesNew
<1>7. AtOwnSync'
  <2>1. At(dir', this'.slot) = NewEntry(NoCluster)'
    BY <1>1, <1>3, <1>5, <1>6 DEF NewEntry
  <2>2. InDirectory(this.slot)'
    BY <1>1, <1>2, <1>3, <1>5, <1>6 DEF InDirectory
  <2>3. NewHead(this.first)' /\ OwnerOfNone(this.first)'
    BY <1>1, <1>2, <1>3, <1>5, <1>6 DEF NewHead, OwnerOfNone
  <2>4. dir'[this'.first] = Zeroed
    BY <1>5, <1>6
  <2>5. QED
    BY <2>1, <2>2, <2>3, <2>4 DEF AtOwnZero, AtOwnSync
<1>8. PlaceInv'
  BY <1>1, <1>7 DEF PlaceInv, Marked
<1>9. CallInv'
  BY <1>1, <1>2 DEF CallInv, Removing, Marked
<1>10. TreeOK(fat', dir', Loose', Unzeroed')
  BY <1>1, <1>2, <1>6 DEF Tree0
<1>11. Stays(fat, dir, Loose, Unzeroed, fat', dir', Loose', Unzeroed', {})
  BY <1>1, <1>2, <1>6
<1>12. TypeInv'
  <2>1. fat' \in FatType /\ dir' \in Contents
    BY <1>10, TreeTypes
  <2>2. pc' \in Steps
    BY <1>1 DEF Steps
  <2>3. QED
    BY <1>1, <1>2, <1>4, <1>5, <2>1, <2>2, TypesOfStep
<1>13. QED
  BY <1>1, <1>8, <1>9, <1>10, <1>11, <1>12, Goes DEF Removing, Marked

-----------------------------------------------------------------------------
(* makeDir: the entry gets the cluster and the attribute. *)

\* What a step is that rewrites the entry of the call's handle.
LEMMA RewrittenIs ==
  ASSUME TypeInv, this.slot \in Slot, NEW e, NEW next, Rewrites(e, next)
  PROVE  /\ CardOK' /\ dir' = PutIn(dir, this.slot, e) /\ pc' = next /\ fat' = fat
         /\ this' = this /\ k' = k /\ empty' = empty /\ stack' = stack
         /\ hand' = hand /\ call' = call /\ damaged' = damaged
<1>1. Puts(this.slot, e)
  BY DEF Rewrites
<1>2. QED
  BY <1>1, SlotPut DEF Rewrites, locals, goesOn

\* makeDir stores the first cluster in the entry, which is still a file's.
LEMMA OwnSyncKeeps ==
  ASSUME TInv, ~damaged, OwnSync
  PROVE  TInv'
<1> DEFINE c == this.first
           s == this.slot
           n == call.name
<1>1. pc = "ownSync" /\ Rewrites([thisEntry EXCEPT !.first = this.first], "ownFlush")
  BY DEF OwnSync
<1>2. /\ Tree0(fat, dir) /\ Loose = {} /\ Unzeroed = NoCluster
      /\ TypeInv /\ CallInv /\ AtOwnSync
  BY <1>1, Calm DEF PlaceInv
<1>3. /\ s \in Slot /\ s[1] \in Space(fat, dir, {}, NoCluster)
      /\ At(dir, s) = Entry("file", n, NoCluster, 0) /\ n \in Name
      /\ c \in Other /\ c \in Cluster /\ Begins(fat, c) /\ fat[c] = EOC
      /\ (\A t \in OwnersOf(dir, {}) : At(dir, t).first # c) /\ dir[c] = Zeroed
  BY <1>1, <1>2 DEF AtOwnSync, AtOwnZero, InDirectory, NewHead, OwnerOfNone, Cluster, NewEntry, CallInv
<1>4. [thisEntry EXCEPT !.first = this.first] = Entry("file", n, c, 0)
  BY <1>3, ThisEntryIs DEF Entry
<1>5. /\ CardOK' /\ dir' = PutIn(dir, s, Entry("file", n, c, 0)) /\ pc' = "ownFlush" /\ fat' = fat
      /\ this' = this /\ k' = k /\ empty' = empty /\ stack' = stack
      /\ hand' = hand /\ call' = call /\ damaged' = damaged
  BY <1>1, <1>2, <1>3, <1>4, RewrittenIs
<1>6. Loose' = {} /\ Unzeroed' = NoCluster
  BY <1>5, LooseIs
<1> HIDE DEF c, s, n
<1>7. /\ Tree0(fat, dir') /\ Stays(fat, dir, {}, NoCluster, fat, dir', {}, NoCluster, {})
      /\ Space(fat, dir', {}, NoCluster) = Space(fat, dir, {}, NoCluster)
      /\ At(dir', s) = Entry("file", n, c, 0)
      /\ \A x \in Cluster : x # s[1] => dir'[x] = dir[x]
  BY <1>2, <1>3, <1>5, TreeNamesCluster
<1>8. c # s[1]
  <2>1. At(dir, s) # Unnamed("free")
    BY <1>3 DEF Entry, Unnamed
  <2>2. s[1] = c => At(dir, s) = Unnamed("free")
    BY <1>3, ZeroedIs DEF At, Slot
  <2>3. QED
    BY <2>1, <2>2
<1>9. AtOwnFlush'
  <2>1. At(dir', this'.slot) = NewEntry(this.first)'
    BY <1>5, <1>7 DEF NewEntry, c, s, n
  <2>2. InDirectory(this.slot)'
    BY <1>3, <1>5, <1>6, <1>7 DEF InDirectory, s
  <2>3. NewHead(this.first)'
    BY <1>3, <1>5 DEF NewHead, c
  <2>4. dir'[this'.first] = Zeroed
    BY <1>3, <1>5, <1>7, <1>8 DEF c
  <2>5. QED
    BY <2>1, <2>2, <2>3, <2>4 DEF AtOwnFlush
<1>10. PlaceInv'
  BY <1>5, <1>9 DEF PlaceInv, Marked
<1>11. CallInv'
  BY <1>1, <1>2, <1>5 DEF CallInv, Removing, Marked
<1>12. TreeOK(fat', dir', Loose', Unzeroed')
  BY <1>5, <1>6, <1>7 DEF Tree0
<1>13. Stays(fat, dir, Loose, Unzeroed, fat', dir', Loose', Unzeroed', {})
  BY <1>2, <1>5, <1>6, <1>7
<1>14. TypeInv'
  <2>1. fat' \in FatType /\ dir' \in Contents
    BY <1>12, TreeTypes
  <2>2. this' \in HandleType /\ pc' \in Steps
    BY <1>2, <1>5 DEF TypeInv, Steps
  <2>3. QED
    BY <1>2, <1>5, <2>1, <2>2, TypesOfStep
<1>15. QED
  BY <1>1, <1>5, <1>10, <1>11, <1>12, <1>13, <1>14, Goes DEF Removing, Marked

\* What a step is that only flushes.
LEMMA FlushedIs ==
  ASSUME TypeInv, NEW next, FlushesTo(next)
  PROVE  /\ CardOK' /\ UNCHANGED image /\ fat' = fat /\ dir' = dir /\ pc' = next
         /\ this' = this /\ k' = k /\ empty' = empty /\ stack' = stack
         /\ hand' = hand /\ call' = call /\ damaged' = damaged
BY CardFlushes DEF FlushesTo, image, locals, goesOn

\* makeDir flushes the entry.
LEMMA OwnFlushKeeps ==
  ASSUME TInv, ~damaged, OwnFlush
  PROVE  TInv'
<1>1. pc = "ownFlush" /\ FlushesTo("attribute")
  BY DEF OwnFlush
<1>2. /\ Loose = {} /\ Unzeroed = NoCluster /\ TypeInv /\ CallInv /\ AtOwnFlush
  BY <1>1, Calm DEF PlaceInv
<1>3. /\ CardOK' /\ UNCHANGED image /\ fat' = fat /\ dir' = dir /\ pc' = "attribute"
      /\ this' = this /\ k' = k /\ empty' = empty /\ stack' = stack
      /\ hand' = hand /\ call' = call /\ damaged' = damaged
  BY <1>1, <1>2, FlushedIs
<1>4. Loose' = {} /\ Unzeroed' = NoCluster
  BY <1>3, LooseIs
<1>5. AtOwnFlush'
  <2>1. AtOwnFlush' <=> AtOwnFlush
    BY <1>2, <1>3, <1>4 DEF AtOwnFlush, InDirectory, NewEntry, NewHead
  <2>2. QED
    BY <1>2, <2>1
<1>6. PlaceInv'
  BY <1>3, <1>5 DEF PlaceInv, Marked
<1>7. CallInv'
  BY <1>1, <1>2, <1>3 DEF CallInv, Removing, Marked
<1>8. TypeInv'
  <2>1. fat' \in FatType /\ dir' \in Contents /\ this' \in HandleType /\ pc' \in Steps
    BY <1>2, <1>3 DEF TypeInv, Steps
  <2>2. QED
    BY <1>2, <1>3, <2>1, TypesOfStep
<1>9. QED
  BY <1>1, <1>3, <1>4, <1>6, <1>7, <1>8, QuietGoes DEF Removing, Marked

\* makeDir makes the entry that of a directory, whose chain is empty then.
LEMMA AttributeKeeps ==
  ASSUME TInv, ~damaged, Attribute
  PROVE  TInv'
<1> DEFINE c == this.first
           s == this.slot
           n == call.name
<1>1. pc = "attribute" /\ Rewrites([thisEntry EXCEPT !.kind = "dir"], "dots")
  BY DEF Attribute
<1>2. /\ Tree0(fat, dir) /\ Loose = {} /\ Unzeroed = NoCluster
      /\ TypeInv /\ CallInv /\ AtOwnFlush
  BY <1>1, Calm DEF PlaceInv
<1>3. /\ s \in Slot /\ At(dir, s) = Entry("file", n, c, 0) /\ n \in Name
      /\ c \in Other /\ Begins(fat, c) /\ fat[c] = EOC /\ dir[c] = Zeroed
  BY <1>1, <1>2 DEF AtOwnFlush, InDirectory, NewHead, NewEntry, CallInv
<1>4. [thisEntry EXCEPT !.kind = "dir"] = Entry("dir", n, c, 0)
  BY <1>3, ThisEntryIs DEF Entry
<1>5. /\ CardOK' /\ dir' = PutIn(dir, s, Entry("dir", n, c, 0)) /\ pc' = "dots" /\ fat' = fat
      /\ this' = this /\ k' = k /\ empty' = empty /\ stack' = stack
      /\ hand' = hand /\ call' = call /\ damaged' = damaged
  BY <1>1, <1>2, <1>3, <1>4, RewrittenIs
<1>6. Loose' = {} /\ Unzeroed' = NoCluster
  BY <1>5, LooseIs
<1> HIDE DEF c, s, n
<1>7. /\ Tree0(fat, dir') /\ Stays(fat, dir, {}, NoCluster, fat, dir', {}, NoCluster, {})
      /\ c \in HeadsOf(dir', {}) /\ dir'[c] = Zeroed
  BY <1>2, <1>3, <1>5, TreeGetsDir
<1>8. AtDots'
  BY <1>3, <1>5, <1>6, <1>7 DEF AtDots, NewHead, c
<1>9. PlaceInv'
  BY <1>5, <1>8 DEF PlaceInv, Marked
<1>10. CallInv'
  BY <1>1, <1>2, <1>5 DEF CallInv, Removing, Marked
<1>11. TreeOK(fat', dir', Loose', Unzeroed')
  BY <1>5, <1>6, <1>7 DEF Tree0
<1>12. Stays(fat, dir, Loose, Unzeroed, fat', dir', Loose', Unzeroed', {})
  BY <1>2, <1>5, <1>6, <1>7
<1>13. TypeInv'
  <2>1. fat' \in FatType /\ dir' \in Contents
    BY <1>11, TreeTypes
  <2>2. this' \in HandleType /\ pc' \in Steps
    BY <1>2, <1>5 DEF TypeInv, Steps
  <2>3. QED
    BY <1>2, <1>5, <2>1, <2>2, TypesOfStep
<1>14. QED
  BY <1>1, <1>5, <1>9, <1>10, <1>11, <1>12, <1>13, Goes DEF Removing, Marked

\* What the handles say stays true over two steps.
LEMMA StaysOn ==
  ASSUME NEW f, NEW d, NEW L, NEW z, NEW g, NEW e, NEW M, NEW y, NEW u, NEW v, NEW K, NEW x,
         Stays(f, d, L, z, g, e, M, y, {}), Stays(g, e, M, y, u, v, K, x, {})
  PROVE  Stays(f, d, L, z, u, v, K, x, {})
BY DEF Stays

\* makeDir puts . and .. into the new directory.
LEMMA DotsKeeps ==
  ASSUME TInv, ~damaged, Dots
  PROVE  TInv'
<1> DEFINE c == this.first
           one == PutIn(dir, <<c, 1>>, Unnamed("dot"))
<1>1. /\ pc = "dots" /\ Holds(this.first) /\ pc' = "dotsFlush"
      /\ dir' = [dir EXCEPT ![this.first][1] = Unnamed("dot"), ![this.first][2] = Unnamed("dot")]
      /\ fat' = fat /\ this' = this /\ k' = k /\ empty' = empty /\ stack' = stack
      /\ hand' = hand /\ call' = call /\ damaged' = damaged
  BY DEF Dots, locals, goesOn
<1>2. /\ Tree0(fat, dir) /\ TreeOK(fat, dir, {}, NoCluster) /\ Loose = {} /\ Unzeroed = NoCluster
      /\ TypeInv /\ CallInv /\ AtDots /\ Loose' = {} /\ Unzeroed' = NoCluster
  BY <1>1, Calm, LooseIs DEF PlaceInv
<1>3. c \in Cluster /\ dir[c] = Zeroed /\ 1 \in Index /\ 2 \in Index
  BY <1>2, DirectoryAssumption DEF AtDots, NewHead, Cluster, Index
<1>4. CardOK'
  BY <1>1, <1>2, <1>3, CardHolds
<1>5. <<c, 1>> \in Slot /\ <<c, 2>> \in Slot /\ dir \in Contents
  BY <1>2, <1>3 DEF Slot, TypeInv
<1>6. ~Live(At(dir, <<c, 1>>)) /\ ~Live(At(dir, <<c, 2>>))
  BY <1>3, ZeroedIs DEF At
<1> HIDE DEF one
<1>7. Tree0(fat, one) /\ Stays(fat, dir, {}, NoCluster, fat, one, {}, NoCluster, {})
  <2>1. <<c, 1>> \notin DirsOf(dir, {})
    BY <1>6 DEF DirsOf, OwnersOf
  <2>2. QED
    BY <1>2, <1>5, <2>1, TreeForgets DEF one
<1>8. TreeOK(fat, one, {}, NoCluster) /\ one \in Contents /\ ~Live(At(one, <<c, 2>>))
  <2>1. At(one, <<c, 2>>) = At(dir, <<c, 2>>)
    <3>1. <<c, 2>> # <<c, 1>>
      OBVIOUS
    <3>2. QED
      BY <1>5, <3>1, PutIs, UnnamedIs DEF one
  <2>2. QED
    BY <1>6, <1>7, <2>1, TreeTypes DEF Tree0
<1>9. dir' = PutIn(one, <<c, 2>>, Unnamed("dot"))
  BY <1>1, <1>3, <1>5 DEF one, PutIn, Contents
<1>10. Tree0(fat, dir') /\ Stays(fat, one, {}, NoCluster, fat, dir', {}, NoCluster, {})
  <2>1. <<c, 2>> \notin DirsOf(one, {})
    BY <1>8 DEF DirsOf, OwnersOf
  <2>2. QED
    BY <1>5, <1>8, <1>9, <2>1, TreeForgets
<1>11. PlaceInv'
  BY <1>1 DEF PlaceInv, Marked
<1>12. CallInv'
  BY <1>1, <1>2 DEF CallInv, Removing, Marked
<1>13. TreeOK(fat', dir', Loose', Unzeroed')
  BY <1>1, <1>2, <1>10 DEF Tree0
<1>14. Stays(fat, dir, Loose, Unzeroed, fat', dir', Loose', Unzeroed', {})
  BY <1>1, <1>2, <1>7, <1>10, StaysOn
<1>15. TypeInv'
  <2>1. fat' \in FatType /\ dir' \in Contents
    BY <1>13, TreeTypes
  <2>2. this' \in HandleType /\ pc' \in Steps
    BY <1>1, <1>2 DEF TypeInv, Steps
  <2>3. QED
    BY <1>1, <1>2, <1>4, <2>1, <2>2, TypesOfStep
<1>16. QED
  BY <1>1, <1>11, <1>12, <1>13, <1>14, <1>15, Goes DEF Removing, Marked

\* makeDir returns.
LEMMA DotsFlushKeeps ==
  ASSUME ~EmptyFiles, TInv, ~damaged, DotsFlush
  PROVE  TInv'
<1>1. pc = "dotsFlush" /\ Flushes /\ Returns(TRUE, this) /\ damaged' = damaged /\ UNCHANGED image
  BY DEF DotsFlush, Return
<1>2. Loose = {} /\ Unzeroed = NoCluster /\ TypeInv /\ CallInv
  BY <1>1, Calm
<1>3. CardOK' /\ call.op # "open"
  BY <1>1, <1>2, CardFlushes DEF CallInv
<1>4. QED
  BY <1>1, <1>2, <1>3, Returned

-----------------------------------------------------------------------------
(* remove: a chain is freed, the entry is emptied and marked. *)

\* A step of remove: the other handles and the frames of rmRfStar stay true.
LEMMA RemovingGoes ==
  ASSUME TInv, ~damaged, Removing, Marked', this.slot \in Slot, NEW T \in {{}, {this.slot}},
         hand' = hand, call' = call, k' = k, stack' = stack, this'.slot = this.slot,
         damaged' = damaged, TypeInv', TreeOK(fat', dir', Loose', Unzeroed'),
         Stays(fat, dir, Loose, Unzeroed, fat', dir', Loose', Unzeroed', T),
         \A i \in DOMAIN stack :
           ClustersFrom(fat', stack[i].handle.first) = ClustersFrom(fat, stack[i].handle.first),
         T # {} /\ IsDir(hand["h"]) /\ hand["h"].slot = this.slot => call.op \in {"rmDir", "rmRf"},
         CallInv', PlaceInv'
  PROVE  TInv'
<1>1. HandInv /\ StackInv
  BY DEF TInv, TreeInv
<1>2. NoSlot \notin T
  BY MarksAreNoClusters DEF NoSlot, Slot
<1>3. \A x : x.slot \notin T =>
        /\ RootHandle(fat, Unzeroed, x) => RootHandle(fat', Unzeroed', x)
        /\ DirHandle(fat, dir, Loose, Unzeroed, x) => DirHandle(fat', dir', Loose', Unzeroed', x)
  BY HandlesStay
<1>4. \A x : RootHandle(fat, Unzeroed, x) => RootHandle(fat', Unzeroed', x)
  BY <1>2, <1>3 DEF RootHandle
<1>5. HandInv'
  <2>1. RootHandle(fat', Unzeroed', hand["root"])
    BY <1>1, <1>4 DEF HandInv, IsRoot
  <2>2. \/ hand["h"] = Closed \/ FileHandle(hand["h"])
        \/ DirHandle(fat', dir', Loose', Unzeroed', hand["h"])
        \/ call.op \in {"rmDir", "rmRf"} /\ this.slot = hand["h"].slot
    <3>1. CASE hand["h"] = Closed \/ FileHandle(hand["h"])
      BY <3>1
    <3>2. CASE IsDir(hand["h"])
      <4>1. CASE hand["h"].slot \in T
        BY <3>2, <4>1
      <4>2. CASE hand["h"].slot \notin T
        BY <1>3, <3>2, <4>2 DEF IsDir
      <4>3. QED
        BY <4>1, <4>2
    <3>3. CASE Marked /\ call.op \in {"rmDir", "rmRf"} /\ this.slot = hand["h"].slot
      BY <3>3
    <3>4. QED
      BY <1>1, <3>1, <3>2, <3>3 DEF HandInv
  <2>3. QED
    BY <2>1, <2>2 DEF HandInv, IsRoot, IsDir
<1>6. pc' \notin {"rmRf", "scan"} /\ Removing' /\ pc \notin {"rmRf", "scan"}
  BY DEF Removing, Marked
<1>7. StackInv'
  <2>1. pc' = "rmRf" => stack' # << >>
    BY <1>6
  <2>2. stack' # << >> =>
          /\ pc' \in {"rmRf", "scan"} \/ Removing'
          /\ call'.op = "rmRf" /\ (pc' = "scan" \/ k' = 1)
          /\ stack'[1].handle = hand'[call'.d] /\ (call'.d = "root" => hand'["h"] = Closed)
          /\ pc' = "scan" => this'.slot[1] \in ClustersFrom(fat', Top'.handle.first)
    BY <1>1, <1>6 DEF StackInv
  <2>3. ASSUME NEW i \in DOMAIN stack
        PROVE  /\ stack[i].pos \in Nat \ {0}
               /\ \/ DirHandle(fat', dir', Loose', Unzeroed', stack[i].handle)
                  \/ i = 1 /\ RootHandle(fat', Unzeroed', stack[i].handle)
               /\ i > 1 => stack[i].handle.slot[1] \in ClustersFrom(fat', stack[i - 1].handle.first)
               /\ stack[i].handle.slot # this.slot
    <3>1. stack[i].pos \in Nat \ {0} /\ stack[i].handle.slot # this.slot
      BY <1>1 DEF StackInv
    <3>2. \/ DirHandle(fat, dir, Loose, Unzeroed, stack[i].handle)
          \/ i = 1 /\ RootHandle(fat, Unzeroed, stack[i].handle)
      BY <1>1 DEF StackInv, IsDir, IsRoot
    <3>3. stack[i].handle.slot \notin T
      BY <3>1
    <3>4. i > 1 => i - 1 \in DOMAIN stack
      <4>1. stack \in Seq(FrameType)
        BY DEF TInv, TypeInv
      <4>2. QED
        BY <4>1
    <3>5. i > 1 => stack[i].handle.slot[1] \in ClustersFrom(fat, stack[i - 1].handle.first)
      BY <1>1 DEF StackInv
    <3>6. i > 1 => stack[i].handle.slot[1] \in ClustersFrom(fat', stack[i - 1].handle.first)
      BY <3>4, <3>5
    <3>7. \/ DirHandle(fat', dir', Loose', Unzeroed', stack[i].handle)
          \/ i = 1 /\ RootHandle(fat', Unzeroed', stack[i].handle)
      BY <1>3, <3>2, <3>3
    <3>8. QED
      BY <3>1, <3>6, <3>7
  <2>4. QED
    BY <2>1, <2>2, <2>3 DEF StackInv, IsDir, IsRoot
<1>8. QED
  BY <1>5, <1>7 DEF TInv, TreeInv

Cleared(x) == [x EXCEPT !.first = NoCluster, !.size = 0]

\* The handle of a file that was truncated to 0.
LEMMA ClearedIs ==
  ASSUME NEW x \in HandleType
  PROVE  Cleared(x) \in HandleType /\ Cleared(x).slot = x.slot
<1> DEFINE y == [x EXCEPT !.first = NoCluster]
<1>1. y \in HandleType /\ y.slot = x.slot
  BY DEF HandleType
<1>2. Cleared(x) = [y EXCEPT !.size = 0]
  BY DEF HandleType, Cleared
<1>3. 0 \in 0 .. N
  BY ClustersAreFinite
<1> HIDE DEF y
<1>4. QED
  BY <1>1, <1>2, <1>3 DEF HandleType

\* Freeing one chain leaves those of the frames alone.
LEMMA FramesApart ==
  ASSUME TInv, ~damaged, FreeAll
  PROVE  \A i \in DOMAIN stack :
           Chain(fat', stack[i].handle.first) = Chain(fat, stack[i].handle.first)
<1> DEFINE s == this.slot
           h == this.first
<1>1. /\ pc = "free" /\ PutsFat(FreedFrom(fat, h))
  BY DEF FreeAll, FreedFrom
<1>2. /\ TreeOK(fat, dir, {}, NoCluster) /\ Tree0(fat, dir) /\ Loose = {} /\ Unzeroed = NoCluster
      /\ TypeInv /\ AtFree /\ StackInv
  BY <1>1, Calm DEF PlaceInv
<1>3. fat' = FreedFrom(fat, h)
  BY <1>1, <1>2, FatIsHeld
<1>4. /\ s \in OwnersOf(dir, {}) /\ s \in Slot /\ Live(At(dir, s)) /\ At(dir, s).first = h
      /\ At(dir, s).kind = "dir" => \A c \in ClustersFrom(fat, h), i \in Index : ~Live(dir[c][i])
  BY <1>2 DEF AtFree, OwnersOf
<1> HIDE DEF s, h
<1>5. /\ TreeOK(fat', dir, {s}, NoCluster)
      /\ Stays(fat, dir, {}, NoCluster, fat', dir, {s}, NoCluster, {s})
      /\ \A x \in HeadsOf(dir, {}) : x # h => Chain(fat', x) = Chain(fat, x)
  <2>1. Frees(fat, dir, s, h, fat')
    BY <1>3, <1>4 DEF Frees
  <2>2. QED
    BY <1>2, <1>4, <2>1, TreeFrees
<1>6. SUFFICES ASSUME NEW i \in DOMAIN stack
      PROVE  Chain(fat', stack[i].handle.first) = Chain(fat, stack[i].handle.first)
  OBVIOUS
<1> DEFINE x == stack[i].handle
<1>7. x.slot # s /\ (DirHandle(fat, dir, {}, NoCluster, x) \/ RootHandle(fat, NoCluster, x))
  BY <1>1, <1>2 DEF StackInv, IsDir, IsRoot, Removing, s
<1> HIDE DEF x
<1>8. x.first \in HeadsOf(dir, {})
  BY <1>2, <1>7, DirectoryIs DEF DirectoryHandle
<1>9. OwnersAreHeads(fat, dir, {})
  BY <1>2 DEF TreeOK
<1>10. x.first # h
  <2>1. CASE DirHandle(fat, dir, {}, NoCluster, x)
    BY <1>4, <1>7, <1>9, <2>1 DEF DirHandle, DirsOf, OwnersAreHeads
  <2>2. CASE RootHandle(fat, NoCluster, x)
    <3>1. h \in Other
      BY <1>4, <1>9 DEF OwnersAreHeads
    <3>2. QED
      BY <2>2, <3>1, DirectoryAssumption DEF RootHandle
  <2>3. QED
    BY <1>7, <2>1, <2>2
<1>11. Chain(fat', x.first) = Chain(fat, x.first)
  BY <1>5, <1>8, <1>10
<1>12. QED
  BY <1>11 DEF x

\* truncate(0) frees the chain, and the entry still names it.
LEMMA FreeAllKeeps ==
  ASSUME TInv, ~damaged, FreeAll
  PROVE  TInv'
<1> DEFINE s == this.slot
           h == this.first
<1>1. /\ pc = "free" /\ PutsFat(FreedFrom(fat, h)) /\ pc' = "sync"
      /\ this' = [this EXCEPT !.first = NoCluster, !.size = 0]
      /\ dir' = dir /\ k' = k /\ empty' = empty /\ stack' = stack
      /\ hand' = hand /\ call' = call /\ damaged' = damaged
  BY DEF FreeAll, goesOn, FreedFrom
<1>2. /\ Tree0(fat, dir) /\ TreeOK(fat, dir, {}, NoCluster) /\ Loose = {} /\ Unzeroed = NoCluster
      /\ TypeInv /\ CallInv /\ AtFree /\ StackInv
  BY <1>1, Calm DEF PlaceInv
<1>3. CardOK' /\ fat' = FreedFrom(fat, h)
  BY <1>1, <1>2, FatIsHeld
<1>4. this' \in HandleType /\ this'.slot = s
  <2>1. this \in HandleType /\ NoCluster \in Cluster \cup {NoCluster} /\ 0 \in 0 .. N
    BY <1>2, ClustersAreFinite DEF TypeInv
  <2>2. this' = Cleared(this)
    BY <1>1 DEF Cleared
  <2>3. QED
    BY <2>1, <2>2, ClearedIs
<1>5. /\ s \in OwnersOf(dir, {}) /\ s \in Slot /\ Live(At(dir, s)) /\ At(dir, s).first = h
      /\ At(dir, s).kind = "dir" =>
           /\ call.op \in {"rmDir", "rmRf"}
           /\ \A c \in ClustersFrom(fat, h), i \in Index : ~Live(dir[c][i])
  BY <1>2 DEF AtFree, OwnersOf
<1>6. Loose' = {s} /\ Unzeroed' = NoCluster
  BY <1>1, <1>4 DEF Loose, Unzeroed
<1> HIDE DEF s, h
<1>7. /\ TreeOK(fat', dir, {s}, NoCluster)
      /\ Stays(fat, dir, {}, NoCluster, fat', dir, {s}, NoCluster, {s})
      /\ \A x \in HeadsOf(dir, {}) : x # h => Chain(fat', x) = Chain(fat, x)
  <2>1. Frees(fat, dir, s, h, fat')
    BY <1>3, <1>5 DEF Frees
  <2>2. QED
    BY <1>2, <1>5, <2>1, TreeFrees
<1>8. \A i \in DOMAIN stack :
        ClustersFrom(fat', stack[i].handle.first) = ClustersFrom(fat, stack[i].handle.first)
  BY FramesApart DEF ClustersFrom
<1>9. IsDir(hand["h"]) /\ hand["h"].slot = this.slot => call.op \in {"rmDir", "rmRf"}
  BY <1>2, <1>5 DEF IsDir, DirHandle, DirsOf, s
<1>10. CallInv'
  BY <1>1, <1>2 DEF CallInv, Removing, Marked
<1>11. PlaceInv'
  BY <1>1, <1>4, <1>5 DEF PlaceInv, Marked
<1>12. TreeOK(fat', dir', Loose', Unzeroed')
  BY <1>1, <1>6, <1>7
<1>13. TypeInv'
  <2>1. fat' \in FatType /\ dir' \in Contents
    BY <1>12, TreeTypes
  <2>2. pc' \in Steps
    BY <1>1 DEF Steps
  <2>3. QED
    BY <1>1, <1>2, <1>3, <1>4, <2>1, <2>2, TypesOfStep
<1>14. Stays(fat, dir, Loose, Unzeroed, fat', dir', Loose', Unzeroed', {s})
  BY <1>1, <1>2, <1>6, <1>7
<1>15. Removing /\ Marked' /\ this.slot \in Slot /\ {s} \in {{}, {this.slot}} /\ this'.slot = this.slot
  BY <1>1, <1>4, <1>5 DEF Removing, Marked, s
<1>16. QED
  BY <1>1, <1>8, <1>9, <1>10, <1>11, <1>12, <1>13, <1>14, <1>15, RemovingGoes

\* Freeing one chain leaves those of the frames alone.
LEMMA StackChains ==
  ASSUME fat' = fat
  PROVE  \A i \in DOMAIN stack :
           ClustersFrom(fat', stack[i].handle.first) = ClustersFrom(fat, stack[i].handle.first)
OBVIOUS

\* truncate(0) syncs the entry in the cache.
LEMMA SyncKeeps ==
  ASSUME TInv, ~damaged, Sync
  PROVE  TInv'
<1> DEFINE s == this.slot
           M == IF At(dir, s).kind = "dir" THEN {s} ELSE {}
<1>1. pc = "sync" /\ Rewrites([thisEntry EXCEPT !.first = NoCluster, !.size = 0], "syncFlush")
  BY DEF Sync
<1>2. /\ TreeOK(fat, dir, {s}, NoCluster) /\ Loose = {s} /\ Unzeroed = NoCluster
      /\ TypeInv /\ CallInv /\ s \in Slot /\ Live(At(dir, s))
  <2>1. Loose = {s} /\ Unzeroed = NoCluster
    BY <1>1 DEF Loose, Unzeroed
  <2>2. QED
    BY <1>1, <2>1 DEF TInv, TreeInv, PlaceInv, Marked
<1>3. [thisEntry EXCEPT !.first = NoCluster, !.size = 0] = Emptied(At(dir, s))
  BY ThisEntryIs DEF Emptied
<1>4. /\ CardOK' /\ dir' = PutIn(dir, s, Emptied(At(dir, s))) /\ pc' = "syncFlush" /\ fat' = fat
      /\ this' = this /\ k' = k /\ empty' = empty /\ stack' = stack
      /\ hand' = hand /\ call' = call /\ damaged' = damaged
  BY <1>1, <1>2, <1>3, RewrittenIs
<1> HIDE DEF s, M
<1>5. Emptied(At(dir, s)).kind = At(dir, s).kind
  BY <1>2, EntryTypes, EmptiedIs DEF TypeInv
<1>6. M = IF Emptied(At(dir, s)).kind = "dir" THEN {s} ELSE {}
  BY <1>5 DEF M
<1>7. /\ TreeOK(fat, dir', M, NoCluster) /\ Stays(fat, dir, {s}, NoCluster, fat, dir', M, NoCluster, {})
      /\ At(dir', s) = Emptied(At(dir, s)) /\ Live(At(dir', s)) /\ At(dir', s).kind = At(dir, s).kind
  BY <1>2, <1>4, <1>6, TreeNamesNone
<1>8. Loose' = M /\ Unzeroed' = NoCluster
  BY <1>4, <1>7 DEF Loose, Unzeroed, M, s
<1>9. CallInv'
  BY <1>1, <1>2, <1>4 DEF CallInv, Removing, Marked
<1>10. PlaceInv'
  BY <1>2, <1>4, <1>7 DEF PlaceInv, Marked, s
<1>11. TreeOK(fat', dir', Loose', Unzeroed')
  BY <1>4, <1>7, <1>8
<1>12. Stays(fat, dir, Loose, Unzeroed, fat', dir', Loose', Unzeroed', {})
  BY <1>2, <1>4, <1>7, <1>8
<1>13. TypeInv'
  <2>1. fat' \in FatType /\ dir' \in Contents
    BY <1>11, TreeTypes
  <2>2. this' \in HandleType /\ pc' \in Steps
    BY <1>2, <1>4 DEF TypeInv, Steps
  <2>3. QED
    BY <1>2, <1>4, <2>1, <2>2, TypesOfStep
<1>14. Removing /\ Marked' /\ this.slot \in Slot /\ this'.slot = this.slot
  BY <1>1, <1>2, <1>4 DEF Removing, Marked, s
<1>15. QED
  BY <1>4, <1>9, <1>10, <1>11, <1>12, <1>13, <1>14, StackChains, RemovingGoes

\* It flushes it.
LEMMA SyncFlushKeeps ==
  ASSUME TInv, ~damaged, SyncFlush
  PROVE  TInv'
<1>1. pc = "syncFlush" /\ FlushesTo("delete")
  BY DEF SyncFlush
<1>2. /\ TreeOK(fat, dir, Loose, Unzeroed) /\ Unzeroed = NoCluster
      /\ TypeInv /\ CallInv /\ this.slot \in Slot /\ Live(At(dir, this.slot))
  BY <1>1 DEF TInv, TreeInv, PlaceInv, Marked, Unzeroed
<1>3. /\ CardOK' /\ fat' = fat /\ dir' = dir /\ pc' = "delete"
      /\ this' = this /\ k' = k /\ empty' = empty /\ stack' = stack
      /\ hand' = hand /\ call' = call /\ damaged' = damaged
  BY <1>1, <1>2, FlushedIs
<1>4. Loose' = Loose /\ Unzeroed' = Unzeroed
  BY <1>1, <1>3 DEF Loose, Unzeroed
<1>5. CallInv'
  BY <1>1, <1>2, <1>3 DEF CallInv, Removing, Marked
<1>6. PlaceInv'
  BY <1>2, <1>3 DEF PlaceInv, Marked
<1>7. TreeOK(fat', dir', Loose', Unzeroed')
  BY <1>2, <1>3, <1>4
<1>8. Stays(fat, dir, Loose, Unzeroed, fat', dir', Loose', Unzeroed', {})
  BY <1>3, <1>4, StaysSame
<1>9. TypeInv'
  <2>1. fat' \in FatType /\ dir' \in Contents /\ this' \in HandleType /\ pc' \in Steps
    BY <1>2, <1>3 DEF TypeInv, Steps
  <2>2. QED
    BY <1>2, <1>3, <2>1, TypesOfStep
<1>10. Removing /\ Marked' /\ this.slot \in Slot /\ this'.slot = this.slot
  BY <1>1, <1>2, <1>3 DEF Removing, Marked
<1>11. QED
  BY <1>3, <1>5, <1>6, <1>7, <1>8, <1>9, <1>10, StackChains, RemovingGoes

\* remove marks the entry deleted.
LEMMA DeleteKeeps ==
  ASSUME TInv, ~damaged, Delete
  PROVE  TInv'
<1> DEFINE s == this.slot
<1>1. pc = "delete" /\ Rewrites(Unnamed("deleted"), "deleteFlush")
  BY DEF Delete
<1>2. /\ TreeOK(fat, dir, Loose, NoCluster) /\ Unzeroed = NoCluster
      /\ TypeInv /\ CallInv /\ s \in Slot
  <2>1. Unzeroed = NoCluster
    BY <1>1 DEF Unzeroed
  <2>2. QED
    BY <1>1, <2>1 DEF TInv, TreeInv, PlaceInv, Marked
<1>3. Loose = IF At(dir, s).kind = "dir" THEN {s} ELSE {}
  BY <1>1 DEF Loose
<1>4. /\ CardOK' /\ dir' = PutIn(dir, s, Unnamed("deleted")) /\ pc' = "deleteFlush" /\ fat' = fat
      /\ this' = this /\ k' = k /\ empty' = empty /\ stack' = stack
      /\ hand' = hand /\ call' = call /\ damaged' = damaged
  BY <1>1, <1>2, RewrittenIs
<1>5. Loose' = {} /\ Unzeroed' = NoCluster
  BY <1>4, LooseIs
<1> HIDE DEF s
<1>6. Loose \in {{}, {s}} /\ s \notin DirsOf(dir, Loose)
  BY <1>3 DEF DirsOf, OwnersOf
<1>7. Tree0(fat, dir') /\ Stays(fat, dir, Loose, NoCluster, fat, dir', {}, NoCluster, {})
  <2> DEFINE L == Loose
             v == Unnamed("deleted")
  <2>1. TreeOK(fat, dir, L, NoCluster) /\ s \notin DirsOf(dir, L)
    BY <1>2, <1>6
  <2>2. dir' = PutIn(dir, s, v) /\ s \in Slot
    BY <1>2, <1>4
  <2> HIDE DEF L
  <2>3. Tree0(fat, dir') /\ Stays(fat, dir, L, NoCluster, fat, dir', {}, NoCluster, {})
    <3>1. CASE L = {}
      BY <2>1, <2>2, <3>1, TreeForgets
    <3>2. CASE L = {s}
      BY <2>1, <2>2, <3>2, TreeForgets
    <3>3. QED
      BY <1>6, <3>1, <3>2 DEF L
  <2>4. QED
    BY <2>3 DEF L
<1>8. CallInv'
  BY <1>1, <1>2, <1>4 DEF CallInv, Removing, Marked
<1>9. PlaceInv'
  BY <1>2, <1>4 DEF PlaceInv, Marked, s
<1>10. TreeOK(fat', dir', Loose', Unzeroed')
  BY <1>4, <1>5, <1>7 DEF Tree0
<1>11. Stays(fat, dir, Loose, Unzeroed, fat', dir', Loose', Unzeroed', {})
  BY <1>2, <1>4, <1>5, <1>7
<1>12. TypeInv'
  <2>1. fat' \in FatType /\ dir' \in Contents
    BY <1>10, TreeTypes
  <2>2. this' \in HandleType /\ pc' \in Steps
    BY <1>2, <1>4 DEF TypeInv, Steps
  <2>3. QED
    BY <1>2, <1>4, <2>1, <2>2, TypesOfStep
<1>13. Removing /\ Marked' /\ this.slot \in Slot /\ this'.slot = this.slot
  BY <1>1, <1>2, <1>4 DEF Removing, Marked, s
<1>14. QED
  BY <1>4, <1>8, <1>9, <1>10, <1>11, <1>12, <1>13, StackChains, RemovingGoes

-----------------------------------------------------------------------------
(* rmDir and rmRfStar: the scan and the frames. *)

\* A step that changes neither the tree nor the handles of the application.
LEMMA Walks ==
  ASSUME TInv, ~damaged, UNCHANGED <<image, hand, damaged>>,
         Loose = {}, Loose' = {}, Unzeroed = NoCluster, Unzeroed' = NoCluster,
         Marked => hand["h"] = Closed \/ FileHandle(hand["h"]) \/ IsDir(hand["h"]),
         TypeInv', StackInv', CallInv', PlaceInv'
  PROVE  TInv'
<1>1. TreeOK(fat, dir, {}, NoCluster) /\ HandInv
  BY DEF TInv, TreeInv
<1>2. fat' = fat /\ dir' = dir /\ hand' = hand /\ damaged' = damaged
  BY DEF image
<1>3. TreeOK(fat', dir', Loose', Unzeroed')
  BY <1>1, <1>2
<1>4. IsRoot(hand["root"]) /\ (hand["h"] = Closed \/ FileHandle(hand["h"]) \/ IsDir(hand["h"]))
  BY <1>1 DEF HandInv
<1>5. HandInv'
  BY <1>2, <1>4 DEF HandInv, IsRoot, IsDir
<1>6. QED
  BY <1>2, <1>3, <1>5 DEF TInv, TreeInv

\* Handles are as true of a tree left alone as they were.
LEMMA SameHandles ==
  ASSUME UNCHANGED image, Loose = {}, Loose' = {}, Unzeroed = NoCluster, Unzeroed' = NoCluster
  PROVE  \A x : /\ IsDir(x) <=> DirHandle(fat', dir', Loose', Unzeroed', x)
                /\ IsRoot(x) <=> RootHandle(fat', Unzeroed', x)
BY DEF image, IsDir, IsRoot

\* remove returns to the caller or to rmRfStar.
LEMMA DeleteFlushKeeps ==
  ASSUME ~EmptyFiles, TInv, ~damaged, DeleteFlush
  PROVE  TInv'
<1>1. pc = "deleteFlush" /\ Flushes /\ RemoveReturns /\ UNCHANGED image
  BY DEF DeleteFlush
<1>2. Loose = {} /\ Unzeroed = NoCluster /\ TypeInv /\ CallInv /\ HandInv /\ StackInv
  BY <1>1, Calm
<1>3. CardOK' /\ call.op # "open"
  BY <1>1, <1>2, CardFlushes DEF CallInv, Removing, Marked
<1>4. CASE stack = << >>
  <2>1. Returns(TRUE, this) /\ damaged' = damaged
    BY <1>1, <1>4 DEF RemoveReturns, Return
  <2>2. QED
    BY <1>1, <1>2, <1>3, <2>1, Returned
<1>5. CASE stack # << >>
  <2>1. /\ pc' = "rmRf" /\ this' = Closed /\ k' = k /\ empty' = empty /\ stack' = stack
        /\ hand' = hand /\ call' = call /\ damaged' = damaged /\ fat' = fat /\ dir' = dir
    BY <1>1, <1>5 DEF RemoveReturns, goesOn, image
  <2>2. Loose' = {} /\ Unzeroed' = NoCluster
    BY <2>1, LooseIs
  <2>3. /\ call.op = "rmRf" /\ k = 1 /\ stack[1].handle = hand[call.d]
        /\ call.d = "root" => hand["h"] = Closed
    BY <1>1, <1>2, <1>5 DEF StackInv
  <2>4. 1 \in DOMAIN stack
    BY <1>2, <1>5 DEF TypeInv
  <2>5. stack[1].handle.slot # this.slot
    BY <1>1, <1>2, <2>4 DEF StackInv, Removing, Marked
  <2>6. hand["h"] = Closed \/ FileHandle(hand["h"]) \/ IsDir(hand["h"])
    BY <1>2, <2>3, <2>5 DEF HandInv, CallInv
  <2>7. StackInv'
    <3>1. \A x : /\ IsDir(x) <=> DirHandle(fat', dir', Loose', Unzeroed', x)
                 /\ IsRoot(x) <=> RootHandle(fat', Unzeroed', x)
      BY <1>1, <1>2, <2>2, SameHandles
    <3>2. \A i \in DOMAIN stack :
            /\ stack[i].pos \in Nat \ {0}
            /\ IsDir(stack[i].handle) \/ (i = 1 /\ IsRoot(stack[i].handle))
            /\ i > 1 => stack[i].handle.slot[1] \in ClustersFrom(fat, stack[i - 1].handle.first)
      BY <1>2 DEF StackInv
    <3>3. \A i \in DOMAIN stack' :
            /\ stack'[i].pos \in Nat \ {0}
            /\ \/ DirHandle(fat', dir', Loose', Unzeroed', stack'[i].handle)
               \/ i = 1 /\ RootHandle(fat', Unzeroed', stack'[i].handle)
            /\ i > 1 => stack'[i].handle.slot[1] \in ClustersFrom(fat', stack'[i - 1].handle.first)
      BY <2>1, <3>1, <3>2
    <3>4. QED
      BY <1>5, <2>1, <2>3, <3>3 DEF StackInv, IsDir, IsRoot, Removing, Marked
  <2>8. CallInv'
    BY <1>2, <2>1 DEF CallInv, Removing, Marked
  <2>9. PlaceInv'
    BY <2>1 DEF PlaceInv, Marked
  <2>10. TypeInv'
    <3>1. fat' \in FatType /\ dir' \in Contents /\ this' \in HandleType /\ pc' \in Steps
      BY <1>2, <2>1, ClosedType DEF TypeInv, Steps
    <3>2. QED
      BY <1>2, <1>3, <2>1, <3>1, TypesOfStep
  <2>11. QED
    BY <1>1, <1>2, <2>1, <2>2, <2>6, <2>7, <2>8, <2>9, <2>10, Walks
<1>6. QED
  BY <1>4, <1>5

\* What the scan has come to know.
LEMMA ScanState ==
  ASSUME TInv, ~damaged, pc = "scan"
  PROVE  /\ TreeOK(fat, dir, {}, NoCluster) /\ Tree0(fat, dir) /\ Loose = {} /\ Unzeroed = NoCluster
         /\ TypeInv /\ CallInv /\ StackInv /\ HandInv
         /\ this.slot \in DirsOf(dir, {}) /\ At(dir, this.slot).first = this.first
         /\ this.first \in HeadsOf(dir, {})
         /\ this.size = Len(Chain(fat, this.first)) /\ this.size = Counted(fat, NoCluster, this.first)
         /\ this.size \in 1 .. N /\ k \in 1 .. this.size /\ k \in Nat
         /\ \A i \in Index : ScanBlock[i] = Of(fat, dir, this.first, k, i)
         /\ \A j \in 1 .. k - 1, i \in Index :
              Of(fat, dir, this.first, j, i).kind # "free" /\ ~Live(Of(fat, dir, this.first, j, i))
<1>1. /\ TreeOK(fat, dir, {}, NoCluster) /\ Tree0(fat, dir) /\ Loose = {} /\ Unzeroed = NoCluster
      /\ TypeInv /\ CallInv /\ StackInv /\ HandInv /\ AtScan
  BY Calm DEF PlaceInv
<1>2. DirHandle(fat, dir, {}, NoCluster, this)
  BY <1>1 DEF AtScan, IsDir
<1>3. /\ this.slot \in DirsOf(dir, {}) /\ At(dir, this.slot).first = this.first
      /\ this.size = Counted(fat, NoCluster, this.first)
  BY <1>2 DEF DirHandle
<1>4. this.first \in HeadsOf(dir, {})
  BY <1>3, DirHeads
<1>5. Counted(fat, NoCluster, this.first) = Len(Chain(fat, this.first))
      /\ Len(Chain(fat, this.first)) \in 1 .. N
  BY <1>1, <1>4, HeadsAre
<1>6. k \in 1 .. this.size /\ k \in Nat
  BY <1>1 DEF AtScan
<1>7. \A i \in Index : ScanBlock[i] = Of(fat, dir, this.first, k, i)
  BY DEF ScanBlock, Of
<1>8. \A j \in 1 .. k - 1, i \in Index :
        Of(fat, dir, this.first, j, i).kind # "free" /\ ~Live(Of(fat, dir, this.first, j, i))
  BY <1>1 DEF AtScan
<1>9. QED
  BY <1>1, <1>3, <1>4, <1>5, <1>6, <1>7, <1>8

\* rmDir found nothing in use in a block and reads the next.
LEMMA ScanNextKeeps ==
  ASSUME TInv, ~damaged, ScanNext
  PROVE  TInv'
<1>1. /\ pc = "scan" /\ ScanStops = {} /\ k < LastBlock /\ ReadsScanned /\ k' = k + 1
      /\ UNCHANGED image /\ fat' = fat /\ dir' = dir /\ this' = this /\ pc' = pc /\ empty' = empty
      /\ stack' = stack /\ hand' = hand /\ call' = call /\ damaged' = damaged
  BY DEF ScanNext, goesOn, image
<1>2. /\ Loose = {} /\ Unzeroed = NoCluster /\ TypeInv /\ CallInv /\ StackInv
      /\ this.size \in 1 .. N /\ k \in 1 .. this.size /\ k \in Nat
  BY <1>1, ScanState
<1>3. /\ \A i \in Index : ScanBlock[i] = Of(fat, dir, this.first, k, i)
      /\ \A j \in 1 .. k - 1, i \in Index :
           Of(fat, dir, this.first, j, i).kind # "free" /\ ~Live(Of(fat, dir, this.first, j, i))
  BY <1>1, ScanState
<1>4. Loose' = {} /\ Unzeroed' = NoCluster
  BY <1>1, LooseIs
<1>5. CardOK'
  BY <1>1, <1>2, CardReads DEF ReadsScanned
<1>6. k + 1 \in 1 .. this.size /\ k + 1 - 1 = k /\ k + 1 \in 1 .. N + 1
  BY <1>1, <1>2, ClustersAreFinite DEF LastBlock
<1>7. \A x : /\ IsDir(x) <=> DirHandle(fat', dir', Loose', Unzeroed', x)
             /\ IsRoot(x) <=> RootHandle(fat', Unzeroed', x)
  BY <1>1, <1>2, <1>4, SameHandles
<1>8. AtScan'
  <2>1. IsDir(this)
    BY <1>1, Calm DEF PlaceInv, AtScan
  <2>2. ASSUME NEW j \in 1 .. k, NEW i \in Index
        PROVE  Of(fat, dir, this.first, j, i).kind # "free" /\ ~Live(Of(fat, dir, this.first, j, i))
    <3>1. CASE j = k
      BY <1>1, <1>3, <3>1 DEF ScanStops
    <3>2. CASE j # k
      <4>1. j \in 1 .. k - 1
        BY <1>2, <3>2
      <4>2. QED
        BY <1>3, <4>1
    <3>3. QED
      BY <3>1, <3>2
  <2>3. \A j \in 1 .. k' - 1, i \in Index :
          Of(fat', dir', this'.first, j, i).kind # "free" /\ ~Live(Of(fat', dir', this'.first, j, i))
    <3>1. k' = k + 1 /\ k \in Nat
      BY <1>1, <1>2
    <3>4. k' - 1 = k
      BY <3>1
    <3>2. 1 .. k' - 1 = 1 .. k
      BY <3>4
    <3>3. QED
      BY <1>1, <2>2, <3>2, Zenon
  <2>4. DirHandle(fat', dir', Loose', Unzeroed', this') /\ k' \in 1 .. this'.size
    BY <1>1, <1>6, <1>7, <2>1
  <2>5. QED
    BY <2>3, <2>4 DEF AtScan, IsDir
<1>9. PlaceInv'
  BY <1>1, <1>8 DEF PlaceInv, Marked
<1>10. CallInv'
  BY <1>1, <1>2 DEF CallInv, Removing, Marked
<1>11. StackInv'
  <2>1. /\ stack # << >> =>
             /\ call.op = "rmRf" /\ stack[1].handle = hand[call.d] /\ (call.d = "root" => hand["h"] = Closed)
             /\ this.slot[1] \in ClustersFrom(fat, Top.handle.first)
        /\ \A i \in DOMAIN stack :
             /\ stack[i].pos \in Nat \ {0}
             /\ IsDir(stack[i].handle) \/ (i = 1 /\ IsRoot(stack[i].handle))
             /\ i > 1 => stack[i].handle.slot[1] \in ClustersFrom(fat, stack[i - 1].handle.first)
    BY <1>1, <1>2 DEF StackInv
  <2>2. /\ stack' # << >> =>
             /\ call'.op = "rmRf" /\ stack'[1].handle = hand'[call'.d]
             /\ call'.d = "root" => hand'["h"] = Closed
             /\ this'.slot[1] \in ClustersFrom(fat', Top'.handle.first)
        /\ \A i \in DOMAIN stack' :
             /\ stack'[i].pos \in Nat \ {0}
             /\ \/ DirHandle(fat', dir', Loose', Unzeroed', stack'[i].handle)
                \/ i = 1 /\ RootHandle(fat', Unzeroed', stack'[i].handle)
             /\ i > 1 => stack'[i].handle.slot[1] \in ClustersFrom(fat', stack'[i - 1].handle.first)
    BY <1>1, <1>7, <2>1 DEF Top
  <2>3. QED
    BY <1>1, <2>2 DEF StackInv, IsDir, IsRoot, Removing, Marked
<1>12. TypeInv'
  <2>1. /\ this' \in HandleType /\ stack' \in Seq(FrameType) /\ k' \in 1 .. N + 1
        /\ empty' \in Slot \cup {NoSlot} /\ pc' \in Steps
    BY <1>1, <1>2, <1>6 DEF TypeInv
  <2>2. QED
    BY <1>1, <1>2, <1>5, <2>1, TypesOfCard
<1>13. QED
  BY <1>1, <1>2, <1>4, <1>9, <1>10, <1>11, <1>12, Walks DEF Marked

\* rmDir found an entry in use and returns false.
LEMMA ScanFindsEntryKeeps ==
  ASSUME ~EmptyFiles, TInv, ~damaged, ScanFindsEntry
  PROVE  TInv'
<1>1. pc = "scan" /\ ReadsScanned /\ Returns(FALSE, this) /\ damaged' = damaged /\ UNCHANGED image
  BY DEF ScanFindsEntry, Return
<1>2. Loose = {} /\ Unzeroed = NoCluster /\ TypeInv
  BY <1>1, Calm
<1>3. CardOK'
  BY <1>1, <1>2, CardReads DEF ReadsScanned
<1>4. QED
  BY <1>1, <1>2, <1>3, Returned

-----------------------------------------------------------------------------
(* The frames of rmRfStar. *)

\* A frame for each directory it is in, each with its entry in the one before.
Framed(t) ==
  /\ t \in Seq(FrameType)
  /\ t # << >> => call.op = "rmRf" /\ t[1].handle = hand[call.d] /\ (call.d = "root" => hand["h"] = Closed)
  /\ \A i \in DOMAIN t :
       /\ t[i].pos \in Nat \ {0}
       /\ IsDir(t[i].handle) \/ (i = 1 /\ IsRoot(t[i].handle))
       /\ i > 1 => t[i].handle.slot[1] \in ClustersFrom(fat, t[i - 1].handle.first)

\* The frames while rmRfStar walks or scans.
LEMMA StackFramed ==
  ASSUME TInv, ~damaged, pc \in {"rmRf", "scan"}
  PROVE  Framed(stack)
<1>1. TypeInv /\ StackInv
  BY Calm
<1>2. \A i \in DOMAIN stack :
        /\ stack[i].pos \in Nat \ {0}
        /\ IsDir(stack[i].handle) \/ (i = 1 /\ IsRoot(stack[i].handle))
        /\ i > 1 => stack[i].handle.slot[1] \in ClustersFrom(fat, stack[i - 1].handle.first)
  BY <1>1 DEF StackInv
<1>3. stack # << >> =>
        call.op = "rmRf" /\ stack[1].handle = hand[call.d] /\ (call.d = "root" => hand["h"] = Closed)
  BY <1>1 DEF StackInv
<1>4. QED
  BY <1>1, <1>2, <1>3 DEF Framed, TypeInv

\* A step of the walk that leaves frames t.
LEMMA WalkGoes ==
  ASSUME TInv, ~damaged, pc \in {"rmRf", "scan"}, UNCHANGED <<image, hand, call, damaged>>,
         Loose' = {}, Unzeroed' = NoCluster,
         NEW t, stack' = t, Framed(t),
         pc' \in {"rmRf", "scan", "free", "delete"}, pc' = "rmRf" => t # << >>,
         pc' = "scan" \/ k' = 1,
         pc' \in {"free", "delete"} => \A i \in DOMAIN t : t[i].handle.slot # this'.slot,
         pc' = "scan" /\ t # << >> =>
           this'.slot[1] \in ClustersFrom(fat, t[Len(t)].handle.first),
         TypeInv', PlaceInv'
  PROVE  TInv'
<1>1. /\ Loose = {} /\ Unzeroed = NoCluster /\ TypeInv /\ CallInv /\ StackInv
  BY Calm
<1>2. fat' = fat /\ dir' = dir /\ hand' = hand /\ call' = call /\ damaged' = damaged
  BY DEF image
<1>3. call.op \in {"rmDir", "rmRf"}
  BY <1>1 DEF CallInv, StackInv
<1>4. CallInv'
  BY <1>1, <1>2, <1>3 DEF CallInv, Removing, Marked
<1>5. \A x : /\ IsDir(x) <=> DirHandle(fat', dir', Loose', Unzeroed', x)
             /\ IsRoot(x) <=> RootHandle(fat', Unzeroed', x)
  BY <1>1, SameHandles
<1>6. \A i \in DOMAIN t :
        /\ t[i].pos \in Nat \ {0}
        /\ IsDir(t[i].handle) \/ (i = 1 /\ IsRoot(t[i].handle))
        /\ i > 1 => t[i].handle.slot[1] \in ClustersFrom(fat, t[i - 1].handle.first)
  BY DEF Framed
<1>7. t # << >> =>
        call.op = "rmRf" /\ t[1].handle = hand[call.d] /\ (call.d = "root" => hand["h"] = Closed)
  BY DEF Framed
<1>8. Removing' => pc' \in {"free", "delete"}
  BY DEF Removing, Marked
<1>9. \A i \in DOMAIN stack' :
        /\ stack'[i].pos \in Nat \ {0}
        /\ \/ DirHandle(fat', dir', Loose', Unzeroed', stack'[i].handle)
           \/ i = 1 /\ RootHandle(fat', Unzeroed', stack'[i].handle)
        /\ i > 1 => stack'[i].handle.slot[1] \in ClustersFrom(fat', stack'[i - 1].handle.first)
        /\ Removing' => stack'[i].handle.slot # this'.slot
  BY <1>2, <1>5, <1>6, <1>8
<1>10. stack' # << >> =>
         /\ pc' \in {"rmRf", "scan"} \/ Removing'
         /\ call'.op = "rmRf" /\ (pc' = "scan" \/ k' = 1)
         /\ stack'[1].handle = hand'[call'.d] /\ (call'.d = "root" => hand'["h"] = Closed)
         /\ pc' = "scan" => this'.slot[1] \in ClustersFrom(fat', Top'.handle.first)
  BY <1>2, <1>7 DEF Removing, Marked, Top
<1>11. StackInv'
  BY <1>9, <1>10 DEF StackInv, IsDir, IsRoot
<1>12. QED
  BY <1>1, <1>2, <1>4, <1>11, Walks DEF Marked

\* The frame on top.
LEMMA TopIs ==
  ASSUME TInv, ~damaged, pc = "rmRf"
  PROVE  /\ Len(stack) \in DOMAIN stack /\ Len(stack) \in Nat \ {0} /\ Top = stack[Len(stack)]
         /\ Top \in FrameType /\ Top.pos \in Nat \ {0} /\ Top.handle \in HandleType
         /\ IsDir(Top.handle) \/ (Len(stack) = 1 /\ IsRoot(Top.handle))
         /\ DirectoryHandle(fat, dir, {}, NoCluster, Top.handle)
         /\ Top.handle.first \in HeadsOf(dir, {}) /\ Top.handle.size \in 1 .. N
         /\ Top.handle.size = Len(Chain(fat, Top.handle.first))
         /\ call.op = "rmRf" /\ k = 1 /\ Framed(stack)
<1>1. /\ Loose = {} /\ Unzeroed = NoCluster /\ TypeInv /\ StackInv /\ TreeOK(fat, dir, {}, NoCluster)
  BY Calm
<1>2. Framed(stack)
  BY StackFramed
<1>3. stack # << >> /\ call.op = "rmRf" /\ k = 1 /\ stack \in Seq(FrameType)
  BY <1>1 DEF StackInv, TypeInv
<1>4. Len(stack) \in DOMAIN stack /\ Len(stack) \in Nat \ {0} /\ Top = stack[Len(stack)]
  BY <1>3 DEF Top
<1>5. Top \in FrameType
  BY <1>3, <1>4
<1>6. /\ Top.pos \in Nat \ {0}
      /\ IsDir(Top.handle) \/ (Len(stack) = 1 /\ IsRoot(Top.handle))
  BY <1>2, <1>4 DEF Framed
<1>7. DirectoryHandle(fat, dir, {}, NoCluster, Top.handle)
  BY <1>1, <1>6 DEF DirectoryHandle, IsDir, IsRoot
<1>8. Top.handle.first \in HeadsOf(dir, {})
  BY <1>1, <1>7, DirectoryIs
<1>9. Top.handle.size = Counted(fat, NoCluster, Top.handle.first)
  BY <1>1, <1>7, DirectoryIs
<1>10. /\ Counted(fat, NoCluster, Top.handle.first) = Len(Chain(fat, Top.handle.first))
       /\ Len(Chain(fat, Top.handle.first)) \in 1 .. N
  BY <1>1, <1>8, HeadsAre
<1>11. Top.handle \in HandleType
  BY <1>5 DEF FrameType
<1>12. QED
  BY <1>2, <1>3, <1>4, <1>5, <1>6, <1>7, <1>8, <1>9, <1>10, <1>11

\* The place of the m-th entry of a directory of n blocks.
LEMMA PositionIs ==
  ASSUME NEW n \in Nat, NEW m \in Nat \ {0}, m <= PerCluster * n
  PROVE  ((m - 1) \div PerCluster) + 1 \in 1 .. n /\ ((m - 1) % PerCluster) + 1 \in Index
<1> DEFINE q == (m - 1) \div PerCluster
           r == (m - 1) % PerCluster
<1>1. PerCluster \in Nat /\ PerCluster >= 3
  BY DirectoryAssumption
<1>2. q \in Int /\ r \in 0 .. PerCluster - 1 /\ m - 1 = PerCluster * q + r
  BY <1>1
<1>3. q >= 0
  BY <1>1, <1>2
<1>4. q < n
  <2>1. SUFFICES ASSUME q >= n PROVE FALSE
    BY <1>2
  <2> HIDE DEF q, r
  <2>2. PerCluster * q >= PerCluster * n
    BY <1>1, <1>2, <2>1
  <2>3. PerCluster * q \in Int /\ PerCluster * n \in Int
    BY <1>1, <1>2
  <2>4. QED
    BY <1>2, <2>2, <2>3
<1> HIDE DEF q, r
<1>5. q + 1 \in 1 .. n /\ r + 1 \in 1 .. PerCluster
  BY <1>1, <1>2, <1>3, <1>4
<1>6. QED
  BY <1>5 DEF q, r, Index

\* The position of a frame is a slot of its directory (readDirCache, seekSet).
LEMMA TopSlotIs ==
  ASSUME TInv, ~damaged, InTop
  PROVE  /\ TopSlot \in Slot /\ TopSlot[1] \in ClustersFrom(fat, Top.handle.first)
         /\ pc = "rmRf" /\ EntryAt(View, TopSlot) = At(dir, TopSlot)
<1>1. pc = "rmRf" /\ Top.pos <= PerCluster * Top.handle.size
  BY DEF InTop
<1>2. /\ Top.pos \in Nat \ {0} /\ Top.handle.first \in HeadsOf(dir, {}) /\ Top.handle.size \in 1 .. N
      /\ Top.handle.size = Len(Chain(fat, Top.handle.first))
  BY <1>1, TopIs
<1>3. TreeOK(fat, dir, {}, NoCluster)
  BY <1>1, Calm
<1>4. Top.handle.size \in Nat
  BY <1>2
<1>5. /\ ((Top.pos - 1) \div PerCluster) + 1 \in 1 .. Top.handle.size
      /\ ((Top.pos - 1) % PerCluster) + 1 \in Index
  BY <1>1, <1>2, <1>4, PositionIs
<1>6. \A j \in 1 .. Len(Chain(fat, Top.handle.first)) :
        /\ Chain(fat, Top.handle.first)[j] \in Cluster
        /\ Chain(fat, Top.handle.first)[j] \in ClustersFrom(fat, Top.handle.first)
  BY <1>2, <1>3, HeadsAre
<1>7. TopSlot \in Slot /\ TopSlot[1] \in ClustersFrom(fat, Top.handle.first)
  BY <1>2, <1>5, <1>6 DEF TopSlot, Slot
<1>8. QED
  BY <1>1, <1>7 DEF EntryAt, View, At

\* The frames without the one on top.
LEMMA BelowIs ==
  ASSUME stack \in Seq(FrameType), Len(stack) \in Nat \ {0}
  PROVE  /\ Below \in Seq(FrameType) /\ Len(Below) = Len(stack) - 1
         /\ \A i \in 1 .. Len(stack) - 1 : Below[i] = stack[i]
<1>1. PICK m \in Nat : m = Len(stack) - 1
  OBVIOUS
<1>2. \A i \in 1 .. m : stack[i] \in FrameType
  BY <1>1
<1>3. /\ SubSeq(stack, 1, m) \in Seq(FrameType)
      /\ Len(SubSeq(stack, 1, m)) = IF 1 <= m THEN m - 1 + 1 ELSE 0
      /\ \A i \in 1 .. m - 1 + 1 : SubSeq(stack, 1, m)[i] = stack[1 + i - 1]
  BY <1>2, SubSeqProperties
<1>4. Below = SubSeq(stack, 1, m)
  BY <1>1 DEF Below
<1>5. \A i \in 1 .. m : i \in 1 .. m - 1 + 1 /\ 1 + i - 1 = i
  OBVIOUS
<1>6. QED
  BY <1>1, <1>3, <1>4, <1>5

\* The frames after one more entry was read.
LEMMA AdvancedIs ==
  ASSUME TInv, ~damaged, pc = "rmRf"
  PROVE  /\ Framed(Advanced) /\ Advanced # << >> /\ Len(Advanced) = Len(stack)
         /\ \A i \in DOMAIN Advanced : Advanced[i].handle = stack[i].handle
         /\ Advanced[Len(stack)].handle = Top.handle
<1> DEFINE n == Len(stack)
           x == [Top EXCEPT !.pos = @ + 1]
<1>1. /\ n \in DOMAIN stack /\ n \in Nat \ {0} /\ Top = stack[n]
      /\ Top \in FrameType /\ Top.pos \in Nat \ {0} /\ Framed(stack)
  BY TopIs
<1>2. stack \in Seq(FrameType)
  BY <1>1 DEF Framed
<1>3. x \in FrameType /\ x.handle = Top.handle /\ x.pos \in Nat \ {0}
  BY <1>1 DEF FrameType
<1> HIDE DEF x
<1>4. Below \in Seq(FrameType) /\ Len(Below) = n - 1 /\ \A i \in 1 .. n - 1 : Below[i] = stack[i]
  BY <1>1, <1>2, BelowIs
<1>5. Advanced = Append(Below, x)
  BY DEF Advanced, x
<1>6. /\ Advanced \in Seq(FrameType) /\ Len(Advanced) = n /\ Advanced[n] = x
      /\ \A i \in 1 .. n - 1 : Advanced[i] = stack[i]
  BY <1>1, <1>3, <1>4, <1>5
<1>7. DOMAIN Advanced = 1 .. n /\ DOMAIN stack = 1 .. n /\ Advanced # << >>
  BY <1>1, <1>2, <1>6
<1>8. \A i \in 1 .. n : Advanced[i].handle = stack[i].handle /\ Advanced[i].pos \in Nat \ {0}
  <2>1. \A i \in 1 .. n : stack[i].pos \in Nat \ {0}
    BY <1>1, <1>7 DEF Framed
  <2>2. \A i \in 1 .. n : i = n \/ i \in 1 .. n - 1
    BY <1>1
  <2>3. QED
    BY <1>1, <1>3, <1>6, <2>1, <2>2
<1>9. Framed(Advanced)
  <2>1. /\ call.op = "rmRf" /\ stack[1].handle = hand[call.d] /\ (call.d = "root" => hand["h"] = Closed)
        /\ \A i \in 1 .. n :
             /\ IsDir(stack[i].handle) \/ (i = 1 /\ IsRoot(stack[i].handle))
             /\ i > 1 => stack[i].handle.slot[1] \in ClustersFrom(fat, stack[i - 1].handle.first)
    BY <1>1, <1>7 DEF Framed
  <2>2. 1 \in 1 .. n /\ \A i \in 1 .. n : i > 1 => i - 1 \in 1 .. n
    BY <1>1
  <2>3. QED
    BY <1>6, <1>7, <1>8, <2>1, <2>2 DEF Framed
<1>10. QED
  BY <1>1, <1>3, <1>6, <1>7, <1>8, <1>9

-----------------------------------------------------------------------------
(* Each step of rmDir and rmRfStar keeps the invariant. *)

\* Between calls the handles are in order and the locals gone.
LEMMA IdleState ==
  ASSUME TInv, ~damaged, pc = "idle"
  PROVE  /\ Loose = {} /\ Unzeroed = NoCluster /\ TypeInv /\ TreeOK(fat, dir, {}, NoCluster)
         /\ this = Closed /\ k = 1 /\ empty = NoSlot /\ stack = << >>
         /\ hand \in [{"root", "h"} -> HandleType]
         /\ IsRoot(hand["root"])
         /\ hand["h"] = Closed \/ FileHandle(hand["h"]) \/ IsDir(hand["h"])
<1>1. /\ Loose = {} /\ Unzeroed = NoCluster /\ TypeInv /\ TreeOK(fat, dir, {}, NoCluster)
      /\ HandInv /\ StackInv /\ PlaceInv
  BY Calm
<1>2. AtIdle /\ stack = << >>
  BY <1>1 DEF PlaceInv, StackInv, Removing, Marked
<1>3. /\ IsRoot(hand["root"])
      /\ hand["h"] = Closed \/ FileHandle(hand["h"]) \/ IsDir(hand["h"])
  BY <1>1 DEF HandInv, Marked
<1>4. QED
  BY <1>1, <1>2, <1>3 DEF AtIdle, TypeInv

\* rmDir begins its scan.
LEMMA RmDirCallKeeps ==
  ASSUME TInv, ~damaged, RmDirCall
  PROVE  TInv'
<1>1. /\ pc = "idle" /\ call' = [op |-> "rmDir", d |-> "h", name |-> NoName]
      /\ UNCHANGED <<fat, dir, card, held, hand, damaged, k, empty, stack>> /\ hand["h"].type = "dir"
      /\ this' = hand["h"] /\ pc' = "scan"
  BY DEF RmDirCall, Begin, storage
<1>2. /\ Loose = {} /\ Unzeroed = NoCluster /\ TypeInv /\ TreeOK(fat, dir, {}, NoCluster)
      /\ k = 1 /\ stack = << >> /\ hand \in [{"root", "h"} -> HandleType]
      /\ hand["h"] = Closed \/ FileHandle(hand["h"]) \/ IsDir(hand["h"])
  BY <1>1, IdleState
<1>3. IsDir(hand["h"])
  BY <1>1, <1>2 DEF Closed, FileHandle
<1>4. DirectoryHandle(fat, dir, {}, NoCluster, hand["h"]) /\ hand["h"].slot \in DirsOf(dir, {})
  BY <1>2, <1>3 DEF IsDir, DirectoryHandle, DirHandle
<1>5. At(dir, hand["h"].slot).first = hand["h"].first
  BY <1>3 DEF IsDir, DirHandle
<1>6. hand["h"].first # NoCluster
  BY <1>4, <1>5 DEF DirsOf, OwnersOf
<1>7. hand["h"].size \in 0 .. N /\ hand["h"].size >= 1
  BY <1>2, <1>4, <1>6, DirectoryIs
<1>8. Loose' = {} /\ Unzeroed' = NoCluster
  BY <1>1, LooseIs
<1>9. AtScan'
  <2>1. DirHandle(fat', dir', Loose', Unzeroed', this')
    BY <1>1, <1>2, <1>3, <1>8 DEF IsDir
  <2>2. k' \in 1 .. this'.size
    BY <1>1, <1>2, <1>7
  <2>3. 1 .. k' - 1 = {}
    BY <1>1, <1>2
  <2>4. QED
    BY <2>1, <2>2, <2>3 DEF AtScan, IsDir
<1>10. PlaceInv'
  BY <1>1, <1>9 DEF PlaceInv, Marked
<1>11. CallInv'
  BY <1>1 DEF CallInv, Removing, Marked
<1>12. StackInv'
  BY <1>1, <1>2 DEF StackInv
<1>13. TypeInv'
  <2>1. CardOK'
    BY <1>1, <1>2, CardFlushes
  <2>2. /\ this' \in HandleType /\ stack' \in Seq(FrameType) /\ k' \in 1 .. N + 1
        /\ empty' \in Slot \cup {NoSlot} /\ pc' \in Steps
    BY <1>1, <1>2 DEF TypeInv, Steps
  <2>3. UNCHANGED <<image, hand>>
    BY <1>1 DEF image
  <2>4. QED
    BY <1>2, <2>1, <2>2, <2>3, TypesOfCard
<1>14. UNCHANGED <<image, hand, damaged>>
  BY <1>1 DEF image
<1>15. QED
  BY <1>1, <1>2, <1>8, <1>10, <1>11, <1>12, <1>13, <1>14, Walks DEF Marked

\* A frame for a handle.
LEMMA FrameIs ==
  ASSUME NEW h \in HandleType
  PROVE  Frame(h) \in FrameType /\ Frame(h).handle = h /\ Frame(h).pos = 1
BY DEF Frame, FrameType

\* rmRfStar begins with the directory it is called on.
LEMMA RmRfCallKeeps ==
  ASSUME TInv, ~damaged, NEW d \in {"root", "h"}, RmRfCall(d)
  PROVE  TInv'
<1>1. /\ pc = "idle" /\ call' = [op |-> "rmRf", d |-> d, name |-> NoName]
      /\ UNCHANGED <<fat, dir, card, held, hand, damaged, k, empty, this>>
      /\ hand[d].type # "closed" /\ hand[d].type # "file" /\ (d = "root" => hand["h"] = Closed)
      /\ stack' = <<Frame(hand[d])>> /\ pc' = "rmRf"
  BY DEF RmRfCall, Begin, storage
<1>2. /\ Loose = {} /\ Unzeroed = NoCluster /\ TypeInv /\ TreeOK(fat, dir, {}, NoCluster)
      /\ k = 1 /\ hand \in [{"root", "h"} -> HandleType] /\ IsRoot(hand["root"])
      /\ hand["h"] = Closed \/ FileHandle(hand["h"]) \/ IsDir(hand["h"])
  BY <1>1, IdleState
<1>3. IsDir(hand[d]) \/ IsRoot(hand[d])
  BY <1>1, <1>2 DEF Closed, FileHandle
<1>4. Loose' = {} /\ Unzeroed' = NoCluster
  BY <1>1, LooseIs
<1>5. \A x : /\ IsDir(x) <=> DirHandle(fat', dir', Loose', Unzeroed', x)
             /\ IsRoot(x) <=> RootHandle(fat', Unzeroed', x)
  BY <1>1, <1>2, <1>4, SameHandles DEF image
<1>6. hand[d] \in HandleType
  BY <1>2
<1>7. /\ Frame(hand[d]) \in FrameType /\ Frame(hand[d]).handle = hand[d] /\ Frame(hand[d]).pos = 1
  BY <1>6, FrameIs
<1>8. /\ stack' \in Seq(FrameType) /\ Len(stack') = 1 /\ DOMAIN stack' = {1} /\ stack' # << >>
      /\ stack'[1].handle = hand[d] /\ stack'[1].pos = 1
  BY <1>1, <1>7
<1>9. \A i \in DOMAIN stack' :
        /\ stack'[i].pos \in Nat \ {0}
        /\ \/ DirHandle(fat', dir', Loose', Unzeroed', stack'[i].handle)
           \/ i = 1 /\ RootHandle(fat', Unzeroed', stack'[i].handle)
        /\ ~(i > 1)
  BY <1>3, <1>5, <1>8
<1>10. StackInv'
  BY <1>1, <1>2, <1>8, <1>9 DEF StackInv, Removing, Marked, IsDir, IsRoot
<1>11. PlaceInv'
  BY <1>1 DEF PlaceInv, Marked
<1>12. CallInv'
  BY <1>1 DEF CallInv, Removing, Marked
<1>13. TypeInv'
  <2>1. CardOK'
    BY <1>1, <1>2, CardFlushes
  <2>2. /\ this' \in HandleType /\ k' \in 1 .. N + 1
        /\ empty' \in Slot \cup {NoSlot} /\ pc' \in Steps
    BY <1>1, <1>2 DEF TypeInv, Steps
  <2>3. UNCHANGED <<image, hand>>
    BY <1>1 DEF image
  <2>4. QED
    BY <1>2, <1>8, <2>1, <2>2, <2>3, TypesOfCard
<1>14. UNCHANGED <<image, hand, damaged>>
  BY <1>1 DEF image
<1>15. QED
  BY <1>1, <1>2, <1>4, <1>10, <1>11, <1>12, <1>13, <1>14, Walks DEF Marked

\* rmRfStar skips deleted entries, . and .., labels and parts of long names.
LEMMA RmRfSkipsKeeps ==
  ASSUME TInv, ~damaged, RmRfSkips
  PROVE  TInv'
<1>1. /\ InTop /\ pc = "rmRf" /\ ReadsTop /\ stack' = Advanced /\ pc' = pc
      /\ UNCHANGED <<image, hand, call, damaged, this, k, empty>>
  BY DEF RmRfSkips, InTop, goesOn
<1>2. Loose = {} /\ Unzeroed = NoCluster /\ TypeInv
  BY <1>1, Calm
<1>3. Framed(Advanced) /\ Advanced # << >> /\ k = 1
  BY <1>1, AdvancedIs, TopIs
<1>4. Loose' = {} /\ Unzeroed' = NoCluster
  BY <1>1, LooseIs
<1>5. CardOK'
  BY <1>1, <1>2, CardReads DEF ReadsTop
<1>6. PlaceInv'
  BY <1>1 DEF PlaceInv, Marked
<1>7. TypeInv'
  <2>1. /\ this' \in HandleType /\ stack' \in Seq(FrameType) /\ k' \in 1 .. N + 1
        /\ empty' \in Slot \cup {NoSlot} /\ pc' \in Steps
    BY <1>1, <1>2, <1>3 DEF TypeInv, Framed
  <2>2. QED
    BY <1>1, <1>2, <1>5, <2>1, TypesOfCard
<1>8. k' = 1 /\ pc' = "rmRf"
  BY <1>1, <1>3
<1>9. QED
  BY <1>1, <1>3, <1>4, <1>6, <1>7, <1>8, WalkGoes

\* The root has no slot.
LEMMA NoSlotIsNone == NoSlot \notin Slot
BY MarksAreNoClusters DEF NoSlot, Slot

\* rmRfStar removes a file.
LEMMA RmRfFileKeeps ==
  ASSUME TInv, ~damaged, RmRfFile
  PROVE  TInv'
<1>1. /\ InTop /\ pc = "rmRf" /\ EntryAt(View, TopSlot).kind = "file" /\ ReadsTop
      /\ this' = Opened(TopSlot) /\ stack' = Advanced /\ pc' = Truncate(Opened(TopSlot))
      /\ UNCHANGED <<image, hand, call, damaged, k, empty>>
  BY DEF RmRfFile, InTop, goesOn
<1>2. Loose = {} /\ Unzeroed = NoCluster /\ TypeInv
  BY <1>1, Calm
<1>3. /\ Framed(Advanced) /\ Advanced # << >> /\ k = 1 /\ call.op = "rmRf"
  BY <1>1, AdvancedIs, TopIs
<1>4. TopSlot \in Slot /\ At(dir, TopSlot).kind = "file"
  BY <1>1, TopSlotIs
<1>5. /\ Loose' = {} /\ Unzeroed' = NoCluster /\ this' \in HandleType /\ this'.slot = TopSlot
      /\ pc' \in {"free", "delete"} /\ CallInv' /\ PlaceInv'
  BY <1>1, <1>2, <1>3, <1>4, RemoveBegins
<1>6. CardOK'
  BY <1>1, <1>2, CardReads DEF ReadsTop
<1>7. TypeInv'
  <2>1. /\ stack' \in Seq(FrameType) /\ k' \in 1 .. N + 1
        /\ empty' \in Slot \cup {NoSlot} /\ pc' \in Steps
    BY <1>1, <1>2, <1>3, <1>5 DEF TypeInv, Framed, Steps
  <2>2. QED
    BY <1>1, <1>2, <1>5, <1>6, <2>1, TypesOfCard
<1>8. ASSUME NEW i \in DOMAIN Advanced PROVE Advanced[i].handle.slot # this'.slot
  <2>1. CASE IsDir(Advanced[i].handle)
    <3>1. Advanced[i].handle.slot \in DirsOf(dir, {})
      BY <1>2, <2>1 DEF IsDir, DirHandle
    <3>2. At(dir, Advanced[i].handle.slot).kind = "dir"
      BY <3>1 DEF DirsOf
    <3>3. QED
      BY <1>4, <1>5, <3>2
  <2>2. CASE IsRoot(Advanced[i].handle)
    BY <1>4, <1>5, <2>2, NoSlotIsNone DEF IsRoot, RootHandle
  <2>3. QED
    BY <1>3, <2>1, <2>2 DEF Framed
<1>9. k' = 1
  BY <1>1, <1>3
<1>10. QED
  BY <1>1, <1>3, <1>5, <1>7, <1>8, <1>9, WalkGoes

\* rmRfStar enters a directory.
LEMMA RmRfDirKeeps ==
  ASSUME TInv, ~damaged, RmRfDir
  PROVE  TInv'
<1> DEFINE x == Opened(TopSlot)
           t == Append(Advanced, Frame(x))
           n == Len(stack)
<1>1. /\ InTop /\ pc = "rmRf" /\ EntryAt(View, TopSlot).kind = "dir" /\ Reads({TopSlot[1], FatBlock})
      /\ stack' = t /\ pc' = pc /\ UNCHANGED <<image, hand, call, damaged, this, k, empty>>
  BY DEF RmRfDir, InTop, goesOn
<1>2. Loose = {} /\ Unzeroed = NoCluster /\ TypeInv /\ Tree0(fat, dir)
  BY <1>1, Calm
<1>3. /\ Framed(Advanced) /\ Advanced # << >> /\ Len(Advanced) = n
      /\ Advanced[n].handle = Top.handle
  BY <1>1, AdvancedIs
<1>4. k = 1 /\ call.op = "rmRf" /\ n \in Nat \ {0}
  BY <1>1, TopIs
<1>5. /\ TopSlot \in Slot /\ At(dir, TopSlot).kind = "dir"
      /\ TopSlot[1] \in ClustersFrom(fat, Top.handle.first)
  BY <1>1, TopSlotIs
<1>6. Live(At(dir, TopSlot))
  BY <1>5 DEF Live
<1>7. x \in HandleType /\ x.slot = TopSlot /\ DirHandle(fat, dir, {}, NoCluster, x)
  BY <1>2, <1>5, <1>6, OpenedIs
<1>8. IsDir(x)
  BY <1>2, <1>7 DEF IsDir
<1> HIDE DEF x
<1>9. Frame(x) \in FrameType /\ Frame(x).handle = x /\ Frame(x).pos = 1
  BY <1>7, FrameIs
<1>10. Advanced \in Seq(FrameType) /\ DOMAIN Advanced = 1 .. n
  BY <1>3, <1>4 DEF Framed
<1>11. /\ t \in Seq(FrameType) /\ DOMAIN t = 1 .. n + 1 /\ t[n + 1] = Frame(x) /\ t # << >>
       /\ \A i \in 1 .. n : t[i] = Advanced[i]
  BY <1>3, <1>4, <1>9, <1>10
<1> HIDE DEF t, n
<1>12. Framed(t)
  <2>1. /\ call.op = "rmRf" /\ Advanced[1].handle = hand[call.d]
        /\ call.d = "root" => hand["h"] = Closed
        /\ \A i \in 1 .. n :
             /\ Advanced[i].pos \in Nat \ {0}
             /\ IsDir(Advanced[i].handle) \/ (i = 1 /\ IsRoot(Advanced[i].handle))
             /\ i > 1 => Advanced[i].handle.slot[1] \in ClustersFrom(fat, Advanced[i - 1].handle.first)
    BY <1>3, <1>10 DEF Framed
  <2>2. /\ 1 \in 1 .. n /\ \A i \in 1 .. n : i > 1 => i - 1 \in 1 .. n
        /\ n + 1 - 1 = n /\ n \in 1 .. n /\ \A i \in 1 .. n + 1 : i \in 1 .. n \/ i = n + 1
    BY <1>4
  <2>3. ASSUME NEW i \in 1 .. n
        PROVE  /\ t[i].pos \in Nat \ {0}
               /\ IsDir(t[i].handle) \/ (i = 1 /\ IsRoot(t[i].handle))
               /\ i > 1 => t[i].handle.slot[1] \in ClustersFrom(fat, t[i - 1].handle.first)
    BY <1>11, <2>1, <2>2
  <2>4. /\ t[n + 1].pos \in Nat \ {0} /\ IsDir(t[n + 1].handle)
        /\ t[n + 1].handle.slot[1] \in ClustersFrom(fat, t[n + 1 - 1].handle.first)
    BY <1>3, <1>5, <1>7, <1>8, <1>9, <1>11, <2>2
  <2>5. \A i \in DOMAIN t :
          /\ t[i].pos \in Nat \ {0}
          /\ IsDir(t[i].handle) \/ (i = 1 /\ IsRoot(t[i].handle))
          /\ i > 1 => t[i].handle.slot[1] \in ClustersFrom(fat, t[i - 1].handle.first)
    BY <1>11, <2>2, <2>3, <2>4
  <2>6. t[1].handle = hand[call.d]
    BY <1>11, <2>1, <2>2
  <2>7. QED
    BY <1>11, <2>1, <2>5, <2>6 DEF Framed
<1>13. Loose' = {} /\ Unzeroed' = NoCluster
  BY <1>1, LooseIs
<1>14. CardOK'
  BY <1>1, <1>2, CardReads
<1>15. PlaceInv'
  BY <1>1 DEF PlaceInv, Marked
<1>16. TypeInv'
  <2>1. /\ this' \in HandleType /\ stack' \in Seq(FrameType) /\ k' \in 1 .. N + 1
        /\ empty' \in Slot \cup {NoSlot} /\ pc' \in Steps
    BY <1>1, <1>2, <1>11 DEF TypeInv
  <2>2. QED
    BY <1>1, <1>2, <1>14, <2>1, TypesOfCard
<1>17. k' = 1 /\ pc' = "rmRf"
  BY <1>1, <1>4
<1>18. QED
  BY <1>1, <1>11, <1>12, <1>13, <1>15, <1>16, <1>17, WalkGoes

\* rmRfStar has read all of a directory: it scans it, or returns for the root.
LEMMA RmRfEndsKeeps ==
  ASSUME ~EmptyFiles, TInv, ~damaged, RmRfEnds
  PROVE  TInv'
<1>1. /\ pc = "rmRf" /\ UNCHANGED image
      /\ ReadsTop \/ UNCHANGED <<card, held>>
      /\ \/ Top.handle.type \in {"root16", "root32"} /\ Returns(TRUE, this) /\ damaged' = damaged
         \/ /\ Top.handle.type \notin {"root16", "root32"}
            /\ this' = Top.handle /\ stack' = Below /\ pc' = "scan"
            /\ UNCHANGED <<hand, call, damaged, k, empty>>
  BY DEF RmRfEnds, InTop, Return, goesOn
<1>2. Loose = {} /\ Unzeroed = NoCluster /\ TypeInv /\ TreeOK(fat, dir, {}, NoCluster)
  BY <1>1, Calm
<1>3. CardOK'
  BY <1>1, <1>2, CardReads, CardFlushes DEF ReadsTop
<1>4. /\ Len(stack) \in DOMAIN stack /\ Len(stack) \in Nat \ {0} /\ Top = stack[Len(stack)]
      /\ IsDir(Top.handle) \/ (Len(stack) = 1 /\ IsRoot(Top.handle))
      /\ Top.handle.size \in 1 .. N /\ Top.handle \in HandleType
      /\ call.op = "rmRf" /\ k = 1 /\ Framed(stack)
  BY <1>1, TopIs
<1>5. CASE Returns(TRUE, this) /\ damaged' = damaged
  <2>1. call.op # "open"
    BY <1>4
  <2>2. QED
    BY <1>1, <1>2, <1>3, <1>5, <2>1, Returned
<1>6. CASE /\ Top.handle.type \notin {"root16", "root32"}
           /\ this' = Top.handle /\ stack' = Below /\ pc' = "scan"
           /\ UNCHANGED <<hand, call, damaged, k, empty>>
  <2>1. IsDir(Top.handle)
    BY <1>4, <1>6 DEF IsRoot, RootHandle
  <2>2. Loose' = {} /\ Unzeroed' = NoCluster
    BY <1>6, LooseIs
  <2>3. stack \in Seq(FrameType)
    BY <1>4 DEF Framed
  <2>4. /\ Below \in Seq(FrameType) /\ Len(Below) = Len(stack) - 1
        /\ \A i \in 1 .. Len(stack) - 1 : Below[i] = stack[i]
    BY <1>4, <2>3, BelowIs
  <2>5. Framed(Below)
    <3>1. /\ stack[1].handle = hand[call.d] /\ (call.d = "root" => hand["h"] = Closed)
          /\ \A i \in DOMAIN stack :
               /\ stack[i].pos \in Nat \ {0}
               /\ IsDir(stack[i].handle) \/ (i = 1 /\ IsRoot(stack[i].handle))
               /\ i > 1 => stack[i].handle.slot[1] \in ClustersFrom(fat, stack[i - 1].handle.first)
      BY <1>4 DEF Framed
    <3>2. DOMAIN Below = 1 .. Len(stack) - 1 /\ DOMAIN stack = 1 .. Len(stack)
      BY <2>3, <2>4
    <3>3. \A i \in 1 .. Len(stack) - 1 : i \in 1 .. Len(stack) /\ (i > 1 => i - 1 \in 1 .. Len(stack) - 1)
      BY <1>4
    <3>4. Below # << >> => Below[1].handle = hand[call.d]
      <4>1. SUFFICES ASSUME Below # << >> PROVE 1 \in 1 .. Len(stack) - 1
        BY <2>4, <3>1
      <4>2. Len(Below) # 0
        BY <2>4, <4>1
      <4>3. QED
        BY <1>4, <2>4, <4>2
    <3>5. QED
      BY <1>4, <2>4, <3>1, <3>2, <3>3, <3>4 DEF Framed
  <2>6. Below # << >> => Top.handle.slot[1] \in ClustersFrom(fat, Below[Len(Below)].handle.first)
    <3>1. SUFFICES ASSUME Below # << >>
          PROVE  Top.handle.slot[1] \in ClustersFrom(fat, Below[Len(Below)].handle.first)
      OBVIOUS
    <3>2. Len(Below) # 0
      BY <2>4, <3>1
    <3>3. Len(stack) > 1 /\ Len(stack) - 1 \in 1 .. Len(stack) - 1
      BY <1>4, <2>4, <3>2
    <3>4. Top.handle.slot[1] \in ClustersFrom(fat, stack[Len(stack) - 1].handle.first)
      BY <1>4, <3>3 DEF Framed
    <3>5. QED
      BY <2>4, <3>3, <3>4
  <2>7. AtScan'
    <3>1. DirHandle(fat', dir', Loose', Unzeroed', this')
      BY <1>1, <1>2, <1>6, <2>1, <2>2 DEF IsDir, image
    <3>2. k' \in 1 .. this'.size
      BY <1>4, <1>6
    <3>3. 1 .. k' - 1 = {}
      BY <1>4, <1>6
    <3>4. QED
      BY <3>1, <3>2, <3>3 DEF AtScan, IsDir
  <2>8. PlaceInv'
    BY <1>6, <2>7 DEF PlaceInv, Marked
  <2>9. TypeInv'
    <3>1. /\ this' \in HandleType /\ stack' \in Seq(FrameType) /\ k' \in 1 .. N + 1
          /\ empty' \in Slot \cup {NoSlot} /\ pc' \in Steps
      BY <1>2, <1>4, <1>6, <2>4 DEF TypeInv, Steps
    <3>2. QED
      BY <1>1, <1>2, <1>3, <1>6, <3>1, TypesOfCard
  <2>10. stack' = Below /\ pc' = "scan" /\ UNCHANGED <<image, hand, call, damaged>>
    BY <1>1, <1>6
  <2>11. Below # << >> => this'.slot[1] \in ClustersFrom(fat, Below[Len(Below)].handle.first)
    BY <1>6, <2>6
  <2>12. QED
    BY <1>1, <2>2, <2>5, <2>8, <2>9, <2>10, <2>11, WalkGoes
<1>7. QED
  BY <1>1, <1>5, <1>6

\* The scan ended at a free entry or behind the last block: nothing is in use.
LEMMA EmptyDirectory ==
  ASSUME TInv, ~damaged, pc = "scan",
         IF ScanStops = {} THEN k = LastBlock ELSE ~Live(ScanBlock[Least(ScanStops)])
  PROVE  \A c \in ClustersFrom(fat, this.first), i \in Index : ~Live(dir[c][i])
<1> DEFINE entry(j, i) == Of(fat, dir, this.first, j, i)
           m == Least(ScanStops)
<1>1. /\ TreeOK(fat, dir, {}, NoCluster) /\ this.first \in HeadsOf(dir, {})
      /\ this.size = Len(Chain(fat, this.first)) /\ this.size = Counted(fat, NoCluster, this.first)
      /\ this.size \in 1 .. N /\ k \in 1 .. this.size /\ k \in Nat
      /\ \A i \in Index : ScanBlock[i] = entry(k, i)
      /\ \A j \in 1 .. k - 1, i \in Index : entry(j, i).kind # "free" /\ ~Live(entry(j, i))
  BY ScanState
<1>2. Sound(fat) /\ this.first \in Cluster /\ Begins(fat, this.first)
  BY <1>1, HeadsAre DEF TreeOK
<1>3. Ordered(fat, dir, NoCluster, this.first)
  BY <1>1 DEF TreeOK
<1>4. \A j, jj \in 1 .. this.size, i, ii \in Index :
        Before(j, i, jj, ii) /\ Live(entry(jj, ii)) => entry(j, i).kind # "free"
  BY <1>1, <1>3 DEF Ordered
<1>5. Index \in SUBSET Nat
  BY DirectoryAssumption DEF Index
<1>6. ScanStops \in SUBSET Nat /\ ScanStops \in SUBSET Index
  BY <1>5 DEF ScanStops
<1>7. ScanStops # {} =>
        /\ m \in Index /\ m \in Nat /\ m \in ScanStops /\ (\A i \in ScanStops : m <= i)
        /\ entry(k, m).kind = "free" /\ ~Live(entry(k, m))
  <2>1. SUFFICES ASSUME ScanStops # {}
        PROVE  /\ m \in Index /\ m \in Nat /\ m \in ScanStops /\ (\A i \in ScanStops : m <= i)
               /\ entry(k, m).kind = "free" /\ ~Live(entry(k, m))
    OBVIOUS
  <2>2. m \in ScanStops /\ \A i \in ScanStops : m <= i
    BY <1>6, <2>1, LeastIs
  <2>3. ~Live(ScanBlock[m])
    BY <2>1
  <2>4. ScanBlock[m].kind = "free" /\ m \in Index
    BY <2>2, <2>3 DEF ScanStops
  <2> HIDE DEF m
  <2>5. QED
    BY <1>1, <1>5, <2>2, <2>3, <2>4
<1> HIDE DEF m
<1>8. \A i \in Index : i \notin ScanStops => ~Live(entry(k, i))
  BY <1>1 DEF ScanStops
<1>9. ASSUME NEW j \in 1 .. this.size, NEW i \in Index PROVE ~Live(entry(j, i))
  <2>1. j \in Nat /\ i \in Nat
    BY <1>5
  <2>2. CASE j < k
    <3>1. j \in 1 .. k - 1
      BY <1>1, <2>1, <2>2
    <3>2. QED
      BY <1>1, <3>1
  <2>3. CASE j = k
    <3>1. CASE i \notin ScanStops
      BY <1>8, <2>3, <3>1
    <3>2. CASE i \in ScanStops
      <4>1. m <= i /\ m \in Index /\ m \in Nat /\ entry(k, m).kind = "free" /\ ~Live(entry(k, m))
        BY <1>7, <3>2
      <4>2. CASE i = m
        BY <2>3, <4>1, <4>2
      <4>3. CASE i # m
        <5>1. Before(k, m, j, i)
          BY <2>1, <2>3, <4>1, <4>3 DEF Before
        <5>2. QED
          BY <1>1, <1>4, <4>1, <5>1
      <4>4. QED
        BY <4>2, <4>3
    <3>3. QED
      BY <3>1, <3>2
  <2>4. CASE j > k
    <3>1. ScanStops # {}
      BY <1>1, <2>1, <2>4 DEF LastBlock
    <3>2. m \in Index /\ entry(k, m).kind = "free"
      BY <1>7, <3>1
    <3>3. Before(k, m, j, i)
      BY <1>1, <2>1, <2>4 DEF Before
    <3>4. QED
      BY <1>1, <1>4, <3>2, <3>3
  <2>5. QED
    BY <1>1, <2>1, <2>2, <2>3, <2>4
<1>10. ASSUME NEW c \in ClustersFrom(fat, this.first), NEW i \in Index PROVE ~Live(dir[c][i])
  <2>1. PICK j \in 1 .. Len(Chain(fat, this.first)) : c = Chain(fat, this.first)[j]
    BY <1>2, ClusterPlace
  <2>2. entry(j, i) = dir[c][i]
    BY <2>1 DEF Of
  <2>3. QED
    BY <1>1, <1>9, <2>1, <2>2
<1>11. QED
  BY <1>10

\* The scan found nothing in use: the directory is removed as a file.
LEMMA ScanEndsKeeps ==
  ASSUME TInv, ~damaged, ScanEnds
  PROVE  TInv'
<1>1. /\ pc = "scan" /\ ReadsScanned /\ this' = [this EXCEPT !.type = "file"] /\ k' = 1
      /\ IF ScanStops = {} THEN k = LastBlock ELSE ~Live(ScanBlock[Least(ScanStops)])
      /\ pc' = Truncate(this) /\ UNCHANGED <<image, hand, call, damaged, empty, stack>>
  BY DEF ScanEnds, goesOn
<1>2. /\ Loose = {} /\ Unzeroed = NoCluster /\ TypeInv /\ CallInv /\ StackInv
      /\ TreeOK(fat, dir, {}, NoCluster)
      /\ this.slot \in DirsOf(dir, {}) /\ At(dir, this.slot).first = this.first
      /\ this.size \in 1 .. N
  BY <1>1, ScanState
<1>3. \A c \in ClustersFrom(fat, this.first), i \in Index : ~Live(dir[c][i])
  BY <1>1, EmptyDirectory
<1>4. pc' = "free"
  BY <1>1, <1>2 DEF Truncate
<1>5. Loose' = {} /\ Unzeroed' = NoCluster
  BY <1>4, LooseIs
<1>6. this' \in HandleType /\ this'.slot = this.slot /\ this'.first = this.first
  <2>1. this \in HandleType
    BY <1>2 DEF TypeInv
  <2>2. QED
    BY <1>1, <2>1 DEF HandleType
<1>7. CardOK'
  BY <1>1, <1>2, CardReads DEF ReadsScanned
<1>8. fat' = fat /\ dir' = dir /\ call' = call
  BY <1>1 DEF image
<1>9. AtFree'
  <2>1. this.slot \in OwnersOf(dir, {})
    BY <1>2 DEF DirsOf
  <2>2. call.op \in {"rmDir", "rmRf"}
    BY <1>1, <1>2 DEF CallInv
  <2>3. this'.slot \in OwnersOf(dir', Loose') /\ At(dir', this'.slot).first = this'.first
    BY <1>2, <1>5, <1>6, <1>8, <2>1
  <2>4. \A c \in ClustersFrom(fat', this'.first), i \in Index : ~Live(dir'[c][i])
    BY <1>3, <1>6, <1>8
  <2>5. QED
    BY <1>8, <2>2, <2>3, <2>4 DEF AtFree
<1>10. PlaceInv'
  BY <1>4, <1>9 DEF PlaceInv, Marked
<1>11. TypeInv'
  <2>1. stack' \in Seq(FrameType) /\ k' \in 1 .. N + 1 /\ empty' \in Slot \cup {NoSlot} /\ pc' \in Steps
    BY <1>1, <1>2, <1>4, ClustersAreFinite DEF TypeInv, Steps
  <2>2. QED
    BY <1>1, <1>2, <1>6, <1>7, <2>1, TypesOfCard
<1>12. Framed(stack)
  BY <1>1, StackFramed
<1>13. ASSUME NEW i \in DOMAIN stack, stack[i].handle.slot = this.slot PROVE FALSE
  <2>1. stack \in Seq(FrameType)
    BY <1>12 DEF Framed
  <2>2. i \in 1 .. Len(stack) /\ Len(stack) \in Nat /\ stack # << >>
    BY <2>1
  <2>3. \A j \in DOMAIN stack : IsDir(stack[j].handle) \/ (j = 1 /\ IsRoot(stack[j].handle))
    BY <1>12 DEF Framed
  <2>4. this.slot \in Slot /\ Live(At(dir, this.slot))
    BY <1>2 DEF DirsOf, OwnersOf
  <2>5. IsDir(stack[i].handle)
    BY <1>13, <2>3, <2>4, NoSlotIsNone DEF IsRoot, RootHandle
  <2>6. stack[i].handle.first = this.first
    BY <1>2, <1>13, <2>5 DEF IsDir, DirHandle
  <2>7. CASE i = Len(stack)
    <3>1. this.slot[1] \in ClustersFrom(fat, this.first)
      BY <1>1, <1>2, <2>2, <2>6, <2>7 DEF StackInv, Top
    <3>2. this.slot[2] \in Index
      BY <2>4 DEF Slot
    <3>3. QED
      BY <1>3, <2>4, <3>1, <3>2 DEF At
  <2>8. CASE i # Len(stack)
    <3> DEFINE s == stack[i + 1].handle.slot
    <3>1. i + 1 \in DOMAIN stack /\ i + 1 > 1 /\ i + 1 - 1 = i /\ i + 1 # 1
      BY <2>1, <2>2, <2>8
    <3>2. s[1] \in ClustersFrom(fat, stack[i + 1 - 1].handle.first)
      BY <1>12, <3>1 DEF Framed
    <3>3. s[1] \in ClustersFrom(fat, this.first)
      BY <2>6, <3>1, <3>2
    <3>4. IsDir(stack[i + 1].handle)
      BY <2>3, <3>1
    <3>5. s \in Slot /\ Live(At(dir, s))
      BY <1>2, <3>4 DEF IsDir, DirHandle, DirsOf, OwnersOf
    <3>6. s[2] \in Index
      BY <3>5 DEF Slot
    <3>7. QED
      BY <1>3, <3>3, <3>5, <3>6 DEF At
  <2>9. QED
    BY <2>7, <2>8
<1>14. \A i \in DOMAIN stack : stack[i].handle.slot # this'.slot
  BY <1>6, <1>13
<1>15. stack' = stack
  BY <1>1
<1>16. QED
  BY <1>1, <1>4, <1>5, <1>10, <1>11, <1>12, <1>14, <1>15, WalkGoes

-----------------------------------------------------------------------------
(* Calls begin, accesses are refused, files are written. *)

\* open, makeDir or remove begins its search.
LEMMA OpenCallKeeps ==
  ASSUME TInv, ~damaged, NEW op \in {"open", "create", "mkdir", "remove"},
         NEW d \in {"root", "h"}, NEW n \in Name, OpenCall(op, d, n)
  PROVE  TInv'
<1>1. /\ pc = "idle" /\ call' = [op |-> op, d |-> d, name |-> n] /\ hand[d].type # "closed"
      /\ UNCHANGED <<fat, dir, card, held, hand, damaged, this, k, empty, stack>> /\ pc' = "search"
  BY DEF OpenCall, Begin, storage, locals
<1>2. /\ Loose = {} /\ Unzeroed = NoCluster /\ TypeInv /\ TreeOK(fat, dir, {}, NoCluster)
      /\ this = Closed /\ k = 1 /\ empty = NoSlot /\ stack = << >> /\ IsRoot(hand["root"])
      /\ hand["h"] = Closed \/ FileHandle(hand["h"]) \/ IsDir(hand["h"])
  BY <1>1, IdleState
<1>3. FileHandle(hand[d]) \/ IsDirectory(hand[d])
  BY <1>1, <1>2 DEF Closed, IsDir, IsRoot, IsDirectory, DirectoryHandle
<1>4. hand[d].size \in Nat
  <2>1. IsDirectory(hand[d]) => hand[d].size \in 0 .. N
    BY <1>2, DirectoryIs DEF IsDirectory
  <2>2. QED
    BY <1>3, <2>1, ClustersAreFinite DEF FileHandle
<1>5. Loose' = {} /\ Unzeroed' = NoCluster
  BY <1>1, LooseIs
<1>6. dirFile' = hand[d]
  BY <1>1 DEF dirFile
<1>7. AtSearch'
  <2>1. FileHandle(dirFile') \/ IsDirectory(dirFile)'
    BY <1>1, <1>2, <1>3, <1>5, <1>6 DEF IsDirectory
  <2>2. PICK m \in Nat : m = 0
    OBVIOUS
  <2>3. 1 .. m = {} /\ m = k' - 1
    BY <1>1, <1>2, <2>2
  <2>4. Scanned(m)'
    BY <2>3 DEF Scanned
  <2>5. Scanned(k - 1)'
    BY <2>3, <2>4
  <2>6. k' \in 1 .. dirFile'.size + 1 /\ k' = 1 /\ this' = Closed /\ empty' = NoSlot
    BY <1>1, <1>2, <1>4, <1>6
  <2>7. QED
    BY <2>1, <2>5, <2>6 DEF AtSearch
<1>8. PlaceInv'
  BY <1>1, <1>7 DEF PlaceInv, Marked
<1>9. CallInv'
  BY <1>1 DEF CallInv, Removing, Marked
<1>10. TypeInv'
  <2>1. CardOK'
    BY <1>1, <1>2, CardFlushes
  <2>2. /\ this' \in HandleType /\ stack' \in Seq(FrameType) /\ k' \in 1 .. N + 1
        /\ empty' \in Slot \cup {NoSlot} /\ pc' \in Steps
    BY <1>1, <1>2 DEF TypeInv, Steps
  <2>3. UNCHANGED <<image, hand>>
    BY <1>1 DEF image
  <2>4. QED
    BY <1>2, <2>1, <2>2, <2>3, TypesOfCard
<1>11. UNCHANGED <<image, hand, stack, damaged>>
  BY <1>1 DEF image
<1>12. QED
  BY <1>1, <1>5, <1>8, <1>9, <1>10, <1>11, QuietGoes DEF Removing, Marked

\* A file is written through SpiSdFile.
LEMMA FileIsWrittenKeeps ==
  ASSUME TInv, NEW s \in LiveSlots(View), NEW c \in Other, FileIsWritten(s, c)
  PROVE  TInv'
<1>1. /\ pc = "idle" /\ ~damaged
      /\ EntryAt(View, s).kind = "file"
      /\ IF EntryAt(View, s).first = NoCluster THEN fat[c] = Free ELSE c = EntryAt(View, s).first
      /\ fat' = Appended(NoCluster, c)
      /\ dir' = [dir EXCEPT ![c] = Data, ![s[1]][s[2]].first = c, ![s[1]][s[2]].size = 1]
      /\ card' = View' /\ held' = NoBlock
      /\ UNCHANGED <<hand, this, k, empty, stack, pc, call, damaged>>
  BY DEF FileIsWritten, locals
<1>2. /\ Loose = {} /\ Unzeroed = NoCluster /\ TypeInv /\ TreeOK(fat, dir, {}, NoCluster)
      /\ this = Closed /\ k = 1 /\ empty = NoSlot /\ stack = << >>
  BY <1>1, IdleState
<1>3. Tree0(fat, dir) /\ View = View0(fat, dir) /\ CallInv
  BY <1>1, IdleTree, Calm
<1>4. /\ s \in Slot /\ s[1] \in Space(fat, dir, {}, NoCluster)
      /\ EntryAt(View, s) = At(dir, s)
  BY <1>3, LiveSlotsAre
<1>5. fat' = AppendedTo(fat, NoCluster, c)
  BY <1>1 DEF Appended, AppendedTo
<1>6. dir' = Written(dir, s, c)
  BY <1>1 DEF Written
<1>7. At(dir, s).kind = "file"
      /\ (IF At(dir, s).first = NoCluster THEN fat[c] = Free ELSE c = At(dir, s).first)
  BY <1>1, <1>4
<1>8. /\ Tree0(fat', dir') /\ Stays(fat, dir, {}, NoCluster, fat', dir', {}, NoCluster, {})
  BY <1>3, <1>4, <1>5, <1>6, <1>7, TreeGetsFile DEF Writes
<1>9. Loose' = {} /\ Unzeroed' = NoCluster
  BY <1>1, LooseIs
<1>10. TreeOK(fat', dir', Loose', Unzeroed')
  BY <1>8, <1>9 DEF Tree0
<1>11. Stays(fat, dir, Loose, Unzeroed, fat', dir', Loose', Unzeroed', {})
  BY <1>2, <1>8, <1>9
<1>12. PlaceInv'
  BY <1>1, <1>2 DEF PlaceInv, Marked, AtIdle
<1>13. CallInv'
  BY <1>1, <1>3 DEF CallInv, Removing, Marked
<1>14. fat' \in FatType /\ dir' \in Contents
  BY <1>10, TreeTypes
<1>15. TypeInv'
  <2>1. CardOK'
    BY <1>1, <1>14 DEF CardOK, View
  <2>2. /\ hand' \in [{"root", "h"} -> HandleType] /\ this' \in HandleType /\ stack' \in Seq(FrameType)
        /\ k' \in 1 .. N + 1 /\ empty' \in Slot \cup {NoSlot} /\ pc' \in Steps
    BY <1>1, <1>2 DEF TypeInv, Steps
  <2>3. QED
    BY <1>14, <2>1, <2>2, TypesNext
<1>16. QED
  BY <1>1, <1>10, <1>11, <1>12, <1>13, <1>15, Goes DEF Removing, Marked

\* The application closes its handle, also on a volume given up.
LEMMA CloseKeeps ==
  ASSUME TInv, Close
  PROVE  TInv'
<1>1. /\ pc = "idle" /\ Flushes /\ hand' = [hand EXCEPT !["h"] = Closed]
      /\ UNCHANGED <<fat, dir, this, k, empty, stack, pc, call, damaged>>
  BY DEF Close, image, locals
<1>2. TypeInv
  BY DEF TInv
<1>3. CardOK'
  BY <1>1, <1>2, CardFlushes
<1>4. /\ hand' \in [{"root", "h"} -> HandleType] /\ hand'["h"] = Closed /\ hand'["root"] = hand["root"]
  BY <1>1, <1>2, ClosedType DEF TypeInv
<1>5. TypeInv'
  <2>1. /\ fat' \in FatType /\ dir' \in Contents /\ this' \in HandleType /\ stack' \in Seq(FrameType)
        /\ k' \in 1 .. N + 1 /\ empty' \in Slot \cup {NoSlot} /\ pc' \in Steps
    BY <1>1, <1>2 DEF TypeInv
  <2>2. QED
    BY <1>3, <1>4, <2>1, TypesNext
<1>6. damaged' => pc' = "idle" /\ stack' = << >> /\ AtIdle'
  BY <1>1 DEF TInv, AtIdle
<1>7. ASSUME ~damaged PROVE TreeInv'
  <2>1. /\ Loose = {} /\ Unzeroed = NoCluster /\ TreeOK(fat, dir, {}, NoCluster)
        /\ this = Closed /\ k = 1 /\ empty = NoSlot /\ stack = << >> /\ IsRoot(hand["root"])
    BY <1>1, <1>7, IdleState
  <2>2. CallInv
    BY <1>1, <1>7, Calm
  <2>3. Loose' = {} /\ Unzeroed' = NoCluster
    BY <1>1, LooseIs
  <2>4. TreeOK(fat', dir', Loose', Unzeroed')
    BY <1>1, <2>1, <2>3
  <2>5. HandInv'
    BY <1>1, <1>4, <2>1, <2>3 DEF HandInv, IsRoot
  <2>6. StackInv'
    BY <1>1, <2>1 DEF StackInv
  <2>7. CallInv'
    BY <1>1, <2>2 DEF CallInv, Removing, Marked
  <2>8. PlaceInv'
    BY <1>1, <2>1 DEF PlaceInv, Marked, AtIdle
  <2>9. QED
    BY <2>4, <2>5, <2>6, <2>7, <2>8 DEF TreeInv
<1>8. QED
  BY <1>1, <1>5, <1>6, <1>7 DEF TInv

\* Blocks are accessed in calls only.
LEMMA AccessesInCalls == Accesses => pc # "idle"
BY Zenon DEF Accesses

\* An access is refused: what it left in disorder is given up.
LEMMA FailsKeeps ==
  ASSUME ~EmptyFiles, TInv, Fails
  PROVE  TInv'
<1>1. /\ Accesses /\ card' \in {card, Stored(held)} /\ held' = held
      /\ IF pc = "free" THEN damaged' \in BOOLEAN ELSE damaged' = LeavesDamage
      /\ Returns(FALSE, this) /\ UNCHANGED image
  BY DEF Fails
<1>2. ~damaged /\ TypeInv
  BY <1>1, AccessesInCalls DEF TInv
<1>3. CardOK'
  <2>1. held \in Cluster \cup {FatBlock, NoBlock} /\ card \in [fat : FatType, dir : Contents]
    BY <1>2 DEF TypeInv
  <2>2. Stored(held) \in [fat : FatType, dir : Contents]
    BY <1>2, <2>1, StoredType
  <2>3. QED
    BY <1>1, <2>1, <2>2 DEF CardOK
<1>4. ASSUME ~damaged' PROVE Loose = {} /\ Unzeroed = NoCluster
  <2>1. CASE pc = "free"
    BY <2>1, LooseIs
  <2>2. CASE pc # "free"
    <3>1. ~LeavesDamage
      BY <1>1, <1>4, <2>2
    <3>2. thisEntry = At(dir, this.slot)
      BY DEF thisEntry, EntryAt, View, At
    <3>3. QED
      BY <3>1, <3>2 DEF LeavesDamage, Loose, Unzeroed
  <2>3. QED
    BY <2>1, <2>2
<1>5. QED
  BY <1>1, <1>2, <1>3, <1>4, Returned

-----------------------------------------------------------------------------
(* The invariant and what follows. *)

\* The chain of the root of a volume as it is mounted.
LEMMA RootChain ==
  ASSUME NEW f \in FatType, NEW R \in Seq(Cluster), R[1] = Root,
         R = <<Root>> \/ \E c \in Other : R = <<Root, c>>,
         f = [c \in Cluster |->
               IF \A j \in DOMAIN R : R[j] # c THEN Free ELSE IF c = R[Len(R)] THEN EOC ELSE R[2]]
  PROVE  Sound(f) /\ Begins(f, Root) /\ Chain(f, Root) = R /\ Len(R) \in 1 .. N
<1>1. Root \in Cluster /\ Root \notin Other
  BY DirectoryAssumption DEF Cluster
<1>2. Len(R) \in {1, 2} /\ DOMAIN R = 1 .. Len(R) /\ (Len(R) = 2 => R[2] \in Other /\ R[2] # Root)
  BY <1>1
<1>3. \A x \in Cluster : f[x] \in Cluster => x = Root /\ Len(R) = 2 /\ f[x] = R[2]
  BY <1>1, <1>2, MarksAreNoClusters
<1>4. f[R[Len(R)]] = EOC /\ (Len(R) = 2 => f[Root] = R[2])
  <2>1. CASE R = <<Root>>
    <3>1. Len(R) = 1 /\ R[1] = Root /\ DOMAIN R = {1}
      BY <2>1
    <3>2. QED
      BY <1>1, <3>1
  <2>2. CASE \E c \in Other : R = <<Root, c>>
    <3>1. PICK c \in Other : R = <<Root, c>>
      BY <2>2
    <3>2. Len(R) = 2 /\ R[1] = Root /\ R[2] = c /\ 1 \in DOMAIN R /\ 2 \in DOMAIN R
      BY <3>1
    <3>3. c \in Cluster /\ c # Root
      BY <1>1 DEF Cluster
    <3>4. QED
      BY <1>1, <3>2, <3>3
  <2>3. QED
    BY <2>1, <2>2
<1>5. Sound(f)
  <2>1. Apart(f)
    BY <1>3 DEF Apart
  <2>2. Taken(f)
    BY <1>2, <1>3, <1>4, MarksAreNoClusters DEF Taken
  <2>3. QED
    BY <2>1, <2>2 DEF Sound
<1>6. Begins(f, Root)
  <2>1. f[Root] # Free
    BY <1>1, <1>2, <1>4, MarksAreNoClusters DEF Cluster
  <2>2. \A x \in Cluster : f[x] # Root
    BY <1>1, <1>2, <1>3
  <2>3. QED
    BY <2>1, <2>2 DEF Begins
<1>7. Linked(f, R)
  BY <1>2, <1>4 DEF Linked
<1>8. Len(R) <= N
  BY <1>5, <1>6, <1>7, LinksBounded DEF Sound, Begins
<1>9. Chain(f, Root) = R
  BY <1>4, <1>7, <1>8, MarksAreNoClusters, ChainOf
<1>10. QED
  BY <1>2, <1>5, <1>6, <1>8, <1>9, ClustersAreFinite

\* The tree of a volume as it is mounted has no entry in use.
LEMMA RootTree ==
  ASSUME NEW f, Sound(f), Begins(f, Root), NEW R \in Seq(Cluster), NEW full \in BOOLEAN,
         NEW label \in Name \cup {NoName},
         NEW r, r = R, Chain(f, Root) = R, NEW d, d = RootImage(r, full, label)
  PROVE  TreeOK(f, d, {}, NoCluster) /\ d \in Contents
<1> DEFINE inRoot(c) == \E j \in DOMAIN R : R[j] = c
           e(c, i) == IF inRoot(c)
                        THEN IF ~full \/ <<c, i>> = <<R[Len(R)], PerCluster>> THEN Unnamed("free")
                             ELSE Label(IF <<c, i>> = <<Root, 1>> THEN label ELSE NoName)
                        ELSE Unnamed("file")
<1>1. /\ d = [c \in Cluster |-> [i \in Index |-> e(c, i)]]
  BY DEF RootImage, Data
<1>2. /\ \A kind \in {"free", "file"} :
           /\ Unnamed(kind) \in AnyEntry /\ Unnamed(kind).kind = kind
           /\ Unnamed(kind).first = NoCluster /\ Unnamed(kind).size = 0
      /\ \A n \in Name \cup {NoName} :
           Label(n) \in AnyEntry /\ Label(n).kind = "other" /\ Label(n).first = NoCluster /\ Label(n).size = 0
  BY DEF Unnamed, Label, Entry, AnyEntry
<1>3. \A c \in Cluster, i \in Index :
        \/ d[c][i] = Unnamed("free") \/ (d[c][i] = Unnamed("file") /\ ~inRoot(c))
        \/ \E n \in Name \cup {NoName} : d[c][i] = Label(n)
  BY <1>1
<1>4. \A c \in Cluster, i \in Index :
        /\ d[c][i] \in AnyEntry /\ d[c][i].first = NoCluster /\ d[c][i].size = 0
        /\ d[c][i].kind \in {"free", "other", "file"} /\ (d[c][i].kind = "file" => ~inRoot(c))
  BY <1>2, <1>3
<1>5. d \in Contents
  BY <1>1, <1>4 DEF Contents
<1> HIDE DEF e, inRoot
<1>6. \A s \in Slot : s[1] \in Cluster /\ s[2] \in Index
  BY DEF Slot
<1>7. \A s \in Slot : /\ At(d, s).kind \in {"free", "other", "file"} /\ At(d, s).first = NoCluster
                      /\ At(d, s).size = 0
  BY <1>4, <1>6 DEF At
<1>8. OwnersOf(d, {}) = {}
  BY <1>7 DEF OwnersOf
<1>9. DirsOf(d, {}) = {} /\ HeadsOf(d, {}) = {Root}
  BY <1>8 DEF DirsOf, HeadsOf
<1>10. EntriesAreSound(d, {})
  BY <1>5, <1>7 DEF EntriesAreSound
<1>11. Counted(f, NoCluster, Root) = Len(R)
  <2>1. Root # NoCluster
    BY MarksAreNoClusters DEF Cluster
  <2>2. QED
    BY <2>1 DEF Counted
<1>12. \A j \in 1 .. Len(R), i \in Index : ~Live(Of(f, d, Root, j, i))
  <2>1. SUFFICES ASSUME NEW j \in 1 .. Len(R), NEW i \in Index PROVE ~Live(d[R[j]][i])
    BY DEF Of
  <2>2. R[j] \in Cluster /\ inRoot(R[j])
    BY DEF inRoot
  <2>3. QED
    BY <1>4, <2>2 DEF Live
<1>13. Ordered(f, d, NoCluster, Root)
  BY <1>11, <1>12 DEF Ordered
<1>14. QED
  BY <1>5, <1>8, <1>9, <1>10, <1>13 DEF TreeOK, OwnersAreHeads

\* A mounted volume is in order.
LEMMA InitTInv == Init => TInv
<1>1. SUFFICES ASSUME Init PROVE TInv
  OBVIOUS
<1>2. PICK r \in {Root16} \cup Roots32, full \in BOOLEAN, label \in Name \cup {NoName} :
        /\ fat = [c \in Cluster |->
                   IF \A j \in DOMAIN r.clusters : r.clusters[j] # c THEN Free
                   ELSE IF c = r.clusters[Len(r.clusters)] THEN EOC ELSE r.clusters[2]]
        /\ dir = RootImage(r.clusters, full, label)
        /\ hand = [d \in {"root", "h"} |->
                    IF d = "h" THEN Closed
                    ELSE [Closed EXCEPT !.type = r.type, !.first = Root, !.size = Len(r.clusters)]]
  BY <1>1 DEF Init
<1>3. /\ card = View /\ held = NoBlock /\ this = Closed /\ k = 1 /\ empty = NoSlot
      /\ stack = << >> /\ pc = "idle" /\ call = NoCall /\ ~damaged
  BY <1>1 DEF Init
<1> DEFINE R == r.clusters
<1>4. R = <<Root>> \/ \E c \in Other : R = <<Root, c>>
  BY DEF Root16, Roots32
<1>5. r.type \in {"root16", "root32"}
  BY DEF Root16, Roots32
<1> HIDE DEF R
<1>6. /\ R \in Seq(Cluster) /\ R[1] = Root /\ Len(R) \in {1, 2}
      /\ Len(R) = 2 => R[2] \in Cluster
  <2>1. CASE R = <<Root>>
    BY <2>1 DEF Cluster
  <2>2. CASE \E c \in Other : R = <<Root, c>>
    <3>1. PICK c \in Other : R = <<Root, c>>
      BY <2>2
    <3>2. Root \in Cluster /\ c \in Cluster
      BY DEF Cluster
    <3>3. QED
      BY <3>1, <3>2
  <2>3. QED
    BY <1>4, <2>1, <2>2
<1>7. fat \in FatType
  <2>1. Len(R) = 2 => R[2] \in Cluster
    BY <1>6
  <2>2. \A c \in Cluster : (\E j \in DOMAIN R : R[j] = c) /\ c # R[Len(R)] => Len(R) = 2
    BY <1>6
  <2>3. fat = [c \in Cluster |-> IF \A j \in DOMAIN R : R[j] # c THEN Free
                                 ELSE IF c = R[Len(R)] THEN EOC ELSE R[2]]
    BY <1>2 DEF R
  <2>4. \A c \in Cluster : (IF \A j \in DOMAIN R : R[j] # c THEN Free
                            ELSE IF c = R[Len(R)] THEN EOC ELSE R[2]) \in Cluster \cup {EOC, Free}
    BY <2>1, <2>2
  <2>5. QED
    BY <2>3, <2>4 DEF FatType
<1>8. Sound(fat) /\ Begins(fat, Root) /\ Chain(fat, Root) = R /\ Len(R) \in 1 .. N
  BY <1>2, <1>4, <1>6, <1>7, RootChain DEF R
<1>9. TreeOK(fat, dir, {}, NoCluster) /\ dir \in Contents
  BY <1>2, <1>6, <1>8, RootTree DEF R
<1>10. Loose = {} /\ Unzeroed = NoCluster
  BY <1>3, LooseIs
<1>11. /\ hand["h"] = Closed /\ hand["root"].type = r.type /\ hand["root"].first = Root
       /\ hand["root"].size = Len(R) /\ hand["root"].slot = NoSlot
       /\ hand \in [{"root", "h"} -> HandleType]
  <2>1. hand["h"] = Closed
    BY <1>2
  <2>2. hand["root"] = [type |-> r.type, first |-> Root, size |-> Len(R), slot |-> NoSlot]
    BY <1>2 DEF Closed, R
  <2>3. Root \in Cluster /\ Len(R) \in 0 .. N
    BY <1>8, ClustersAreFinite DEF Cluster
  <2>4. hand["root"] \in HandleType
    BY <1>5, <2>2, <2>3 DEF HandleType
  <2>5. hand = [d \in {"root", "h"} |-> hand[d]]
    BY <1>2
  <2>6. QED
    BY <2>1, <2>2, <2>4, <2>5, ClosedType
<1>12. RootHandle(fat, NoCluster, hand["root"])
  <2>1. Counted(fat, NoCluster, Root) = Len(R)
    BY <1>8, MarksAreNoClusters DEF Counted, Cluster
  <2>2. QED
    BY <1>5, <1>11, <2>1 DEF RootHandle
<1>13. HandInv
  BY <1>10, <1>11, <1>12 DEF HandInv, IsRoot
<1>14. StackInv /\ CallInv /\ PlaceInv /\ AtIdle
  BY <1>3, IdlePlace
<1>15. TypeInv
  <2>1. card \in [fat : FatType, dir : Contents]
    BY <1>3, <1>7, <1>9 DEF View
  <2>2. this \in HandleType /\ stack \in Seq(FrameType) /\ k \in 1 .. N + 1 /\ pc \in Steps
    BY <1>3, ClosedType, ClustersAreFinite DEF Steps
  <2>3. QED
    BY <1>3, <1>7, <1>9, <1>11, <2>1, <2>2 DEF TypeInv
<1>16. QED
  BY <1>3, <1>9, <1>10, <1>13, <1>14, <1>15 DEF TInv, TreeInv

\* Every step of a call keeps the tree in order.
LEMMA StepTInv ==
  ASSUME ~EmptyFiles, TInv, Step
  PROVE  TInv'
<1>1. ~damaged
  <2>1. SUFFICES ASSUME damaged PROVE FALSE
    OBVIOUS
  <2>2. pc = "idle"
    BY <2>1 DEF TInv
  <2>3. QED
    BY <2>2, Zenon DEF Step, SearchNext, SearchFinds, SearchEnds, SearchFails, NoSpace, Searching, Grow, Own,
       Zero, Fill, FillFlush, OwnZero, OwnSync, OwnFlush, Attribute, Dots, DotsFlush,
       FreeAll, Sync, SyncFlush, Delete, DeleteFlush, ScanNext, ScanFindsEntry, ScanEnds,
       RmRfSkips, RmRfFile, RmRfDir, RmRfEnds, InTop
<1>2. CASE SearchNext \/ SearchFinds \/ SearchEnds \/ SearchFails \/ NoSpace
  BY <1>1, <1>2, SearchNextKeeps, SearchFindsKeeps, SearchEndsKeeps, FailedCallKeeps
<1>3. ASSUME NEW c \in Other, Grow(c) \/ Own(c) PROVE TInv'
  BY <1>1, <1>3, GrowKeeps, OwnKeeps
<1>4. CASE Zero \/ Fill \/ FillFlush
  BY <1>1, <1>4, ZeroKeeps, FillKeeps, FillFlushKeeps
<1>5. CASE OwnZero \/ OwnSync \/ OwnFlush \/ Attribute \/ Dots \/ DotsFlush
  BY <1>1, <1>5, OwnZeroKeeps, OwnSyncKeeps, OwnFlushKeeps, AttributeKeeps, DotsKeeps, DotsFlushKeeps
<1>6. CASE FreeAll \/ Sync \/ SyncFlush \/ Delete \/ DeleteFlush
  BY <1>1, <1>6, FreeAllKeeps, SyncKeeps, SyncFlushKeeps, DeleteKeeps, DeleteFlushKeeps
<1>7. CASE ScanNext \/ ScanFindsEntry \/ ScanEnds
  BY <1>1, <1>7, ScanNextKeeps, ScanFindsEntryKeeps, ScanEndsKeeps
<1>8. CASE RmRfSkips \/ RmRfFile \/ RmRfDir \/ RmRfEnds
  BY <1>1, <1>8, RmRfSkipsKeeps, RmRfFileKeeps, RmRfDirKeeps, RmRfEndsKeeps
<1>9. QED
  BY <1>2, <1>3, <1>4, <1>5, <1>6, <1>7, <1>8 DEF Step

\* So does a call that begins, a refused access or a file that is written.
LEMMA NextTInv ==
  ASSUME ~EmptyFiles, TInv, Next
  PROVE  TInv'
<1>1. CASE Step
  BY <1>1, StepTInv
<1>2. CASE Fails
  BY <1>2, FailsKeeps
<1>3. ASSUME NEW op \in {"open", "create", "mkdir", "remove"}, NEW d \in {"root", "h"},
             NEW n \in Name, OpenCall(op, d, n)
      PROVE  TInv'
  BY <1>3, OpenCallKeeps DEF OpenCall, Begin
<1>4. CASE RmDirCall
  BY <1>4, RmDirCallKeeps DEF RmDirCall, Begin
<1>5. CASE Close
  BY <1>5, CloseKeeps
<1>6. ASSUME NEW d \in {"root", "h"}, RmRfCall(d) PROVE TInv'
  BY <1>6, RmRfCallKeeps DEF RmRfCall, Begin
<1>7. ASSUME NEW s \in LiveSlots(View), NEW c \in Other, FileIsWritten(s, c) PROVE TInv'
  BY <1>7, FileIsWrittenKeeps
<1>8. QED
  BY <1>1, <1>2, <1>3, <1>4, <1>5, <1>6, <1>7 DEF Next, Call

\* And so does a step that changes nothing.
LEMMA StutterTInv ==
  ASSUME ~EmptyFiles, TInv, [Next]_vars
  PROVE  TInv'
<1>1. CASE Next
  BY <1>1, NextTInv
<1>2. CASE UNCHANGED vars
  <2>1. /\ fat' = fat /\ dir' = dir /\ card' = card /\ held' = held /\ hand' = hand /\ this' = this
        /\ pc' = pc /\ call' = call /\ k' = k /\ empty' = empty /\ stack' = stack /\ damaged' = damaged
    BY <1>2 DEF vars, storage, locals
  <2>2. Loose' = Loose /\ Unzeroed' = Unzeroed /\ dirFile' = dirFile
    BY <2>1 DEF Loose, Unzeroed, dirFile
  <2>3. TypeInv' <=> TypeInv
    BY <2>1 DEF TypeInv
  <2>4. AtIdle' <=> AtIdle
    BY <2>1 DEF AtIdle
  <2>5. (Marked' <=> Marked) /\ (Removing' <=> Removing)
    BY <2>1 DEF Marked, Removing
  <2>6. HandInv' <=> HandInv
    BY <2>1, <2>2, <2>5 DEF HandInv, IsRoot, IsDir
  <2>7. StackInv' <=> StackInv
    BY <2>1, <2>2, <2>5 DEF StackInv, IsRoot, IsDir, Top
  <2>8. CallInv' <=> CallInv
    BY <2>1, <2>5 DEF CallInv
  <2>9. (AtSearch' <=> AtSearch) /\ (AtGrow' <=> AtGrow) /\ (AtZero' <=> AtZero) /\ (AtFill' <=> AtFill)
    BY <2>1, <2>2 DEF AtSearch, AtZero, AtGrow, AtFill, Scanned, Found, IsDirectory
  <2>10. /\ AtFillFlush' <=> AtFillFlush
         /\ AtOwn' <=> AtOwn
         /\ AtOwnZero' <=> AtOwnZero
         /\ AtOwnSync' <=> AtOwnSync
         /\ AtOwnFlush' <=> AtOwnFlush
         /\ AtDots' <=> AtDots
    BY <2>1, <2>2 DEF AtFillFlush, AtOwn, AtOwnZero, AtOwnSync, AtOwnFlush, AtDots, InDirectory,
       NewEntry, NewHead, OwnerOfNone
  <2>11. (AtScan' <=> AtScan) /\ (AtFree' <=> AtFree)
    BY <2>1, <2>2 DEF AtScan, AtFree, IsDir
  <2>12. PlaceInv' <=> PlaceInv
    BY <2>1, <2>4, <2>5, <2>9, <2>10, <2>11 DEF PlaceInv
  <2>13. TreeInv' <=> TreeInv
    BY <2>1, <2>2, <2>6, <2>7, <2>8, <2>12 DEF TreeInv
  <2>14. QED
    BY <2>1, <2>3, <2>4, <2>13 DEF TInv
<1>3. QED
  BY <1>1, <1>2

\* Whatever the application calls, whatever access is refused and whenever the
\* handle is closed, the tree is in order at every step of open, makeDir, remove,
\* rmDir and rmRfStar until damage is left that no call repairs.
THEOREM TreeInvariant == ASSUME ~EmptyFiles PROVE Spec => []TInv
<1>1. Init => TInv
  BY InitTInv
<1>2. TInv /\ [Next]_vars => TInv'
  BY StutterTInv
<1>3. QED
  BY <1>1, <1>2, PTL DEF Spec

\* Every variable holds what the code's variables can hold: handles, positions
\* and entries stay in range whatever is called and refused.
THEOREM Types == ASSUME ~EmptyFiles PROVE Spec => []TypeOK
<1>1. TInv => TypeOK
  BY TypesFollow
<1>2. QED
  BY <1>1, TreeInvariant, PTL

\* Between calls open, remove and rmDir find every entry there is: no entry of
\* the same name and no never used one comes before it (SpiSdFile.cpp:378-402).
THEOREM EntriesAreFound == ASSUME ~EmptyFiles PROVE Spec => []EveryEntryIsFound
<1>1. TInv => EveryEntryIsFound
  BY FoundFollows
<1>2. QED
  BY <1>1, TreeInvariant, PTL

\* Between calls every chain ends and no two entries share a cluster, although
\* clusters go from removed files to directories and back (addCluster,
\* addDirCluster, truncate).
THEOREM ChainsAreApart == ASSUME ~EmptyFiles PROVE Spec => []TreeIsSound
<1>1. TInv => TreeIsSound
  BY SoundFollows
<1>2. QED
  BY <1>1, TreeInvariant, PTL

\* rmDir and rmRfStar free the chain of a directory only when none of its
\* clusters has an entry in use (SpiSdFile.cpp:777-815, 836-886).
THEOREM FreedAreEmpty == ASSUME ~EmptyFiles PROVE Spec => []RemovedIsEmpty
<1>1. TInv => RemovedIsEmpty
  BY RemovedFollows
<1>2. QED
  BY <1>1, TreeInvariant, PTL

-----------------------------------------------------------------------------
(* What rmRfStar leaves behind a position: the promise of rm -rf. *)

\* The slot of the m-th entry of a frame's directory.
SlotOf(f, x, m) ==
  <<Chain(f, x.handle.first)[((m - 1) \div PerCluster) + 1], ((m - 1) % PerCluster) + 1>>

\* The entries rmRfStar has opened and not yet deleted.
Opens == {stack[i].handle.slot : i \in DOMAIN stack} \cup IF pc = "rmRf" THEN {} ELSE {this.slot}

PassedIsCleared(f, d, x, S) ==
  \A m \in 1 .. x.pos - 1 :
    m <= PerCluster * x.handle.size /\ Live(At(d, SlotOf(f, x, m))) => SlotOf(f, x, m) \in S

\* Each frame has behind it no entry in use but the one it is removing.
WalkInv ==
  ~damaged /\ stack # << >> =>
    /\ \A i \in DOMAIN stack : PassedIsCleared(fat, dir, stack[i], Opens)
    /\ pc = "deleteFlush" => ~Live(At(dir, this.slot))

\* The frames are directories whose chains are as long as their handles say.
LEMMA FramesAre ==
  ASSUME TInv, ~damaged, stack # << >>
  PROVE  /\ pc \in {"rmRf", "scan", "free", "sync", "syncFlush", "delete", "deleteFlush"}
         /\ stack \in Seq(FrameType) /\ Unzeroed = NoCluster
         /\ \A i \in DOMAIN stack :
              /\ stack[i].pos \in Nat \ {0} /\ stack[i].handle.size \in 1 .. N
              /\ stack[i].handle.first \in HeadsOf(dir, Loose)
              /\ stack[i].handle.size = Len(Chain(fat, stack[i].handle.first))
              /\ IsDir(stack[i].handle) \/ IsRoot(stack[i].handle)
<1>1. /\ TypeInv /\ StackInv /\ TreeOK(fat, dir, Loose, Unzeroed)
  BY DEF TInv, TreeInv
<1>2. pc \in {"rmRf", "scan"} \/ Removing
  BY <1>1 DEF StackInv
<1>3. Unzeroed = NoCluster
  BY <1>2 DEF Unzeroed, Removing, Marked
<1>4. SUFFICES ASSUME NEW i \in DOMAIN stack
      PROVE  /\ stack[i].pos \in Nat \ {0} /\ stack[i].handle.size \in 1 .. N
             /\ stack[i].handle.first \in HeadsOf(dir, Loose)
             /\ stack[i].handle.size = Len(Chain(fat, stack[i].handle.first))
             /\ IsDir(stack[i].handle) \/ IsRoot(stack[i].handle)
  BY <1>1, <1>2, <1>3 DEF Removing, Marked, TypeInv
<1>5. stack[i].pos \in Nat \ {0} /\ (IsDir(stack[i].handle) \/ IsRoot(stack[i].handle))
  BY <1>1 DEF StackInv
<1>6. /\ stack[i].handle.first \in HeadsOf(dir, Loose)
      /\ stack[i].handle.size = Counted(fat, NoCluster, stack[i].handle.first)
  BY <1>1, <1>3, <1>5, DirectoryIs DEF DirectoryHandle, IsDir, IsRoot
<1>7. /\ Counted(fat, NoCluster, stack[i].handle.first) = Len(Chain(fat, stack[i].handle.first))
      /\ Len(Chain(fat, stack[i].handle.first)) \in 1 .. N
  BY <1>1, <1>3, <1>6, HeadsAre
<1>8. QED
  BY <1>5, <1>6, <1>7

\* The positions of a frame are slots.
LEMMA SlotOfIs ==
  ASSUME TInv, ~damaged, stack # << >>, NEW i \in DOMAIN stack, NEW m \in Nat \ {0},
         m <= PerCluster * stack[i].handle.size
  PROVE  SlotOf(fat, stack[i], m) \in Slot
<1> DEFINE h == stack[i].handle.first
           n == stack[i].handle.size
<1>1. n \in 1 .. N /\ h \in HeadsOf(dir, Loose) /\ n = Len(Chain(fat, h)) /\ TreeOK(fat, dir, Loose, NoCluster)
  BY FramesAre DEF TInv, TreeInv
<1>2. n \in Nat
  BY <1>1
<1>3. ((m - 1) \div PerCluster) + 1 \in 1 .. n /\ ((m - 1) % PerCluster) + 1 \in Index
  BY <1>2, PositionIs
<1>4. \A j \in 1 .. n : Chain(fat, h)[j] \in Cluster
  BY <1>1, HeadsAre
<1>5. QED
  BY <1>3, <1>4 DEF SlotOf, Slot

\* A step that leaves the frames and all entries but the one being removed.
LEMMA WalkKept ==
  ASSUME TInv, ~damaged, WalkInv, stack' = stack, pc' # "rmRf", this'.slot = this.slot,
         \A t \in Slot : t # this.slot => At(dir', t) = At(dir, t),
         \A i \in DOMAIN stack : Chain(fat', stack[i].handle.first) = Chain(fat, stack[i].handle.first),
         pc # "rmRf", pc' = "deleteFlush" => ~Live(At(dir', this.slot))
  PROVE  WalkInv'
<1>1. SUFFICES ASSUME stack # << >>, NEW i \in DOMAIN stack, NEW m \in 1 .. stack[i].pos - 1,
                      m <= PerCluster * stack[i].handle.size,
                      Live(At(dir', SlotOf(fat', stack[i], m))),
                      SlotOf(fat', stack[i], m) # this.slot
      PROVE  SlotOf(fat', stack[i], m) \in {stack[j].handle.slot : j \in DOMAIN stack}
  BY DEF WalkInv, PassedIsCleared, Opens
<1>2. SlotOf(fat', stack[i], m) = SlotOf(fat, stack[i], m)
  BY DEF SlotOf
<1>3. m \in Nat \ {0}
  <2>1. stack[i].pos \in Nat
    BY <1>1, FramesAre
  <2>2. QED
    BY <1>1, <2>1
<1>4. SlotOf(fat, stack[i], m) \in Slot
  BY <1>1, <1>3, SlotOfIs
<1>5. Live(At(dir, SlotOf(fat, stack[i], m)))
  BY <1>1, <1>2, <1>4
<1>6. PassedIsCleared(fat, dir, stack[i], Opens)
  BY <1>1 DEF WalkInv
<1>7. QED
  BY <1>1, <1>2, <1>5, <1>6 DEF PassedIsCleared, Opens

\* rmRfStar goes on by one entry, which it leaves, opens or enters.
LEMMA AdvancedPasses ==
  ASSUME TInv, ~damaged, WalkInv, InTop,
         NEW S, Opens \subseteq S, Live(At(dir, TopSlot)) => TopSlot \in S
  PROVE  \A i \in DOMAIN Advanced : PassedIsCleared(fat, dir, Advanced[i], S)
<1> DEFINE n == Len(stack)
           x == [Top EXCEPT !.pos = @ + 1]
<1>1. /\ pc = "rmRf" /\ n \in DOMAIN stack /\ n \in Nat \ {0} /\ Top = stack[n]
      /\ Top \in FrameType /\ Top.pos \in Nat \ {0} /\ Framed(stack)
  BY TopIs DEF InTop
<1>2. stack \in Seq(FrameType) /\ stack # << >> /\ DOMAIN stack = 1 .. n
  BY <1>1 DEF Framed
<1>3. \A i \in DOMAIN stack : PassedIsCleared(fat, dir, stack[i], S)
  BY <1>2 DEF WalkInv, PassedIsCleared
<1>4. Below \in Seq(FrameType) /\ Len(Below) = n - 1 /\ \A i \in 1 .. n - 1 : Below[i] = stack[i]
  BY <1>1, <1>2, BelowIs
<1>5. x.pos = Top.pos + 1 /\ x.handle = Top.handle /\ x \in FrameType
  BY <1>1 DEF FrameType
<1>6. PassedIsCleared(fat, dir, x, S)
  <2>1. SUFFICES ASSUME NEW m \in 1 .. x.pos - 1, m <= PerCluster * Top.handle.size,
                        Live(At(dir, SlotOf(fat, Top, m)))
        PROVE  SlotOf(fat, Top, m) \in S
    BY <1>5 DEF PassedIsCleared, SlotOf
  <2>2. m = Top.pos \/ m \in 1 .. Top.pos - 1
    BY <1>1, <1>5
  <2>3. CASE m = Top.pos
    BY <2>1, <2>3 DEF SlotOf, TopSlot
  <2>4. CASE m \in 1 .. Top.pos - 1
    BY <1>1, <1>3, <2>1, <2>4 DEF PassedIsCleared
  <2>5. QED
    BY <2>2, <2>3, <2>4
<1>7. Advanced = Append(Below, x)
  BY DEF Advanced
<1> HIDE DEF x
<1>8. DOMAIN Advanced = 1 .. n /\ Advanced[n] = x /\ \A i \in 1 .. n - 1 : Advanced[i] = stack[i]
  BY <1>1, <1>4, <1>5, <1>7
<1>9. \A i \in 1 .. n : i = n \/ i \in 1 .. n - 1
  BY <1>1
<1>10. \A i \in 1 .. n - 1 : i \in 1 .. n
  BY <1>1
<1>11. QED
  BY <1>2, <1>3, <1>6, <1>8, <1>9, <1>10

\* The steps of rmRfStar's loop.
LEMMA WalkAdvances ==
  ASSUME TInv, ~damaged, WalkInv, RmRfSkips \/ RmRfFile \/ RmRfDir
  PROVE  WalkInv'
<1>1. /\ InTop /\ pc = "rmRf" /\ fat' = fat /\ dir' = dir
  BY DEF RmRfSkips, RmRfFile, RmRfDir, InTop, image
<1>2. /\ TopSlot \in Slot /\ EntryAt(View, TopSlot) = At(dir, TopSlot)
  BY <1>1, TopSlotIs
<1>3. /\ Advanced # << >> /\ Len(Advanced) = Len(stack) /\ Framed(Advanced)
      /\ \A i \in DOMAIN Advanced : Advanced[i].handle = stack[i].handle
  BY <1>1, AdvancedIs
<1>4. stack \in Seq(FrameType) /\ Len(stack) \in Nat \ {0} /\ DOMAIN stack = 1 .. Len(stack)
  BY <1>1, TopIs DEF Framed
<1>5. Advanced \in Seq(FrameType) /\ DOMAIN Advanced = DOMAIN stack
  BY <1>3, <1>4 DEF Framed
<1>6. Opens = {stack[i].handle.slot : i \in DOMAIN stack}
  BY <1>1 DEF Opens
<1>7. CASE RmRfSkips
  <2>1. stack' = Advanced /\ pc' = pc
    BY <1>7 DEF RmRfSkips
  <2>2. Opens' = Opens
    BY <1>1, <1>3, <1>5, <1>6, <2>1 DEF Opens
  <2>3. ~Live(At(dir, TopSlot))
    BY <1>2, <1>7 DEF RmRfSkips, Live
  <2>4. \A i \in DOMAIN Advanced : PassedIsCleared(fat, dir, Advanced[i], Opens)
    BY <1>1, <2>3, AdvancedPasses
  <2>5. QED
    BY <1>1, <2>1, <2>2, <2>4 DEF WalkInv
<1>8. CASE RmRfFile
  <2>1. stack' = Advanced /\ pc' \in {"free", "delete"} /\ this'.slot = TopSlot
    BY <1>8 DEF RmRfFile, Truncate, Opened
  <2>2. Opens' = Opens \cup {TopSlot}
    BY <1>3, <1>5, <1>6, <2>1 DEF Opens
  <2>3. \A i \in DOMAIN Advanced : PassedIsCleared(fat, dir, Advanced[i], Opens \cup {TopSlot})
    BY <1>1, AdvancedPasses
  <2>4. QED
    BY <1>1, <2>1, <2>2, <2>3 DEF WalkInv
<1>9. CASE RmRfDir
  <2> DEFINE y == Frame(Opened(TopSlot))
             n == Len(stack)
  <2>1. stack' = Append(Advanced, y) /\ pc' = "rmRf" /\ y.handle.slot = TopSlot /\ y.pos = 1
    BY <1>1, <1>9 DEF RmRfDir, Frame, Opened
  <2> HIDE DEF y
  <2>2. /\ DOMAIN stack' = 1 .. n + 1 /\ stack'[n + 1] = y
        /\ \A i \in 1 .. n : stack'[i] = Advanced[i]
    BY <1>3, <1>4, <1>5, <2>1
  <2>3. \A i \in 1 .. n + 1 : i = n + 1 \/ i \in DOMAIN stack
    BY <1>4
  <2>4. DOMAIN stack \subseteq 1 .. n + 1 /\ n + 1 \in 1 .. n + 1
    BY <1>4
  <2>5. Opens' = {stack'[i].handle.slot : i \in 1 .. n + 1}
    BY <2>1, <2>2 DEF Opens
  <2>6. Opens \subseteq Opens' /\ TopSlot \in Opens'
    BY <1>3, <1>4, <1>5, <1>6, <2>1, <2>2, <2>4, <2>5
  <2>7. \A i \in DOMAIN Advanced : PassedIsCleared(fat, dir, Advanced[i], Opens')
    BY <1>1, <2>6, AdvancedPasses
  <2>8. PassedIsCleared(fat, dir, y, Opens')
    <3>1. 1 .. y.pos - 1 = {}
      BY <2>1
    <3>2. QED
      BY <3>1 DEF PassedIsCleared
  <2>9. \A i \in DOMAIN stack' : PassedIsCleared(fat, dir, stack'[i], Opens')
    BY <1>4, <1>5, <2>2, <2>3, <2>7, <2>8
  <2>10. QED
    BY <1>1, <2>1, <2>9 DEF WalkInv
<1>10. QED
  BY <1>7, <1>8, <1>9

\* rmRfStar is through with a directory: its entry is the one to remove.
LEMMA WalkLeaves ==
  ASSUME TInv, ~damaged, WalkInv, RmRfEnds
  PROVE  WalkInv'
<1> DEFINE n == Len(stack)
<1>1. /\ pc = "rmRf" /\ fat' = fat /\ dir' = dir
      /\ stack' = << >> \/ (this' = Top.handle /\ stack' = Below /\ pc' = "scan")
  BY DEF RmRfEnds, InTop, Return, Returns, image
<1>2. SUFFICES ASSUME stack' = Below, this' = Top.handle, pc' = "scan" PROVE WalkInv'
  BY <1>1 DEF WalkInv
<1>3. /\ n \in DOMAIN stack /\ n \in Nat \ {0} /\ Top = stack[n] /\ Framed(stack)
  BY <1>1, TopIs
<1>4. stack \in Seq(FrameType) /\ stack # << >> /\ DOMAIN stack = 1 .. n
  BY <1>3 DEF Framed
<1>5. Below \in Seq(FrameType) /\ Len(Below) = n - 1 /\ \A i \in 1 .. n - 1 : Below[i] = stack[i]
  BY <1>3, <1>4, BelowIs
<1>6. DOMAIN Below = 1 .. n - 1 /\ 1 .. n - 1 \subseteq 1 .. n /\ \A i \in 1 .. n : i = n \/ i \in 1 .. n - 1
  BY <1>3, <1>5
<1>7. Opens \subseteq Opens'
  BY <1>1, <1>2, <1>3, <1>4, <1>5, <1>6 DEF Opens
<1>8. \A i \in DOMAIN Below : PassedIsCleared(fat, dir, Below[i], Opens')
  <2>1. \A i \in DOMAIN stack : PassedIsCleared(fat, dir, stack[i], Opens')
    BY <1>4, <1>7 DEF WalkInv, PassedIsCleared
  <2>2. QED
    BY <1>4, <1>5, <1>6, <2>1
<1>9. QED
  BY <1>1, <1>2, <1>8 DEF WalkInv


\* The steps of the scan and of remove.
LEMMA WalkRemoves ==
  ASSUME TInv, ~damaged, WalkInv, stack # << >>,
         FreeAll \/ Sync \/ SyncFlush \/ Delete \/ ScanNext \/ ScanEnds
  PROVE  WalkInv'
<1>1. stack' = stack /\ pc' # "rmRf" /\ pc # "rmRf"
  BY DEF FreeAll, Sync, SyncFlush, Delete, ScanNext, ScanEnds, Rewrites, FlushesTo, locals, Truncate
<1>2. TypeInv /\ dir \in Contents /\ this \in HandleType /\ (Sync \/ Delete => this.slot \in Slot)
  BY DEF TInv, TreeInv, TypeInv, PlaceInv, Marked, Sync, Delete
<1>3. ASSUME NEW e \in AnyEntry, this.slot \in Slot, dir' = PutIn(dir, this.slot, e)
      PROVE  \A t \in Slot : At(dir', t) = IF t = this.slot THEN e ELSE At(dir, t)
  BY <1>2, <1>3, PutIs
<1>4. CASE FreeAll
  <2>1. dir' = dir /\ pc' = "sync" /\ this' = Cleared(this)
    BY <1>4 DEF FreeAll, Cleared
  <2>2. this'.slot = this.slot
    BY <1>2, <2>1, ClearedIs
  <2>3. QED
    BY <1>1, <1>4, <2>1, <2>2, FramesApart, WalkKept
<1>5. CASE Sync
  <2> DEFINE e == Emptied(At(dir, this.slot))
  <2>1. Rewrites(e, "syncFlush")
    BY <1>5, ThisEntryIs DEF Sync, Emptied
  <2>2. dir' = PutIn(dir, this.slot, e) /\ fat' = fat /\ pc' = "syncFlush" /\ this' = this
    BY <1>2, <1>5, <2>1, RewrittenIs
  <2>3. e \in AnyEntry
    BY <1>2, <1>5, EntryTypes, EmptiedIs
  <2> HIDE DEF e
  <2>4. \A t \in Slot : t # this.slot => At(dir', t) = At(dir, t)
    BY <1>2, <1>3, <1>5, <2>2, <2>3
  <2>5. QED
    BY <1>1, <2>2, <2>4, WalkKept
<1>6. CASE SyncFlush \/ ScanNext \/ ScanEnds
  <2>1. dir' = dir /\ fat' = fat /\ pc' # "deleteFlush"
    BY <1>6 DEF SyncFlush, ScanNext, ScanEnds, FlushesTo, Truncate, image
  <2>2. this'.slot = this.slot
    BY <1>2, <1>6 DEF SyncFlush, ScanNext, ScanEnds, FlushesTo, locals, HandleType
  <2>3. QED
    BY <1>1, <2>1, <2>2, WalkKept
<1>7. CASE Delete
  <2> DEFINE e == Unnamed("deleted")
  <2>1. dir' = PutIn(dir, this.slot, e) /\ fat' = fat /\ pc' = "deleteFlush" /\ this' = this
    BY <1>2, <1>7, RewrittenIs DEF Delete
  <2>2. e \in AnyEntry /\ ~Live(e)
    BY UnnamedIs
  <2> HIDE DEF e
  <2>3. \A t \in Slot : At(dir', t) = IF t = this.slot THEN e ELSE At(dir, t)
    BY <1>2, <1>3, <1>7, <2>1, <2>2
  <2>4. ~Live(At(dir', this.slot)) /\ \A t \in Slot : t # this.slot => At(dir', t) = At(dir, t)
    BY <1>2, <1>7, <2>2, <2>3
  <2>5. QED
    BY <1>1, <2>1, <2>4, WalkKept
<1>8. QED
  BY <1>4, <1>5, <1>6, <1>7

\* remove returns to the loop of rmRfStar: the entry is not in use any more.
LEMMA WalkReturns ==
  ASSUME TInv, ~damaged, WalkInv, stack # << >>, DeleteFlush
  PROVE  WalkInv'
<1>1. pc = "deleteFlush" /\ pc' = "rmRf" /\ stack' = stack /\ fat' = fat /\ dir' = dir
  BY DEF DeleteFlush, RemoveReturns, image
<1>2. Opens \subseteq Opens' \cup {this.slot} /\ ~Live(At(dir, this.slot))
  BY <1>1 DEF Opens, WalkInv
<1>3. \A i \in DOMAIN stack : PassedIsCleared(fat, dir, stack[i], Opens')
  BY <1>2 DEF WalkInv, PassedIsCleared
<1>4. QED
  BY <1>1, <1>3 DEF WalkInv

\* Each step leaves behind each frame only what is being removed.
LEMMA NextWalk ==
  ASSUME TInv, WalkInv, Next
  PROVE  WalkInv'
<1>1. CASE stack' = << >>
  BY <1>1 DEF WalkInv
<1>2. CASE stack # << >> /\ stack' # << >>
  <2>1. ~damaged
    BY <1>2 DEF TInv
  <2>2. pc \in {"rmRf", "scan", "free", "sync", "syncFlush", "delete", "deleteFlush"}
    BY <1>2, <2>1, FramesAre
  <2>3. ~Fails /\ ~ScanFindsEntry
    BY <1>2 DEF Fails, ScanFindsEntry, Return, Returns
  <2>4. ~Call
    BY <2>2 DEF Call, OpenCall, RmDirCall, RmRfCall, Begin, Close, FileIsWritten
  <2>5. \/ FreeAll \/ Sync \/ SyncFlush \/ Delete \/ DeleteFlush \/ ScanNext \/ ScanEnds
        \/ RmRfSkips \/ RmRfFile \/ RmRfDir \/ RmRfEnds
    BY <2>2, <2>3, <2>4, Zenon DEF Next, Step, SearchNext, SearchFinds, SearchEnds, SearchFails, NoSpace, Searching,
       Grow, Own, Zero, Fill, FillFlush, OwnZero, OwnSync, OwnFlush, Attribute, Dots, DotsFlush
  <2>6. QED
    BY <1>2, <2>1, <2>5, WalkRemoves, WalkReturns, WalkAdvances, WalkLeaves
<1>3. CASE stack = << >> /\ stack' # << >>
  <2>1. stack' # stack
    BY <1>3
  <2>2. ~Fails
    BY <1>3 DEF Fails, Returns
  <2>3. ~Step
    <3>1. pc # "rmRf"
      BY <1>3 DEF TInv, TreeInv, StackInv
    <3>2. SUFFICES ASSUME Step PROVE stack' = stack \/ stack' = << >>
      BY <1>3
    <3>3. ~InTop /\ ~RmRfSkips /\ ~RmRfFile /\ ~RmRfDir /\ ~RmRfEnds
      BY <3>1 DEF InTop, RmRfSkips, RmRfFile, RmRfDir, RmRfEnds
    <3>4. CASE SearchNext \/ SearchFinds \/ SearchEnds \/ SearchFails \/ NoSpace
      BY <3>4 DEF SearchNext, SearchFinds, SearchEnds, SearchFails, NoSpace, NoEntry, Return, Returns
    <3>5. CASE \E c \in Other : Grow(c) \/ Own(c)
      BY <3>5 DEF Grow, Own
    <3>6. CASE Zero \/ Fill \/ FillFlush \/ OwnZero \/ OwnSync \/ OwnFlush \/ Attribute \/ Dots \/ DotsFlush
      BY <3>6 DEF Zero, Fill, FillFlush, OwnZero, OwnSync, OwnFlush, Attribute, Dots, DotsFlush,
         Rewrites, FlushesTo, Return, Returns, locals
    <3>7. CASE FreeAll \/ Sync \/ SyncFlush \/ Delete \/ DeleteFlush \/ ScanNext \/ ScanFindsEntry \/ ScanEnds
      BY <3>7 DEF FreeAll, Sync, SyncFlush, Delete, DeleteFlush, ScanNext, ScanFindsEntry, ScanEnds,
         RemoveReturns, Rewrites, FlushesTo, Return, Returns, locals
    <3>8. QED
      BY <3>2, <3>3, <3>4, <3>5, <3>6, <3>7 DEF Step
  <2>4. PICK d \in {"root", "h"} : RmRfCall(d)
    BY <2>1, <2>2, <2>3 DEF Next, Call, OpenCall, RmDirCall, Close, FileIsWritten, locals
  <2>5. stack' = <<Frame(hand[d])>> /\ pc' = "rmRf"
    BY <2>4 DEF RmRfCall
  <2>6. DOMAIN stack' = {1} /\ stack'[1].pos = 1
    BY <2>5 DEF Frame
  <2>7. \A i \in DOMAIN stack' : 1 .. stack'[i].pos - 1 = {}
    BY <2>6
  <2>8. QED
    BY <2>5, <2>7 DEF WalkInv, PassedIsCleared
<1>4. QED
  BY <1>1, <1>2, <1>3


\* Places in order of their numbers.
LEMMA PlacesInOrder ==
  ASSUME NEW P \in Nat \ {0}, NEW a \in Int, NEW q \in Int, NEW b \in 0 .. P - 1, NEW r \in 0 .. P - 1,
         P * a + b <= P * q + r
  PROVE  a < q \/ (a = q /\ b <= r)
<1>1. P \in Int /\ b \in Int /\ r \in Int /\ P * a \in Int /\ P * q \in Int
  OBVIOUS
<1>2. a <= q
  <2>1. SUFFICES ASSUME q + 1 <= a PROVE FALSE
    OBVIOUS
  <2>2. P * (q + 1) <= P * a
    BY <2>1
  <2>3. P * (q + 1) = P * q + P
    OBVIOUS
  <2>4. P * q + P <= P * a
    BY <2>2, <2>3
  <2>5. 0 <= b /\ r < P
    OBVIOUS
  <2>6. QED
    BY <1>1, <2>4, <2>5
<1>3. CASE a = q
  BY <1>1, <1>3
<1>4. QED
  BY <1>2, <1>3

\* A position that is not before m is m or its place comes behind that of m.
LEMMA PositionOf ==
  ASSUME NEW j \in Nat \ {0}, NEW i \in Index, NEW m \in Nat \ {0}
  PROVE  LET p == PerCluster * (j - 1) + i
         IN /\ p \in Nat \ {0} /\ (p - 1) \div PerCluster + 1 = j /\ ((p - 1) % PerCluster) + 1 = i
            /\ \A n \in Nat : j <= n => p <= PerCluster * n
            /\ p >= m => \/ j = (m - 1) \div PerCluster + 1 /\ i = ((m - 1) % PerCluster) + 1
                         \/ Before((m - 1) \div PerCluster + 1, ((m - 1) % PerCluster) + 1, j, i)
<1> DEFINE P == PerCluster
           p == P * (j - 1) + i
           q == (p - 1) \div P
           r == (p - 1) % P
           x == (m - 1) \div P
           y == (m - 1) % P
<1>1. P \in Nat \ {0} /\ i \in 1 .. P /\ P \in Int
  BY DirectoryAssumption DEF Index
<1> HIDE DEF P
<1>2. j - 1 \in Nat /\ i - 1 \in 0 .. P - 1 /\ P * (j - 1) \in Nat /\ i \in Nat \ {0}
  BY <1>1
<1>3. p \in Nat \ {0} /\ p - 1 \in Nat /\ p - 1 = P * (j - 1) + (i - 1)
  BY <1>2
<1> HIDE DEF p
<1>4. q \in Int /\ r \in 0 .. P - 1 /\ p - 1 = P * q + r
  BY <1>1, <1>3
<1>5. x \in Int /\ y \in 0 .. P - 1 /\ m - 1 = P * x + y
  BY <1>1
<1> HIDE DEF q, r, x, y
<1>6. P * q \in Int /\ P * x \in Int /\ r \in Int /\ y \in Int /\ j - 1 \in Int /\ i - 1 \in Int
  BY <1>1, <1>2, <1>4, <1>5
<1>7. q = j - 1 /\ r = i - 1
  <2>1. P * (j - 1) + (i - 1) <= P * q + r /\ P * q + r <= P * (j - 1) + (i - 1)
    BY <1>2, <1>3, <1>4, <1>6
  <2>2. j - 1 < q \/ (j - 1 = q /\ i - 1 <= r)
    BY <1>1, <1>2, <1>4, <2>1, PlacesInOrder
  <2>3. q < j - 1 \/ (q = j - 1 /\ r <= i - 1)
    BY <1>1, <1>2, <1>4, <2>1, PlacesInOrder
  <2>4. QED
    BY <1>4, <1>6, <2>2, <2>3
<1>8. ASSUME NEW n \in Nat, j <= n PROVE p <= P * n
  <2>1. j - 1 + 1 <= n /\ P * (j - 1 + 1) = P * (j - 1) + P
    BY <1>1, <1>8
  <2>2. P * (j - 1 + 1) <= P * n
    BY <1>1, <1>2, <2>1
  <2>3. P * n \in Nat
    BY <1>1
  <2>4. QED
    BY <1>1, <1>2, <1>3, <2>1, <2>2, <2>3
<1>9. ASSUME p >= m PROVE (j = x + 1 /\ i = y + 1) \/ Before(x + 1, y + 1, j, i)
  <2>1. P * x + y <= P * (j - 1) + (i - 1)
    BY <1>2, <1>3, <1>5, <1>6, <1>9
  <2>2. x < j - 1 \/ (x = j - 1 /\ y <= i - 1)
    BY <1>1, <1>2, <1>5, <2>1, PlacesInOrder
  <2>3. QED
    BY <1>2, <1>5, <1>6, <2>2 DEF Before
<1>10. q + 1 = j /\ r + 1 = i
  BY <1>2, <1>6, <1>7
<1>11. QED
  BY <1>3, <1>8, <1>9, <1>10 DEF p, q, r, x, y, P

\* When rmRfStar of the root returns TRUE nothing is in use below the root.
LEMMA WalkClears ==
  ASSUME TInv, ~damaged, WalkInv, RmRfEnds, pc' = "idle"
  PROVE  Tree = {}
<1> DEFINE C == Chain(fat, Root)
<1>1. /\ pc = "rmRf" /\ Top.handle.type \in {"root16", "root32"}
      /\ (InTop /\ EntryAt(View, TopSlot).kind = "free") \/ ~InTop
  BY DEF RmRfEnds, InTop
<1>2. /\ Len(stack) \in DOMAIN stack /\ Top = stack[Len(stack)] /\ Top.pos \in Nat \ {0}
      /\ IsDir(Top.handle) \/ (Len(stack) = 1 /\ IsRoot(Top.handle))
      /\ Top.handle.size = Len(Chain(fat, Top.handle.first)) /\ Top.handle.size \in 1 .. N
      /\ Framed(stack)
  BY <1>1, TopIs
<1>3. Len(stack) = 1 /\ Top.handle.first = Root /\ Top.handle.slot = NoSlot
  BY <1>1, <1>2 DEF IsDir, IsRoot, DirHandle, RootHandle
<1>4. /\ Tree0(fat, dir) /\ TreeOK(fat, dir, {}, NoCluster)
  BY <1>1, Calm
<1>5. stack \in Seq(FrameType) /\ DOMAIN stack = {1} /\ stack # << >>
  <2>1. stack \in Seq(FrameType)
    BY <1>2 DEF Framed
  <2>2. DOMAIN stack = 1 .. Len(stack) /\ 1 .. 1 = {1}
    BY <2>1
  <2>3. DOMAIN stack = {1}
    BY <1>3, <2>2
  <2>4. stack # << >>
    BY <1>1, Calm DEF StackInv
  <2>5. QED
    BY <2>1, <2>3, <2>4
<1>6. Opens = {NoSlot}
  BY <1>1, <1>2, <1>3, <1>5 DEF Opens
<1>7. PassedIsCleared(fat, dir, Top, {NoSlot})
  BY <1>2, <1>5, <1>6 DEF WalkInv
<1>8. /\ Root \in HeadsOf(dir, {}) /\ Len(C) \in Nat /\ Counted(fat, NoCluster, Root) = Len(C)
      /\ \A j \in 1 .. Len(C) : C[j] \in Cluster
  <2>1. Root \in HeadsOf(dir, {})
    BY RootHead
  <2>2. QED
    BY <1>4, <2>1, HeadsAre
<1>9. ASSUME NEW j \in 1 .. Len(C), NEW i \in Index PROVE ~Live(dir[C[j]][i])
  <2> DEFINE p == PerCluster * (j - 1) + i
             m == Top.pos
             jj == (m - 1) \div PerCluster + 1
             ii == ((m - 1) % PerCluster) + 1
  <2>1. /\ p \in Nat \ {0} /\ (p - 1) \div PerCluster + 1 = j /\ ((p - 1) % PerCluster) + 1 = i
        /\ p <= PerCluster * Len(C)
        /\ p >= m => (j = jj /\ i = ii) \/ Before(jj, ii, j, i)
    <3>1. j \in Nat \ {0} /\ j <= Len(C)
      BY <1>8
    <3>2. QED
      BY <1>2, <1>8, <3>1, PositionOf
  <2> HIDE DEF p
  <2>2. SlotOf(fat, Top, p) = <<C[j], i>>
    BY <1>3, <2>1 DEF SlotOf
  <2>3. CASE p < m
    <3>1. p \in 1 .. m - 1 /\ p <= PerCluster * Top.handle.size
      BY <1>2, <1>3, <2>1, <2>3
    <3>2. <<C[j], i>> # NoSlot
      <4>1. <<C[j], i>> \in Slot
        BY <1>8 DEF Slot
      <4>2. QED
        BY <4>1, NoSlotIsNone
    <3>3. ~Live(At(dir, <<C[j], i>>))
      BY <1>7, <2>2, <3>1, <3>2 DEF PassedIsCleared
    <3>4. QED
      BY <3>3 DEF At
  <2>4. CASE p >= m
    <3>1. m <= PerCluster * Top.handle.size
      <4>1. PerCluster * Len(C) \in Nat
        BY <1>8, DirectoryAssumption
      <4>2. QED
        BY <1>2, <1>3, <2>1, <2>4, <4>1
    <3>2. InTop /\ EntryAt(View, TopSlot).kind = "free"
      BY <1>1, <3>1 DEF InTop
    <3>3. /\ EntryAt(View, TopSlot) = At(dir, TopSlot) /\ TopSlot = <<C[jj], ii>>
      BY <1>3, <3>2, TopSlotIs DEF TopSlot
    <3>4. Of(fat, dir, Root, jj, ii).kind = "free"
      BY <3>2, <3>3 DEF At, Of
    <3>5. jj \in 1 .. Len(C) /\ ii \in Index
      BY <1>2, <1>3, <1>8, <3>1, PositionIs
    <3> HIDE DEF jj, ii
    <3>6. CASE j = jj /\ i = ii
      BY <3>4, <3>6 DEF Of, Live
    <3>7. CASE Before(jj, ii, j, i)
      <4>1. Ordered(fat, dir, NoCluster, Root)
        BY <1>4, <1>8 DEF TreeOK
      <4>2. ~Live(Of(fat, dir, Root, j, i))
        BY <1>8, <3>4, <3>5, <3>7, <4>1 DEF Ordered
      <4>3. QED
        BY <4>2 DEF Of
    <3>8. QED
      BY <2>1, <2>4, <3>6, <3>7 DEF jj, ii
  <2>5. QED
    BY <1>2, <2>1, <2>3, <2>4
<1>10. \A c \in ClustersFrom(fat, Root), i \in Index : ~Live(dir[c][i])
  <2>1. Sound(fat) /\ Begins(fat, Root) /\ Root \in Cluster
    BY <1>4, <1>8, HeadsAre DEF TreeOK
  <2>2. QED
    BY <1>9, <2>1, ClusterPlace
<1>11. DirClusters(View0(fat, dir)) \subseteq ClustersFrom(fat, Root)
  <2>1. ASSUME NEW T \in SUBSET ClustersFrom(fat, Root)
        PROVE  Deeper(fat, dir, T) \in SUBSET ClustersFrom(fat, Root)
    <3>1. \A s \in T \X Index : At(dir, s).kind # "dir"
      BY <1>10, <2>1 DEF At, Live
    <3>2. QED
      BY <2>1, <3>1 DEF Deeper
  <2>2. QED
    BY <2>1, DirClustersIn
<1>12. View = View0(fat, dir)
  BY DEF View, View0
<1>13. QED
  BY <1>10, <1>11, <1>12 DEF Tree, LiveSlots, EntryAt, View0

\* rmRfStar of the root that returns TRUE has removed every entry below the
\* root, whatever was in the deepest directory or behind the first cluster, if
\* callers pass no empty file as dirFile (SpiSdFile.cpp:836-886).
THEOREM RootIsCleared == ASSUME ~EmptyFiles PROVE Spec => RmRfClears
<1>1. Init => TInv /\ WalkInv
  BY InitTInv DEF Init, WalkInv
<1>2. TInv /\ WalkInv /\ [Next]_vars => (TInv /\ WalkInv)'
  <2>1. TInv /\ [Next]_vars => TInv'
    BY StutterTInv
  <2>2. SUFFICES ASSUME TInv, WalkInv, UNCHANGED vars PROVE WalkInv'
    BY <2>1, NextWalk
  <2>3. /\ UNCHANGED <<damaged, stack, pc, fat, dir, this>>
    BY <2>2 DEF vars, storage, locals
  <2>4. Opens' = Opens
    BY <2>3 DEF Opens
  <2>5. QED
    BY <2>2, <2>3, <2>4 DEF WalkInv, PassedIsCleared, SlotOf
<1>3. TInv /\ WalkInv /\ [Next]_vars => [RmRfEnds /\ pc' = "idle" => Tree = {}]_vars
  <2>1. ASSUME TInv, WalkInv, RmRfEnds, pc' = "idle" PROVE Tree = {}
    <3>1. ~damaged
      BY <2>1 DEF TInv, RmRfEnds, InTop
    <3>2. QED
      BY <2>1, <3>1, WalkClears
  <2>2. QED
    BY <2>1
<1>4. QED
  BY <1>1, <1>2, <1>3, PTL DEF Spec, RmRfClears

=============================================================================
