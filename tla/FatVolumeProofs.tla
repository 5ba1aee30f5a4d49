---------------------------- MODULE FatVolumeProofs ----------------------------
(***************************************************************************)
(* Proofs about FatVolume, for every number of clusters, set of files and   *)
(* length of run.                                                          *)
(*                                                                         *)
(* HintSafe: types, and no free cluster below allocSearchStart_.            *)
(* ChainsSafe: the FAT spells out every sound chain and no two chains meet, *)
(* when a remove() that failed is not called again (with such calls it is   *)
(* false: the run fat_retry).  The invariant says what the call in progress *)
(* has done so far: the run found is free and of no chain, of the chain     *)
(* being freed the rest is still spelled out.                               *)
(* NoSpaceSafe: allocContiguous says that there is no space only when there *)
(* is none.  The invariant is about the clusters the search has passed, to  *)
(* the end of the FAT and then from its begin: at none of them a run of     *)
(* free clusters ends.  A run across the place where the search began is    *)
(* excluded because the hint is exact.                                      *)
(* ImplementsChains: when no remove() that failed is called again, the      *)
(* loops implement ChainStore.  Each action is one of ChainStore's or a     *)
(* stutter; the invariant adds what is free while a run is linked or a      *)
(* chain is freed.                                                          *)
(* NothingLost: as long as nothing is refused every cluster is free, bad, in *)
(* a chain or in the run that a call in progress links.                     *)
(***************************************************************************)
EXTENDS FatVolume, SequenceTheorems, TLAPS

Allocating == pc \in {"search", "mark", "link"}

FreeingFile == pc \in {"free", "freed"}

\* The last cluster of the run that was found.
RunEnd == bgnCluster + count - 1

\* Where the locals of a call in progress lie.
Bounds ==
  /\ Allocating => file \in File /\ count \in 1 .. MaxCount
  /\ pc = "search" => bgnCluster >= 2 /\ bgnCluster <= endCluster
  /\ pc \in {"mark", "link"} =>
       /\ bgnCluster >= 2 /\ RunEnd <= FatEnd
       /\ bgnCluster <= endCluster /\ endCluster <= RunEnd
  /\ FreeingFile => file \in File /\ keep < Len(chain[file]) /\ allocSearchStart_ = 2

NoneFreeBelow(end) == \A c \in Cluster : c < end => fat[c] # 0

\* A search for a first cluster passes no free one.
HintCarries ==
  curCluster = 0 /\ count = 1 =>
    /\ pc = "search" => bgnCluster = endCluster /\ NoneFreeBelow(endCluster)
    /\ pc \in {"mark", "link"} => NoneFreeBelow(bgnCluster)
    /\ pc = "link" => fat[bgnCluster] # 0

HintInv == TypeOK /\ Bounds /\ HintIsExact /\ HintCarries

\* Files whose chain is all theirs, the one being freed included.
Whole == File \ damaged

Spelled(f, i) == fat[chain[f][i]] = IF i = Len(chain[f]) THEN EOC ELSE chain[f][i + 1]

Disjoint ==
  \A f, g \in Whole : \A i \in DOMAIN chain[f], j \in DOMAIN chain[g] :
    chain[f][i] = chain[g][j] => f = g /\ i = j

\* The run of allocContiguous belongs to nobody, and is linked from its end on.
RunIsNew ==
  /\ Allocating =>
       /\ file \in Whole
       /\ curCluster = IF chain[file] = << >> THEN 0 ELSE Last(chain[file])
       /\ count > 1 => chain[file] = << >>
  /\ pc = "search" => \A c \in Cluster : bgnCluster <= c /\ c < endCluster => fat[c] = 0
  /\ pc = "mark" => endCluster = RunEnd
  /\ pc \in {"mark", "link"} =>
       \A g \in Whole : \A i \in DOMAIN chain[g] : ~(bgnCluster <= chain[g][i] /\ chain[g][i] <= RunEnd)
  /\ pc = "link" =>
       /\ fat[RunEnd] = EOC
       /\ \A c \in Cluster : endCluster <= c /\ c < RunEnd => fat[c] = c + 1

\* What is left of the chain that freeChain follows.
RestIsSpelled ==
  FreeingFile =>
    /\ file \in Whole
    /\ \A i \in 1 .. keep : Spelled(file, i)
    /\ pc = "free" =>
         \E j \in keep + 1 .. Len(chain[file]) :
           cluster = chain[file][j] /\ \A i \in j .. Len(chain[file]) : Spelled(file, i)

ChainInv == ChainsAreInFat /\ Disjoint /\ RunIsNew /\ RestIsSpelled

-----------------------------------------------------------------------------
(* The numbers, and what the helpers return. *)

LEMMA Numbers ==
  /\ ClusterCount \in Nat /\ ClusterCount >= 1 /\ FatEnd \in Nat /\ FatEnd = ClusterCount + 1
  /\ MaxCount \in Nat /\ MaxCount >= 1
  /\ \A c : c \in Cluster <=> c \in Int /\ 2 <= c /\ c <= FatEnd
  /\ 0 \in Entry /\ EOC \in Entry /\ Cluster \subseteq Entry
  /\ EOC # 0 /\ Bad # 0 /\ EOC \notin Cluster
BY FatAssumption DEF FatEnd, Cluster, Entry

\* A store into an entry of the FAT leaves a FAT.
LEMMA PutType ==
  ASSUME fat \in [0 .. FatEnd -> Entry], NEW c \in Cluster, NEW v \in Entry, fatPut(c, v)
  PROVE  /\ fat' \in [0 .. FatEnd -> Entry]
         /\ fat'[c] = v
         /\ \A d \in 0 .. FatEnd : d # c => fat'[d] = fat[d]
<1>1. c \in 0 .. FatEnd
  BY Numbers
<1> QED
  BY <1>1 DEF fatPut

\* The elements of a chain are clusters.
LEMMA ChainElement ==
  ASSUME TypeOK, NEW f \in File
  PROVE  /\ chain[f] \in Seq(Cluster) /\ Len(chain[f]) \in Nat
         /\ DOMAIN chain[f] = 1 .. Len(chain[f])
         /\ \A i \in 1 .. Len(chain[f]) : chain[f][i] \in Cluster
         /\ chain[f] # << >> => Len(chain[f]) >= 1 /\ Last(chain[f]) \in Cluster
         /\ chain[f] = << >> <=> Len(chain[f]) = 0
<1>1. chain[f] \in Seq(Cluster)
  BY DEF TypeOK
<1>2. /\ Len(chain[f]) \in Nat /\ DOMAIN chain[f] = 1 .. Len(chain[f])
      /\ \A i \in 1 .. Len(chain[f]) : chain[f][i] \in Cluster
  BY <1>1, LenProperties, ElementOfSeq
<1>3. chain[f] = << >> <=> Len(chain[f]) = 0
  BY <1>1, EmptySeq
<1> QED
  BY <1>1, <1>2, <1>3 DEF Last

\* The part of TypeOK about the locals of a call and its result.
LocalTypes ==
  /\ file \in File \cup {NoFile} /\ count \in 0 .. MaxCount /\ curCluster \in {0} \cup Cluster
  /\ bgnCluster \in 0 .. FatEnd + 1 /\ endCluster \in 0 .. FatEnd + 1
  /\ n \in 0 .. ClusterCount /\ cluster \in Entry /\ keep \in 0 .. ClusterCount
  /\ reply \in [ok : BOOLEAN, asked : 0 .. MaxCount]

LEMMA ReturnType ==
  ASSUME NEW ok \in BOOLEAN, NEW asked \in 0 .. MaxCount, Return(Reply(ok, asked))
  PROVE  pc' = "idle" /\ LocalTypes'
BY Numbers DEF Return, Reply, LocalTypes

\* Where the run is that was found.
LEMMA RunPlace ==
  ASSUME TypeOK, Bounds, pc \in {"mark", "link"}
  PROVE  /\ bgnCluster \in Cluster /\ endCluster \in Cluster /\ RunEnd \in Cluster
         /\ bgnCluster <= endCluster /\ endCluster <= RunEnd
         /\ count \in Nat /\ count >= 1 /\ RunEnd = bgnCluster + count - 1
         /\ file \in File
<1>1. bgnCluster \in Int /\ endCluster \in Int /\ count \in Int /\ count >= 1 /\ file \in File
  BY Numbers DEF TypeOK, Bounds, Allocating
<1>2. bgnCluster >= 2 /\ RunEnd <= FatEnd /\ bgnCluster <= endCluster /\ endCluster <= RunEnd
  BY DEF Bounds
<1>3. RunEnd \in Int /\ RunEnd = bgnCluster + count - 1
  BY <1>1 DEF RunEnd
<1> QED
  BY <1>1, <1>2, <1>3, Numbers

\* Where the search looks.
LEMMA SearchPlace ==
  ASSUME TypeOK, Bounds, pc = "search"
  PROVE  /\ EndHere \in Cluster /\ BgnHere \in Cluster /\ BgnHere <= EndHere
         /\ EndHere \in 0 .. FatEnd
<1>1. bgnCluster \in Int /\ endCluster \in Int /\ 2 <= bgnCluster /\ bgnCluster <= endCluster
  BY Numbers DEF TypeOK, Bounds
<1>2. CASE endCluster > FatEnd
  BY <1>2, Numbers DEF EndHere, BgnHere, Wraps
<1>3. CASE ~(endCluster > FatEnd)
  BY <1>1, <1>3, Numbers DEF EndHere, BgnHere, Wraps
<1> QED
  BY <1>2, <1>3

-----------------------------------------------------------------------------
(* Types and the search hint. *)

LEMMA HintInit == Init => HintInv
<1> SUFFICES ASSUME Init PROVE HintInv
  OBVIOUS
<1>1. chain \in [File -> Seq(Cluster)]
  BY DEF Init
<1>2. fat \in [0 .. FatEnd -> Entry] /\ pc = "idle" /\ damaged \subseteq File /\ refused \in BOOLEAN
  BY DEF Init
<1>3. /\ file \in File \cup {NoFile} /\ count \in 0 .. MaxCount /\ curCluster \in {0} \cup Cluster
      /\ bgnCluster \in 0 .. FatEnd + 1 /\ endCluster \in 0 .. FatEnd + 1
      /\ n \in 0 .. ClusterCount /\ cluster \in Entry /\ keep \in 0 .. ClusterCount
  BY Numbers DEF Init
<1>4. reply \in [ok : BOOLEAN, asked : 0 .. MaxCount] /\ allocSearchStart_ \in 2 .. FatEnd + 1
  BY Numbers DEF Init, Reply
<1>5. TypeOK
  BY <1>1, <1>2, <1>3, <1>4 DEF TypeOK
<1> QED
  BY <1>5, Numbers
  DEF Init, HintInv, Bounds, HintIsExact, HintCarries, Allocating, FreeingFile

LEMMA HintAllocCall ==
  ASSUME HintInv, NEW f \in File, NEW k \in 1 .. MaxCount, AllocCall(f, k)
  PROVE  HintInv'
<1>0. TypeOK /\ Bounds /\ HintIsExact
  BY DEF HintInv
<1>1. curCluster' \in {0} \cup Cluster
  BY <1>0, ChainElement DEF AllocCall
<1>2. bgnCluster' \in 2 .. FatEnd + 1 /\ endCluster' = bgnCluster'
  <2>1. bgnCluster' = (IF curCluster' # 0 THEN curCluster' + 1 ELSE allocSearchStart_)
    BY DEF AllocCall, SearchStart
  <2>2. allocSearchStart_ \in 2 .. FatEnd + 1
    BY <1>0 DEF TypeOK
  <2>3. curCluster' # 0 => curCluster' \in Int /\ 2 <= curCluster' /\ curCluster' <= FatEnd
    BY <1>1, Numbers
  <2>4. CASE curCluster' # 0
    BY <2>1, <2>3, <2>4, Numbers DEF AllocCall
  <2>5. CASE curCluster' = 0
    BY <2>1, <2>2, <2>5 DEF AllocCall
  <2> QED
    BY <2>4, <2>5
<1>3. TypeOK'
  BY <1>0, <1>1, <1>2, Numbers DEF TypeOK, AllocCall, Reply
<1>4. Bounds'
  BY <1>2, Numbers DEF AllocCall, Bounds, Allocating, FreeingFile
<1>5. HintIsExact'
  BY <1>0 DEF AllocCall, HintIsExact
<1>6. HintCarries'
  BY <1>0 DEF AllocCall, HintCarries, SearchStart, HintIsExact, NoneFreeBelow
<1> QED
  BY <1>3, <1>4, <1>5, <1>6 DEF HintInv

LEMMA HintSearchFails ==
  ASSUME HintInv, SearchFails
  PROVE  HintInv'
<1>0. TypeOK /\ HintIsExact /\ count \in 0 .. MaxCount
  BY DEF HintInv, TypeOK
<1>1. Return(Reply(FALSE, count)) /\ pc' = "idle"
  BY DEF SearchFails, Return
<1>2. TypeOK'
  BY <1>0, <1>1, ReturnType DEF TypeOK, SearchFails, LocalTypes
<1> QED
  BY <1>0, <1>1, <1>2
  DEF HintInv, SearchFails, Bounds, HintIsExact, HintCarries, Allocating, FreeingFile

LEMMA HintSearchNext ==
  ASSUME HintInv, SearchNext
  PROVE  HintInv'
<1>0. TypeOK /\ Bounds /\ HintIsExact /\ HintCarries /\ pc = "search"
  BY DEF HintInv, SearchNext
<1>1. /\ EndHere \in Cluster /\ BgnHere \in Cluster /\ BgnHere <= EndHere
  BY <1>0, SearchPlace
<1>2. bgnCluster' \in {BgnHere, EndHere + 1} /\ endCluster' = EndHere + 1 /\ n' = n + 1
  BY DEF SearchNext
<1>3. TypeOK'
  BY <1>0, <1>1, <1>2, Numbers DEF TypeOK, SearchNext, allocVars
<1>4. Bounds'
  BY <1>0, <1>1, <1>2, Numbers DEF Bounds, SearchNext, allocVars, Allocating, FreeingFile
<1>5. HintIsExact'
  BY <1>0 DEF SearchNext, HintIsExact
<1>6. ASSUME curCluster = 0, count = 1
      PROVE  bgnCluster' = EndHere + 1 /\ NoneFreeBelow(EndHere + 1)
  <2>1. BgnHere = EndHere /\ NoneFreeBelow(EndHere)
    BY <1>0, <1>6, Numbers DEF HintCarries, BgnHere, EndHere, Wraps, NoneFreeBelow
  <2>2. fat[EndHere] # 0 /\ bgnCluster' = EndHere + 1
    BY <1>1, <1>6, <2>1, Numbers DEF SearchNext
  <2> QED
    BY <1>1, <2>1, <2>2, Numbers DEF NoneFreeBelow
<1>7. HintCarries'
  BY <1>0, <1>2, <1>6 DEF HintCarries, SearchNext, allocVars, NoneFreeBelow
<1> QED
  BY <1>3, <1>4, <1>5, <1>7 DEF HintInv

LEMMA HintSearchFinds ==
  ASSUME HintInv, SearchFinds
  PROVE  HintInv'
<1>0. TypeOK /\ Bounds /\ HintIsExact /\ HintCarries /\ pc = "search"
  BY DEF HintInv, SearchFinds
<1>1. /\ EndHere \in Cluster /\ BgnHere \in Cluster /\ BgnHere <= EndHere
  BY <1>0, SearchPlace
<1>2. TypeOK'
  BY <1>0, <1>1, Numbers DEF TypeOK, SearchFinds, allocVars
<1>3. Bounds'
  BY <1>0, <1>1, Numbers
  DEF TypeOK, Bounds, SearchFinds, allocVars, Allocating, FreeingFile, RunEnd
<1>4. HintIsExact'
  BY <1>0 DEF SearchFinds, HintIsExact
<1>5. curCluster = 0 /\ count = 1 => NoneFreeBelow(BgnHere)
  BY <1>0, Numbers DEF HintCarries, BgnHere, EndHere, Wraps, NoneFreeBelow
<1>6. HintCarries'
  BY <1>5 DEF HintCarries, SearchFinds, allocVars, NoneFreeBelow
<1> QED
  BY <1>2, <1>3, <1>4, <1>6 DEF HintInv

LEMMA HintMarkEnd ==
  ASSUME HintInv, MarkEnd
  PROVE  HintInv'
<1>0. TypeOK /\ Bounds /\ HintIsExact /\ HintCarries /\ pc = "mark"
  BY DEF HintInv, MarkEnd
<1>1. endCluster \in Cluster /\ bgnCluster \in Cluster /\ fatPut(endCluster, EOC)
  BY <1>0, RunPlace DEF MarkEnd
<1>2. /\ fat' \in [0 .. FatEnd -> Entry] /\ fat'[endCluster] = EOC
      /\ \A d \in 0 .. FatEnd : d # endCluster => fat'[d] = fat[d]
  BY <1>0, <1>1, PutType, Numbers DEF TypeOK
<1>3. TypeOK'
  BY <1>0, <1>2 DEF TypeOK, MarkEnd, locals
<1>4. Bounds'
  BY <1>0 DEF Bounds, MarkEnd, locals, Allocating, FreeingFile, RunEnd
<1>5. \A c \in Cluster : fat[c] # 0 => fat'[c] # 0
  BY <1>2, Numbers
<1>6. HintIsExact'
  BY <1>0, <1>5 DEF HintIsExact, MarkEnd
<1>7. curCluster = 0 /\ count = 1 => endCluster = bgnCluster
  BY <1>0, <1>1, Numbers DEF Bounds, RunEnd
<1>8. HintCarries'
  BY <1>0, <1>2, <1>5, <1>7, Numbers DEF HintCarries, NoneFreeBelow, MarkEnd, locals
<1> QED
  BY <1>3, <1>4, <1>6, <1>8 DEF HintInv

LEMMA HintLink ==
  ASSUME HintInv, Link
  PROVE  HintInv'
<1>0. TypeOK /\ Bounds /\ HintIsExact /\ HintCarries /\ pc = "link" /\ endCluster > bgnCluster
  BY DEF HintInv, Link
<1>1. /\ endCluster \in Cluster /\ bgnCluster \in Cluster /\ endCluster - 1 \in Cluster
      /\ fatPut(endCluster - 1, endCluster)
  <2>1. endCluster \in Cluster /\ bgnCluster \in Cluster
    BY <1>0, RunPlace
  <2> QED
    BY <1>0, <2>1, Numbers DEF Link
<1>2. /\ fat' \in [0 .. FatEnd -> Entry] /\ fat'[endCluster - 1] = endCluster
      /\ \A d \in 0 .. FatEnd : d # endCluster - 1 => fat'[d] = fat[d]
  BY <1>0, <1>1, PutType, Numbers DEF TypeOK
<1>3. endCluster' \in Cluster /\ endCluster' = endCluster - 1
  BY <1>1 DEF Link
<1>4. TypeOK'
  BY <1>0, <1>2, <1>3, Numbers DEF TypeOK, Link, allocVars
<1>5. Bounds'
  BY <1>0, <1>1, <1>3, Numbers DEF TypeOK, Bounds, Link, allocVars, Allocating, FreeingFile, RunEnd
<1>6. \A c \in Cluster : fat[c] # 0 => fat'[c] # 0
  BY <1>1, <1>2, Numbers
<1>7. HintIsExact'
  BY <1>0, <1>6 DEF HintIsExact, Link
<1>8. HintCarries'
  BY <1>0, <1>1, <1>6, Numbers DEF HintCarries, NoneFreeBelow, Link, allocVars
<1> QED
  BY <1>4, <1>5, <1>7, <1>8 DEF HintInv

LEMMA HintAllocReturns ==
  ASSUME HintInv, AllocReturns
  PROVE  HintInv'
<1>0. TypeOK /\ Bounds /\ HintIsExact /\ HintCarries /\ pc = "link"
  BY DEF HintInv, AllocReturns
<1>1. Return(Reply(TRUE, 0)) /\ pc' = "idle"
  BY DEF AllocReturns, Return
<1>2. bgnCluster \in Cluster /\ file \in File
  BY <1>0, RunPlace
<1>3. fat' \in [0 .. FatEnd -> Entry] /\ \A c \in Cluster : fat[c] # 0 => fat'[c] # 0
  <2>1. CASE curCluster = 0
    BY <1>0, <2>1 DEF AllocReturns, TypeOK
  <2>2. CASE curCluster # 0
    <3>1. curCluster \in Cluster /\ fatPut(curCluster, bgnCluster)
      BY <1>0, <2>2 DEF AllocReturns, TypeOK
    <3> QED
      BY <1>0, <1>2, <3>1, PutType, Numbers DEF TypeOK
  <2> QED
    BY <2>1, <2>2
<1>4. Run \in Seq(Cluster)
  <2>1. count \in Nat /\ \A i \in 1 .. count : bgnCluster + i - 1 \in Cluster
    BY <1>0, RunPlace, Numbers
  <2>2. Run \in [1 .. count -> Cluster]
    BY <2>1 DEF Run
  <2> QED
    BY <2>1, <2>2, SeqDef
<1>5. chain' \in [File -> Seq(Cluster)]
  <2>1. chain[file] \o Run \in Seq(Cluster)
    BY <1>0, <1>2, <1>4, ConcatProperties DEF TypeOK
  <2> QED
    BY <1>0, <1>2, <2>1 DEF AllocReturns, TypeOK
<1>6. allocSearchStart_' \in 2 .. FatEnd + 1
  BY <1>0, <1>2, Numbers DEF AllocReturns, NextSearchStart, TypeOK
<1>7. LocalTypes'
  BY <1>1, ReturnType, Numbers, 0 \in 0 .. MaxCount
<1>8. TypeOK'
  BY <1>0, <1>1, <1>3, <1>5, <1>6, <1>7 DEF TypeOK, AllocReturns, LocalTypes
<1>9. HintIsExact'
  <2>1. CASE curCluster = 0 /\ count = 1
    <3>1. allocSearchStart_' = bgnCluster + 1 /\ NoneFreeBelow(bgnCluster) /\ fat[bgnCluster] # 0
      BY <1>0, <2>1 DEF AllocReturns, NextSearchStart, HintCarries
    <3> QED
      BY <1>2, <1>3, <3>1, Numbers DEF NoneFreeBelow, HintIsExact
  <2>2. CASE ~(curCluster = 0 /\ count = 1)
    BY <1>0, <1>3, <2>2 DEF AllocReturns, NextSearchStart, HintIsExact
  <2> QED
    BY <2>1, <2>2
<1> QED
  BY <1>1, <1>8, <1>9 DEF HintInv, Bounds, HintCarries, Allocating, FreeingFile

LEMMA HintCallFails ==
  ASSUME HintInv, CallFails, UNCHANGED <<fat, allocSearchStart_>>,
         chain' \in [File -> Seq(Cluster)], damaged' \subseteq File
  PROVE  HintInv'
<1>0. TypeOK /\ HintIsExact
  BY DEF HintInv
<1>1. Return(Reply(FALSE, 0)) /\ pc' = "idle" /\ refused' = TRUE
  BY DEF CallFails, Return
<1>2. LocalTypes'
  BY <1>1, ReturnType, Numbers, 0 \in 0 .. MaxCount
<1>3. TypeOK'
  BY <1>0, <1>1, <1>2 DEF TypeOK, LocalTypes
<1> QED
  BY <1>0, <1>1, <1>3 DEF HintInv, HintIsExact, Bounds, HintCarries, Allocating, FreeingFile

LEMMA HintFreeCall ==
  ASSUME HintInv, NEW f \in File, NEW k \in 0 .. ClusterCount, FreeCall(f, k)
  PROVE  HintInv'
<1>0. TypeOK
  BY DEF HintInv
<1>1. k + 1 \in 1 .. Len(chain[f]) /\ chain[f][k + 1] \in Cluster
  BY <1>0, ChainElement DEF FreeCall
<1>2. TypeOK'
  BY <1>0, <1>1, Numbers DEF TypeOK, FreeCall, freeVars, Reply
<1>3. Bounds'
  BY DEF FreeCall, freeVars, Bounds, Allocating, FreeingFile
<1>4. HintIsExact'
  BY Numbers DEF FreeCall, HintIsExact
<1>5. HintCarries'
  BY DEF FreeCall, HintCarries
<1> QED
  BY <1>2, <1>3, <1>4, <1>5 DEF HintInv

LEMMA HintFreeNext ==
  ASSUME HintInv, FreeNext
  PROVE  HintInv'
<1>0. TypeOK /\ Bounds /\ pc = "free" /\ allocSearchStart_ = 2
  BY DEF HintInv, Bounds, FreeingFile, FreeNext
<1>1. cluster \in Cluster /\ fatPut(cluster, 0) /\ cluster \in 0 .. FatEnd
  BY Numbers DEF FreeNext, Storable, InFat
<1>2. fat' \in [0 .. FatEnd -> Entry]
  BY <1>0, <1>1, PutType, Numbers DEF TypeOK
<1>3. fat[cluster] \in Entry
  BY <1>0, <1>1 DEF TypeOK
<1>4. pc' \in {"free", "freed"}
  BY DEF FreeNext
<1>5. TypeOK'
  BY <1>0, <1>2, <1>3, <1>4 DEF TypeOK, FreeNext, freeVars
<1>6. Bounds'
  BY <1>0, <1>4 DEF FreeNext, freeVars, Bounds, Allocating, FreeingFile
<1>7. HintIsExact'
  BY <1>0, Numbers DEF FreeNext, HintIsExact
<1>8. HintCarries'
  BY <1>4 DEF HintCarries
<1> QED
  BY <1>5, <1>6, <1>7, <1>8 DEF HintInv

\* The first k clusters of a chain are a chain.
LEMMA Prefix ==
  ASSUME TypeOK, NEW f \in File, NEW k \in Nat, k <= Len(chain[f])
  PROVE  /\ SubSeq(chain[f], 1, k) \in Seq(Cluster)
         /\ Len(SubSeq(chain[f], 1, k)) = k
         /\ \A i \in 1 .. k : SubSeq(chain[f], 1, k)[i] = chain[f][i]
BY ChainElement, SubSeqProperties

LEMMA HintFreeReturns ==
  ASSUME HintInv, FreeReturns
  PROVE  HintInv'
<1>0. TypeOK /\ Bounds /\ pc = "freed" /\ allocSearchStart_ = 2 /\ file \in File /\ keep < Len(chain[file])
  BY DEF HintInv, Bounds, FreeingFile, FreeReturns
<1>1. Return(Reply(TRUE, 0)) /\ pc' = "idle"
  BY DEF FreeReturns, Return
<1>2. keep \in Nat
  BY <1>0, Numbers DEF TypeOK
<1>3. fat' \in [0 .. FatEnd -> Entry]
  <2>1. CASE keep > 0
    <3>1. chain[file][keep] \in Cluster
      BY <1>0, <1>2, <2>1, ChainElement
    <3>2. fatPut(chain[file][keep], EOC)
      BY <2>1 DEF FreeReturns
    <3> QED
      BY <1>0, <3>1, <3>2, PutType, Numbers DEF TypeOK
  <2>2. CASE ~(keep > 0)
    BY <1>0, <2>2 DEF FreeReturns, TypeOK
  <2> QED
    BY <2>1, <2>2
<1>4. chain' \in [File -> Seq(Cluster)]
  <2>1. SubSeq(chain[file], 1, keep) \in Seq(Cluster)
    BY <1>0, <1>2, ChainElement, Prefix
  <2> QED
    BY <1>0, <2>1 DEF FreeReturns, TypeOK
<1>5. LocalTypes'
  BY <1>1, ReturnType, Numbers, 0 \in 0 .. MaxCount
<1>6. TypeOK'
  BY <1>0, <1>1, <1>3, <1>4, <1>5 DEF TypeOK, FreeReturns, LocalTypes
<1>7. HintIsExact'
  BY <1>0, Numbers DEF FreeReturns, HintIsExact
<1> QED
  BY <1>1, <1>6, <1>7 DEF HintInv, Bounds, HintCarries, Allocating, FreeingFile

LEMMA HintFreeFails ==
  ASSUME HintInv, FreeFails
  PROVE  HintInv'
<1>0. TypeOK /\ file \in File /\ keep < Len(chain[file]) /\ keep \in Nat
  BY Numbers DEF HintInv, TypeOK, Bounds, FreeingFile, FreeFails
<1>1. CallFails /\ UNCHANGED <<fat, allocSearchStart_>>
  BY DEF FreeFails
<1>2. SubSeq(chain[file], 1, 1) \in Seq(Cluster)
  BY <1>0, ChainElement, Prefix
<1>3. chain' \in [File -> Seq(Cluster)] /\ damaged' \subseteq File
  BY <1>0, <1>2 DEF FreeFails, TypeOK
<1> QED
  BY <1>1, <1>3, HintCallFails

LEMMA HintStep == HintInv /\ [Next]_vars => HintInv'
<1> SUFFICES ASSUME HintInv, [Next]_vars PROVE HintInv'
  OBVIOUS
<1>1. CASE AllocFails
  BY <1>1, HintCallFails DEF AllocFails, HintInv, TypeOK
<1>2. ASSUME NEW f \in File, NEW k \in 0 .. ClusterCount, FreeCallFails(f, k)
      PROVE  HintInv'
  BY <1>2, HintCallFails DEF FreeCallFails, HintInv, TypeOK
<1>3. CASE UNCHANGED vars
  BY <1>3 DEF vars, locals, HintInv, TypeOK, Bounds, HintIsExact, HintCarries, NoneFreeBelow,
    Allocating, FreeingFile, RunEnd
<1> QED
  BY <1>1, <1>2, <1>3, HintAllocCall, HintSearchFails, HintSearchNext, HintSearchFinds, HintMarkEnd,
    HintLink, HintAllocReturns, HintFreeCall, HintFreeNext, HintFreeReturns, HintFreeFails
  DEF Next, Step, Call

\* The code's variables keep their types.
THEOREM Types == Spec => []TypeOK
<1>1. HintInv => TypeOK
  BY DEF HintInv
<1> QED
  BY <1>1, HintInit, HintStep, PTL DEF Spec

\* Starting a search at allocSearchStart_ skips no free cluster, however often
\* searches wrapped around, calls failed and chains were freed in between.
THEOREM HintSafe == Spec => []HintIsExact
<1>1. HintInv => HintIsExact
  BY DEF HintInv
<1> QED
  BY <1>1, HintInit, HintStep, PTL DEF Spec

-----------------------------------------------------------------------------
(* Chains. *)

IInv == HintInv /\ ChainInv

LEMMA SpelledChains == ChainsAreInFat <=> \A f \in Sound : \A i \in DOMAIN chain[f] : Spelled(f, i)
BY DEF ChainsAreInFat, Spelled

\* A file is sound unless it is damaged or being freed.
LEMMA SoundFiles ==
  /\ ~FreeingFile => Sound = Whole
  /\ FreeingFile => Sound = Whole \ {file}
BY DEF Sound, Whole, FreeingFile

\* The clusters of sound chains are in use.
LEMMA ChainsAreTaken ==
  ASSUME TypeOK, ChainsAreInFat, NEW f \in Sound, NEW i \in DOMAIN chain[f]
  PROVE  fat[chain[f][i]] # 0
<1>1. f \in File
  BY DEF Sound
<1>2. i \in 1 .. Len(chain[f]) /\ Len(chain[f]) \in Nat
  BY <1>1, ChainElement
<1>3. CASE i = Len(chain[f])
  BY <1>3, Numbers DEF ChainsAreInFat
<1>4. CASE i # Len(chain[f])
  <2>1. chain[f][i + 1] \in Cluster
    BY <1>1, <1>2, <1>4, ChainElement
  <2> QED
    BY <1>4, <2>1, Numbers DEF ChainsAreInFat
<1> QED
  BY <1>3, <1>4

LEMMA ChainInit == Init => ChainInv
<1> SUFFICES ASSUME Init PROVE ChainInv
  OBVIOUS
<1>1. \A f \in File : DOMAIN chain[f] = {}
  BY DEF Init
<1> QED
  BY <1>1
  DEF Init, ChainInv, ChainsAreInFat, Sound, Disjoint, Whole, RunIsNew, RestIsSpelled, Allocating, FreeingFile

\* A step that leaves no call in progress and no chain changed.
LEMMA ChainIdle ==
  ASSUME IInv, ~FreeingFile, pc' = "idle", UNCHANGED <<fat, chain, damaged>>
  PROVE  ChainInv'
<1>1. ChainsAreInFat'
  BY DEF IInv, ChainInv, ChainsAreInFat, Sound, FreeingFile
<1> QED
  BY <1>1 DEF IInv, ChainInv, Disjoint, Whole, RunIsNew, RestIsSpelled, Allocating, FreeingFile

LEMMA ChainAllocCall ==
  ASSUME IInv, NEW f \in File, NEW k \in 1 .. MaxCount, AllocCall(f, k)
  PROVE  ChainInv'
<1>1. /\ pc = "idle" /\ pc' = "search" /\ UNCHANGED <<fat, chain, damaged>>
      /\ file' = f /\ count' = k /\ endCluster' = bgnCluster'
      /\ curCluster' = IF chain[f] = << >> THEN 0 ELSE Last(chain[f])
      /\ f \notin damaged /\ (k > 1 => chain[f] = << >>)
  BY DEF AllocCall
<1>2. ChainsAreInFat'
  BY <1>1 DEF IInv, ChainInv, ChainsAreInFat, Sound
<1>3. Disjoint'
  BY <1>1 DEF IInv, ChainInv, Disjoint, Whole
<1>4. \A c \in Cluster : ~(bgnCluster' <= c /\ c < bgnCluster')
  <2>1. bgnCluster' \in Int
    BY HintAllocCall, Numbers DEF IInv, HintInv, TypeOK
  <2> QED
    BY <2>1, Numbers
<1>5. RunIsNew'
  BY <1>1, <1>4 DEF RunIsNew, Allocating, Whole
<1>6. RestIsSpelled'
  BY <1>1 DEF RestIsSpelled, FreeingFile
<1> QED
  BY <1>2, <1>3, <1>5, <1>6 DEF ChainInv

LEMMA ChainSearchNext ==
  ASSUME IInv, SearchNext
  PROVE  ChainInv'
<1>0. /\ TypeOK /\ Bounds /\ ChainInv /\ pc = "search" /\ pc' = "search"
      /\ UNCHANGED <<fat, chain, damaged, file, count, curCluster>>
  BY DEF IInv, HintInv, SearchNext, allocVars
<1>1. /\ EndHere \in Cluster /\ BgnHere \in Cluster /\ BgnHere <= EndHere
      /\ bgnCluster \in Int /\ endCluster \in Int
  BY <1>0, SearchPlace, Numbers DEF TypeOK
<1>2. ChainsAreInFat' /\ Disjoint'
  BY <1>0 DEF ChainInv, ChainsAreInFat, Sound, Disjoint, Whole
<1>3. \A c \in Cluster : BgnHere <= c /\ c < EndHere => fat[c] = 0
  <2>1. \A c \in Cluster : bgnCluster <= c /\ c < endCluster => fat[c] = 0
    BY <1>0 DEF ChainInv, RunIsNew
  <2>2. CASE Wraps
    BY <2>2, Numbers DEF BgnHere, EndHere
  <2>3. CASE ~Wraps
    BY <2>1, <2>3 DEF BgnHere, EndHere
  <2> QED
    BY <2>2, <2>3
<1>4. \A c \in Cluster : bgnCluster' <= c /\ c < endCluster' => fat'[c] = 0
  <2>1. CASE fat[EndHere] # 0 /\ bgnCluster' = EndHere + 1
    BY <1>1, <2>1, Numbers DEF SearchNext
  <2>2. CASE fat[EndHere] = 0 /\ bgnCluster' = BgnHere
    <3> SUFFICES ASSUME NEW c \in Cluster, BgnHere <= c, c < EndHere + 1
                 PROVE  fat[c] = 0
      BY <1>0, <2>2 DEF SearchNext
    <3>1. c < EndHere \/ c = EndHere
      BY <1>1, Numbers
    <3> QED
      BY <1>3, <2>2, <3>1
  <2> QED
    BY <2>1, <2>2 DEF SearchNext
<1>5. RunIsNew'
  BY <1>0, <1>4 DEF ChainInv, RunIsNew, Allocating, Whole
<1>6. RestIsSpelled'
  BY <1>0 DEF RestIsSpelled, FreeingFile
<1> QED
  BY <1>2, <1>5, <1>6 DEF ChainInv

LEMMA ChainSearchFinds ==
  ASSUME IInv, SearchFinds
  PROVE  ChainInv'
<1>0. /\ TypeOK /\ Bounds /\ ChainInv /\ pc = "search" /\ pc' = "mark"
      /\ UNCHANGED <<fat, chain, damaged, file, count, curCluster>>
      /\ fat[EndHere] = 0 /\ EndHere - BgnHere + 1 = count
      /\ bgnCluster' = BgnHere /\ endCluster' = EndHere
  BY DEF IInv, HintInv, SearchFinds, allocVars
<1>1. /\ EndHere \in Cluster /\ BgnHere \in Cluster /\ BgnHere <= EndHere
      /\ bgnCluster \in Int /\ endCluster \in Int /\ count \in Int
  BY <1>0, SearchPlace, Numbers DEF TypeOK
<1>2. ChainsAreInFat' /\ Disjoint'
  BY <1>0 DEF ChainInv, ChainsAreInFat, Sound, Disjoint, Whole
<1>3. \A c \in Cluster : BgnHere <= c /\ c <= EndHere => fat[c] = 0
  <2>1. \A c \in Cluster : bgnCluster <= c /\ c < endCluster => fat[c] = 0
    BY <1>0 DEF ChainInv, RunIsNew
  <2>2. CASE Wraps
    BY <1>0, <2>2, Numbers DEF BgnHere, EndHere
  <2>3. CASE ~Wraps
    BY <1>0, <1>1, <2>1, <2>3, Numbers DEF BgnHere, EndHere
  <2> QED
    BY <2>2, <2>3
<1>4. RunEnd' = EndHere
  BY <1>0, <1>1, Numbers DEF RunEnd
<1>5. \A g \in Whole : \A i \in DOMAIN chain[g] : ~(BgnHere <= chain[g][i] /\ chain[g][i] <= EndHere)
  <2> SUFFICES ASSUME NEW g \in Whole, NEW i \in DOMAIN chain[g]
               PROVE  ~(BgnHere <= chain[g][i] /\ chain[g][i] <= EndHere)
    OBVIOUS
  <2>1. g \in File /\ g \in Sound
    BY <1>0, SoundFiles DEF Whole, FreeingFile
  <2>2. chain[g][i] \in Cluster
    BY <1>0, <2>1, ChainElement
  <2>3. fat[chain[g][i]] # 0
    BY <1>0, <2>1, ChainsAreTaken DEF ChainInv
  <2> QED
    BY <1>3, <2>2, <2>3
<1>6. RunIsNew'
  BY <1>0, <1>4, <1>5 DEF ChainInv, RunIsNew, Allocating, Whole
<1>7. RestIsSpelled'
  BY <1>0 DEF RestIsSpelled, FreeingFile
<1> QED
  BY <1>2, <1>6, <1>7 DEF ChainInv

\* A store into the run that was found touches no chain.
LEMMA PutIntoRun ==
  ASSUME IInv, pc \in {"mark", "link"}, NEW c \in Cluster, bgnCluster <= c, c <= RunEnd,
         NEW v \in Entry, fatPut(c, v), pc' = "link", UNCHANGED <<chain, damaged>>
  PROVE  ChainsAreInFat' /\ Disjoint'
<1>0. TypeOK /\ ChainInv /\ ~FreeingFile
  BY DEF IInv, HintInv, FreeingFile
<1>1. \A f \in Whole : \A i \in DOMAIN chain[f] : fat'[chain[f][i]] = fat[chain[f][i]]
  <2> SUFFICES ASSUME NEW f \in Whole, NEW i \in DOMAIN chain[f]
               PROVE  fat'[chain[f][i]] = fat[chain[f][i]]
    OBVIOUS
  <2>1. chain[f][i] # c
    BY <1>0 DEF ChainInv, RunIsNew
  <2>2. chain[f][i] \in 0 .. FatEnd
    BY <1>0, ChainElement, Numbers DEF Whole
  <2> QED
    BY <1>0, <2>1, <2>2, PutType DEF TypeOK
<1>2. Sound = Whole /\ Sound' = Whole
  BY <1>0, SoundFiles DEF Sound, Whole
<1>3. ChainsAreInFat'
  BY <1>0, <1>1, <1>2 DEF ChainInv, ChainsAreInFat
<1>4. Disjoint'
  BY <1>0 DEF ChainInv, Disjoint, Whole
<1> QED
  BY <1>3, <1>4

LEMMA ChainMarkEnd ==
  ASSUME IInv, MarkEnd
  PROVE  ChainInv'
<1>0. /\ TypeOK /\ Bounds /\ ChainInv /\ pc = "mark" /\ pc' = "link"
      /\ fatPut(endCluster, EOC) /\ UNCHANGED <<locals, chain, damaged>>
      /\ endCluster = RunEnd
  BY DEF IInv, HintInv, ChainInv, RunIsNew, MarkEnd
<1>1. endCluster \in Cluster /\ bgnCluster \in Cluster /\ bgnCluster <= endCluster
  BY <1>0, RunPlace
<1>2. fat'[endCluster] = EOC
  BY <1>0, <1>1, PutType, Numbers DEF TypeOK
<1>3. ChainsAreInFat' /\ Disjoint'
  BY <1>0, <1>1, PutIntoRun, Numbers
<1>4. UNCHANGED <<file, count, curCluster, bgnCluster, endCluster, RunEnd>>
  BY <1>0 DEF locals, RunEnd
<1>5. \A c \in Cluster : ~(endCluster <= c /\ c < RunEnd)
  BY <1>0, <1>1, Numbers
<1>6. RunIsNew'
  BY <1>0, <1>2, <1>4, <1>5 DEF ChainInv, RunIsNew, Allocating, Whole
<1>7. RestIsSpelled'
  BY <1>0 DEF RestIsSpelled, FreeingFile
<1> QED
  BY <1>3, <1>6, <1>7 DEF ChainInv

LEMMA ChainLink ==
  ASSUME IInv, Link
  PROVE  ChainInv'
<1>0. /\ TypeOK /\ Bounds /\ ChainInv /\ pc = "link" /\ pc' = "link" /\ endCluster > bgnCluster
      /\ fatPut(endCluster - 1, endCluster) /\ endCluster' = endCluster - 1
      /\ UNCHANGED <<file, count, curCluster, bgnCluster, chain, damaged>>
  BY DEF IInv, HintInv, Link, allocVars
<1>1. /\ endCluster \in Cluster /\ bgnCluster \in Cluster /\ RunEnd \in Cluster
      /\ endCluster <= RunEnd
  BY <1>0, RunPlace
<1>2. endCluster - 1 \in Cluster /\ bgnCluster <= endCluster - 1 /\ endCluster - 1 < RunEnd
  BY <1>0, <1>1, Numbers
<1>3. /\ fat'[endCluster - 1] = endCluster
      /\ \A c \in Cluster : c # endCluster - 1 => fat'[c] = fat[c]
  BY <1>0, <1>1, <1>2, PutType, Numbers DEF TypeOK
<1>4. ChainsAreInFat' /\ Disjoint'
  BY <1>0, <1>1, <1>2, PutIntoRun, Numbers
<1>5. UNCHANGED RunEnd
  BY <1>0 DEF RunEnd
<1>6. fat'[RunEnd] = EOC
  BY <1>0, <1>1, <1>2, <1>3, Numbers DEF ChainInv, RunIsNew
<1>7. \A c \in Cluster : endCluster - 1 <= c /\ c < RunEnd => fat'[c] = c + 1
  <2> SUFFICES ASSUME NEW c \in Cluster, endCluster - 1 <= c, c < RunEnd
               PROVE  fat'[c] = c + 1
    OBVIOUS
  <2>1. CASE c = endCluster - 1
    BY <1>1, <1>3, <2>1, Numbers
  <2>2. CASE c # endCluster - 1
    <3>1. endCluster <= c
      BY <1>1, <2>2, Numbers
    <3> QED
      BY <1>0, <1>3, <2>2, <3>1 DEF ChainInv, RunIsNew
  <2> QED
    BY <2>1, <2>2
<1>8. RunIsNew'
  BY <1>0, <1>5, <1>6, <1>7 DEF ChainInv, RunIsNew, Allocating, Whole
<1>9. RestIsSpelled'
  BY <1>0 DEF RestIsSpelled, FreeingFile
<1> QED
  BY <1>4, <1>8, <1>9 DEF ChainInv

\* The chain after the run was appended.
LEMMA Appended ==
  ASSUME IInv, AllocReturns, NEW s, s = chain[file]
  PROVE  /\ s \in Seq(Cluster) /\ Len(s) \in Nat /\ count \in Nat /\ file \in File
         /\ DOMAIN chain[file] = 1 .. Len(s)
         /\ DOMAIN chain'[file] = 1 .. Len(s) + count /\ Len(chain'[file]) = Len(s) + count
         /\ \A i \in 1 .. Len(s) : chain'[file][i] = s[i]
         /\ \A i \in Len(s) + 1 .. Len(s) + count : chain'[file][i] = bgnCluster + i - Len(s) - 1
         /\ \A g \in File : g # file => chain'[g] = chain[g]
<1>0. TypeOK /\ Bounds /\ pc = "link"
  BY DEF IInv, HintInv, AllocReturns
<1>1. bgnCluster \in Cluster /\ file \in File /\ count \in Nat /\ count >= 1
  BY <1>0, RunPlace
<1>2. s \in Seq(Cluster) /\ Len(s) \in Nat /\ DOMAIN chain[file] = 1 .. Len(s)
  BY <1>0, <1>1, ChainElement
<1>3. \A i \in 1 .. count : Run[i] = bgnCluster + i - 1
  BY DEF Run
<1>4. Run \in Seq(Cluster) /\ Len(Run) = count
  <2>1. \A i \in 1 .. count : bgnCluster + i - 1 \in Cluster
    BY <1>0, <1>1, RunPlace, Numbers
  <2>2. Run \in [1 .. count -> Cluster]
    BY <2>1 DEF Run
  <2>3. Run \in Seq(Cluster)
    BY <1>1, <2>2, SeqDef
  <2>4. DOMAIN Run = 1 .. count /\ DOMAIN Run = 1 .. Len(Run) /\ Len(Run) \in Nat
    BY <2>2, <2>3, LenProperties
  <2> QED
    BY <1>1, <2>3, <2>4
<1>5. chain'[file] = s \o Run /\ \A g \in File : g # file => chain'[g] = chain[g]
  BY <1>0, <1>1 DEF AllocReturns, TypeOK
<1>6. /\ s \o Run \in Seq(Cluster) /\ Len(s \o Run) = Len(s) + count
      /\ \A i \in 1 .. Len(s) + count : (s \o Run)[i] = IF i <= Len(s) THEN s[i] ELSE Run[i - Len(s)]
  BY <1>2, <1>4, ConcatProperties
<1>7. DOMAIN chain'[file] = 1 .. Len(s) + count
  BY <1>5, <1>6, LenProperties
<1>8. \A i \in 1 .. Len(s) : chain'[file][i] = s[i]
  BY <1>1, <1>2, <1>5, <1>6
<1>9. ASSUME NEW i \in Len(s) + 1 .. Len(s) + count
      PROVE  chain'[file][i] = bgnCluster + i - Len(s) - 1
  <2>1. /\ i \in 1 .. Len(s) + count /\ ~(i <= Len(s)) /\ i - Len(s) \in 1 .. count
    BY <1>1, <1>2
  <2>2. chain'[file][i] = Run[i - Len(s)]
    BY <1>5, <1>6, <2>1
  <2>3. Run[i - Len(s)] = bgnCluster + (i - Len(s)) - 1
    BY <1>3, <2>1
  <2>4. bgnCluster + (i - Len(s)) - 1 = bgnCluster + i - Len(s) - 1
    BY <1>1, <1>2, Numbers
  <2> QED
    BY <2>2, <2>3, <2>4
<1> QED
  BY <1>1, <1>2, <1>5, <1>6, <1>7, <1>8, <1>9

LEMMA ChainAllocReturns ==
  ASSUME IInv, AllocReturns
  PROVE  ChainInv'
<1> DEFINE s == chain[file]
<1>0. /\ TypeOK /\ Bounds /\ ChainInv /\ pc = "link" /\ ~FreeingFile /\ endCluster = bgnCluster
      /\ pc' = "idle" /\ UNCHANGED damaged
  BY DEF IInv, HintInv, AllocReturns, FreeingFile, Return
<1>1. /\ bgnCluster \in Cluster /\ RunEnd \in Cluster /\ bgnCluster \in Int /\ RunEnd = bgnCluster + count - 1
      /\ count \in Nat /\ count >= 1 /\ file \in Whole /\ file \in File
  BY <1>0, RunPlace, Numbers DEF ChainInv, RunIsNew, Allocating
<1>2. /\ Len(s) \in Nat /\ DOMAIN s = 1 .. Len(s)
      /\ DOMAIN chain'[file] = 1 .. Len(s) + count /\ Len(chain'[file]) = Len(s) + count
      /\ \A i \in 1 .. Len(s) : chain'[file][i] = s[i]
      /\ \A i \in Len(s) + 1 .. Len(s) + count : chain'[file][i] = bgnCluster + i - Len(s) - 1
      /\ \A g \in File : g # file => chain'[g] = chain[g]
  BY Appended
<1>3. /\ curCluster = IF s = << >> THEN 0 ELSE Last(s)
      /\ count > 1 => s = << >>
      /\ \A g \in Whole : \A i \in DOMAIN chain[g] : ~(bgnCluster <= chain[g][i] /\ chain[g][i] <= RunEnd)
      /\ fat[RunEnd] = EOC
      /\ \A c \in Cluster : bgnCluster <= c /\ c < RunEnd => fat[c] = c + 1
  BY <1>0 DEF ChainInv, RunIsNew, Allocating
<1>4. /\ s = << >> <=> Len(s) = 0
      /\ \A g \in Whole : \A i \in DOMAIN chain[g] : chain[g][i] \in Cluster
  BY <1>0, <1>1, ChainElement DEF Whole
<1>5. Whole' = Whole /\ Sound = Whole /\ Sound' = Whole
  BY <1>0, SoundFiles DEF Sound, Whole
<1>6. \A g \in Whole : \A i \in DOMAIN chain[g] : Spelled(g, i)
  BY <1>0, <1>5, SpelledChains DEF ChainInv
<1>7. \A i \in Len(s) + 1 .. Len(s) + count :
         /\ chain'[file][i] \in Cluster
         /\ bgnCluster <= chain'[file][i] /\ chain'[file][i] <= RunEnd
  <2> SUFFICES ASSUME NEW i \in Len(s) + 1 .. Len(s) + count
               PROVE  /\ chain'[file][i] \in Cluster
                      /\ bgnCluster <= chain'[file][i] /\ chain'[file][i] <= RunEnd
    OBVIOUS
  <2>1. chain'[file][i] = bgnCluster + i - Len(s) - 1
    BY <1>2
  <2>2. /\ bgnCluster + i - Len(s) - 1 \in Int /\ bgnCluster <= bgnCluster + i - Len(s) - 1
        /\ bgnCluster + i - Len(s) - 1 <= RunEnd
    <3>1. Len(s) \in Int /\ i \in Int /\ Len(s) + 1 <= i /\ i <= Len(s) + count
      BY <1>1, <1>2
    <3>2. bgnCluster \in Int /\ count \in Int /\ RunEnd = bgnCluster + count - 1
      BY <1>1
    <3> HIDE DEF s
    <3> QED
      BY <3>1, <3>2
  <2>3. 2 <= bgnCluster /\ RunEnd <= FatEnd /\ bgnCluster \in Int /\ RunEnd \in Int /\ FatEnd \in Int
    BY <1>1, Numbers
  <2> QED
    <3> DEFINE c == chain'[file][i]
    <3>1. c \in Int /\ bgnCluster <= c /\ c <= RunEnd
      BY <2>1, <2>2
    <3> HIDE DEF c
    <3>2. c \in Cluster
      BY <2>3, <3>1, Numbers
    <3> QED
      BY <3>1, <3>2 DEF c
<1>8. Disjoint'
  <2> SUFFICES ASSUME NEW f \in Whole, NEW g \in Whole, NEW i \in DOMAIN chain'[f], NEW j \in DOMAIN chain'[g],
                      chain'[f][i] = chain'[g][j]
               PROVE  f = g /\ i = j
    BY <1>5 DEF Disjoint
  <2> DEFINE New(h, k) == h = file /\ k \in Len(s) + 1 .. Len(s) + count
             Old(h, k) == k \in DOMAIN chain[h] /\ chain'[h][k] = chain[h][k]
  <2>1. \A h \in Whole : \A k \in DOMAIN chain'[h] : New(h, k) \/ Old(h, k)
    <3> SUFFICES ASSUME NEW h \in Whole, NEW k \in DOMAIN chain'[h] PROVE New(h, k) \/ Old(h, k)
      OBVIOUS
    <3>1. CASE h # file
      BY <1>2, <3>1 DEF Whole
    <3>2. CASE h = file
      <4>1. k \in 1 .. Len(s) + count
        BY <1>2, <3>2
      <4>2. k \in 1 .. Len(s) \/ k \in Len(s) + 1 .. Len(s) + count
        BY <1>1, <1>2, <4>1
      <4> QED
        BY <1>2, <3>2, <4>2
    <3> QED
      BY <3>1, <3>2
  <2>2. CASE Old(f, i) /\ Old(g, j)
    <3>1. i \in DOMAIN chain[f] /\ j \in DOMAIN chain[g] /\ chain[f][i] = chain[g][j]
      BY <2>2
    <3>2. Disjoint
      BY <1>0 DEF ChainInv
    <3> QED
      BY <3>1, <3>2 DEF Disjoint
  <2>3. CASE Old(f, i) /\ New(g, j)
    BY <1>3, <1>7, <2>3
  <2>4. CASE New(f, i) /\ Old(g, j)
    BY <1>3, <1>7, <2>4
  <2>5. CASE New(f, i) /\ New(g, j)
    <3>1. chain'[f][i] = bgnCluster + i - Len(s) - 1 /\ chain'[g][j] = bgnCluster + j - Len(s) - 1
      BY <1>2, <2>5
    <3>2. i \in Int /\ j \in Int
      BY <1>1, <1>2, <2>5
    <3> QED
      BY <1>1, <1>2, <2>5, <3>1, <3>2
  <2> HIDE DEF New, Old
  <2> QED
    BY <2>1, <2>2, <2>3, <2>4, <2>5
<1>9. ASSUME s = << >> PROVE ChainsAreInFat'
  <2>1. fat' = fat /\ Len(s) = 0
    BY <1>3, <1>4, <1>9 DEF AllocReturns
  <2>2. ASSUME NEW g \in Whole, NEW i \in DOMAIN chain'[g]
        PROVE  Spelled(g, i)'
    <3>1. CASE g # file
      BY <1>2, <1>6, <2>1, <2>2, <3>1 DEF Spelled, Whole
    <3>2. CASE g = file
      <4>1. i \in 1 .. count /\ chain'[g][i] = bgnCluster + i - 1 /\ Len(chain'[g]) = count
        BY <1>1, <1>2, <2>1, <2>2, <3>2
      <4>2. CASE i = count
        BY <1>1, <1>3, <2>1, <4>1, <4>2 DEF Spelled
      <4>3. CASE i # count
        <5>1. i + 1 \in 1 .. count /\ chain'[g][i + 1] = bgnCluster + (i + 1) - 1
          BY <1>1, <1>2, <2>1, <3>2, <4>1, <4>3
        <5>2. bgnCluster + i - 1 \in Cluster /\ bgnCluster <= bgnCluster + i - 1 /\ bgnCluster + i - 1 < RunEnd
          BY <1>1, <4>1, <4>3, Numbers
        <5>3. fat[bgnCluster + i - 1] = bgnCluster + i - 1 + 1
          BY <1>3, <5>2
        <5> QED
          BY <1>1, <2>1, <4>1, <4>3, <5>1, <5>3 DEF Spelled
      <4> QED
        BY <4>2, <4>3
    <3> QED
      BY <3>1, <3>2
  <2> QED
    BY <1>5, <2>2 DEF ChainsAreInFat, Spelled
<1>10. ASSUME s # << >> PROVE ChainsAreInFat'
  <2>1. count = 1 /\ RunEnd = bgnCluster /\ Len(s) >= 1 /\ curCluster = s[Len(s)]
    BY <1>1, <1>2, <1>3, <1>4, <1>10 DEF Last
  <2>2. curCluster \in Cluster /\ Len(s) \in DOMAIN s
    BY <1>1, <1>2, <1>4, <2>1
  <2>3. fatPut(curCluster, bgnCluster)
    BY <2>2, Numbers DEF AllocReturns
  <2>4. fat'[curCluster] = bgnCluster /\ \A c \in Cluster : c # curCluster => fat'[c] = fat[c]
    BY <1>0, <1>1, <2>2, <2>3, PutType, Numbers DEF TypeOK
  <2>5. ASSUME NEW g \in Whole, NEW i \in DOMAIN chain[g], g # file \/ i # Len(s)
        PROVE  fat'[chain[g][i]] = fat[chain[g][i]]
    <3>1. chain[g][i] # chain[file][Len(s)]
      BY <1>0, <1>1, <2>2, <2>5 DEF ChainInv, Disjoint
    <3> QED
      BY <1>4, <2>1, <2>4, <3>1
  <2>6. ASSUME NEW g \in Whole, NEW i \in DOMAIN chain'[g]
        PROVE  Spelled(g, i)'
    <3>1. CASE g # file
      BY <1>2, <1>6, <2>5, <2>6, <3>1 DEF Spelled, Whole
    <3>2. CASE g = file /\ i = Len(s) + 1
      <4>1. chain'[g][i] = bgnCluster /\ Len(chain'[g]) = i
        BY <1>1, <1>2, <2>1, <3>2
      <4>2. bgnCluster # curCluster
        BY <1>1, <1>2, <1>3, <2>1, <2>2
      <4> QED
        BY <1>1, <1>3, <2>1, <2>4, <4>1, <4>2 DEF Spelled
    <3>3. CASE g = file /\ i = Len(s)
      <4>1. chain'[g][i] = curCluster /\ chain'[g][i + 1] = bgnCluster /\ Len(chain'[g]) # i
        BY <1>1, <1>2, <2>1, <3>3
      <4> QED
        BY <2>4, <4>1 DEF Spelled
    <3>4. CASE g = file /\ i \in 1 .. Len(s) - 1
      <4>1. i \in DOMAIN s /\ i # Len(s) /\ i + 1 \in 1 .. Len(s) /\ Len(chain'[g]) # i
        BY <1>2, <2>1, <3>4
      <4>2. fat'[s[i]] = fat[s[i]]
        BY <1>1, <2>5, <4>1
      <4>3. fat[s[i]] = s[i + 1]
        BY <1>1, <1>6, <4>1 DEF Spelled
      <4> QED
        BY <1>2, <3>4, <4>1, <4>2, <4>3 DEF Spelled
    <3> QED
      BY <1>2, <2>1, <2>6, <3>1, <3>2, <3>3, <3>4
  <2> QED
    BY <1>5, <2>6 DEF ChainsAreInFat, Spelled
<1> QED
  BY <1>0, <1>8, <1>9, <1>10 DEF ChainInv, RunIsNew, RestIsSpelled, Allocating, FreeingFile

-----------------------------------------------------------------------------
(* Chains that are freed. *)

LEMMA ChainFreeCall ==
  ASSUME IInv, ~Retry, NEW f \in File, NEW k \in 0 .. ClusterCount, FreeCall(f, k)
  PROVE  ChainInv'
<1>0. /\ TypeOK /\ ChainInv /\ pc = "idle" /\ pc' = "free" /\ UNCHANGED <<fat, chain, damaged>>
      /\ file' = f /\ keep' = k /\ cluster' = chain[f][k + 1] /\ k < Len(chain[f]) /\ f \notin damaged
  BY DEF IInv, HintInv, FreeCall
<1>1. Sound = Whole /\ Sound' = Whole \ {f} /\ Whole' = Whole
  BY <1>0, SoundFiles DEF Sound, Whole, FreeingFile
<1>2. ChainsAreInFat' /\ Disjoint'
  BY <1>0, <1>1 DEF ChainInv, ChainsAreInFat, Disjoint
<1>3. \A i \in 1 .. Len(chain[f]) : Spelled(f, i)
  BY <1>0, <1>1, SpelledChains, ChainElement DEF ChainInv, Whole
<1>4. \A i \in 1 .. k : Spelled(f, i)
  BY <1>0, <1>3, ChainElement
<1>5. k + 1 \in k + 1 .. Len(chain[f]) /\ \A i \in k + 1 .. Len(chain[f]) : Spelled(f, i)
  BY <1>0, <1>3, ChainElement
<1>6. RestIsSpelled'
  BY <1>0, <1>4, <1>5 DEF RestIsSpelled, Spelled, Whole
<1>7. RunIsNew'
  BY <1>0 DEF RunIsNew, Allocating
<1> QED
  BY <1>2, <1>6, <1>7 DEF ChainInv

LEMMA ChainFreeNext ==
  ASSUME IInv, FreeNext
  PROVE  ChainInv'
<1>0. /\ TypeOK /\ Bounds /\ ChainInv /\ pc = "free" /\ FreeingFile /\ file \in File /\ file \in Whole
      /\ UNCHANGED <<chain, damaged, file, keep>> /\ fatPut(cluster, 0) /\ keep \in Nat
      /\ pc' = (IF isEOC(fat[cluster]) THEN "freed" ELSE "free") /\ cluster' = fat[cluster]
  BY Numbers DEF IInv, HintInv, ChainInv, RestIsSpelled, FreeingFile, FreeNext, Bounds, TypeOK
<1>1. PICK j \in keep + 1 .. Len(chain[file]) :
        cluster = chain[file][j] /\ \A i \in j .. Len(chain[file]) : Spelled(file, i)
  BY <1>0 DEF ChainInv, RestIsSpelled
<1>2. Len(chain[file]) \in Nat /\ DOMAIN chain[file] = 1 .. Len(chain[file]) /\ j \in DOMAIN chain[file]
  BY <1>0, <1>1, ChainElement
<1>3. cluster \in Cluster
  BY <1>0, <1>1, <1>2, ChainElement
<1>4. ASSUME NEW g \in Whole, NEW i \in DOMAIN chain[g], g # file \/ i # j
      PROVE  fat'[chain[g][i]] = fat[chain[g][i]]
  <2>1. chain[g][i] # chain[file][j]
    BY <1>0, <1>2, <1>4 DEF ChainInv, Disjoint
  <2>2. chain[g][i] \in 0 .. FatEnd
    BY <1>0, ChainElement, Numbers DEF Whole
  <2> QED
    BY <1>0, <1>1, <1>3, <2>1, <2>2, PutType, Numbers DEF TypeOK
<1>5. Sound = Whole \ {file} /\ Sound' = Whole \ {file} /\ Whole' = Whole /\ FreeingFile'
  BY <1>0, SoundFiles DEF Sound, Whole, FreeingFile
<1>6. ChainsAreInFat'
  BY <1>0, <1>4, <1>5 DEF ChainInv, ChainsAreInFat
<1>7. Disjoint'
  BY <1>0, <1>5 DEF ChainInv, Disjoint
<1>8. \A i \in 1 .. keep : Spelled(file, i)'
  <2> SUFFICES ASSUME NEW i \in 1 .. keep PROVE Spelled(file, i)'
    OBVIOUS
  <2>1. i \in DOMAIN chain[file] /\ i # j /\ Spelled(file, i)
    BY <1>0, <1>1, <1>2 DEF ChainInv, RestIsSpelled
  <2> QED
    BY <1>0, <1>4, <2>1 DEF Spelled
<1>9. ASSUME pc' = "free"
      PROVE  /\ j + 1 \in keep + 1 .. Len(chain[file]) /\ cluster' = chain[file][j + 1]
             /\ \A i \in j + 1 .. Len(chain[file]) : Spelled(file, i)'
  <2>1. fat[chain[file][j]] # EOC /\ Spelled(file, j)
    BY <1>0, <1>1, <1>2, <1>9 DEF isEOC
  <2>2. j # Len(chain[file]) /\ fat[chain[file][j]] = chain[file][j + 1]
    BY <2>1 DEF Spelled
  <2>3. ASSUME NEW i \in j + 1 .. Len(chain[file])
        PROVE  Spelled(file, i)'
    <3>1. i \in DOMAIN chain[file] /\ i # j /\ Spelled(file, i)
      BY <1>0, <1>1, <1>2
    <3> QED
      BY <1>0, <1>4, <3>1 DEF Spelled
  <2> QED
    BY <1>0, <1>1, <1>2, <2>2, <2>3
<1>10. RestIsSpelled'
  BY <1>0, <1>5, <1>8, <1>9 DEF RestIsSpelled
<1>11. RunIsNew'
  BY <1>5 DEF RunIsNew, Allocating, FreeingFile
<1> QED
  BY <1>6, <1>7, <1>10, <1>11 DEF ChainInv

LEMMA ChainFreeReturns ==
  ASSUME IInv, FreeReturns
  PROVE  ChainInv'
<1>0. /\ TypeOK /\ Bounds /\ ChainInv /\ pc = "freed" /\ FreeingFile /\ file \in File /\ file \in Whole
      /\ keep < Len(chain[file]) /\ keep \in Nat /\ pc' = "idle"
      /\ chain' = [chain EXCEPT ![file] = SubSeq(@, 1, keep)] /\ damaged' = damaged
  BY Numbers
  DEF IInv, HintInv, ChainInv, RestIsSpelled, FreeingFile, FreeReturns, Bounds, TypeOK, Return, Whole
<1>1. Len(chain[file]) \in Nat /\ DOMAIN chain[file] = 1 .. Len(chain[file])
  BY <1>0, ChainElement
<1>2. Sound = Whole \ {file} /\ Sound' = Whole /\ Whole' = Whole
  BY <1>0, SoundFiles DEF Sound, Whole, FreeingFile
<1>3. /\ Len(chain'[file]) = keep /\ DOMAIN chain'[file] = 1 .. keep
      /\ \A i \in 1 .. keep : chain'[file][i] = chain[file][i]
      /\ \A g \in File : g # file => chain'[g] = chain[g]
  <2>1. chain'[file] = SubSeq(chain[file], 1, keep) /\ \A g \in File : g # file => chain'[g] = chain[g]
    BY <1>0 DEF TypeOK
  <2>2. /\ SubSeq(chain[file], 1, keep) \in Seq(Cluster) /\ Len(SubSeq(chain[file], 1, keep)) = keep
        /\ \A i \in 1 .. keep : SubSeq(chain[file], 1, keep)[i] = chain[file][i]
    BY <1>0, <1>1, Prefix
  <2> QED
    BY <2>1, <2>2, LenProperties
<1>4. ASSUME NEW g \in Whole, NEW i \in DOMAIN chain'[g]
      PROVE  i \in DOMAIN chain[g] /\ chain'[g][i] = chain[g][i]
  BY <1>0, <1>1, <1>3, <1>4 DEF Whole
<1>5. Disjoint'
  BY <1>0, <1>2, <1>4 DEF ChainInv, Disjoint
<1>6. ASSUME NEW g \in Whole, NEW i \in DOMAIN chain[g], g # file \/ i # keep
      PROVE  fat'[chain[g][i]] = fat[chain[g][i]]
  <2>1. CASE keep = 0
    BY <1>0, <2>1 DEF FreeReturns
  <2>2. CASE keep > 0
    <3>1. keep \in DOMAIN chain[file] /\ chain[file][keep] \in Cluster /\ fatPut(chain[file][keep], EOC)
      BY <1>0, <1>1, <2>2, ChainElement DEF FreeReturns
    <3>2. chain[g][i] # chain[file][keep]
      BY <1>0, <1>6, <3>1 DEF ChainInv, Disjoint
    <3>3. chain[g][i] \in 0 .. FatEnd
      BY <1>0, ChainElement, Numbers DEF Whole
    <3> QED
      BY <1>0, <3>1, <3>2, <3>3, PutType, Numbers DEF TypeOK
  <2> QED
    BY <1>0, <2>1, <2>2
<1>7. ASSUME NEW g \in Whole, NEW i \in DOMAIN chain'[g]
      PROVE  Spelled(g, i)'
  <2>1. CASE g # file
    <3>1. Spelled(g, i)
      BY <1>0, <1>2, <1>4, <1>7, <2>1, SpelledChains DEF ChainInv
    <3> QED
      BY <1>3, <1>4, <1>6, <1>7, <2>1, <3>1 DEF Spelled, Whole
  <2>2. CASE g = file /\ i = keep
    <3>1. keep > 0 /\ chain[file][keep] \in Cluster /\ fatPut(chain[file][keep], EOC)
      BY <1>0, <1>1, <1>3, <1>7, <2>2, ChainElement DEF FreeReturns
    <3>2. fat'[chain[file][keep]] = EOC
      BY <1>0, <3>1, PutType, Numbers DEF TypeOK
    <3> QED
      BY <1>3, <1>4, <1>7, <2>2, <3>2 DEF Spelled
  <2>3. CASE g = file /\ i # keep
    <3>1. i \in 1 .. keep /\ i + 1 \in 1 .. keep /\ i # Len(chain[file])
      BY <1>0, <1>1, <1>3, <1>7, <2>3
    <3>2. Spelled(file, i)
      BY <1>0, <3>1 DEF ChainInv, RestIsSpelled
    <3>3. fat'[chain[g][i]] = fat[chain[g][i]]
      BY <1>4, <1>6, <1>7, <2>3
    <3> QED
      BY <1>3, <2>3, <3>1, <3>2, <3>3 DEF Spelled
  <2> QED
    BY <2>1, <2>2, <2>3
<1>8. ChainsAreInFat'
  BY <1>2, <1>7 DEF ChainsAreInFat, Spelled
<1> QED
  BY <1>0, <1>5, <1>8 DEF ChainInv, RunIsNew, RestIsSpelled, Allocating, FreeingFile

LEMMA ChainFreeFails ==
  ASSUME IInv, FreeFails
  PROVE  ChainInv'
<1>0. /\ TypeOK /\ Bounds /\ ChainInv /\ pc \in {"free", "freed"} /\ FreeingFile /\ file \in File /\ file \in Whole
      /\ keep < Len(chain[file]) /\ keep \in Nat /\ pc' = "idle" /\ UNCHANGED fat
  BY Numbers
  DEF IInv, HintInv, ChainInv, RestIsSpelled, FreeingFile, FreeFails, Bounds, TypeOK, CallFails, Return
<1>1. Len(chain[file]) \in Nat /\ DOMAIN chain[file] = 1 .. Len(chain[file])
  BY <1>0, ChainElement
<1>2. Sound = Whole \ {file}
  BY <1>0, SoundFiles
<1>3. CASE pc = "free" /\ cluster = chain[file][keep + 1] /\ UNCHANGED <<chain, damaged>>
  <2>1. PICK j \in keep + 1 .. Len(chain[file]) :
          cluster = chain[file][j] /\ \A i \in j .. Len(chain[file]) : Spelled(file, i)
    BY <1>0, <1>3 DEF ChainInv, RestIsSpelled
  <2>2. j = keep + 1
    <3>1. j \in DOMAIN chain[file] /\ keep + 1 \in DOMAIN chain[file]
      BY <1>0, <1>1
    <3> QED
      BY <1>0, <1>3, <2>1, <3>1 DEF ChainInv, Disjoint
  <2>3. \A i \in DOMAIN chain[file] : Spelled(file, i)
    BY <1>0, <1>1, <2>1, <2>2 DEF ChainInv, RestIsSpelled
  <2>4. Sound' = Whole /\ Whole' = Whole
    BY <1>0, <1>3 DEF Sound, Whole
  <2>5. \A g \in Whole : \A i \in DOMAIN chain[g] : Spelled(g, i)
    BY <1>0, <1>2, <2>3, SpelledChains DEF ChainInv
  <2>6. ChainsAreInFat'
    BY <1>0, <1>3, <2>4, <2>5 DEF ChainsAreInFat, Spelled
  <2>7. Disjoint'
    BY <1>0, <1>3, <2>4 DEF ChainInv, Disjoint
  <2> QED
    BY <1>0, <2>6, <2>7 DEF ChainInv, RunIsNew, RestIsSpelled, Allocating, FreeingFile
<1>4. CASE damaged' = damaged \cup {file} /\ chain' = [chain EXCEPT ![file] = SubSeq(@, 1, 1)]
  <2>1. Sound' = Whole \ {file} /\ Whole' = Whole \ {file}
    BY <1>0, <1>4 DEF Sound, Whole
  <2>2. \A g \in Whole \ {file} : chain'[g] = chain[g]
    BY <1>0, <1>4 DEF TypeOK, Whole
  <2>3. ChainsAreInFat'
    BY <1>0, <1>2, <2>1, <2>2 DEF ChainInv, ChainsAreInFat
  <2>4. Disjoint'
    BY <1>0, <2>1, <2>2 DEF ChainInv, Disjoint
  <2> QED
    BY <1>0, <2>3, <2>4 DEF ChainInv, RunIsNew, RestIsSpelled, Allocating, FreeingFile
<1> QED
  BY <1>3, <1>4 DEF FreeFails

LEMMA ChainStep == ~Retry /\ IInv /\ [Next]_vars => ChainInv'
<1> SUFFICES ASSUME ~Retry, IInv, [Next]_vars PROVE ChainInv'
  OBVIOUS
<1>1. CASE SearchFails \/ AllocFails
  BY <1>1, ChainIdle DEF SearchFails, AllocFails, CallFails, Return, FreeingFile
<1>2. ASSUME NEW f \in File, NEW k \in 0 .. ClusterCount, FreeCallFails(f, k)
      PROVE  ChainInv'
  BY <1>2, ChainIdle DEF FreeCallFails, CallFails, Return, FreeingFile
<1>3. CASE UNCHANGED vars
  BY <1>3
  DEF vars, locals, IInv, ChainInv, ChainsAreInFat, Sound, Disjoint, Whole, RunIsNew, RestIsSpelled,
    Spelled, Allocating, FreeingFile, RunEnd
<1> QED
  BY <1>1, <1>2, <1>3, ChainAllocCall, ChainSearchNext, ChainSearchFinds, ChainMarkEnd, ChainLink,
    ChainAllocReturns, ChainFreeCall, ChainFreeNext, ChainFreeReturns, ChainFreeFails
  DEF Next, Step, Call

LEMMA Chains == ~Retry => (Spec => []IInv)
<1>1. Init => IInv
  BY HintInit, ChainInit DEF IInv
<1>2. ~Retry /\ IInv /\ [Next]_vars => IInv'
  BY HintStep, ChainStep DEF IInv
<1> SUFFICES ASSUME ~Retry PROVE Spec => []IInv
  OBVIOUS
<1>3. IInv /\ [Next]_vars => IInv'
  BY <1>2
<1> QED
  BY <1>1, <1>3, PTL DEF Spec

\* The FAT spells out every sound chain, whatever searches wrapped, calls
\* failed and chains were freed (allocContiguous 84-104, freeChain), as long
\* as no remove() that failed is called again.
THEOREM ChainsSafe == ~Retry => (Spec => []ChainsAreInFat)
<1>1. IInv => ChainsAreInFat
  BY DEF IInv, ChainInv
<1> QED
  BY <1>1, Chains, PTL

\* Under the same condition no cluster is ever in two chains, or twice in one.
THEOREM FilesAreApart == ~Retry => (Spec => []NoCrossLinks)
<1>1. IInv => NoCrossLinks
  BY DEF IInv, ChainInv, Disjoint, NoCrossLinks, Sound, Whole
<1> QED
  BY <1>1, Chains, PTL

-----------------------------------------------------------------------------
(* The search. *)

\* No run of count free clusters ends at cluster e.
NoRunTo(e) == \E i \in 0 .. count - 1 : e - i < 2 \/ fat[e - i] # 0

\* The search has come from where it began to endCluster, before or after it
\* went on from the begin of the FAT, and what it passed ends no run.
Passed ==
  LET start == SearchStart(curCluster)
  IN \/ /\ endCluster = start + n
        /\ \A e \in Cluster : start <= e /\ e < endCluster => NoRunTo(e)
     \/ /\ endCluster = start + n - ClusterCount
        /\ \A e \in Cluster : start <= e \/ e < endCluster => NoRunTo(e)

\* The run it is looking at is too short, and does not go on before its begin.
TooShort ==
  /\ endCluster - bgnCluster < count
  /\ count > 1 => bgnCluster = 2 \/ fat[bgnCluster - 1] # 0

Searched == pc = "search" => Passed /\ TooShort

\* While a call is in progress nothing has been said yet.
Unanswered == pc # "idle" => reply.asked = 0

SInv == HintInv /\ Searched /\ NoSpaceMeansNoSpace /\ Unanswered

\* The numbers of a search.
LEMMA SearchNumbers ==
  ASSUME HintInv, pc = "search"
  PROVE  /\ SearchStart(curCluster) \in Int /\ 2 <= SearchStart(curCluster)
         /\ SearchStart(curCluster) <= FatEnd + 1
         /\ n \in Int /\ 0 <= n /\ n <= ClusterCount
         /\ endCluster \in Int /\ endCluster <= FatEnd + 1 /\ bgnCluster \in Int /\ 2 <= bgnCluster
         /\ bgnCluster <= endCluster
         /\ count \in Int /\ 1 <= count /\ count <= MaxCount
<1>1. /\ allocSearchStart_ \in Int /\ 2 <= allocSearchStart_ /\ allocSearchStart_ <= FatEnd + 1
      /\ curCluster = 0 \/ (curCluster \in Int /\ 2 <= curCluster /\ curCluster <= FatEnd)
  BY Numbers DEF HintInv, TypeOK
<1>2. /\ SearchStart(curCluster) \in Int /\ 2 <= SearchStart(curCluster)
      /\ SearchStart(curCluster) <= FatEnd + 1
  BY <1>1, Numbers DEF SearchStart
<1>3. /\ n \in Int /\ 0 <= n /\ n <= ClusterCount
      /\ endCluster \in Int /\ endCluster <= FatEnd + 1 /\ bgnCluster \in Int
      /\ 2 <= bgnCluster /\ bgnCluster <= endCluster
      /\ count \in Int /\ 1 <= count /\ count <= MaxCount
  BY Numbers DEF HintInv, TypeOK, Bounds, Allocating
<1> QED
  BY <1>2, <1>3

\* A new search begins at the hint or behind the end of a chain.
LEMMA SearchBegins ==
  ASSUME HintInv, NEW f \in File, NEW k \in 1 .. MaxCount, AllocCall(f, k)
  PROVE  Searched'
<1>0. /\ TypeOK /\ UNCHANGED <<fat, allocSearchStart_>> /\ count' = k /\ n' = 0
      /\ bgnCluster' = SearchStart(curCluster') /\ endCluster' = bgnCluster'
      /\ curCluster' = (IF chain[f] = << >> THEN 0 ELSE Last(chain[f]))
      /\ k > 1 => chain[f] = << >>
  BY DEF HintInv, AllocCall
<1>1. curCluster' = 0 \/ curCluster' \in Cluster
  BY <1>0, ChainElement
<1>2. SearchStart(curCluster') \in Int
  BY <1>0, <1>1, Numbers DEF SearchStart, TypeOK
<1>3. SearchStart(curCluster)' = SearchStart(curCluster')
  BY <1>0 DEF SearchStart
<1>4. Passed'
  BY <1>0, <1>2, <1>3, Numbers DEF Passed
<1>5. bgnCluster' # 2 /\ k > 1 => fat[bgnCluster' - 1] # 0
  <2> SUFFICES ASSUME bgnCluster' # 2, k > 1 PROVE fat[bgnCluster' - 1] # 0
    OBVIOUS
  <2>1. bgnCluster' = allocSearchStart_
    BY <1>0 DEF SearchStart
  <2>2. allocSearchStart_ - 1 \in Cluster /\ allocSearchStart_ - 1 < allocSearchStart_
    BY <2>1, <1>0, Numbers DEF TypeOK
  <2> QED
    BY <2>1, <2>2 DEF HintInv, HintIsExact
<1>6. TooShort'
  BY <1>0, <1>2, <1>5 DEF TooShort
<1> QED
  BY <1>4, <1>6 DEF Searched

\* The search passes a cluster at which no run ends.
LEMMA SearchGoesOn ==
  ASSUME HintInv, Searched, SearchNext
  PROVE  Searched'
<1> DEFINE start == SearchStart(curCluster)
<1>0. /\ TypeOK /\ Bounds /\ pc = "search" /\ pc' = "search" /\ n < ClusterCount /\ Passed /\ TooShort
      /\ UNCHANGED <<fat, allocSearchStart_, curCluster, count>>
      /\ endCluster' = EndHere + 1 /\ n' = n + 1
  BY DEF HintInv, Searched, SearchNext, allocVars
<1>1. /\ start \in Int /\ 2 <= start /\ start <= FatEnd + 1
      /\ n \in Int /\ 0 <= n
      /\ endCluster \in Int /\ endCluster <= FatEnd + 1 /\ bgnCluster \in Int
      /\ count \in Int /\ 1 <= count
  BY <1>0, SearchNumbers
<1>2. EndHere \in Cluster /\ BgnHere \in Cluster /\ BgnHere <= EndHere /\ EndHere \in Int /\ BgnHere \in Int
  BY <1>0, SearchPlace, Numbers
<1>3. EndHere - BgnHere < count /\ (count > 1 => BgnHere = 2 \/ fat[BgnHere - 1] # 0)
  BY <1>0, <1>1, Numbers DEF BgnHere, EndHere, TooShort
<1>4. \/ fat[EndHere] # 0 /\ bgnCluster' = EndHere + 1
      \/ fat[EndHere] = 0 /\ EndHere - BgnHere + 1 # count /\ bgnCluster' = BgnHere
  BY DEF SearchNext
<1>5. NoRunTo(EndHere)
  <2>1. CASE fat[EndHere] # 0
    <3>1. 0 \in 0 .. count - 1 /\ EndHere - 0 = EndHere
      BY <1>1, <1>2
    <3> QED
      BY <2>1, <3>1 DEF NoRunTo
  <2>2. CASE EndHere - BgnHere + 1 # count
    <3>1. /\ EndHere - BgnHere + 1 \in 0 .. count - 1 /\ count > 1
          /\ EndHere - (EndHere - BgnHere + 1) = BgnHere - 1
      BY <1>1, <1>2, <1>3, <2>2
    <3>2. BgnHere - 1 < 2 \/ fat[BgnHere - 1] # 0
      BY <1>3, <3>1
    <3> QED
      BY <3>1, <3>2 DEF NoRunTo
  <2> QED
    BY <1>4, <2>1, <2>2
<1>6. \A e \in Cluster : NoRunTo(e)' <=> NoRunTo(e)
  BY <1>0 DEF NoRunTo
<1>7. start' = start
  BY <1>0 DEF SearchStart
<1> HIDE DEF start
<1>8. Passed'
  <2>1. CASE Wraps
    <3>1. EndHere = 2 /\ endCluster = FatEnd + 1
      BY <1>1, <2>1, Numbers DEF Wraps, EndHere
    <3>2. endCluster = start + n /\ \A e \in Cluster : start <= e => NoRunTo(e)
      <4>1. endCluster # start + n - ClusterCount
        BY <1>0, <1>1, <3>1, Numbers
      <4> QED
        BY <1>0, <1>1, <3>1, <4>1, Numbers DEF Passed, start
    <3>3. endCluster' = start + n' - ClusterCount
      BY <1>0, <1>1, <3>1, <3>2, Numbers
    <3>4. \A e \in Cluster : start <= e \/ e < endCluster' => NoRunTo(e)
      BY <1>0, <1>5, <3>1, <3>2, Numbers
    <3> QED
      BY <1>6, <1>7, <3>3, <3>4 DEF Passed, start
  <2>2. CASE ~Wraps
    <3>1. EndHere = endCluster
      BY <2>2 DEF EndHere
    <3>2. \A e \in Cluster : e < endCluster' <=> e < endCluster \/ e = EndHere
      BY <1>0, <1>1, <3>1, Numbers
    <3>3. CASE /\ endCluster = start + n
               /\ \A e \in Cluster : start <= e /\ e < endCluster => NoRunTo(e)
      <4>1. endCluster' = start + n'
        BY <1>0, <1>1, <3>1, <3>3
      <4>2. \A e \in Cluster : start <= e /\ e < endCluster' => NoRunTo(e)
        BY <1>5, <3>2, <3>3
      <4> QED
        BY <1>6, <1>7, <4>1, <4>2 DEF Passed, start
    <3>4. CASE /\ endCluster = start + n - ClusterCount
               /\ \A e \in Cluster : start <= e \/ e < endCluster => NoRunTo(e)
      <4>1. endCluster' = start + n' - ClusterCount
        BY <1>0, <1>1, <3>1, <3>4, Numbers
      <4>2. \A e \in Cluster : start <= e \/ e < endCluster' => NoRunTo(e)
        BY <1>5, <3>2, <3>4
      <4> QED
        BY <1>6, <1>7, <4>1, <4>2 DEF Passed, start
    <3> QED
      BY <1>0, <3>3, <3>4 DEF Passed, start
  <2> QED
    BY <2>1, <2>2
<1>9. TooShort'
  <2>1. CASE fat[EndHere] # 0 /\ bgnCluster' = EndHere + 1
    BY <1>0, <1>1, <1>2, <2>1 DEF TooShort
  <2>2. CASE EndHere - BgnHere + 1 # count /\ bgnCluster' = BgnHere
    BY <1>0, <1>1, <1>2, <1>3, <2>2 DEF TooShort
  <2> QED
    BY <1>4, <2>1, <2>2
<1> QED
  BY <1>8, <1>9 DEF Searched

\* When every cluster was passed there is no run.
LEMMA NoRunAnywhere ==
  ASSUME HintInv, Searched, pc = "search", n >= ClusterCount, NEW c \in Cluster
  PROVE  ~FreeRun(c, count)
<1> SUFFICES ASSUME FreeRun(c, count) PROVE FALSE
  OBVIOUS
<1> DEFINE start == SearchStart(curCluster)
           e == c + count - 1
<1>0. Passed
  BY DEF Searched
<1>1. /\ start \in Int /\ 2 <= start /\ n = ClusterCount
      /\ endCluster \in Int /\ endCluster <= FatEnd + 1
      /\ count \in Int /\ 1 <= count /\ c \in Int /\ 2 <= c
  BY SearchNumbers, Numbers
<1>2. e \in Cluster
  BY <1>1, Numbers DEF FreeRun
<1>3. NoRunTo(e)
  <2>1. CASE endCluster = start + n
    <3>1. start <= e /\ e < endCluster
      BY <1>1, <1>2, <2>1, Numbers
    <3>2. endCluster # start + n - ClusterCount
      BY <1>1, <2>1, Numbers
    <3> QED
      BY <1>0, <1>2, <3>1, <3>2 DEF Passed
  <2>2. CASE endCluster = start + n - ClusterCount
    <3>1. endCluster = start
      BY <1>1, <2>2, Numbers
    <3>2. start <= e \/ e < endCluster
      BY <1>1, <1>2, <3>1, Numbers
    <3>3. endCluster # start + n
      BY <1>1, <3>1, Numbers
    <3> QED
      BY <1>0, <1>2, <3>2, <3>3 DEF Passed
  <2> QED
    BY <1>0, <2>1, <2>2 DEF Passed
<1>4. PICK i \in 0 .. count - 1 : e - i < 2 \/ fat[e - i] # 0
  BY <1>3 DEF NoRunTo
<1>5. count - 1 - i \in 0 .. count - 1 /\ e - i = c + (count - 1 - i) /\ ~(e - i < 2)
  BY <1>1
<1>6. fat[c + (count - 1 - i)] = 0
  BY <1>5 DEF FreeRun
<1> HIDE DEF e
<1> QED
  BY <1>4, <1>5, <1>6

LEMMA SearchInit == Init => SInv
<1> SUFFICES ASSUME Init PROVE SInv
  OBVIOUS
<1>1. pc = "idle" /\ reply.asked = 0
  BY DEF Init, Reply
<1> QED
  BY <1>1, HintInit DEF SInv, Searched, NoSpaceMeansNoSpace, Unanswered

\* Only a new call begins a search, and only a search that failed says how
\* much it looked for.
LEMMA SearchStep == SInv /\ [Next]_vars => SInv'
<1> SUFFICES ASSUME SInv, [Next]_vars PROVE SInv'
  OBVIOUS
<1>0. HintInv /\ Searched /\ NoSpaceMeansNoSpace /\ Unanswered /\ HintInv'
  BY HintStep DEF SInv
<1> DEFINE Quiet == reply'.asked = 0
           Silent == pc # "idle" /\ UNCHANGED reply
<1>1. Quiet \/ Silent => NoSpaceMeansNoSpace' /\ Unanswered'
  BY <1>0 DEF NoSpaceMeansNoSpace, Unanswered
<1>2. ASSUME NEW f \in File, NEW k \in 1 .. MaxCount, AllocCall(f, k) PROVE SInv'
  <2>1. Quiet
    BY <1>2 DEF AllocCall, Reply
  <2> QED
    BY <1>0, <1>1, <1>2, <2>1, SearchBegins DEF SInv
<1>3. CASE SearchNext
  <2>1. Silent
    BY <1>3 DEF SearchNext
  <2> QED
    BY <1>0, <1>1, <1>3, <2>1, SearchGoesOn DEF SInv
<1>4. CASE SearchFails
  <2>1. /\ pc = "search" /\ n >= ClusterCount /\ pc' = "idle" /\ UNCHANGED fat
        /\ reply'.asked = count
    BY <1>4 DEF SearchFails, Return, Reply
  <2>2. \A c \in Cluster : ~FreeRun(c, count)
    BY <1>0, <2>1, NoRunAnywhere
  <2>3. NoSpaceMeansNoSpace'
    BY <2>1, <2>2 DEF NoSpaceMeansNoSpace, FreeRun
  <2> QED
    BY <1>0, <2>1, <2>3 DEF SInv, Searched, Unanswered
<1>5. ASSUME Quiet \/ Silent, pc' # "search" PROVE SInv'
  BY <1>0, <1>1, <1>5 DEF SInv, Searched
<1>6. CASE SearchFinds \/ MarkEnd \/ Link \/ FreeNext
  BY <1>5, <1>6 DEF SearchFinds, MarkEnd, Link, FreeNext
<1>7. CASE AllocReturns \/ AllocFails \/ FreeReturns \/ FreeFails
  BY <1>5, <1>7 DEF AllocReturns, AllocFails, FreeReturns, FreeFails, CallFails, Return, Reply
<1>8. ASSUME NEW f \in File, NEW k \in 0 .. ClusterCount, FreeCall(f, k) \/ FreeCallFails(f, k) PROVE SInv'
  BY <1>5, <1>8 DEF FreeCall, FreeCallFails, CallFails, Return, Reply
<1>9. CASE UNCHANGED vars
  BY <1>0, <1>9
  DEF vars, locals, SInv, Searched, Passed, TooShort, NoRunTo, SearchStart, NoSpaceMeansNoSpace,
    FreeRun, Unanswered
<1> QED
  BY <1>2, <1>3, <1>4, <1>6, <1>7, <1>8, <1>9 DEF Next, Step, Call

LEMMA Searches == Spec => []SInv
  BY SearchInit, SearchStep, PTL DEF Spec

\* allocContiguous says "can't find space checked all clusters" (line 63) only
\* when no run of the length asked for is free, for any number of clusters and
\* wherever the search began, wrapped or met a used cluster.
THEOREM NoSpaceSafe == Spec => []NoSpaceMeansNoSpace
<1>1. SInv => NoSpaceMeansNoSpace
  BY DEF SInv
<1> QED
  BY <1>1, Searches, PTL

-----------------------------------------------------------------------------
(* What is free while a call is in progress. *)

\* The run that was found is free until it is marked.
RunIsFree ==
  pc = "mark" => \A c \in Cluster : bgnCluster <= c /\ c <= RunEnd => fat[c] = 0

\* What freeChain has passed is free.
PassedIsFree ==
  /\ pc = "free" =>
       \A j \in keep + 1 .. Len(chain[file]) :
         cluster = chain[file][j] => \A i \in keep + 1 .. j - 1 : fat[chain[file][i]] = 0
  /\ pc = "freed" => \A i \in keep + 1 .. Len(chain[file]) : fat[chain[file][i]] = 0

RInv == IInv /\ SInv /\ RunIsFree /\ PassedIsFree

LEMMA FoundRunIsFree ==
  ASSUME IInv, SearchFinds
  PROVE  RunIsFree'
<1>0. /\ TypeOK /\ Bounds /\ ChainInv /\ pc = "search" /\ UNCHANGED <<fat, count>>
      /\ fat[EndHere] = 0 /\ EndHere - BgnHere + 1 = count
      /\ bgnCluster' = BgnHere /\ endCluster' = EndHere
  BY DEF IInv, HintInv, SearchFinds, allocVars
<1>1. /\ EndHere \in Int /\ BgnHere \in Int /\ count \in Int /\ endCluster \in Int
  BY <1>0, SearchPlace, Numbers DEF TypeOK
<1>2. \A c \in Cluster : bgnCluster <= c /\ c < endCluster => fat[c] = 0
  BY <1>0 DEF ChainInv, RunIsNew
<1>3. \A c \in Cluster : BgnHere <= c /\ c <= EndHere => fat[c] = 0
  <2>1. CASE Wraps
    BY <1>0, <2>1, Numbers DEF BgnHere, EndHere
  <2>2. CASE ~Wraps
    BY <1>0, <1>1, <1>2, <2>2, Numbers DEF BgnHere, EndHere
  <2> QED
    BY <2>1, <2>2
<1>4. RunEnd' = EndHere
  BY <1>0, <1>1 DEF RunEnd
<1> QED
  BY <1>0, <1>3, <1>4 DEF RunIsFree

LEMMA FreeBegins ==
  ASSUME IInv, ~Retry, NEW f \in File, NEW k \in 0 .. ClusterCount, FreeCall(f, k)
  PROVE  PassedIsFree'
<1>0. /\ TypeOK /\ Disjoint /\ pc' = "free" /\ UNCHANGED <<fat, chain>> /\ file' = f /\ keep' = k
      /\ cluster' = chain[f][k + 1] /\ k < Len(chain[f]) /\ f \in Whole
  BY DEF IInv, HintInv, ChainInv, FreeCall, Whole
<1>1. Len(chain[f]) \in Nat /\ DOMAIN chain[f] = 1 .. Len(chain[f]) /\ k \in Nat
  BY <1>0, ChainElement, Numbers
<1>2. ASSUME NEW j \in k + 1 .. Len(chain[f]), chain[f][k + 1] = chain[f][j] PROVE j = k + 1
  <2>1. k + 1 \in DOMAIN chain[f] /\ j \in DOMAIN chain[f]
    BY <1>0, <1>1
  <2> QED
    BY <1>0, <1>2, <2>1 DEF Disjoint
<1>3. \A i \in k + 1 .. (k + 1) - 1 : FALSE
  BY <1>1
<1> QED
  BY <1>0, <1>2, <1>3 DEF PassedIsFree

\* Where freeChain is in the chain it frees.
LEMMA FreePlace ==
  ASSUME IInv, pc = "free"
  PROVE  /\ file \in Whole /\ file \in File /\ keep \in Nat /\ keep < Len(chain[file])
         /\ Len(chain[file]) \in Nat /\ DOMAIN chain[file] = 1 .. Len(chain[file])
         /\ \E j \in keep + 1 .. Len(chain[file]) :
              /\ j \in DOMAIN chain[file] /\ cluster = chain[file][j] /\ cluster \in Cluster
              /\ \A i \in j .. Len(chain[file]) : Spelled(file, i)
              /\ \A i \in DOMAIN chain[file] : chain[file][i] = cluster => i = j
<1>0. /\ TypeOK /\ Bounds /\ Disjoint /\ FreeingFile /\ file \in File /\ file \in Whole /\ keep \in Nat
      /\ keep < Len(chain[file])
  BY Numbers DEF IInv, HintInv, ChainInv, RestIsSpelled, FreeingFile, Bounds, TypeOK
<1>1. Len(chain[file]) \in Nat /\ DOMAIN chain[file] = 1 .. Len(chain[file])
  BY <1>0, ChainElement
<1>2. PICK j \in keep + 1 .. Len(chain[file]) :
        cluster = chain[file][j] /\ \A i \in j .. Len(chain[file]) : Spelled(file, i)
  BY <1>0 DEF IInv, ChainInv, RestIsSpelled
<1>3. j \in DOMAIN chain[file] /\ cluster \in Cluster
  BY <1>0, <1>1, <1>2, ChainElement
<1>4. \A i \in DOMAIN chain[file] : chain[file][i] = cluster => i = j
  BY <1>0, <1>2, <1>3 DEF Disjoint
<1> QED
  BY <1>0, <1>1, <1>2, <1>3, <1>4

LEMMA FreeGoesOn ==
  ASSUME IInv, PassedIsFree, FreeNext
  PROVE  PassedIsFree'
<1>0. /\ TypeOK /\ pc = "free" /\ UNCHANGED <<chain, file, keep>> /\ fatPut(cluster, 0)
      /\ pc' = (IF isEOC(fat[cluster]) THEN "freed" ELSE "free") /\ cluster' = fat[cluster]
  BY DEF IInv, HintInv, FreeNext
<1>1. /\ file \in Whole /\ file \in File /\ keep \in Nat
      /\ Len(chain[file]) \in Nat /\ DOMAIN chain[file] = 1 .. Len(chain[file])
  BY <1>0, FreePlace
<1>2. PICK j \in keep + 1 .. Len(chain[file]) :
        /\ j \in DOMAIN chain[file] /\ cluster = chain[file][j] /\ cluster \in Cluster
        /\ \A i \in j .. Len(chain[file]) : Spelled(file, i)
        /\ \A i \in DOMAIN chain[file] : chain[file][i] = cluster => i = j
  BY <1>0, FreePlace
<1>3. ASSUME NEW i \in keep + 1 .. j PROVE fat'[chain[file][i]] = 0
  <2>1. CASE i = j
    BY <1>0, <1>2, <2>1, PutType, Numbers DEF TypeOK
  <2>2. CASE i # j
    <3>1. i \in keep + 1 .. j - 1 /\ i \in DOMAIN chain[file]
      BY <1>1, <1>2, <2>2
    <3>2. fat[chain[file][i]] = 0
      BY <1>0, <1>2, <3>1 DEF PassedIsFree
    <3>3. chain[file][i] # cluster
      BY <1>2, <2>2, <3>1
    <3>4. chain[file][i] \in 0 .. FatEnd
      BY <1>0, <1>1, <3>1, ChainElement, Numbers
    <3> QED
      BY <1>0, <1>2, <3>2, <3>3, <3>4, PutType, Numbers DEF TypeOK
  <2> QED
    BY <2>1, <2>2
<1>4. Spelled(file, j)
  BY <1>1, <1>2
<1>5. ASSUME pc' = "freed" PROVE \A i \in keep + 1 .. Len(chain[file]) : fat'[chain[file][i]] = 0
  <2>1. fat[chain[file][j]] = EOC
    BY <1>0, <1>2, <1>5 DEF isEOC
  <2>2. j = Len(chain[file])
    <3> SUFFICES ASSUME j # Len(chain[file]) PROVE FALSE
      OBVIOUS
    <3>1. fat[chain[file][j]] = chain[file][j + 1] /\ j + 1 \in 1 .. Len(chain[file])
      BY <1>1, <1>2, <1>4 DEF Spelled
    <3>2. chain[file][j + 1] \in Cluster
      BY <1>0, <1>1, <3>1, ChainElement
    <3> QED
      BY <2>1, <3>1, <3>2, Numbers
  <2> QED
    BY <1>3, <2>2
<1>6. ASSUME pc' = "free", NEW l \in keep + 1 .. Len(chain[file]), cluster' = chain[file][l]
      PROVE  \A i \in keep + 1 .. l - 1 : fat'[chain[file][i]] = 0
  <2>1. fat[chain[file][j]] # EOC
    BY <1>0, <1>2, <1>6 DEF isEOC
  <2>2. j # Len(chain[file]) /\ cluster' = chain[file][j + 1]
    BY <1>0, <1>2, <1>4, <2>1 DEF Spelled
  <2>3. j + 1 \in DOMAIN chain[file] /\ l \in DOMAIN chain[file]
    BY <1>1, <1>2, <2>2
  <2>4. l = j + 1
    BY <1>1, <1>6, <2>2, <2>3 DEF IInv, ChainInv, Disjoint
  <2>5. keep + 1 .. l - 1 = keep + 1 .. j
    BY <1>1, <1>2, <2>4
  <2> QED
    BY <1>3, <2>5
<1> QED
  BY <1>0, <1>5, <1>6 DEF PassedIsFree

LEMMA RStep == ~Retry /\ RInv /\ [Next]_vars => RunIsFree' /\ PassedIsFree'
<1> SUFFICES ASSUME ~Retry, RInv, [Next]_vars PROVE RunIsFree' /\ PassedIsFree'
  OBVIOUS
<1>0. IInv /\ RunIsFree /\ PassedIsFree
  BY DEF RInv
<1>1. ASSUME pc' \notin {"free", "freed"} PROVE PassedIsFree'
  BY <1>1 DEF PassedIsFree
<1>2. ASSUME pc' # "mark" PROVE RunIsFree'
  BY <1>2 DEF RunIsFree
<1>3. CASE SearchFinds
  BY <1>0, <1>1, <1>3, FoundRunIsFree DEF SearchFinds
<1>4. CASE FreeNext
  BY <1>0, <1>2, <1>4, FreeGoesOn DEF FreeNext
<1>5. ASSUME NEW f \in File, NEW k \in 0 .. ClusterCount, FreeCall(f, k)
      PROVE  RunIsFree' /\ PassedIsFree'
  BY <1>0, <1>2, <1>5, FreeBegins DEF FreeCall
<1>6. CASE SearchFails \/ SearchNext \/ MarkEnd \/ Link \/ AllocReturns \/ AllocFails \/ FreeReturns \/ FreeFails
  BY <1>1, <1>2, <1>6
  DEF SearchFails, SearchNext, MarkEnd, Link, AllocReturns, AllocFails, FreeReturns, FreeFails, CallFails, Return
<1>7. ASSUME NEW f \in File, NEW k, AllocCall(f, k) \/ FreeCallFails(f, k)
      PROVE  RunIsFree' /\ PassedIsFree'
  BY <1>1, <1>2, <1>7 DEF AllocCall, FreeCallFails, CallFails, Return
<1>8. CASE UNCHANGED vars
  BY <1>0, <1>8 DEF vars, locals, RunIsFree, PassedIsFree, RunEnd
<1> QED
  BY <1>3, <1>4, <1>5, <1>6, <1>7, <1>8 DEF Next, Step, Call

-----------------------------------------------------------------------------
(* The loops implement ChainStore. *)

Zero == {c \in Cluster : fat[c] = 0}

LEMMA FreeClusters ==
  /\ ~FreeingFile /\ pc # "link" => free = Zero
  /\ FreeingFile => free = Zero \ Clusters(file)
  /\ pc = "link" => free = Zero \cup {Run[i] : i \in 1 .. count}
BY DEF free, Freeing, FreeingFile, Zero

\* The clusters of a run.
LEMMA RunClusters ==
  ASSUME TypeOK, Bounds, pc \in {"mark", "link"}
  PROVE  \A c : c \in {Run[i] : i \in 1 .. count} <=> c \in Cluster /\ bgnCluster <= c /\ c <= RunEnd
<1>1. /\ bgnCluster \in Int /\ 2 <= bgnCluster /\ RunEnd \in Int /\ RunEnd <= FatEnd
      /\ count \in Nat /\ RunEnd = bgnCluster + count - 1
  BY RunPlace, Numbers
<1>2. ASSUME NEW i \in 1 .. count
      PROVE  Run[i] \in Cluster /\ bgnCluster <= Run[i] /\ Run[i] <= RunEnd
  <2>1. Run[i] = bgnCluster + i - 1
    BY DEF Run
  <2>2. Run[i] \in Int /\ bgnCluster <= Run[i] /\ Run[i] <= RunEnd
    BY <1>1, <2>1
  <2> QED
    BY <1>1, <2>2, Numbers
<1>3. ASSUME NEW c \in Cluster, bgnCluster <= c, c <= RunEnd
      PROVE  \E i \in 1 .. count : c = Run[i]
  <2>1. c - bgnCluster + 1 \in 1 .. count /\ bgnCluster + (c - bgnCluster + 1) - 1 = c
    BY <1>1, <1>3, Numbers
  <2>2. Run[c - bgnCluster + 1] = bgnCluster + (c - bgnCluster + 1) - 1
    BY <2>1 DEF Run
  <2> QED
    BY <2>1, <2>2
<1> QED
  BY <1>2, <1>3

\* The clusters of a file that is not damaged are in use between calls.
LEMMA WholeIsTaken ==
  ASSUME IInv, ~FreeingFile, NEW f \in Whole, NEW c \in Clusters(f)
  PROVE  fat[c] # 0
<1>1. PICK i \in DOMAIN chain[f] : c = chain[f][i]
  BY DEF Clusters
<1>2. f \in Sound /\ TypeOK /\ ChainsAreInFat
  BY SoundFiles DEF IInv, HintInv, ChainInv
<1> QED
  BY <1>1, <1>2, ChainsAreTaken

LEMMA ImplementsInit == Init => CS!Init
<1>1. free \subseteq Cluster <=> \A c \in {Run[i] : i \in 1 .. count} : pc = "link" => c \in Cluster
  BY DEF free
<1> QED
  BY <1>1 DEF Init, CS!Init, Reply, CS!Reply

LEMMA ImplementsAllocCall ==
  ASSUME RInv, NEW f \in File, NEW k \in 1 .. MaxCount, AllocCall(f, k)
  PROVE  CS!Begin
<1>1. /\ pc = "idle" /\ pc' = "search" /\ reply' = Reply(TRUE, 0) /\ UNCHANGED <<fat, chain, damaged>>
  BY DEF AllocCall
<1>2. free' = free
  BY <1>1 DEF free, Freeing
<1> QED
  BY <1>1, <1>2 DEF CS!Begin, CS!Reply, Reply

LEMMA ImplementsSearchFails ==
  ASSUME RInv, SearchFails
  PROVE  \E k \in 1 .. MaxCount : CS!NoRoom(k)
<1>1. /\ pc = "search" /\ pc' = "idle" /\ n >= ClusterCount /\ reply' = Reply(FALSE, count)
      /\ UNCHANGED <<fat, chain, damaged>>
  BY DEF SearchFails, Return
<1>2. HintInv /\ Searched /\ count \in 1 .. MaxCount
  BY <1>1 DEF RInv, SInv, HintInv, Bounds, Allocating
<1>3. free' = free /\ free = Zero
  BY <1>1 DEF free, Freeing, Zero
<1>4. ASSUME NEW c \in Cluster, CS!FreeRun(c, count) PROVE FALSE
  <2>1. \A i \in 1 .. count : c + i - 1 \in Cluster /\ fat[c + i - 1] = 0
    BY <1>3, <1>4 DEF CS!FreeRun, Zero
  <2>2. ASSUME NEW i \in 0 .. count - 1 PROVE fat[c + i] = 0
    <3>1. i + 1 \in 1 .. count /\ c + (i + 1) - 1 = c + i
      BY <1>2, Numbers
    <3> QED
      BY <2>1, <3>1
  <2>3. c + count - 1 <= FatEnd
    <3>1. count \in 1 .. count
      BY <1>2
    <3> QED
      BY <2>1, <3>1, Numbers
  <2> QED
    BY <1>1, <1>2, <2>2, <2>3, NoRunAnywhere DEF FreeRun
<1>5. CS!NoRoom(count)
  BY <1>1, <1>3, <1>4 DEF CS!NoRoom, CS!Reply, Reply
<1> QED
  BY <1>2, <1>5

\* Looking for a run, marking it and linking it are nothing to a caller.
LEMMA ImplementsSearchOn ==
  ASSUME RInv, SearchNext \/ SearchFinds \/ Link
  PROVE  UNCHANGED CS!vars
<1>0. TypeOK /\ Bounds
  BY DEF RInv, IInv, HintInv
<1>1. CASE SearchNext \/ SearchFinds
  <2>1. /\ pc = "search" /\ pc' \in {"search", "mark"} /\ UNCHANGED <<fat, chain, damaged, reply>>
    BY <1>1 DEF SearchNext, SearchFinds
  <2> QED
    BY <2>1 DEF free, Freeing, CS!vars
<1>2. CASE Link
  <2>1. /\ pc = "link" /\ pc' = "link" /\ endCluster > bgnCluster /\ fatPut(endCluster - 1, endCluster)
        /\ UNCHANGED <<chain, damaged, reply, count, bgnCluster>>
    BY <1>2 DEF Link, allocVars
  <2>2. /\ endCluster \in Cluster /\ endCluster - 1 \in Cluster /\ bgnCluster <= endCluster - 1
        /\ endCluster - 1 <= RunEnd
    BY <1>0, <2>1, RunPlace, Numbers
  <2>3. \A c \in Cluster : c # endCluster - 1 => fat'[c] = fat[c]
    BY <1>0, <2>1, <2>2, PutType, Numbers DEF TypeOK
  <2>4. endCluster - 1 \in {Run[i] : i \in 1 .. count}
    BY <1>0, <2>1, <2>2, RunClusters
  <2>5. {Run[i] : i \in 1 .. count}' = {Run[i] : i \in 1 .. count}
    BY <2>1 DEF Run
  <2>6. free = Zero \cup {Run[i] : i \in 1 .. count} /\ free' = Zero' \cup {Run[i] : i \in 1 .. count}
    BY <2>1, <2>5 DEF free, Freeing, Zero
  <2>7. free' = free
    BY <2>3, <2>4, <2>6 DEF Zero
  <2> QED
    BY <2>1, <2>7 DEF CS!vars
<1> QED
  BY <1>1, <1>2

LEMMA ImplementsMarkEnd ==
  ASSUME RInv, MarkEnd
  PROVE  UNCHANGED CS!vars
<1>0. TypeOK /\ Bounds /\ RunIsFree
  BY DEF RInv, IInv, HintInv
<1>1. /\ pc = "mark" /\ pc' = "link" /\ fatPut(endCluster, EOC) /\ UNCHANGED <<chain, damaged, reply, count, bgnCluster>>
  BY DEF MarkEnd, locals
<1>2. endCluster \in Cluster /\ bgnCluster <= endCluster /\ endCluster <= RunEnd
  BY <1>0, <1>1, RunPlace
<1>3. \A c \in Cluster : c # endCluster => fat'[c] = fat[c]
  BY <1>0, <1>1, <1>2, PutType, Numbers DEF TypeOK
<1>4. /\ endCluster \in {Run[i] : i \in 1 .. count}
      /\ \A c \in {Run[i] : i \in 1 .. count} : c \in Cluster /\ fat[c] = 0
  BY <1>0, <1>1, <1>2, RunClusters DEF RunIsFree
<1>5. {Run[i] : i \in 1 .. count}' = {Run[i] : i \in 1 .. count}
  BY <1>1 DEF Run
<1>6. free = Zero /\ free' = Zero' \cup {Run[i] : i \in 1 .. count}
  BY <1>1, <1>5 DEF free, Freeing, Zero
<1>7. free' = free
  BY <1>3, <1>4, <1>6 DEF Zero
<1> QED
  BY <1>1, <1>7 DEF CS!vars

LEMMA ImplementsAllocReturns ==
  ASSUME RInv, AllocReturns
  PROVE  \E f \in File, k \in 1 .. MaxCount : CS!Extend(f, k)
<1> DEFINE R == {Run[i] : i \in 1 .. count}
<1>0. /\ TypeOK /\ Bounds /\ ChainInv /\ IInv /\ pc = "link" /\ pc' = "idle" /\ endCluster = bgnCluster
      /\ chain' = [chain EXCEPT ![file] = @ \o Run] /\ UNCHANGED damaged /\ reply' = Reply(TRUE, 0)
  BY DEF RInv, IInv, HintInv, AllocReturns, Return
<1>1. /\ bgnCluster \in Cluster /\ RunEnd \in Cluster /\ count \in 1 .. MaxCount
      /\ file \in File /\ file \in Whole /\ fat[RunEnd] = EOC
      /\ curCluster = (IF chain[file] = << >> THEN 0 ELSE Last(chain[file]))
      /\ \A c \in Cluster : bgnCluster <= c /\ c < RunEnd => fat[c] = c + 1
  BY <1>0, RunPlace DEF Bounds, Allocating, ChainInv, RunIsNew
<1>2. \A c \in R : c \in Cluster /\ fat[c] # 0
  <2> SUFFICES ASSUME NEW c \in R PROVE c \in Cluster /\ fat[c] # 0
    OBVIOUS
  <2>1. c \in Cluster /\ bgnCluster <= c /\ c <= RunEnd
    BY <1>0, RunClusters
  <2>2. CASE c = RunEnd
    BY <1>1, <2>1, <2>2, Numbers
  <2>3. CASE c # RunEnd
    <3>1. c < RunEnd
      BY <1>1, <2>1, <2>3, Numbers
    <3> QED
      BY <1>1, <2>1, <3>1, Numbers
  <2> QED
    BY <2>1, <2>2, <2>3
<1>3. Zero' = Zero
  <2>1. CASE curCluster = 0
    BY <2>1 DEF AllocReturns, Zero
  <2>2. CASE curCluster # 0
    <3>1. fatPut(curCluster, bgnCluster) /\ chain[file] # << >> /\ curCluster = chain[file][Len(chain[file])]
      BY <1>1, <2>2 DEF AllocReturns, Last
    <3>2. curCluster \in Cluster /\ Len(chain[file]) \in DOMAIN chain[file]
      BY <1>0, <1>1, <3>1, ChainElement
    <3>3. fat[curCluster] # 0
      BY <1>0, <1>1, <3>1, <3>2, WholeIsTaken DEF Clusters, FreeingFile
    <3>4. fat'[curCluster] = bgnCluster /\ \A c \in Cluster : c # curCluster => fat'[c] = fat[c]
      BY <1>0, <1>1, <3>1, <3>2, PutType, Numbers DEF TypeOK
    <3> QED
      BY <1>1, <3>3, <3>4, Numbers DEF Zero
  <2> QED
    BY <2>1, <2>2
<1>4. free = Zero \cup R /\ free' = Zero'
  BY <1>0 DEF free, Freeing, Zero
<1>5. \A c \in R : c \notin Zero
  BY <1>2 DEF Zero
<1>6. R = {bgnCluster + i - 1 : i \in 1 .. count} /\ Run = CS!Run(bgnCluster, count)
  BY DEF Run, CS!Run
<1> HIDE DEF R
<1>7. free' = free \ R
  BY <1>3, <1>4, <1>5
<1>8. CS!FreeRun(bgnCluster, count)
  <2>1. \A i \in 1 .. count : bgnCluster + i - 1 \in R
    BY <1>6
  <2> QED
    BY <1>4, <2>1 DEF CS!FreeRun
<1>9. CS!Extend(file, count)
  BY <1>0, <1>1, <1>6, <1>7, <1>8 DEF CS!Extend, CS!Reply, Reply, Whole
<1> QED
  BY <1>1, <1>9

\* A refused access loses at most the clusters of the run.
LEMMA ImplementsAllocFails ==
  ASSUME RInv, AllocFails
  PROVE  CS!Refused
<1>1. /\ pc \in {"search", "mark", "link"} /\ pc' = "idle" /\ reply' = Reply(FALSE, 0)
      /\ UNCHANGED <<fat, chain, damaged>>
  BY DEF AllocFails, CallFails, Return
<1>2. free' = Zero /\ Zero \subseteq free
  BY <1>1 DEF free, Freeing, Zero
<1> QED
  BY <1>1, <1>2 DEF CS!Refused, CS!Reply, Reply

LEMMA ImplementsFreeCall ==
  ASSUME RInv, ~Retry, NEW f \in File, NEW k \in 0 .. ClusterCount, FreeCall(f, k)
  PROVE  CS!Begin
<1>1. /\ pc = "idle" /\ pc' = "free" /\ file' = f /\ f \in Whole /\ reply' = Reply(TRUE, 0)
      /\ UNCHANGED <<fat, chain, damaged>>
  BY DEF FreeCall, Whole
<1>2. \A c \in Clusters(f) : fat[c] # 0
  BY <1>1, WholeIsTaken DEF RInv, FreeingFile
<1>3. free = Zero /\ free' = Zero \ Clusters(f)
  BY <1>1 DEF free, Freeing, Zero, Clusters
<1>4. free' = free
  BY <1>2, <1>3 DEF Zero
<1> QED
  BY <1>1, <1>4 DEF CS!Begin, CS!Reply, Reply

LEMMA ImplementsFreeCallFails ==
  ASSUME RInv, NEW f \in File, NEW k \in 0 .. ClusterCount, FreeCallFails(f, k)
  PROVE  CS!Refused
<1>1. pc = "idle" /\ pc' = "idle" /\ reply' = Reply(FALSE, 0) /\ UNCHANGED <<fat, chain, damaged>>
  BY DEF FreeCallFails, CallFails, Return
<1>2. free' = free
  BY <1>1 DEF free, Freeing
<1> QED
  BY <1>1, <1>2 DEF CS!Refused, CS!Reply, Reply

\* Until the call returns a chain that is freed counts as taken.
LEMMA ImplementsFreeNext ==
  ASSUME RInv, FreeNext
  PROVE  UNCHANGED CS!vars
<1>1. /\ pc = "free" /\ pc' \in {"free", "freed"} /\ fatPut(cluster, 0)
      /\ UNCHANGED <<chain, damaged, reply, file>>
  BY DEF FreeNext
<1>2. cluster \in Cluster /\ cluster \in Clusters(file)
  BY <1>1, FreePlace DEF RInv, Clusters
<1>3. \A c \in Cluster : c # cluster => fat'[c] = fat[c]
  BY <1>1, <1>2, PutType, Numbers DEF RInv, IInv, HintInv, TypeOK
<1>4. free = Zero \ Clusters(file) /\ free' = Zero' \ Clusters(file)
  BY <1>1 DEF free, Freeing, Zero, Clusters
<1>5. free' = free
  BY <1>2, <1>3, <1>4 DEF Zero
<1> QED
  BY <1>1, <1>5 DEF CS!vars

LEMMA ImplementsFreeReturns ==
  ASSUME RInv, FreeReturns
  PROVE  \E f \in File : \E k \in 0 .. Len(chain[f]) : CS!Shorten(f, k)
<1> DEFINE Dropped == {chain[file][i] : i \in keep + 1 .. Len(chain[file])}
<1>0. /\ TypeOK /\ ChainInv /\ PassedIsFree /\ pc = "freed" /\ pc' = "idle" /\ FreeingFile
      /\ file \in File /\ file \in Whole /\ keep < Len(chain[file]) /\ keep \in Nat
      /\ chain' = [chain EXCEPT ![file] = SubSeq(@, 1, keep)] /\ damaged' = damaged
      /\ reply' = Reply(TRUE, 0)
  BY Numbers
  DEF RInv, IInv, HintInv, ChainInv, RestIsSpelled, FreeingFile, FreeReturns, Bounds, TypeOK, Return, Whole
<1>1. /\ Len(chain[file]) \in Nat /\ DOMAIN chain[file] = 1 .. Len(chain[file])
      /\ \A i \in 1 .. Len(chain[file]) : chain[file][i] \in Cluster
  BY <1>0, ChainElement
<1>2. ASSUME NEW i \in 1 .. keep PROVE fat[chain[file][i]] # 0
  <2>1. Spelled(file, i) /\ i # Len(chain[file]) /\ i + 1 \in 1 .. Len(chain[file])
    BY <1>0, <1>1 DEF ChainInv, RestIsSpelled
  <2> QED
    BY <1>1, <2>1, Numbers DEF Spelled
<1>3. \A c \in Dropped : c \in Cluster /\ fat[c] = 0
  BY <1>0, <1>1 DEF PassedIsFree
<1>4. \A c \in Clusters(file) : c \in Dropped \/ fat[c] # 0
  <2> SUFFICES ASSUME NEW i \in 1 .. Len(chain[file]) PROVE chain[file][i] \in Dropped \/ fat[chain[file][i]] # 0
    BY <1>1 DEF Clusters
  <2>1. i \in 1 .. keep \/ i \in keep + 1 .. Len(chain[file])
    BY <1>0, <1>1
  <2> QED
    BY <1>2, <2>1
<1>5. Dropped \subseteq Clusters(file)
  BY <1>0, <1>1 DEF Clusters
<1>6. Zero' = Zero
  <2>1. CASE keep = 0
    BY <1>0, <2>1 DEF FreeReturns, Zero
  <2>2. CASE keep > 0
    <3>1. keep \in 1 .. keep /\ chain[file][keep] \in Cluster /\ fatPut(chain[file][keep], EOC)
      BY <1>0, <1>1, <2>2 DEF FreeReturns
    <3>2. /\ fat'[chain[file][keep]] = EOC
          /\ \A c \in Cluster : c # chain[file][keep] => fat'[c] = fat[c]
      BY <1>0, <3>1, PutType, Numbers DEF TypeOK
    <3> QED
      BY <1>2, <3>1, <3>2, Numbers DEF Zero
  <2> QED
    BY <1>0, <2>1, <2>2
<1>7. free = Zero \ Clusters(file) /\ free' = Zero'
  BY <1>0 DEF free, Freeing, Zero
<1> HIDE DEF Dropped
<1>8. free' = free \cup Dropped
  BY <1>3, <1>4, <1>5, <1>6, <1>7 DEF Zero
<1>9. CS!Shorten(file, keep)
  BY <1>0, <1>8 DEF CS!Shorten, CS!Reply, Reply, Whole, Dropped
<1>10. keep \in 0 .. Len(chain[file])
  BY <1>0, <1>1
<1> QED
  BY <1>0, <1>9, <1>10

\* Refused before its first entry was freed a call has done nothing; later it
\* costs the file its chain.
LEMMA ImplementsFreeFails ==
  ASSUME RInv, FreeFails
  PROVE  CS!Refused \/ \E f \in File : CS!Damage(f)
<1>0. /\ TypeOK /\ ChainInv /\ IInv /\ pc \in {"free", "freed"} /\ FreeingFile /\ pc' = "idle"
      /\ file \in File /\ file \in Whole /\ UNCHANGED fat /\ reply' = Reply(FALSE, 0)
  BY DEF RInv, IInv, HintInv, ChainInv, RestIsSpelled, FreeingFile, FreeFails, Bounds, CallFails, Return
<1>1. free = Zero \ Clusters(file) /\ free' = Zero
  BY <1>0 DEF free, Freeing, Zero
<1>2. CASE pc = "free" /\ cluster = chain[file][keep + 1] /\ UNCHANGED <<chain, damaged>>
  <2>1. keep + 1 \in DOMAIN chain[file] /\ DOMAIN chain[file] = 1 .. Len(chain[file]) /\ keep \in Nat
    BY <1>0, <1>2, FreePlace
  <2>2. \A i \in keep + 1 .. Len(chain[file]) : Spelled(file, i)
    BY <1>0, <1>2, <2>1, FreePlace
  <2>3. \A i \in DOMAIN chain[file] : Spelled(file, i)
    <3>1. \A i \in 1 .. keep : Spelled(file, i)
      BY <1>0 DEF ChainInv, RestIsSpelled
    <3>2. Len(chain[file]) \in Nat
      BY <1>0, ChainElement
    <3>3. \A i \in 1 .. Len(chain[file]) : i \in 1 .. keep \/ i \in keep + 1 .. Len(chain[file])
      BY <2>1, <3>2
    <3> QED
      BY <2>1, <2>2, <3>1, <3>3
  <2>4. ASSUME NEW i \in DOMAIN chain[file] PROVE fat[chain[file][i]] # 0
    <3>1. CASE i = Len(chain[file])
      BY <2>3, <3>1, Numbers DEF Spelled
    <3>2. CASE i # Len(chain[file])
      <4>1. i + 1 \in 1 .. Len(chain[file])
        BY <1>0, <2>1, <3>2, ChainElement
      <4>2. chain[file][i + 1] \in Cluster
        BY <1>0, <4>1, ChainElement
      <4>3. fat[chain[file][i]] = chain[file][i + 1]
        BY <2>3, <3>2 DEF Spelled
      <4> QED
        BY <4>2, <4>3, Numbers
    <3> QED
      BY <3>1, <3>2
  <2>5. free' \subseteq free
    BY <1>1, <2>4 DEF Zero, Clusters
  <2> QED
    BY <1>0, <1>2, <2>5 DEF CS!Refused, CS!Reply, Reply
<1>3. CASE damaged' = damaged \cup {file} /\ chain' = [chain EXCEPT ![file] = SubSeq(@, 1, 1)]
  <2>1. free \subseteq free' /\ free' \subseteq free \cup {chain[file][i] : i \in DOMAIN chain[file]}
    BY <1>1 DEF Clusters
  <2>2. CS!Damage(file)
    BY <1>0, <1>3, <2>1 DEF CS!Damage, CS!Reply, Reply, Whole
  <2> QED
    BY <1>0, <2>2
<1> QED
  BY <1>2, <1>3 DEF FreeFails

LEMMA ImplementsStep == ~Retry /\ RInv /\ [Next]_vars => [CS!Next]_CS!vars
<1> SUFFICES ASSUME ~Retry, RInv, [Next]_vars PROVE [CS!Next]_CS!vars
  OBVIOUS
<1>1. CASE UNCHANGED vars
  BY <1>1 DEF vars, locals, CS!vars, free, Freeing, Clusters, Run
<1>2. CASE Step
  BY <1>2, ImplementsSearchFails, ImplementsSearchOn, ImplementsMarkEnd, ImplementsAllocReturns,
    ImplementsAllocFails, ImplementsFreeNext, ImplementsFreeReturns, ImplementsFreeFails
  DEF Step, CS!Next
<1>3. CASE Call
  BY <1>3, ImplementsAllocCall, ImplementsFreeCall, ImplementsFreeCallFails DEF Call, CS!Next
<1> QED
  BY <1>1, <1>2, <1>3 DEF Next

\* Turn by turn and access by access the loops of allocContiguous and freeChain
\* do to the chains what one call of ChainStore does at once (lines 31-107,
\* 226-243), for any number of clusters and files, runs of any length and any
\* refused accesses, as long as no remove() that failed is called again.
THEOREM ImplementsChains == ~Retry => (Spec => ImplementsChainStore)
<1> SUFFICES ASSUME ~Retry PROVE Spec => ImplementsChainStore
  OBVIOUS
<1>1. Init => CS!Init /\ RunIsFree /\ PassedIsFree
  BY ImplementsInit DEF Init, RunIsFree, PassedIsFree
<1>2. Spec => []IInv
  BY Chains
<1>3. IInv /\ SInv /\ RunIsFree /\ PassedIsFree /\ [Next]_vars => RunIsFree' /\ PassedIsFree'
  BY RStep DEF RInv
<1>4. IInv /\ SInv /\ RunIsFree /\ PassedIsFree /\ [Next]_vars => [CS!Next]_CS!vars
  BY ImplementsStep DEF RInv
<1> QED
  BY <1>1, <1>2, <1>3, <1>4, Searches, PTL DEF Spec, ImplementsChainStore, CS!Spec

-----------------------------------------------------------------------------
(* Nothing is lost. *)

\* As long as nothing was refused a cluster in use is in a chain, or in the
\* run that is going to be appended to one.
Accounted ==
  ~refused =>
    \A c \in Cluster :
      \/ fat[c] \in {0, Bad}
      \/ \E f \in File : c \in Clusters(f)
      \/ pc \in {"mark", "link"} /\ bgnCluster <= c /\ c <= RunEnd

\* A store into the run.
LEMMA AccountedRun ==
  ASSUME IInv, Accounted, MarkEnd \/ Link
  PROVE  Accounted'
<1>0. /\ TypeOK /\ Bounds /\ pc \in {"mark", "link"} /\ pc' = "link"
      /\ UNCHANGED <<chain, refused, bgnCluster, count>>
  BY DEF IInv, HintInv, MarkEnd, Link, locals, allocVars
<1>1. /\ bgnCluster \in Cluster /\ endCluster \in Cluster /\ RunEnd \in Cluster
      /\ bgnCluster <= endCluster /\ endCluster <= RunEnd
  BY <1>0, RunPlace
<1>2. \E d \in Cluster : bgnCluster <= d /\ d <= RunEnd /\ \E v \in Entry : fatPut(d, v)
  <2>1. CASE MarkEnd
    BY <1>1, <2>1, Numbers DEF MarkEnd
  <2>2. CASE Link
    <3>1. /\ endCluster - 1 \in Cluster /\ bgnCluster <= endCluster - 1 /\ endCluster - 1 <= RunEnd
          /\ fatPut(endCluster - 1, endCluster)
      BY <1>1, <2>2, Numbers DEF Link
    <3> QED
      BY <1>1, <3>1, Numbers
  <2> QED
    BY <2>1, <2>2
<1>3. PICK d \in Cluster : bgnCluster <= d /\ d <= RunEnd /\ \E v \in Entry : fatPut(d, v)
  BY <1>2
<1>4. \A c \in Cluster : c # d => fat'[c] = fat[c]
  BY <1>0, <1>3, PutType, Numbers DEF TypeOK
<1>5. RunEnd' = RunEnd /\ \A f \in File : Clusters(f)' = Clusters(f)
  BY <1>0 DEF RunEnd, Clusters
<1> QED
  BY <1>0, <1>3, <1>4, <1>5 DEF Accounted

LEMMA AccountedAllocReturns ==
  ASSUME IInv, Accounted, AllocReturns
  PROVE  Accounted'
<1>0. /\ TypeOK /\ Bounds /\ ChainInv /\ pc = "link" /\ pc' = "idle" /\ UNCHANGED refused
      /\ curCluster = (IF chain[file] = << >> THEN 0 ELSE Last(chain[file]))
  BY DEF IInv, HintInv, ChainInv, RunIsNew, Allocating, AllocReturns, Return
<1>1. /\ Len(chain[file]) \in Nat /\ count \in Nat /\ file \in File
      /\ DOMAIN chain[file] = 1 .. Len(chain[file])
      /\ DOMAIN chain'[file] = 1 .. Len(chain[file]) + count
      /\ \A i \in 1 .. Len(chain[file]) : chain'[file][i] = chain[file][i]
      /\ \A i \in Len(chain[file]) + 1 .. Len(chain[file]) + count :
           chain'[file][i] = bgnCluster + i - Len(chain[file]) - 1
      /\ \A g \in File : g # file => chain'[g] = chain[g]
  BY Appended
<1>5. PICK own \in File : own = file
  BY <1>1
<1>2. \A f \in File : Clusters(f) \subseteq Clusters(f)'
  BY <1>1 DEF Clusters
<1>3. ASSUME NEW c \in Cluster, bgnCluster <= c, c <= RunEnd PROVE c \in Clusters(own)'
  <2>1. c \in Int /\ bgnCluster \in Int /\ RunEnd = bgnCluster + count - 1
    BY <1>0, RunPlace, Numbers
  <2>2. PICK l \in Nat : l = Len(chain[file])
    BY <1>1
  <2>3. l + (c - bgnCluster) + 1 \in Int /\ c \in Int
    BY <2>1
  <2> DEFINE i == l + (c - bgnCluster) + 1
  <2>4. i \in l + 1 .. l + count /\ i \in 1 .. l + count /\ bgnCluster + i - l - 1 = c
    BY <1>1, <1>3, <2>1, <2>3
  <2> HIDE DEF i
  <2>5. i \in DOMAIN chain'[file] /\ chain'[file][i] = c
    BY <1>1, <2>2, <2>4
  <2> QED
    BY <1>5, <2>5 DEF Clusters
<1>4. ASSUME NEW c \in Cluster, fat'[c] # fat[c] PROVE c \in Clusters(file)
  <2>1. curCluster # 0 /\ fatPut(curCluster, bgnCluster)
    BY <1>4 DEF AllocReturns
  <2>2. chain[file] # << >> /\ curCluster = chain[file][Len(chain[file])]
    BY <1>0, <2>1 DEF Last
  <2>3. Len(chain[file]) \in DOMAIN chain[file] /\ curCluster \in Cluster /\ bgnCluster \in Cluster
    BY <1>0, <1>1, <2>2, ChainElement, RunPlace
  <2>4. c = curCluster
    BY <1>0, <1>4, <2>1, <2>3, PutType, Numbers DEF TypeOK
  <2> QED
    BY <2>2, <2>3, <2>4 DEF Clusters
<1> QED
  BY <1>0, <1>1, <1>2, <1>3, <1>4, <1>5 DEF Accounted

LEMMA AccountedFreeNext ==
  ASSUME IInv, Accounted, FreeNext
  PROVE  Accounted'
<1>1. TypeOK /\ pc = "free" /\ fatPut(cluster, 0) /\ cluster \in Cluster /\ UNCHANGED <<chain, refused>>
  BY FreePlace DEF IInv, HintInv, FreeNext
<1>2. fat'[cluster] = 0 /\ \A c \in Cluster : c # cluster => fat'[c] = fat[c]
  BY <1>1, PutType, Numbers DEF TypeOK
<1>3. \A f \in File : Clusters(f)' = Clusters(f)
  BY <1>1 DEF Clusters
<1> QED
  BY <1>1, <1>2, <1>3 DEF Accounted

LEMMA AccountedFreeReturns ==
  ASSUME IInv, PassedIsFree, Accounted, FreeReturns
  PROVE  Accounted'
<1>0. /\ TypeOK /\ pc = "freed" /\ pc' = "idle" /\ file \in File
      /\ keep < Len(chain[file]) /\ keep \in Nat /\ UNCHANGED refused
      /\ chain' = [chain EXCEPT ![file] = SubSeq(@, 1, keep)]
  BY Numbers DEF IInv, HintInv, FreeReturns, FreeingFile, Bounds, TypeOK, Return
<1>1. /\ Len(chain[file]) \in Nat /\ DOMAIN chain[file] = 1 .. Len(chain[file])
      /\ \A i \in 1 .. Len(chain[file]) : chain[file][i] \in Cluster
  BY <1>0, ChainElement
<1>5. PICK own \in File : own = file
  BY <1>0
<1>2. /\ DOMAIN chain'[file] = 1 .. keep
      /\ \A i \in 1 .. keep : chain'[file][i] = chain[file][i]
      /\ \A g \in File : g # file => chain'[g] = chain[g]
  <2>1. chain'[file] = SubSeq(chain[file], 1, keep) /\ \A g \in File : g # file => chain'[g] = chain[g]
    BY <1>0 DEF TypeOK
  <2>2. /\ SubSeq(chain[file], 1, keep) \in Seq(Cluster) /\ Len(SubSeq(chain[file], 1, keep)) = keep
        /\ \A i \in 1 .. keep : SubSeq(chain[file], 1, keep)[i] = chain[file][i]
    BY <1>0, <1>1, ChainElement, Prefix
  <2> QED
    BY <2>1, <2>2, LenProperties
<1>3. ASSUME NEW c \in Cluster, fat'[c] # fat[c] PROVE c \in Clusters(own)'
  <2>1. keep > 0 /\ fatPut(chain[file][keep], EOC)
    BY <1>0, <1>3 DEF FreeReturns
  <2>2. keep \in 1 .. keep /\ chain[file][keep] \in Cluster
    BY <1>0, <1>1, <2>1
  <2>3. c = chain[file][keep]
    BY <1>0, <1>3, <2>1, <2>2, PutType, Numbers DEF TypeOK
  <2> QED
    BY <1>2, <1>5, <2>2, <2>3 DEF Clusters
<1>4. ASSUME NEW f \in File, NEW c \in Clusters(f) PROVE fat[c] = 0 \/ c \in Clusters(f)'
  <2>1. CASE f # file
    BY <1>2, <1>4, <2>1 DEF Clusters
  <2>2. CASE f = file
    <3>1. PICK i \in 1 .. Len(chain[file]) : c = chain[file][i]
      BY <1>1, <1>4, <2>2 DEF Clusters
    <3>2. i \in 1 .. keep \/ i \in keep + 1 .. Len(chain[file])
      BY <1>0, <1>1
    <3>3. CASE i \in 1 .. keep
      BY <1>2, <2>2, <3>1, <3>3 DEF Clusters
    <3>4. CASE i \in keep + 1 .. Len(chain[file])
      BY <1>0, <3>1, <3>4 DEF PassedIsFree
    <3> QED
      BY <3>2, <3>3, <3>4
  <2> QED
    BY <2>1, <2>2
<1> QED
  BY <1>0, <1>3, <1>4, <1>5 DEF Accounted

LEMMA AccountedStep == RInv /\ Accounted /\ [Next]_vars => Accounted'
<1> SUFFICES ASSUME RInv, Accounted, [Next]_vars PROVE Accounted'
  OBVIOUS
<1>1. CASE AllocFails \/ FreeFails
  BY <1>1 DEF AllocFails, FreeFails, CallFails, Accounted
<1>2. CASE SearchFails \/ SearchNext \/ SearchFinds
  <2>1. pc = "search" /\ UNCHANGED <<fat, chain, refused>>
    BY <1>2 DEF SearchFails, SearchNext, SearchFinds
  <2> QED
    BY <2>1 DEF Accounted, Clusters
<1>3. ASSUME NEW f \in File, NEW k, AllocCall(f, k) \/ FreeCall(f, k) \/ FreeCallFails(f, k)
      PROVE  Accounted'
  <2>1. pc = "idle" /\ UNCHANGED <<fat, chain>> /\ (refused' = TRUE \/ UNCHANGED refused)
    BY <1>3 DEF AllocCall, FreeCall, FreeCallFails, CallFails
  <2> QED
    BY <2>1 DEF Accounted, Clusters
<1>4. CASE UNCHANGED vars
  BY <1>4 DEF vars, locals, Accounted, Clusters, RunEnd
<1> QED
  BY <1>1, <1>2, <1>3, <1>4, AccountedRun, AccountedAllocReturns, AccountedFreeNext, AccountedFreeReturns
  DEF Next, Step, Call, RInv

\* As long as no access was refused every cluster is, between calls, free, bad
\* or in a chain, for any number of clusters and files and any runs.
THEOREM NothingLost == ~Retry => (Spec => []NoLostClusters)
<1> SUFFICES ASSUME ~Retry PROVE Spec => []NoLostClusters
  OBVIOUS
<1>1. Init => RunIsFree /\ PassedIsFree /\ Accounted
  <2> SUFFICES ASSUME Init PROVE RunIsFree /\ PassedIsFree /\ Accounted
    OBVIOUS
  <2>1. \A c \in Cluster : c \in 0 .. FatEnd
    BY Numbers
  <2>2. Accounted
    BY <2>1 DEF Init, Accounted
  <2> QED
    BY <2>2 DEF Init, RunIsFree, PassedIsFree
<1>2. IInv /\ SInv /\ RunIsFree /\ PassedIsFree /\ [Next]_vars => RunIsFree' /\ PassedIsFree'
  BY RStep DEF RInv
<1>3. IInv /\ SInv /\ RunIsFree /\ PassedIsFree /\ Accounted /\ [Next]_vars => Accounted'
  BY AccountedStep DEF RInv
<1>4. Accounted => NoLostClusters
  BY DEF Accounted, NoLostClusters
<1> QED
  BY <1>1, <1>2, <1>3, <1>4, Chains, Searches, PTL DEF Spec

=============================================================================
