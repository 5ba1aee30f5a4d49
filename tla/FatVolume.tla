------------------------------ MODULE FatVolume ------------------------------
(***************************************************************************)
(* Cluster chains: SpiSdVolume::allocContiguous and freeChain, called by    *)
(* SpiSdFile::addCluster, createContiguous, truncate and remove.            *)
(*                                                                         *)
(* The FAT is seen through the cache, as the memory of entries BlockStore   *)
(* promises: a fatGet or fatPut either works on the entry or fails and      *)
(* changes nothing.  One step is one turn of a loop of the code, or one     *)
(* straight piece between two accesses; a call can fail at every access.    *)
(* `chain' and the variables after it are history: what the callers were    *)
(* told, against which the FAT itself is compared.                          *)
(***************************************************************************)
EXTENDS Integers, Sequences, FiniteSets

CONSTANTS
  ClusterCount,   \* clusterCount_
  File,           \* files and directories
  NoFile,         \* the file of no call
  MaxCount,       \* bound: the largest count asked of allocContiguous
  EOC,            \* an entry isEOC() accepts
  Bad,            \* the entry of an unusable cluster
  CardFails,      \* whether an access may fail
  Retry           \* whether a remove() that failed is called again

FatEnd == ClusterCount + 1

Cluster == 2 .. FatEnd

Entry == {0, EOC, Bad} \cup Cluster

ASSUME FatAssumption ==
  /\ ClusterCount \in Nat \ {0} /\ MaxCount \in Nat \ {0}
  /\ EOC \notin Int /\ Bad \notin Int /\ EOC # Bad
  /\ NoFile \notin File
  /\ CardFails \in BOOLEAN /\ Retry \in BOOLEAN

VARIABLES
  fat,                \* [0 .. FatEnd -> Entry]; entries 0 and 1 are reserved
  allocSearchStart_,
  pc,                 \* where the call in progress is, "idle" between calls
  file,               \* the file the call is for
  count,              \* allocContiguous: its argument
  curCluster,         \* allocContiguous: its argument, 0 for a first cluster
  bgnCluster, endCluster, n,  \* allocContiguous: its locals
  cluster,            \* freeChain: its argument and loop variable
  keep,               \* truncate: how many clusters stay
  chain,              \* history: the clusters of each file (a damaged one: its first)
  damaged,            \* history: files whose chain was freed in part only
  refused,            \* history: some access has failed
  reply               \* history: the result of the last call

locals == <<file, count, curCluster, bgnCluster, endCluster, n, cluster, keep>>

vars == <<fat, allocSearchStart_, pc, locals, chain, damaged, refused, reply>>

\* asked: the count a failed search looked for, 0 for any other result
Reply(ok, asked) == [ok |-> ok, asked |-> asked]

isEOC(c) == c = EOC

Clusters(f) == {chain[f][i] : i \in DOMAIN chain[f]}

Last(s) == s[Len(s)]

Init ==
  /\ fat \in [0 .. FatEnd -> Entry]
  /\ \A c \in 0 .. FatEnd : fat[c] \in IF c \in Cluster THEN {0, Bad} ELSE {EOC}
  /\ allocSearchStart_ = 2
  /\ pc = "idle"
  /\ file = NoFile /\ count = 0 /\ curCluster = 0 /\ cluster = 0 /\ keep = 0
  /\ bgnCluster = 0 /\ endCluster = 0 /\ n = 0
  /\ chain = [f \in File |-> << >>]
  /\ damaged = {} /\ refused = FALSE
  /\ reply = Reply(TRUE, 0)

-----------------------------------------------------------------------------
(* The FAT accessors. *)

\* fatGet and fatPut refuse a cluster beyond the FAT, fatPut a reserved one too.
InFat(c) == c \in Int /\ c <= FatEnd

Storable(c) == InFat(c) /\ c >= 2

fatPut(c, v) == fat' = [fat EXCEPT ![c] = v]

\* The locals go out of scope.
Return(r) ==
  /\ pc' = "idle"
  /\ file' = NoFile /\ count' = 0 /\ curCluster' = 0 /\ cluster' = 0 /\ keep' = 0
  /\ bgnCluster' = 0 /\ endCluster' = 0 /\ n' = 0
  /\ reply' = r

\* The call returns false because an access failed.
CallFails == Return(Reply(FALSE, 0)) /\ refused' = TRUE

-----------------------------------------------------------------------------
(* allocContiguous. *)

SearchStart(c) == IF c # 0 THEN c + 1 ELSE allocSearchStart_

\* addCluster (k = 1, at the end of the chain) and createContiguous (a new
\* file, any k).
AllocCall(f, k) ==
  /\ pc = "idle" /\ f \notin damaged
  /\ k > 1 => chain[f] = << >>
  /\ file' = f /\ count' = k
  /\ curCluster' = IF chain[f] = << >> THEN 0 ELSE Last(chain[f])
  /\ bgnCluster' = SearchStart(curCluster')
  /\ endCluster' = bgnCluster'
  /\ n' = 0
  /\ pc' = "search"
  /\ reply' = Reply(TRUE, 0)
  /\ UNCHANGED <<fat, allocSearchStart_, cluster, keep, chain, damaged, refused>>

\* Where the search looks: past the end it starts over from cluster 2.
Wraps == endCluster > FatEnd

BgnHere == IF Wraps THEN 2 ELSE bgnCluster

EndHere == IF Wraps THEN 2 ELSE endCluster

allocVars == <<file, count, curCluster, cluster, keep>>

\* Slip: the last cluster is never looked at.
SearchFailsEarly ==
  /\ pc = "search" /\ n >= ClusterCount - 1
  /\ Return(Reply(FALSE, count))
  /\ UNCHANGED <<fat, allocSearchStart_, chain, damaged, refused>>

\* The loop gave up: every cluster was looked at once.
SearchFails ==
  /\ pc = "search" /\ n >= ClusterCount
  /\ Return(Reply(FALSE, count))
  /\ UNCHANGED <<fat, allocSearchStart_, chain, damaged, refused>>

\* Slip: a cluster in use does not restart the run.
SearchNextKeepsBegin ==
  /\ pc = "search" /\ n < ClusterCount
  /\ fat[EndHere] # 0 \/ EndHere - BgnHere + 1 # count
  /\ bgnCluster' = BgnHere
  /\ endCluster' = EndHere + 1
  /\ n' = n + 1
  /\ UNCHANGED <<fat, allocSearchStart_, pc, allocVars, chain, damaged, refused, reply>>

\* Slip: the turns of the search are not counted.
SearchNextUncounted ==
  /\ pc = "search" /\ n < ClusterCount
  /\ \/ fat[EndHere] # 0 /\ bgnCluster' = EndHere + 1
     \/ /\ fat[EndHere] = 0 /\ EndHere - BgnHere + 1 # count
        /\ bgnCluster' = BgnHere
  /\ endCluster' = EndHere + 1
  /\ UNCHANGED <<fat, allocSearchStart_, pc, allocVars, n, chain, damaged, refused, reply>>

\* Cluster in use, or the run is still too short: go on with the next one.
SearchNext ==
  /\ pc = "search" /\ n < ClusterCount
  /\ \/ fat[EndHere] # 0 /\ bgnCluster' = EndHere + 1
     \/ /\ fat[EndHere] = 0 /\ EndHere - BgnHere + 1 # count
        /\ bgnCluster' = BgnHere
  /\ endCluster' = EndHere + 1
  /\ n' = n + 1
  /\ UNCHANGED <<fat, allocSearchStart_, pc, allocVars, chain, damaged, refused, reply>>

SearchFinds ==
  /\ pc = "search" /\ n < ClusterCount
  /\ fat[EndHere] = 0 /\ EndHere - BgnHere + 1 = count
  /\ bgnCluster' = BgnHere /\ endCluster' = EndHere
  /\ pc' = "mark"
  /\ UNCHANGED <<fat, allocSearchStart_, allocVars, n, chain, damaged, refused, reply>>

\* Slip: the wrong end of the run is marked.
MarkBegin ==
  /\ pc = "mark"
  /\ fatPut(bgnCluster, EOC)
  /\ pc' = "link"
  /\ UNCHANGED <<allocSearchStart_, locals, chain, damaged, refused, reply>>

MarkEnd ==
  /\ pc = "mark"
  /\ fatPut(endCluster, EOC)
  /\ pc' = "link"
  /\ UNCHANGED <<allocSearchStart_, locals, chain, damaged, refused, reply>>

Link ==
  /\ pc = "link" /\ endCluster > bgnCluster
  /\ fatPut(endCluster - 1, endCluster)
  /\ endCluster' = endCluster - 1
  /\ UNCHANGED <<allocSearchStart_, pc, allocVars, bgnCluster, n, chain, damaged, refused, reply>>

Run == [i \in 1 .. count |-> bgnCluster + i - 1]

\* Slip: one cluster too far.
NextSearchStartTooFar ==
  IF curCluster = 0 /\ count = 1 THEN bgnCluster + 2 ELSE allocSearchStart_

\* Connect the chains, return the first cluster, remember where to search next.
NextSearchStart ==
  IF curCluster = 0 /\ count = 1 THEN bgnCluster + 1 ELSE allocSearchStart_

\* Slip: the new run is not connected to the chain.
AllocReturnsUnlinked ==
  /\ pc = "link" /\ endCluster = bgnCluster
  /\ UNCHANGED fat
  /\ allocSearchStart_' = NextSearchStart
  /\ chain' = [chain EXCEPT ![file] = @ \o Run]
  /\ Return(Reply(TRUE, 0))
  /\ UNCHANGED <<damaged, refused>>

AllocReturns ==
  /\ pc = "link" /\ endCluster = bgnCluster
  /\ IF curCluster # 0 THEN fatPut(curCluster, bgnCluster) ELSE UNCHANGED fat
  /\ allocSearchStart_' = NextSearchStart
  /\ chain' = [chain EXCEPT ![file] = @ \o Run]
  /\ Return(Reply(TRUE, 0))
  /\ UNCHANGED <<damaged, refused>>

\* Any of its accesses is refused: what was marked or linked stays so.
AllocFails ==
  /\ CardFails
  /\ \/ pc = "search" /\ n < ClusterCount
     \/ pc = "mark"
     \/ pc = "link" /\ (endCluster > bgnCluster \/ curCluster # 0)
  /\ CallFails
  /\ UNCHANGED <<fat, allocSearchStart_, chain, damaged>>

-----------------------------------------------------------------------------
(* freeChain, for remove() and truncate(0) with k = 0, truncate to the first *)
(* k clusters otherwise. *)

freeVars == <<count, curCluster, bgnCluster, endCluster, n>>

\* Slip: the search hint is not reset.
FreeCallKeepsHint(f, k) ==
  /\ pc = "idle"
  /\ f \in damaged => Retry /\ k = 0
  /\ k < Len(chain[f])
  /\ file' = f /\ keep' = k
  /\ cluster' = chain[f][k + 1]
  /\ pc' = "free"
  /\ reply' = Reply(TRUE, 0)
  /\ UNCHANGED <<fat, allocSearchStart_, freeVars, chain, damaged, refused>>

FreeCall(f, k) ==
  /\ pc = "idle"
  /\ f \in damaged => Retry /\ k = 0
  /\ k < Len(chain[f])
  /\ file' = f /\ keep' = k
  /\ cluster' = chain[f][k + 1]
  /\ allocSearchStart_' = 2
  /\ pc' = "free"
  /\ reply' = Reply(TRUE, 0)
  /\ UNCHANGED <<fat, freeVars, chain, damaged, refused>>

\* truncate reads the entry of the last cluster that stays before it frees.
FreeCallFails(f, k) ==
  /\ pc = "idle" /\ f \notin damaged
  /\ CardFails /\ 0 < k /\ k < Len(chain[f])
  /\ CallFails
  /\ UNCHANGED <<fat, allocSearchStart_, chain, damaged>>

\* Slip: the end of the chain is not freed.
FreeNextSkipsLast ==
  /\ pc = "free" /\ Storable(cluster)
  /\ IF isEOC(fat[cluster]) THEN UNCHANGED fat ELSE fatPut(cluster, 0)
  /\ cluster' = fat[cluster]
  /\ pc' = IF isEOC(fat[cluster]) THEN "freed" ELSE "free"
  /\ UNCHANGED <<allocSearchStart_, file, keep, freeVars, chain, damaged, refused, reply>>

\* One turn of the loop of freeChain.
FreeNext ==
  /\ pc = "free" /\ Storable(cluster)
  /\ fatPut(cluster, 0)
  /\ cluster' = fat[cluster]
  /\ pc' = IF isEOC(fat[cluster]) THEN "freed" ELSE "free"
  /\ UNCHANGED <<allocSearchStart_, file, keep, freeVars, chain, damaged, refused, reply>>

\* The last cluster that stays becomes the end, the caller notes the length.
FreeReturns ==
  /\ pc = "freed"
  /\ IF keep > 0 THEN fatPut(chain[file][keep], EOC) ELSE UNCHANGED fat
  /\ chain' = [chain EXCEPT ![file] = SubSeq(@, 1, keep)]
  /\ damaged' = damaged \ {file}
  /\ Return(Reply(TRUE, 0))
  /\ UNCHANGED <<allocSearchStart_, refused>>

\* An access is refused, by the card or as no cluster of the FAT.
FreeFails ==
  /\ \/ pc = "free" /\ (CardFails \/ ~Storable(cluster))
     \/ pc = "freed" /\ CardFails /\ keep > 0
  /\ CallFails
  /\ IF pc = "free" /\ cluster = chain[file][keep + 1]
       THEN UNCHANGED <<chain, damaged>>
       ELSE /\ damaged' = damaged \cup {file}
            /\ chain' = [chain EXCEPT ![file] = SubSeq(@, 1, 1)]
  /\ UNCHANGED <<fat, allocSearchStart_>>

-----------------------------------------------------------------------------

\* What the library does by itself once it is called.
Step ==
  \/ SearchFails \/ SearchNext \/ SearchFinds \/ MarkEnd \/ Link \/ AllocReturns
  \/ AllocFails
  \/ FreeNext \/ FreeReturns \/ FreeFails

Call ==
  \E f \in File :
    \/ \E k \in 1 .. MaxCount : AllocCall(f, k)
    \/ \E k \in 0 .. ClusterCount : FreeCall(f, k) \/ FreeCallFails(f, k)

Next == Step \/ Call

Spec == Init /\ [][Next]_vars

\* A call that has begun runs on by itself.
FairSpec == Spec /\ WF_vars(Step)

-----------------------------------------------------------------------------
(* Properties. *)

\* The variables hold what the code's variables can hold.
TypeOK ==
  /\ fat \in [0 .. FatEnd -> Entry]
  /\ allocSearchStart_ \in 2 .. FatEnd + 1
  /\ pc \in {"idle", "search", "mark", "link", "free", "freed"}
  /\ file \in File \cup {NoFile}
  /\ count \in 0 .. MaxCount
  /\ curCluster \in {0} \cup Cluster
  /\ bgnCluster \in 0 .. FatEnd + 1 /\ endCluster \in 0 .. FatEnd + 1
  /\ n \in 0 .. ClusterCount
  /\ cluster \in Entry
  /\ keep \in 0 .. ClusterCount
  /\ chain \in [File -> Seq(Cluster)]
  /\ damaged \subseteq File
  /\ refused \in BOOLEAN
  /\ reply \in [ok : BOOLEAN, asked : 0 .. MaxCount]

\* The files a caller may rely on: not cut short by a failed free, not being
\* freed right now.
Sound == File \ (damaged \cup IF pc \in {"free", "freed"} THEN {file} ELSE {})

\* The FAT spells out the chain of every sound file, from its first cluster to
\* an end mark, whatever calls for other files, refused accesses and searches
\* that wrapped around came in between (allocContiguous 84-104, freeChain).
ChainsAreInFat ==
  \A f \in Sound : \A i \in DOMAIN chain[f] :
    fat[chain[f][i]] = IF i = Len(chain[f]) THEN EOC ELSE chain[f][i + 1]

\* No cluster is in two chains, or twice in one: files never share data.
NoCrossLinks ==
  \A f, g \in Sound : \A i \in DOMAIN chain[f], j \in DOMAIN chain[g] :
    chain[f][i] = chain[g][j] => f = g /\ i = j

\* No cluster below allocSearchStart_ is free, so that starting there skips
\* nothing: freeChain must reset the hint, a wrapped search may only lower it.
HintIsExact == \A c \in Cluster : c < allocSearchStart_ => fat[c] # 0

FreeRun(c, k) == c + k - 1 <= FatEnd /\ \A i \in 0 .. k - 1 : fat[c + i] = 0

\* allocContiguous returns false without a refused access only when no run of
\* count free clusters exists ("can't find space checked all clusters",
\* line 63), wherever the search began and wherever it wrapped.
NoSpaceMeansNoSpace ==
  reply.asked > 0 => ~ \E c \in Cluster : FreeRun(c, reply.asked)

\* As long as no access was refused no cluster is lost: between calls every
\* cluster is free, bad, or in a chain.
NoLostClusters ==
  pc = "idle" /\ ~refused =>
    \A c \in Cluster : fat[c] \in {0, Bad} \/ \E f \in File : c \in Clusters(f)

\* The clusters a call may take: a run being linked counts as free until the
\* call returns, a chain being freed as taken.
Freeing == pc \in {"free", "freed"}

free ==
  {c \in Cluster : fat[c] = 0 /\ (Freeing => c \notin Clusters(file))}
    \cup IF pc = "link" THEN {Run[i] : i \in 1 .. count} ELSE {}

CS == INSTANCE ChainStore WITH Cluster <- Cluster, free <- free

\* Turn by turn and access by access, the two loops do to the chains what one
\* atomic call would do; a refused access costs at most free clusters or the
\* chain it was freeing.
ImplementsChainStore == CS!Spec

\* Every call returns: the search looks at each cluster once, and a chain that
\* is freed ends.
CallsReturn == pc # "idle" ~> pc = "idle"

=============================================================================
