------------------------------ MODULE ChainStore ------------------------------
(***************************************************************************)
(* What the cluster allocator promises to the file layer: every file owns   *)
(* a sequence of clusters, calls act on it at once, and no call takes a     *)
(* cluster that is not free.  A refused access may lose free clusters, or   *)
(* cost a file that was being freed its chain; it harms no other file.      *)
(***************************************************************************)
EXTENDS Integers, Sequences

CONSTANTS
  Cluster,        \* the clusters of the volume, consecutive numbers
  File,           \* files and directories
  MaxCount        \* bound: the largest count asked for

VARIABLES
  chain,          \* [File -> Seq(Cluster)]
  free,           \* clusters of no chain that a call may take
  damaged,        \* files whose chain was freed in part only
  reply           \* the result of the last call; asked # 0: no room for so many

vars == <<chain, free, damaged, reply>>

Reply(ok, asked) == [ok |-> ok, asked |-> asked]

Run(c, k) == [i \in 1 .. k |-> c + i - 1]

FreeRun(c, k) == \A i \in 1 .. k : c + i - 1 \in free

Init ==
  /\ chain = [f \in File |-> << >>]
  /\ free \subseteq Cluster
  /\ damaged = {}
  /\ reply = Reply(TRUE, 0)

\* A call begins: the answer to the one before is gone.
Begin ==
  /\ reply' = Reply(TRUE, 0)
  /\ UNCHANGED <<chain, free, damaged>>

\* A chain grows by a run of free clusters.
Extend(f, k) ==
  /\ f \notin damaged
  /\ \E c \in Cluster :
       /\ FreeRun(c, k)
       /\ chain' = [chain EXCEPT ![f] = @ \o Run(c, k)]
       /\ free' = free \ {c + i - 1 : i \in 1 .. k}
  /\ reply' = Reply(TRUE, 0)
  /\ UNCHANGED damaged

\* There is no room, and that is the only reason to say so.
NoRoom(k) ==
  /\ ~ \E c \in Cluster : FreeRun(c, k)
  /\ reply' = Reply(FALSE, k)
  /\ UNCHANGED <<chain, free, damaged>>

\* A chain keeps its first k clusters, the others are free again.
Shorten(f, k) ==
  /\ f \notin damaged /\ k < Len(chain[f])
  /\ chain' = [chain EXCEPT ![f] = SubSeq(@, 1, k)]
  /\ free' = free \cup {chain[f][i] : i \in k + 1 .. Len(chain[f])}
  /\ reply' = Reply(TRUE, 0)
  /\ UNCHANGED damaged

\* An access is refused: some free clusters may be lost.
Refused ==
  /\ free' \subseteq free
  /\ reply' = Reply(FALSE, 0)
  /\ UNCHANGED <<chain, damaged>>

\* An access is refused while a chain is freed: some of it is free, the file
\* keeps only the number of its first cluster.
Damage(f) ==
  /\ f \notin damaged
  /\ free \subseteq free' /\ free' \subseteq free \cup {chain[f][i] : i \in DOMAIN chain[f]}
  /\ chain' = [chain EXCEPT ![f] = SubSeq(@, 1, 1)]
  /\ damaged' = damaged \cup {f}
  /\ reply' = Reply(FALSE, 0)

Next ==
  \/ Begin
  \/ \E f \in File, k \in 1 .. MaxCount : Extend(f, k)
  \/ \E k \in 1 .. MaxCount : NoRoom(k)
  \/ \E f \in File : \E k \in 0 .. Len(chain[f]) : Shorten(f, k)
  \/ Refused
  \/ \E f \in File : Damage(f)

Spec == Init /\ [][Next]_vars

\* No cluster is in two chains of undamaged files, none of them is free.
Disjoint ==
  \A f, g \in File \ damaged : \A i \in DOMAIN chain[f], j \in DOMAIN chain[g] :
    /\ chain[f][i] = chain[g][j] => f = g /\ i = j
    /\ chain[f][i] \notin free

=============================================================================
