-------------------------- MODULE SpiSdFileProofs --------------------------
(***************************************************************************)
(* Proofs about SpiSdFile, for every size of blocks and clusters, set of    *)
(* clusters, length of requests, set of modes, and any refused accesses.    *)
(*                                                                         *)
(* The invariant ties the current cluster to the position: outside a seek   *)
(* it is the cluster of the byte before the position, in a seek it is as    *)
(* many clusters before the target as the loop has left to go.  While it    *)
(* holds, the cluster an access computes is the one its position belongs    *)
(* to, and the chain is never shorter than what the size and the position   *)
(* need.                                                                   *)
(***************************************************************************)
EXTENDS SpiSdFile, SequenceTheorems, FiniteSetTheorems, TLAPS

-----------------------------------------------------------------------------
(* The calls in progress. *)

Flushing == {"truncate", "remove", "open"}

\* Which call can be where, and what is reset when it returns.
Control ==
  /\ (pc = "idle") <=> (op = "none")
  /\ pc = "idle" => todo = 0 /\ target = 0 /\ newPos = 0 /\ access = NoAccess
  /\ pc # "idle" => isOpen
  /\ pc = "seek" =>
       \/ after = "write" /\ op = "write"
       \/ after = "free" /\ op = "truncate"
       \/ after = "done" /\ op \in {"seek", "peek", "truncate"}
  /\ pc = "read" => op \in {"read", "peek"} /\ (access # NoAccess => curPosition_ > 0)
  /\ pc = "write" => op = "write"
  /\ pc \in {"free", "reseek"} => op \in Flushing
  /\ pc = "delete" => op \in {"remove", "create"}
  /\ op = "create" => pc \in {"sync", "delete", "done"}
  /\ op = "close" => pc \in {"sync", "done"}
  /\ pc = "done" => op # "remove"
  /\ op # "truncate" => newPos = 0
  /\ op \in {"remove", "open"} => target = 0
  /\ access.by \in {"none", op}

Typed == TypeOK /\ Control

\* A clean handle knows what the entry says, whatever call is in progress, and
\* close() has cleaned it.
Agrees ==
  /\ isOpen /\ ~dirDirty => entry = [first |-> firstCluster_, size |-> fileSize_]
  /\ pc = "done" /\ op = "close" => ~dirDirty

\* Where the loops and the callers of seekSet go.
Targets ==
  /\ pc = "seek" => 0 < target /\ target <= fileSize_
  /\ (pc = "seek" /\ after = "free") \/ pc = "free" => newPos <= target /\ target <= fileSize_
  /\ pc = "free" => curPosition_ = target /\ (target = 0 => curCluster_ = NoCluster)
  /\ pc \in {"sync", "reseek"} => newPos <= fileSize_
  /\ pc \in {"sync", "reseek", "delete"} /\ op = "remove" => fileSize_ = 0
  /\ pc = "delete" => fileSize_ = 0

\* A write with O_APPEND has gone to the end of the file.
Appends ==
  "append" \in flags =>
    /\ pc = "write" => curPosition_ >= fileSize_
    /\ pc = "seek" /\ after = "write" => target = fileSize_
    /\ access.by = "write" => access.pos >= access.size

-----------------------------------------------------------------------------
(* The chain. *)

\* No cluster is in the chain twice, or in two of the three sets.
Apart ==
  /\ \A i, j \in DOMAIN chain : chain[i] = chain[j] => i = j
  /\ \A i \in DOMAIN chain : chain[i] \notin free /\ chain[i] \notin others
  /\ free \cap others = {}

\* A file that is not there has no clusters.
Gone == entry = Deleted => ~isOpen /\ chain = << >>

HeadOfChain == IF chain = << >> THEN NoCluster ELSE chain[1]

\* A refusal fails the call, a creation after it has removed the entry.
RefusalFails == refused => failed \/ (op = "create" /\ pc = "delete")

\* What all the rest depends on: no access was refused, and an end mark is not
\* used as a cluster.
Sound == ~refused /\ (EOCIsABlock => ~failed)

\* A file that is closed without having failed is not given up.
ClosedWell == isOpen /\ failure = "close" => refused

\* The chain begins where handle and entry say and is long enough.
Covered ==
  /\ isOpen =>
       /\ firstCluster_ = HeadOfChain
       /\ fileSize_ <= Len(chain) * ClusterSize
       /\ curPosition_ <= Len(chain) * ClusterSize
  /\ ~isOpen /\ entry # Deleted =>
       entry.first = HeadOfChain /\ entry.size <= Len(chain) * ClusterSize

\* The cluster of the byte before a position.
Before(pos) == (pos - 1) \div ClusterSize + 1

\* The current cluster, unless a failed read has left the end mark in it.
AtCluster ==
  isOpen =>
    IF curCluster_ = EOC THEN curPosition_ > 0
    ELSE IF pc = "seek" THEN InChain(curCluster_, Before(target) - steps)
    ELSE IF curPosition_ = 0 THEN curCluster_ = NoCluster
    ELSE InChain(curCluster_, Before(curPosition_))

\* A read that begins in the file stays in it.
ReadsWithin ==
  pc = "read" => curPosition_ > fileSize_ \/ curPosition_ + todo <= fileSize_

\* As long as no call failed no cluster is lost,
Conserved == free = Cluster \ (others \cup Clusters)

\* and the chain is no longer than the size and the position need.
Fitting ==
  /\ isOpen =>
       /\ curCluster_ # EOC
       /\ pc # "write" => curPosition_ <= fileSize_
       /\ \/ (Len(chain) - 1) * ClusterSize < fileSize_
          \/ (Len(chain) - 1) * ClusterSize < curPosition_
  /\ ~isOpen /\ entry # Deleted => (Len(chain) - 1) * ClusterSize < entry.size

Exact == Conserved /\ Fitting

Position == Covered /\ AtCluster /\ ReadsWithin /\ (~failed => Exact)

IInv ==
  /\ Typed /\ Gone /\ Agrees /\ Targets /\ Appends /\ RefusalFails /\ ClosedWell
  /\ Apart
  /\ Sound => Position

-----------------------------------------------------------------------------
(* Numbers, and what the operators on the chain do. *)

LEMMA SizeIsPositive == ClusterSize \in Nat \ {0}
BY FileAssumption DEF ClusterSize

LEMMA SizesAreNumbers == Sizes \subseteq Nat \ {0}
BY FileAssumption, SizeIsPositive, FS_CardinalityType DEF Sizes

\* A quotient, for clusters of any size.
LEMMA Quotient ==
  ASSUME NEW p \in Int, NEW d \in Nat \ {0}
  PROVE  /\ p \div d \in Int
         /\ (p \div d) * d <= p /\ p < (p \div d + 1) * d
OBVIOUS

LEMMA Remainder ==
  ASSUME NEW p \in Nat, NEW d \in Nat \ {0}
  PROVE  p \div d \in Nat /\ p % d \in 0 .. d - 1 /\ p = (p \div d) * d + (p % d)
OBVIOUS

LEMMA RemainderIs ==
  ASSUME NEW k \in Nat, NEW d \in Nat \ {0}, NEW r \in 0 .. d - 1
  PROVE  (k * d + r) % d = r
OBVIOUS

LEMMA QuotientBefore ==
  ASSUME NEW p \in Nat, p > 0, NEW d \in Nat \ {0}
  PROVE  /\ p % d = 0 => (p - 1) \div d = p \div d - 1 /\ p = (p \div d) * d
         /\ p % d # 0 => (p - 1) \div d = p \div d
OBVIOUS

LEMMA QuotientWithin ==
  ASSUME NEW p \in Nat, NEW d \in Nat \ {0}, NEW a \in Nat, a > 0, (p % d) + a <= d
  PROVE  (p + a - 1) \div d = p \div d /\ p + a <= (p \div d + 1) * d
OBVIOUS

LEMMA Products ==
  ASSUME NEW a \in Nat, NEW b \in Nat
  PROVE  a * b \in Nat /\ (a # 0 /\ b # 0 => a * b # 0)
OBVIOUS

LEMMA Digits ==
  ASSUME NEW q \in Nat, NEW s \in Nat, NEW c \in Nat, NEW b \in Nat, NEW x \in Nat
  PROVE  q * (s * c) + (b * s + x) = (q * c + b) * s + x
OBVIOUS

LEMMA FewerBlocks ==
  ASSUME NEW a \in Nat, NEW b \in Nat, NEW s \in Nat \ {0}, a * s < s * b
  PROVE  a + 1 <= b /\ (a + 1) * s <= s * b
OBVIOUS

\* The rest of a block of s bytes lies in its cluster of c blocks.
LEMMA BlockInCluster ==
  ASSUME NEW p \in Nat, NEW s \in Nat \ {0}, NEW c \in Nat \ {0}
  PROVE  (p % (s * c)) + (s - (p % s)) <= s * c
<1> DEFINE d == s * c
<1>1. d \in Nat \ {0}
  BY Products
<1> DEFINE q == p \div d
           r == p % d
<1>2. q \in Nat /\ r \in 0 .. d - 1 /\ p = q * d + r
  <2> HIDE DEF d
  <2> QED
    BY <1>1, Remainder
<1> DEFINE b == r \div s
           x == r % s
<1>3. b \in Nat /\ x \in 0 .. s - 1 /\ r = b * s + x
  <2>1. r \in Nat
    BY <1>1, <1>2
  <2> HIDE DEF d, r
  <2> QED
    BY <2>1, Remainder
<1>4. p = (q * c + b) * s + x
  <2>1. p = q * (s * c) + (b * s + x)
    BY <1>2, <1>3
  <2> HIDE DEF q, b, x
  <2> QED
    BY <2>1, <1>2, <1>3, Digits
<1>5. q * c + b \in Nat
  <2> HIDE DEF q, b
  <2> QED
    BY <1>2, <1>3, Products
<1>6. p % s = x
  <2> HIDE DEF q, b, x
  <2> QED
    BY <1>3, <1>4, <1>5, RemainderIs
<1>7. (b + 1) * s <= d
  <2>1. b * s < s * c
    <3> HIDE DEF q, b, x, r
    <3> QED
      BY <1>1, <1>2, <1>3, Products
  <2> HIDE DEF b
  <2> QED
    BY <2>1, <1>3, FewerBlocks
<1>8. r + (s - x) <= d
  <2> HIDE DEF d, r, b, x
  <2> QED
    BY <1>1, <1>2, <1>3, <1>7
<1> HIDE DEF b, x
<1> QED
  BY <1>6, <1>8

LEMMA FatEntryType == ASSUME DiskOK, NEW c PROVE FatEntry(c) \in Cluster \cup {EOC}
BY DEF DiskOK, FatEntry

\* A chain that grows keeps what it had.
LEMMA Grows ==
  ASSUME DiskOK, HandleOK, NEW c, AddCluster(c)
  PROVE  /\ c \in free /\ c \in Cluster
         /\ chain' \in Seq(Cluster) /\ Len(chain') = Len(chain) + 1
         /\ \A i \in 1 .. Len(chain) : chain'[i] = chain[i]
         /\ chain'[Len(chain) + 1] = c
         /\ free' = free \ {c}
         /\ firstCluster_' \in Cluster \cup {NoCluster}
         /\ dirDirty' \in BOOLEAN
BY AppendProperties DEF AddCluster, DiskOK, HandleOK

LEMMA WriteClusterTypes ==
  ASSUME DiskOK, HandleOK, NEW c, WriteCluster(c)
  PROVE  /\ chain' \in Seq(Cluster) /\ free' \subseteq Cluster
         /\ firstCluster_' \in Cluster \cup {NoCluster}
         /\ dirDirty' \in BOOLEAN
<1>1. CASE NeedsCluster
  BY <1>1, Grows DEF WriteCluster, DiskOK
<1>2. CASE ~NeedsCluster
  BY <1>2 DEF WriteCluster, DiskOK, HandleOK
<1> QED
  BY <1>1, <1>2

\* One that is freed behind its k-th cluster keeps those before.
LEMMA Kept ==
  ASSUME DiskOK, NEW k \in 0 .. Len(chain), KeepTo(k)
  PROVE  /\ chain' \in Seq(Cluster) /\ Len(chain') = k
         /\ \A i \in 1 .. k : chain'[i] = chain[i]
         /\ free' \subseteq Cluster
<1>1. chain \in Seq(Cluster) /\ free \subseteq Cluster /\ Len(chain) \in Nat
  BY DEF DiskOK
<1>2. \A i \in 1 .. Len(chain) : chain[i] \in Cluster
  BY <1>1
<1>3. \A i \in 1 .. k : chain[i] \in Cluster
  BY <1>2
<1>4. /\ chain' \in Seq(Cluster) /\ Len(chain') = k
      /\ \A i \in 1 .. k : chain'[i] = chain[i]
  BY <1>3, SubSeqProperties DEF KeepTo
<1>5. free' \subseteq Cluster
  BY <1>1, <1>2 DEF KeepTo
<1> QED
  BY <1>4, <1>5

LEMMA FreeKeeps ==
  ASSUME DiskOK, Free
  PROVE  /\ \E k \in 0 .. Len(chain) : KeepTo(k)
         /\ chain' \in Seq(Cluster) /\ free' \subseteq Cluster
<1>1. \E k \in 0 .. Len(chain) : KeepTo(k)
  BY DEF Free, DiskOK
<1> QED
  BY <1>1, Kept

\* A run that is got at once.
LEMMA RunTypes ==
  ASSUME DiskOK, NEW n \in Sizes, CreateContiguous(n)
  PROVE  /\ chain' \in Seq(Cluster) /\ free' \subseteq Cluster
         /\ Len(chain') = (n - 1) \div ClusterSize + 1 /\ Len(chain') > 0
         /\ firstCluster_' = chain'[1] /\ firstCluster_' \in Cluster
<1>1. (n - 1) \div ClusterSize + 1 \in Nat \ {0}
  BY SizesAreNumbers, SizeIsPositive
<1>2. PICK s \in [1 .. (n - 1) \div ClusterSize + 1 -> free] :
        chain' = s /\ firstCluster_' = s[1] /\ free' \subseteq free
  BY DEF CreateContiguous
<1>3. s \in Seq(Cluster) /\ Len(s) = (n - 1) \div ClusterSize + 1
  BY <1>1, <1>2 DEF DiskOK
<1> QED
  BY <1>1, <1>2, <1>3 DEF DiskOK

-----------------------------------------------------------------------------
(* Types, and which call can be where. *)

\* Types, one group of variables after the other.
LEMMA TypesInit == Init => Typed
<1> SUFFICES ASSUME Init PROVE Typed
  OBVIOUS
<1>1. DiskOK /\ HandleOK
  BY FileAssumption, EmptySeq DEF Init, DiskOK, HandleOK, Deleted
<1>2. CallOK
  BY FileAssumption DEF Init, CallOK, Ops
<1>3. HistoryOK
  BY FileAssumption DEF Init, HistoryOK, NoAccess, Ops, Deleted
<1>4. Control
  BY DEF Init, Control, NoAccess, Flushing
<1> QED
  BY <1>1, <1>2, <1>3, <1>4 DEF Typed, TypeOK

LEMMA DiskTypes == Typed /\ [Next]_vars => DiskOK'
<1> SUFFICES ASSUME Typed, [Next]_vars PROVE DiskOK'
  OBVIOUS
<1>1. CASE SeekNext \/ SeekFails \/ ReadNext \/ ReadFatFails \/ ReadBlockFails \/ ReadDone \/
  WriteFatFails \/ WriteDone \/ Reseek \/ Done \/ RemoveCall
  BY <1>1
  DEF Typed, TypeOK, DiskOK, HandleOK, SeekNext, Readable, seekVars, disk, fixed, SeekFails,
    CardRefuses, Fails, Return, NoAccess, handle, ReadNext, CanFollow, ReadFollowsChain,
    AtClusterStart, IsBlock, ReadCluster, Accessed, Advance, Amount, Least, transferVars,
    ReadFatFails, ReadBlockFails, ReadDone, GoesBack, SeekTo, history, WriteFatFails, WriteDone,
    locals, Reseek, Done, Closed, RemoveCall, CanCall
<1>2. ASSUME NEW m \in Modes, Open(m) \/ OpenTruncated(m)
      PROVE  DiskOK'
  BY <1>2
  DEF Typed, TypeOK, DiskOK, HandleOK, Open, CanOpen, Deleted, Opened, disk, locals,
    OpenTruncated
<1>3. ASSUME NEW n \in 0 .. MaxSize, SeekCall(n) \/ TruncateCall(n)
      PROVE  DiskOK'
  BY <1>3
  DEF Typed, TypeOK, DiskOK, HandleOK, SeekCall, CanCall, SeekTo, disk, fixed, TruncateCall,
    Least
<1>4. ASSUME NEW o \in {"read", "peek"}, NEW n \in 1 .. MaxRequest, ReadCall(o, n)
      PROVE  DiskOK'
  BY <1>4
  DEF Typed, TypeOK, DiskOK, HandleOK, ReadCall, CanCall, Least, disk, handle, history
<1>5. ASSUME NEW n \in 1 .. MaxRequest, WriteCall(n)
      PROVE  DiskOK'
  BY <1>5
  DEF Typed, TypeOK, DiskOK, HandleOK, WriteCall, CanCall, SeekTo, disk, fixed
<1>6. ASSUME NEW o \in Ops, SyncCall(o) \/ Rejected(o)
      PROVE  DiskOK'
  BY <1>6
  DEF Typed, TypeOK, DiskOK, HandleOK, SyncCall, CanCall, disk, handle, locals, history,
    Rejected
<1>7. ASSUME NEW m \in Modes, Create(m)
      PROVE  DiskOK'
  BY <1>7
  DEF Typed, TypeOK, DiskOK, HandleOK, Create, CanOpen, Deleted, Opened, locals
<1>8. ASSUME NEW n \in Sizes, CreateContiguous(n)
      PROVE  DiskOK'
  <2>1. DiskOK /\ others' = others /\ damaged' = damaged /\ entry' = [first |-> NoCluster, size |-> 0]
    BY <1>8 DEF Typed, TypeOK, CreateContiguous
  <2> QED
    BY <1>8, <2>1, RunTypes DEF DiskOK
<1>9. ASSUME NEW n \in Sizes, CreateContiguousFails(n)
      PROVE  DiskOK'
  BY <1>9
  DEF Typed, TypeOK, DiskOK, HandleOK, CreateContiguousFails, CanOpen, Deleted, CardRefuses,
    Opened, locals
<1>10. CASE WriteNext \/ WriteBlockFails
  <2>1. DiskOK /\ HandleOK /\ entry' = entry /\ others' = others /\ damaged' = damaged
    BY <1>10 DEF Typed, TypeOK, WriteNext, WriteBlockFails
  <2>2. \E c : WriteCluster(c)
    BY <1>10 DEF WriteNext, WriteBlockFails
  <2> QED
    BY <2>1, <2>2, WriteClusterTypes DEF DiskOK
<1>11. CASE WriteNoCluster \/ FreeFails
  BY <1>11
  DEF Typed, TypeOK, DiskOK, HandleOK, WriteNoCluster, NeedsCluster, AtClusterStart, Readable,
    NextCluster, CardRefuses, Fails, Return, NoAccess, handle, FreeFails
<1>12. CASE Free
  BY <1>12, FreeKeeps DEF Free, Typed, TypeOK, DiskOK
<1>13. CASE Delete \/ DeleteFails
  BY <1>13, EmptySeq
  DEF Typed, TypeOK, DiskOK, HandleOK, Delete, Deleted, Closed, Return, NoAccess, DeleteFails,
    CardRefuses, handle
<1>14. CASE Sync
  BY <1>14
  DEF Typed, TypeOK, DiskOK, HandleOK, Sync, WriteEntry, locals, history
<1>15. CASE SyncFails
  BY <1>15
  DEF Typed, TypeOK, DiskOK, HandleOK, SyncFails, CardRefuses, WriteEntry, Fails, Return,
    NoAccess
<1>16. CASE GiveUp
  BY <1>16, EmptySeq
  DEF Typed, TypeOK, DiskOK, HandleOK, GiveUp, Closed, locals, history
<1>17. CASE UNCHANGED vars
  BY <1>17
  DEF Typed, TypeOK, DiskOK, HandleOK, vars, disk, handle, locals, history
<1> QED
  BY <1>1, <1>2, <1>3, <1>4, <1>5, <1>6, <1>7, <1>8, <1>9, <1>10, <1>11, <1>12, <1>13, <1>14,
    <1>15, <1>16, <1>17, FileAssumption
  DEF Next, Step, Call, Ops

LEMMA HandleTypes == Typed /\ [Next]_vars => HandleOK'
<1> SUFFICES ASSUME Typed, [Next]_vars PROVE HandleOK'
  OBVIOUS
<1>1. CASE SeekNext
  BY <1>1, FileAssumption, FatEntryType, SizeIsPositive
  DEF Typed, TypeOK, HandleOK, CallOK, SeekNext, Readable, seekVars, disk, fixed
<1>2. CASE SeekFails \/ ReadFatFails \/ WriteFatFails \/ WriteNoCluster \/ FreeFails \/
  SyncFails
  BY <1>2, FileAssumption, FatEntryType, SizeIsPositive
  DEF Typed, TypeOK, HandleOK, SeekFails, CardRefuses, Readable, Fails, Return, NoAccess, disk,
    handle, ReadFatFails, ReadFollowsChain, AtClusterStart, WriteFatFails, WriteNoCluster,
    NeedsCluster, NextCluster, FreeFails, SyncFails, WriteEntry
<1>3. CASE ReadNext
  BY <1>3, FileAssumption, FatEntryType, SizeIsPositive
  DEF Typed, TypeOK, HandleOK, CallOK, ReadNext, CanFollow, ReadFollowsChain, AtClusterStart,
    Readable, IsBlock, ReadCluster, Accessed, Advance, Amount, Least, disk, fixed, transferVars
<1>4. CASE ReadBlockFails
  BY <1>4, FileAssumption, FatEntryType, SizeIsPositive
  DEF Typed, TypeOK, HandleOK, CallOK, ReadBlockFails, CanFollow, ReadFollowsChain,
    AtClusterStart, Readable, CardRefuses, IsBlock, ReadCluster, Fails, Return, NoAccess, disk
<1>5. CASE ReadDone
  BY <1>5, FileAssumption, FatEntryType, SizeIsPositive
  DEF Typed, TypeOK, HandleOK, CallOK, ReadDone, GoesBack, SeekTo, disk, history
<1>6. CASE WriteNext \/ WriteBlockFails
  <2>1. PICK c \in Cluster \cup {EOC} : WriteCluster(c) /\ curCluster_' = c
    BY <1>6 DEF WriteNext, WriteBlockFails
  <2>2. /\ firstCluster_' \in Cluster \cup {NoCluster}
        /\ dirDirty' \in BOOLEAN
    BY <2>1, WriteClusterTypes DEF Typed, TypeOK
  <2>3. /\ UNCHANGED <<isOpen, flags, fileSize_>>
        /\ writeError' \in BOOLEAN
        /\ curPosition_' \in {curPosition_, curPosition_ + Amount}
    BY <1>6 DEF WriteNext, WriteBlockFails, Fails, Return, Advance, fixed, Typed, TypeOK, HandleOK
  <2>4. Amount \in Nat
    BY FileAssumption DEF Amount, Least, Typed, TypeOK, HandleOK, CallOK
  <2> QED
    BY <2>1, <2>2, <2>3, <2>4 DEF Typed, TypeOK, HandleOK
<1>7. CASE WriteDone
  BY <1>7, FileAssumption, FatEntryType, SizeIsPositive
  DEF Typed, TypeOK, HandleOK, CallOK, WriteDone, disk, locals, history
<1>8. CASE Free
  BY <1>8, FileAssumption, FatEntryType, SizeIsPositive
  DEF Typed, TypeOK, HandleOK, CallOK, Free, KeepTo, fixed, locals
<1>9. CASE Reseek
  BY <1>9, FileAssumption, FatEntryType, SizeIsPositive
  DEF Typed, TypeOK, HandleOK, CallOK, Reseek, SeekTo, disk, fixed
<1>10. CASE Delete
  BY <1>10, FileAssumption, FatEntryType, SizeIsPositive
  DEF Typed, TypeOK, HandleOK, CallOK, Delete, Deleted, Closed, Return, NoAccess
<1>11. CASE DeleteFails
  <2>1. CASE UNCHANGED handle
    BY <1>11, <2>1 DEF DeleteFails, Return, handle, Typed, TypeOK, HandleOK
  <2>2. CASE Closed
    BY <1>11, <2>2, FileAssumption DEF DeleteFails, Closed, Return, Typed, TypeOK, HandleOK
  <2> QED
    BY <1>11, <2>1, <2>2 DEF DeleteFails, handle
<1>12. CASE GiveUp
  BY <1>12, FileAssumption, FatEntryType, SizeIsPositive
  DEF Typed, TypeOK, HandleOK, CallOK, GiveUp, Closed, locals, history
<1>13. CASE Sync
  BY <1>13, FileAssumption, FatEntryType, SizeIsPositive
  DEF Typed, TypeOK, HandleOK, CallOK, Sync, WriteEntry, locals, history
<1>14. CASE Done
  <2>1. CASE UNCHANGED handle
    BY <1>14, <2>1 DEF Done, Return, handle, Typed, TypeOK, HandleOK
  <2>2. CASE Closed
    BY <1>14, <2>2, FileAssumption DEF Done, Closed, Return, Typed, TypeOK, HandleOK
  <2> QED
    BY <1>14, <2>1, <2>2 DEF Done
<1>15. ASSUME NEW m \in Modes, Open(m)
      PROVE  HandleOK'
  BY <1>15, FileAssumption, FatEntryType, SizeIsPositive
  DEF Typed, TypeOK, HandleOK, DiskOK, Deleted, Open, CanOpen, Opened, disk, locals
<1>16. ASSUME NEW m \in Modes, Create(m)
      PROVE  HandleOK'
  BY <1>16, FileAssumption, FatEntryType, SizeIsPositive
  DEF Typed, TypeOK, HandleOK, DiskOK, Deleted, Create, CanOpen, Opened, locals
<1>17. ASSUME NEW m \in Modes, OpenTruncated(m)
      PROVE  HandleOK'
  BY <1>17, FileAssumption, FatEntryType, SizeIsPositive
  DEF Typed, TypeOK, HandleOK, DiskOK, Deleted, OpenTruncated, CanOpen, Opened, disk, locals
<1>18. ASSUME NEW n \in Sizes, CreateContiguous(n)
      PROVE  HandleOK'
  <2>1. firstCluster_' \in Cluster
    BY <1>18, RunTypes DEF Typed, TypeOK
  <2> QED
    BY <1>18, <2>1, SizesAreNumbers DEF CreateContiguous, Typed, TypeOK, HandleOK
<1>19. ASSUME NEW n \in Sizes, CreateContiguousFails(n)
      PROVE  HandleOK'
  BY <1>19, FileAssumption, FatEntryType, SizeIsPositive
  DEF Typed, TypeOK, HandleOK, CallOK, CreateContiguousFails, CanOpen, Deleted, CardRefuses,
    Opened, locals
<1>20. ASSUME NEW n \in 0 .. MaxSize, SeekCall(n)
      PROVE  HandleOK'
  BY <1>20, FileAssumption, FatEntryType, SizeIsPositive
  DEF Typed, TypeOK, HandleOK, CallOK, SeekCall, CanCall, SeekTo, disk, fixed
<1>21. ASSUME NEW n \in 0 .. MaxSize, TruncateCall(n)
      PROVE  HandleOK'
  BY <1>21, FileAssumption, FatEntryType, SizeIsPositive
  DEF Typed, TypeOK, HandleOK, CallOK, TruncateCall, CanCall, SeekTo, Least, disk, fixed
<1>22. ASSUME NEW o \in {"read", "peek"}, NEW n \in 1 .. MaxRequest, ReadCall(o, n)
      PROVE  HandleOK'
  BY <1>22, FileAssumption, FatEntryType, SizeIsPositive
  DEF Typed, TypeOK, HandleOK, CallOK, ReadCall, CanCall, Least, disk, handle, history
<1>23. ASSUME NEW n \in 1 .. MaxRequest, WriteCall(n)
      PROVE  HandleOK'
  BY <1>23, FileAssumption, FatEntryType, SizeIsPositive
  DEF Typed, TypeOK, HandleOK, CallOK, WriteCall, CanCall, SeekTo, disk, fixed
<1>24. CASE RemoveCall
  BY <1>24, FileAssumption, FatEntryType, SizeIsPositive
  DEF Typed, TypeOK, HandleOK, CallOK, RemoveCall, CanCall, SeekTo, disk, fixed, locals
<1>25. ASSUME NEW o \in Ops, SyncCall(o) \/ Rejected(o)
      PROVE  HandleOK'
  BY <1>25, FileAssumption, FatEntryType, SizeIsPositive
  DEF Typed, TypeOK, HandleOK, CallOK, SyncCall, CanCall, disk, handle, locals, history,
    Rejected
<1>26. CASE UNCHANGED vars
  BY <1>26, FileAssumption, FatEntryType, SizeIsPositive
  DEF Typed, TypeOK, HandleOK, CallOK, vars, disk, handle, locals, history
<1> QED
  BY <1>1, <1>2, <1>3, <1>4, <1>5, <1>6, <1>7, <1>8, <1>9, <1>10, <1>11, <1>12, <1>13, <1>14,
    <1>15, <1>16, <1>17, <1>18, <1>19, <1>20, <1>21, <1>22, <1>23, <1>24, <1>25, <1>26,
    FileAssumption
  DEF Next, Step, Call, Ops

LEMMA CallTypes == Typed /\ [Next]_vars => CallOK'
<1> SUFFICES ASSUME Typed, [Next]_vars PROVE CallOK'
  OBVIOUS
<1>1. CASE SeekNext \/ SeekFails
  BY <1>1, FileAssumption, SizeIsPositive
  DEF Typed, TypeOK, CallOK, HandleOK, Ops, SeekNext, Readable, seekVars, disk, fixed,
    SeekFails, CardRefuses, Fails, Return, NoAccess, handle
<1>2. CASE ReadNext \/ ReadFatFails \/ ReadBlockFails
  BY <1>2, FileAssumption, SizeIsPositive
  DEF Typed, TypeOK, CallOK, HandleOK, Ops, ReadNext, CanFollow, ReadFollowsChain,
    AtClusterStart, Readable, IsBlock, ReadCluster, Accessed, Advance, Amount, Least, disk,
    fixed, transferVars, ReadFatFails, CardRefuses, Fails, Return, NoAccess, handle,
    ReadBlockFails
<1>3. CASE ReadDone
  <2>1. GoesBack => curPosition_ - 1 \in Nat
    BY <1>3 DEF Typed, TypeOK, HandleOK, Control, ReadDone, GoesBack, NoAccess
  <2> QED
    BY <1>3, <2>1, SizeIsPositive DEF ReadDone, SeekTo, Typed, TypeOK, CallOK, HandleOK, Ops
<1>4. CASE WriteNext \/ WriteBlockFails \/ WriteFatFails \/ WriteNoCluster
  BY <1>4, FileAssumption, SizeIsPositive
  DEF Typed, TypeOK, CallOK, HandleOK, Ops, WriteNext, WriteCluster, NeedsCluster,
    AtClusterStart, Readable, NextCluster, AddCluster, IsBlock, Accessed, Advance, Amount,
    Least, fixed, transferVars, WriteBlockFails, CardRefuses, Fails, Return, NoAccess,
    WriteFatFails, disk, handle, WriteNoCluster
<1>5. CASE WriteDone
  BY <1>5, FileAssumption, SizeIsPositive
  DEF Typed, TypeOK, CallOK, HandleOK, Ops, WriteDone, disk, locals, history
<1>6. CASE Free \/ FreeFails
  BY <1>6, FileAssumption, SizeIsPositive
  DEF Typed, TypeOK, CallOK, HandleOK, Ops, Free, KeepTo, fixed, locals, FreeFails, CardRefuses,
    Readable, Fails, Return, NoAccess, handle
<1>7. CASE Reseek
  BY <1>7, FileAssumption, SizeIsPositive
  DEF Typed, TypeOK, CallOK, HandleOK, Ops, Reseek, SeekTo, disk, fixed
<1>8. CASE Delete \/ DeleteFails
  BY <1>8, FileAssumption, SizeIsPositive
  DEF Typed, TypeOK, CallOK, HandleOK, Ops, Delete, Deleted, Closed, Return, NoAccess,
    DeleteFails, CardRefuses, handle
<1>9. CASE Sync \/ SyncFails
  BY <1>9, FileAssumption, SizeIsPositive
  DEF Typed, TypeOK, CallOK, HandleOK, Ops, Sync, WriteEntry, locals, history, SyncFails,
    CardRefuses, Fails, Return, NoAccess
<1>10. CASE Done
  BY <1>10, FileAssumption, SizeIsPositive
  DEF Typed, TypeOK, CallOK, HandleOK, Ops, Done, Closed, handle, Return, NoAccess, disk
<1>11. CASE GiveUp
  BY <1>11, FileAssumption, SizeIsPositive
  DEF Typed, TypeOK, CallOK, HandleOK, Ops, GiveUp, Closed, locals, history
<1>12. ASSUME NEW m \in Modes, Open(m) \/ Create(m) \/ OpenTruncated(m)
      PROVE  CallOK'
  BY <1>12, FileAssumption, SizeIsPositive
  DEF Typed, TypeOK, CallOK, HandleOK, Ops, Open, CanOpen, Deleted, Opened, disk, locals,
    Create, OpenTruncated
<1>13. ASSUME NEW n \in Sizes, CreateContiguous(n) \/ CreateContiguousFails(n)
      PROVE  CallOK'
  BY <1>13, FileAssumption, SizeIsPositive
  DEF Typed, TypeOK, CallOK, HandleOK, Ops, CreateContiguous, CanOpen, Deleted, locals,
    CreateContiguousFails, CardRefuses, Opened
<1>14. ASSUME NEW n \in 0 .. MaxSize, SeekCall(n) \/ TruncateCall(n)
      PROVE  CallOK'
  BY <1>14, FileAssumption, SizeIsPositive
  DEF Typed, TypeOK, CallOK, HandleOK, Ops, SeekCall, CanCall, SeekTo, disk, fixed,
    TruncateCall, Least
<1>15. ASSUME NEW o \in {"read", "peek"}, NEW n \in 1 .. MaxRequest, ReadCall(o, n)
      PROVE  CallOK'
  BY <1>15, FileAssumption, SizeIsPositive
  DEF Typed, TypeOK, CallOK, HandleOK, Ops, ReadCall, CanCall, Least, disk, handle, history
<1>16. ASSUME NEW n \in 1 .. MaxRequest, WriteCall(n)
      PROVE  CallOK'
  BY <1>16, FileAssumption, SizeIsPositive
  DEF Typed, TypeOK, CallOK, HandleOK, Ops, WriteCall, CanCall, SeekTo, disk, fixed
<1>17. CASE RemoveCall
  BY <1>17, FileAssumption, SizeIsPositive
  DEF Typed, TypeOK, CallOK, HandleOK, Ops, RemoveCall, CanCall, SeekTo, disk, fixed, locals
<1>18. ASSUME NEW o \in Ops, SyncCall(o) \/ Rejected(o)
      PROVE  CallOK'
  BY <1>18, FileAssumption, SizeIsPositive
  DEF Typed, TypeOK, CallOK, HandleOK, Ops, SyncCall, CanCall, disk, handle, locals, history,
    Rejected
<1>19. CASE UNCHANGED vars
  BY <1>19, FileAssumption, SizeIsPositive
  DEF Typed, TypeOK, CallOK, HandleOK, Ops, vars, disk, handle, locals, history
<1> QED
  BY <1>1, <1>2, <1>3, <1>4, <1>5, <1>6, <1>7, <1>8, <1>9, <1>10, <1>11, <1>12, <1>13, <1>14,
    <1>15, <1>16, <1>17, <1>18, <1>19, FileAssumption
  DEF Next, Step, Call, Ops

LEMMA HistoryTypes == Typed /\ [Next]_vars => HistoryOK'
<1> SUFFICES ASSUME Typed, [Next]_vars PROVE HistoryOK'
  OBVIOUS
<1>1. CASE SeekNext \/ ReadDone \/ WriteDone \/ Free \/ Reseek \/ Sync \/ GiveUp
  BY <1>1, FileAssumption, FatEntryType
  DEF Typed, TypeOK, HistoryOK, DiskOK, HandleOK, CallOK, Control, NoAccess, Ops, SeekNext,
    Readable, seekVars, disk, fixed, ReadDone, GoesBack, SeekTo, history, WriteDone, locals,
    Free, KeepTo, Reseek, Sync, WriteEntry, GiveUp, Closed
<1>2. CASE SeekFails
  BY <1>2, FileAssumption, FatEntryType
  DEF Typed, TypeOK, HistoryOK, DiskOK, HandleOK, CallOK, Control, NoAccess, Ops, SeekFails,
    CardRefuses, Readable, Fails, Return, disk, handle
<1>3. CASE ReadFatFails
  BY <1>3, FileAssumption, FatEntryType
  DEF Typed, TypeOK, HistoryOK, DiskOK, HandleOK, CallOK, Control, NoAccess, Ops, ReadFatFails,
    ReadFollowsChain, AtClusterStart, CardRefuses, Readable, Fails, Return, disk, handle
<1>4. CASE ReadBlockFails
  BY <1>4, FileAssumption, FatEntryType
  DEF Typed, TypeOK, HistoryOK, DiskOK, HandleOK, CallOK, Control, NoAccess, Ops,
    ReadBlockFails, CanFollow, ReadFollowsChain, AtClusterStart, Readable, CardRefuses, IsBlock,
    ReadCluster, Fails, Return, disk
<1>5. CASE WriteFatFails
  BY <1>5, FileAssumption, FatEntryType
  DEF Typed, TypeOK, HistoryOK, DiskOK, HandleOK, CallOK, Control, NoAccess, Ops, WriteFatFails,
    AtClusterStart, CardRefuses, Readable, Return, disk, handle
<1>6. CASE WriteNoCluster
  BY <1>6, FileAssumption, FatEntryType
  DEF Typed, TypeOK, HistoryOK, DiskOK, HandleOK, CallOK, Control, NoAccess, Ops,
    WriteNoCluster, NeedsCluster, AtClusterStart, Readable, NextCluster, CardRefuses, Fails,
    Return, handle
<1>7. CASE WriteBlockFails
  BY <1>7, FileAssumption, FatEntryType
  DEF Typed, TypeOK, HistoryOK, DiskOK, HandleOK, CallOK, Control, NoAccess, Ops,
    WriteBlockFails, WriteCluster, NeedsCluster, AtClusterStart, Readable, NextCluster,
    AddCluster, CardRefuses, IsBlock, Fails, Return
<1>8. CASE ReadNext
  BY <1>8, FileAssumption, FatEntryType
  DEF Typed, TypeOK, HistoryOK, DiskOK, HandleOK, CallOK, Control, NoAccess, Ops, ReadNext,
    CanFollow, ReadFollowsChain, AtClusterStart, Readable, IsBlock, ReadCluster, Accessed,
    Advance, Amount, Least, disk, fixed, transferVars
<1>9. CASE WriteNext
  BY <1>9, FileAssumption, FatEntryType
  DEF Typed, TypeOK, HistoryOK, DiskOK, HandleOK, CallOK, Control, NoAccess, Ops, WriteNext,
    WriteCluster, NeedsCluster, AtClusterStart, Readable, NextCluster, AddCluster, IsBlock,
    Accessed, Advance, Amount, Least, fixed, transferVars
<1>10. CASE FreeFails
  BY <1>10, FileAssumption, FatEntryType
  DEF Typed, TypeOK, HistoryOK, DiskOK, HandleOK, CallOK, Control, NoAccess, Ops, FreeFails,
    CardRefuses, Readable, Fails, Return, handle
<1>11. CASE SyncFails
  BY <1>11, FileAssumption, FatEntryType
  DEF Typed, TypeOK, HistoryOK, DiskOK, HandleOK, CallOK, Control, NoAccess, Ops, SyncFails,
    CardRefuses, WriteEntry, Fails, Return
<1>12. CASE Delete
  BY <1>12, FileAssumption, FatEntryType
  DEF Typed, TypeOK, HistoryOK, DiskOK, HandleOK, CallOK, Control, NoAccess, Ops, Delete,
    Deleted, Closed, Return
<1>13. CASE DeleteFails
  BY <1>13, FileAssumption, FatEntryType
  DEF Typed, TypeOK, HistoryOK, DiskOK, HandleOK, CallOK, Control, NoAccess, Ops, DeleteFails,
    CardRefuses, handle, Deleted, Closed, Return
<1>14. CASE Done
  BY <1>14, FileAssumption, FatEntryType
  DEF Typed, TypeOK, HistoryOK, DiskOK, HandleOK, CallOK, Control, NoAccess, Ops, Done, Closed,
    handle, Return, disk
<1>15. ASSUME NEW m \in Modes, Open(m) \/ Create(m) \/ OpenTruncated(m)
      PROVE  HistoryOK'
  BY <1>15, FileAssumption, FatEntryType
  DEF Typed, TypeOK, HistoryOK, DiskOK, HandleOK, CallOK, Control, NoAccess, Ops, Open, CanOpen,
    Deleted, Opened, disk, locals, Create, OpenTruncated
<1>16. ASSUME NEW n \in Sizes, CreateContiguous(n)
      PROVE  HistoryOK'
  BY <1>16, FileAssumption, FatEntryType
  DEF Typed, TypeOK, HistoryOK, DiskOK, HandleOK, CallOK, Control, NoAccess, Ops,
    CreateContiguous, CanOpen, Deleted, locals
<1>17. ASSUME NEW n \in Sizes, CreateContiguousFails(n)
      PROVE  HistoryOK'
  BY <1>17, FileAssumption, FatEntryType
  DEF Typed, TypeOK, HistoryOK, DiskOK, HandleOK, CallOK, Control, NoAccess, Ops,
    CreateContiguousFails, CanOpen, Deleted, CardRefuses, Opened, locals
<1>18. ASSUME NEW n \in 0 .. MaxSize, SeekCall(n) \/ TruncateCall(n)
      PROVE  HistoryOK'
  BY <1>18, FileAssumption, FatEntryType
  DEF Typed, TypeOK, HistoryOK, DiskOK, HandleOK, CallOK, Control, NoAccess, Ops, SeekCall,
    CanCall, SeekTo, disk, fixed, TruncateCall, Least
<1>19. ASSUME NEW o \in {"read", "peek"}, NEW n \in 1 .. MaxRequest, ReadCall(o, n)
      PROVE  HistoryOK'
  BY <1>19, FileAssumption, FatEntryType
  DEF Typed, TypeOK, HistoryOK, DiskOK, HandleOK, CallOK, Control, NoAccess, Ops, ReadCall,
    CanCall, Least, disk, handle, history
<1>20. ASSUME NEW n \in 1 .. MaxRequest, WriteCall(n)
      PROVE  HistoryOK'
  BY <1>20, FileAssumption, FatEntryType
  DEF Typed, TypeOK, HistoryOK, DiskOK, HandleOK, CallOK, Control, NoAccess, Ops, WriteCall,
    CanCall, SeekTo, disk, fixed
<1>21. CASE RemoveCall
  BY <1>21, FileAssumption, FatEntryType
  DEF Typed, TypeOK, HistoryOK, DiskOK, HandleOK, CallOK, Control, NoAccess, Ops, RemoveCall,
    CanCall, SeekTo, disk, fixed, locals
<1>22. ASSUME NEW o \in Ops, SyncCall(o) \/ Rejected(o)
      PROVE  HistoryOK'
  BY <1>22, FileAssumption, FatEntryType
  DEF Typed, TypeOK, HistoryOK, DiskOK, HandleOK, CallOK, Control, NoAccess, Ops, SyncCall,
    CanCall, disk, handle, locals, history, Rejected
<1>23. CASE UNCHANGED vars
  BY <1>23, FileAssumption, FatEntryType
  DEF Typed, TypeOK, HistoryOK, DiskOK, HandleOK, CallOK, Control, NoAccess, Ops, vars, disk,
    handle, locals, history
<1> QED
  BY <1>1, <1>2, <1>3, <1>4, <1>5, <1>6, <1>7, <1>8, <1>9, <1>10, <1>11, <1>12, <1>13, <1>14,
    <1>15, <1>16, <1>17, <1>18, <1>19, <1>20, <1>21, <1>22, <1>23, FileAssumption
  DEF Next, Step, Call, Ops

\* Each call runs through its own steps only.
LEMMA ControlStep == Typed /\ [Next]_vars => Control'
<1> SUFFICES ASSUME Typed, [Next]_vars PROVE Control'
  OBVIOUS
<1>1. CASE SeekNext
  BY <1>1, FileAssumption
  DEF Typed, TypeOK, HandleOK, CallOK, Control, Flushing, NoAccess, SeekNext, Readable,
    seekVars, disk, fixed
<1>2. CASE SeekFails \/ ReadFatFails \/ ReadBlockFails
  BY <1>2, FileAssumption
  DEF Typed, TypeOK, HandleOK, CallOK, Control, Flushing, NoAccess, SeekFails, CardRefuses,
    Readable, Fails, Return, disk, handle, ReadFatFails, ReadFollowsChain, AtClusterStart,
    ReadBlockFails, CanFollow, IsBlock, ReadCluster
<1>3. CASE ReadNext
  BY <1>3, FileAssumption
  DEF Typed, TypeOK, HandleOK, CallOK, Control, Flushing, NoAccess, ReadNext, CanFollow,
    ReadFollowsChain, AtClusterStart, Readable, IsBlock, ReadCluster, Accessed, Advance, Amount,
    Least, disk, fixed, transferVars
<1>4. CASE ReadDone
  BY <1>4, FileAssumption
  DEF Typed, TypeOK, HandleOK, CallOK, Control, Flushing, NoAccess, ReadDone, GoesBack, SeekTo,
    disk, history
<1>5. CASE WriteNext
  BY <1>5, FileAssumption
  DEF Typed, TypeOK, HandleOK, CallOK, Control, Flushing, NoAccess, WriteNext, WriteCluster,
    NeedsCluster, AtClusterStart, Readable, NextCluster, AddCluster, IsBlock, Accessed, Advance,
    Amount, Least, fixed, transferVars
<1>6. CASE WriteFatFails \/ WriteNoCluster \/ WriteBlockFails
  BY <1>6, FileAssumption
  DEF Typed, TypeOK, HandleOK, CallOK, Control, Flushing, NoAccess, WriteFatFails,
    AtClusterStart, CardRefuses, Readable, Return, disk, handle, WriteNoCluster, NeedsCluster,
    NextCluster, Fails, WriteBlockFails, WriteCluster, AddCluster, IsBlock
<1>7. CASE WriteDone
  BY <1>7, FileAssumption
  DEF Typed, TypeOK, HandleOK, CallOK, Control, Flushing, NoAccess, WriteDone, disk, locals,
    history
<1>8. CASE Free \/ FreeFails
  BY <1>8, FileAssumption
  DEF Typed, TypeOK, HandleOK, CallOK, Control, Flushing, NoAccess, Free, KeepTo, fixed, locals,
    FreeFails, CardRefuses, Readable, Fails, Return, handle
<1>9. CASE Reseek
  BY <1>9, FileAssumption
  DEF Typed, TypeOK, HandleOK, CallOK, Control, Flushing, NoAccess, Reseek, SeekTo, disk, fixed
<1>10. CASE Delete \/ DeleteFails
  BY <1>10, FileAssumption
  DEF Typed, TypeOK, HandleOK, CallOK, Control, Flushing, NoAccess, Delete, Deleted, Closed,
    Return, DeleteFails, CardRefuses, handle
<1>11. CASE Sync \/ SyncFails
  BY <1>11, FileAssumption
  DEF Typed, TypeOK, HandleOK, CallOK, Control, Flushing, NoAccess, Sync, WriteEntry, locals,
    history, SyncFails, CardRefuses, Fails, Return
<1>12. CASE Done
  BY <1>12, FileAssumption
  DEF Typed, TypeOK, HandleOK, CallOK, Control, Flushing, NoAccess, Done, Closed, handle,
    Return, disk
<1>13. CASE GiveUp
  BY <1>13, FileAssumption
  DEF Typed, TypeOK, HandleOK, CallOK, Control, Flushing, NoAccess, GiveUp, Closed, locals,
    history
<1>14. ASSUME NEW m \in Modes, Open(m) \/ Create(m) \/ OpenTruncated(m)
      PROVE  Control'
  BY <1>14, FileAssumption
  DEF Typed, TypeOK, HandleOK, CallOK, Control, Flushing, NoAccess, Open, CanOpen, Deleted,
    Opened, disk, locals, Create, OpenTruncated
<1>15. ASSUME NEW n \in Sizes, CreateContiguous(n) \/ CreateContiguousFails(n)
      PROVE  Control'
  BY <1>15, FileAssumption
  DEF Typed, TypeOK, HandleOK, CallOK, Control, Flushing, NoAccess, CreateContiguous, CanOpen,
    Deleted, locals, CreateContiguousFails, CardRefuses, Opened
<1>16. ASSUME NEW n \in 0 .. MaxSize, SeekCall(n) \/ TruncateCall(n)
      PROVE  Control'
  BY <1>16, FileAssumption
  DEF Typed, TypeOK, HandleOK, CallOK, Control, Flushing, NoAccess, SeekCall, CanCall, SeekTo,
    disk, fixed, TruncateCall, Least
<1>17. ASSUME NEW o \in {"read", "peek"}, NEW n \in 1 .. MaxRequest, ReadCall(o, n)
      PROVE  Control'
  BY <1>17, FileAssumption
  DEF Typed, TypeOK, HandleOK, CallOK, Control, Flushing, NoAccess, ReadCall, CanCall, Least,
    disk, handle, history
<1>18. ASSUME NEW n \in 1 .. MaxRequest, WriteCall(n)
      PROVE  Control'
  BY <1>18, FileAssumption
  DEF Typed, TypeOK, HandleOK, CallOK, Control, Flushing, NoAccess, WriteCall, CanCall, SeekTo,
    disk, fixed
<1>19. CASE RemoveCall
  BY <1>19, FileAssumption
  DEF Typed, TypeOK, HandleOK, CallOK, Control, Flushing, NoAccess, RemoveCall, CanCall, SeekTo,
    disk, fixed, locals
<1>20. ASSUME NEW o \in Ops, SyncCall(o) \/ Rejected(o)
      PROVE  Control'
  BY <1>20, FileAssumption
  DEF Typed, TypeOK, HandleOK, CallOK, Control, Flushing, NoAccess, SyncCall, CanCall, disk,
    handle, locals, history, Rejected
<1>21. CASE UNCHANGED vars
  BY <1>21, FileAssumption
  DEF Typed, TypeOK, HandleOK, CallOK, Control, Flushing, NoAccess, vars, disk, handle, locals,
    history
<1> QED
  BY <1>1, <1>2, <1>3, <1>4, <1>5, <1>6, <1>7, <1>8, <1>9, <1>10, <1>11, <1>12, <1>13, <1>14,
    <1>15, <1>16, <1>17, <1>18, <1>19, <1>20, <1>21, FileAssumption
  DEF Next, Step, Call, Ops

LEMMA TypesStep == Typed /\ [Next]_vars => Typed'
BY DiskTypes, HandleTypes, CallTypes, HistoryTypes, ControlStep DEF Typed, TypeOK

\* Every variable keeps its type, for any sizes, modes and refused accesses.
THEOREM Types == Spec => []TypeOK
<1>1. Typed => TypeOK
  BY DEF Typed
<1> QED
  BY <1>1, TypesInit, TypesStep, PTL DEF Spec

-----------------------------------------------------------------------------
(* What handle and entry know of one another, and where the loops go. *)

\* A file whose entry is deleted is closed and has no clusters.
LEMMA GoneStep == Typed /\ Gone /\ [Next]_vars => Gone'
<1> SUFFICES ASSUME Typed, Gone, [Next]_vars PROVE Gone'
  OBVIOUS
<1>1. CASE SeekNext
  BY <1>1
  DEF Typed, TypeOK, HandleOK, DiskOK, Control, Gone, Deleted, SeekNext, Readable, seekVars,
    disk, fixed
<1>2. CASE SeekFails \/ ReadFatFails \/ ReadBlockFails
  BY <1>2
  DEF Typed, TypeOK, HandleOK, DiskOK, Control, Gone, Deleted, SeekFails, CardRefuses, Readable,
    Fails, Return, NoAccess, disk, handle, ReadFatFails, ReadFollowsChain, AtClusterStart,
    ReadBlockFails, CanFollow, IsBlock, ReadCluster
<1>3. CASE ReadNext \/ ReadDone
  BY <1>3
  DEF Typed, TypeOK, HandleOK, DiskOK, Control, Gone, Deleted, ReadNext, CanFollow,
    ReadFollowsChain, AtClusterStart, Readable, IsBlock, ReadCluster, Accessed, Advance, Amount,
    Least, disk, fixed, transferVars, ReadDone, GoesBack, SeekTo, history
<1>4. CASE WriteNext
  BY <1>4
  DEF Typed, TypeOK, HandleOK, DiskOK, Control, Gone, Deleted, WriteNext, WriteCluster,
    NeedsCluster, AtClusterStart, Readable, NextCluster, AddCluster, IsBlock, Accessed, Advance,
    Amount, Least, fixed, transferVars
<1>5. CASE WriteBlockFails
  BY <1>5
  DEF Typed, TypeOK, HandleOK, DiskOK, Control, Gone, Deleted, WriteBlockFails, WriteCluster,
    NeedsCluster, AtClusterStart, Readable, NextCluster, AddCluster, CardRefuses, IsBlock,
    Fails, Return, NoAccess
<1>6. CASE WriteFatFails \/ WriteNoCluster
  BY <1>6
  DEF Typed, TypeOK, HandleOK, DiskOK, Control, Gone, Deleted, WriteFatFails, AtClusterStart,
    CardRefuses, Readable, Return, NoAccess, disk, handle, WriteNoCluster, NeedsCluster,
    NextCluster, Fails
<1>7. CASE WriteDone
  BY <1>7
  DEF Typed, TypeOK, HandleOK, DiskOK, Control, Gone, Deleted, WriteDone, disk, locals, history
<1>8. CASE Free
  BY <1>8
  DEF Typed, TypeOK, HandleOK, DiskOK, Control, Gone, Deleted, Free, KeepTo, fixed, locals
<1>9. CASE FreeFails
  BY <1>9
  DEF Typed, TypeOK, HandleOK, DiskOK, Control, Gone, Deleted, FreeFails, CardRefuses, Readable,
    Fails, Return, NoAccess, handle
<1>10. CASE Reseek
  BY <1>10
  DEF Typed, TypeOK, HandleOK, DiskOK, Control, Gone, Deleted, Reseek, SeekTo, disk, fixed
<1>11. CASE Delete
  BY <1>11
  DEF Typed, TypeOK, HandleOK, DiskOK, Control, Gone, Deleted, Delete, Closed, Return, NoAccess
<1>12. CASE DeleteFails
  BY <1>12
  DEF Typed, TypeOK, HandleOK, DiskOK, Control, Gone, Deleted, DeleteFails, CardRefuses, handle,
    Closed, Return, NoAccess
<1>13. CASE Sync
  BY <1>13
  DEF Typed, TypeOK, HandleOK, DiskOK, Control, Gone, Deleted, Sync, WriteEntry, locals, history
<1>14. CASE SyncFails
  BY <1>14
  DEF Typed, TypeOK, HandleOK, DiskOK, Control, Gone, Deleted, SyncFails, CardRefuses,
    WriteEntry, Fails, Return, NoAccess
<1>15. CASE Done
  BY <1>15
  DEF Typed, TypeOK, HandleOK, DiskOK, Control, Gone, Deleted, Done, Closed, handle, Return,
    NoAccess, disk
<1>16. CASE GiveUp
  BY <1>16
  DEF Typed, TypeOK, HandleOK, DiskOK, Control, Gone, Deleted, GiveUp, Closed, locals, history
<1>17. ASSUME NEW m \in Modes, Open(m) \/ Create(m) \/ OpenTruncated(m)
      PROVE  Gone'
  BY <1>17
  DEF Typed, TypeOK, HandleOK, DiskOK, Control, Gone, Deleted, Open, CanOpen, Opened, disk,
    locals, Create, OpenTruncated
<1>18. ASSUME NEW n \in Sizes, CreateContiguous(n)
      PROVE  Gone'
  BY <1>18
  DEF Typed, TypeOK, HandleOK, DiskOK, Control, Gone, Deleted, CreateContiguous, CanOpen, locals
<1>19. ASSUME NEW n \in Sizes, CreateContiguousFails(n)
      PROVE  Gone'
  BY <1>19
  DEF Typed, TypeOK, HandleOK, DiskOK, Control, Gone, Deleted, CreateContiguousFails, CanOpen,
    CardRefuses, Opened, locals
<1>20. ASSUME NEW n \in 0 .. MaxSize, SeekCall(n) \/ TruncateCall(n)
      PROVE  Gone'
  BY <1>20
  DEF Typed, TypeOK, HandleOK, DiskOK, Control, Gone, Deleted, SeekCall, CanCall, SeekTo, disk,
    fixed, TruncateCall, Least
<1>21. ASSUME NEW o \in {"read", "peek"}, NEW n \in 1 .. MaxRequest, ReadCall(o, n)
      PROVE  Gone'
  BY <1>21
  DEF Typed, TypeOK, HandleOK, DiskOK, Control, Gone, Deleted, ReadCall, CanCall, Least, disk,
    handle, history
<1>22. ASSUME NEW n \in 1 .. MaxRequest, WriteCall(n)
      PROVE  Gone'
  BY <1>22
  DEF Typed, TypeOK, HandleOK, DiskOK, Control, Gone, Deleted, WriteCall, CanCall, SeekTo, disk,
    fixed
<1>23. CASE RemoveCall
  BY <1>23
  DEF Typed, TypeOK, HandleOK, DiskOK, Control, Gone, Deleted, RemoveCall, CanCall, SeekTo,
    disk, fixed, locals
<1>24. ASSUME NEW o \in Ops, SyncCall(o) \/ Rejected(o)
      PROVE  Gone'
  BY <1>24
  DEF Typed, TypeOK, HandleOK, DiskOK, Control, Gone, Deleted, SyncCall, CanCall, disk, handle,
    locals, history, Rejected
<1>25. CASE UNCHANGED vars
  BY <1>25
  DEF Typed, TypeOK, HandleOK, DiskOK, Control, Gone, Deleted, vars, disk, handle, locals,
    history
<1> QED
  BY <1>1, <1>2, <1>3, <1>4, <1>5, <1>6, <1>7, <1>8, <1>9, <1>10, <1>11, <1>12, <1>13, <1>14,
    <1>15, <1>16, <1>17, <1>18, <1>19, <1>20, <1>21, <1>22, <1>23, <1>24, <1>25, FileAssumption
  DEF Next, Step, Call, Ops

\* Whoever changes the first cluster or the size of a handle marks it dirty.
LEMMA AgreesStep == Typed /\ Gone /\ Agrees /\ [Next]_vars => Agrees'
<1> SUFFICES ASSUME Typed, Gone, Agrees, [Next]_vars PROVE Agrees'
  OBVIOUS
<1>1. CASE SeekNext
  BY <1>1
  DEF Typed, TypeOK, HandleOK, Control, Agrees, SeekNext, Readable, seekVars, disk, fixed
<1>2. CASE SeekFails \/ ReadFatFails \/ ReadBlockFails
  BY <1>2
  DEF Typed, TypeOK, HandleOK, Control, Agrees, SeekFails, CardRefuses, Readable, Fails, Return,
    NoAccess, disk, handle, ReadFatFails, ReadFollowsChain, AtClusterStart, ReadBlockFails,
    CanFollow, IsBlock, ReadCluster
<1>3. CASE ReadNext \/ ReadDone
  BY <1>3
  DEF Typed, TypeOK, HandleOK, Control, Agrees, ReadNext, CanFollow, ReadFollowsChain,
    AtClusterStart, Readable, IsBlock, ReadCluster, Accessed, Advance, Amount, Least, disk,
    fixed, transferVars, ReadDone, GoesBack, SeekTo, history
<1>4. CASE WriteNext
  BY <1>4
  DEF Typed, TypeOK, HandleOK, Control, Agrees, WriteNext, WriteCluster, NeedsCluster,
    AtClusterStart, Readable, NextCluster, AddCluster, IsBlock, Accessed, Advance, Amount,
    Least, fixed, transferVars
<1>5. CASE WriteBlockFails
  BY <1>5
  DEF Typed, TypeOK, HandleOK, Control, Agrees, WriteBlockFails, WriteCluster, NeedsCluster,
    AtClusterStart, Readable, NextCluster, AddCluster, CardRefuses, IsBlock, Fails, Return,
    NoAccess
<1>6. CASE WriteFatFails \/ WriteNoCluster
  BY <1>6
  DEF Typed, TypeOK, HandleOK, Control, Agrees, WriteFatFails, AtClusterStart, CardRefuses,
    Readable, Return, NoAccess, disk, handle, WriteNoCluster, NeedsCluster, NextCluster, Fails
<1>7. CASE WriteDone
  BY <1>7
  DEF Typed, TypeOK, HandleOK, Control, Agrees, WriteDone, disk, locals, history
<1>8. CASE Free
  BY <1>8
  DEF Typed, TypeOK, HandleOK, Control, Agrees, Free, KeepTo, fixed, locals
<1>9. CASE FreeFails
  BY <1>9
  DEF Typed, TypeOK, HandleOK, Control, Agrees, FreeFails, CardRefuses, Readable, Fails, Return,
    NoAccess, handle
<1>10. CASE Reseek
  BY <1>10
  DEF Typed, TypeOK, HandleOK, Control, Agrees, Reseek, SeekTo, disk, fixed
<1>11. CASE Delete
  BY <1>11
  DEF Typed, TypeOK, HandleOK, Control, Agrees, Delete, Deleted, Closed, Return, NoAccess
<1>12. CASE DeleteFails
  <2>1. CASE UNCHANGED <<entry, chain, handle>>
    BY <1>12, <2>1 DEF Agrees, handle, DeleteFails, Return
  <2>2. CASE Closed
    BY <1>12, <2>2 DEF Agrees, Closed, DeleteFails, Return
  <2> QED
    BY <1>12, <2>1, <2>2 DEF DeleteFails
<1>13. CASE Sync
  BY <1>13
  DEF Typed, TypeOK, HandleOK, Control, Agrees, Sync, WriteEntry, locals, history
<1>14. CASE SyncFails
  BY <1>14
  DEF Typed, TypeOK, HandleOK, Control, Agrees, SyncFails, CardRefuses, WriteEntry, Fails,
    Return, NoAccess
<1>15. CASE Done
  BY <1>15
  DEF Typed, TypeOK, HandleOK, Control, Agrees, Done, Closed, handle, Return, NoAccess, disk
<1>16. CASE GiveUp
  BY <1>16
  DEF Typed, TypeOK, HandleOK, Control, Agrees, GiveUp, Closed, locals, history
<1>17. ASSUME NEW m \in Modes, Open(m) \/ Create(m) \/ OpenTruncated(m)
      PROVE  Agrees'
  BY <1>17
  DEF Typed, TypeOK, DiskOK, Agrees, Deleted, Open, CanOpen, Opened, disk, locals, Create,
    OpenTruncated
<1>18. ASSUME NEW n \in Sizes, CreateContiguous(n)
      PROVE  Agrees'
  BY <1>18
  DEF Typed, TypeOK, HandleOK, Control, Agrees, CreateContiguous, CanOpen, Deleted, locals
<1>19. ASSUME NEW n \in Sizes, CreateContiguousFails(n)
      PROVE  Agrees'
  BY <1>19
  DEF Typed, TypeOK, HandleOK, Control, Agrees, CreateContiguousFails, CanOpen, Deleted,
    CardRefuses, Opened, locals
<1>20. ASSUME NEW n \in 0 .. MaxSize, SeekCall(n) \/ TruncateCall(n)
      PROVE  Agrees'
  BY <1>20
  DEF Typed, TypeOK, HandleOK, Control, Agrees, SeekCall, CanCall, SeekTo, disk, fixed,
    TruncateCall, Least
<1>21. ASSUME NEW o \in {"read", "peek"}, NEW n \in 1 .. MaxRequest, ReadCall(o, n)
      PROVE  Agrees'
  BY <1>21
  DEF Typed, TypeOK, HandleOK, Control, Agrees, ReadCall, CanCall, Least, disk, handle, history
<1>22. ASSUME NEW n \in 1 .. MaxRequest, WriteCall(n)
      PROVE  Agrees'
  BY <1>22
  DEF Typed, TypeOK, HandleOK, Control, Agrees, WriteCall, CanCall, SeekTo, disk, fixed
<1>23. CASE RemoveCall
  BY <1>23
  DEF Typed, TypeOK, HandleOK, Control, Agrees, RemoveCall, CanCall, SeekTo, disk, fixed, locals
<1>24. ASSUME NEW o \in Ops, SyncCall(o) \/ Rejected(o)
      PROVE  Agrees'
  BY <1>24
  DEF Typed, TypeOK, HandleOK, Control, Agrees, SyncCall, CanCall, disk, handle, locals,
    history, Rejected
<1>25. CASE UNCHANGED vars
  BY <1>25
  DEF Typed, TypeOK, HandleOK, Control, Agrees, vars, disk, handle, locals, history
<1> QED
  BY <1>1, <1>2, <1>3, <1>4, <1>5, <1>6, <1>7, <1>8, <1>9, <1>10, <1>11, <1>12, <1>13, <1>14,
    <1>15, <1>16, <1>17, <1>18, <1>19, <1>20, <1>21, <1>22, <1>23, <1>24, <1>25, FileAssumption
  DEF Next, Step, Call, Ops

\* Every seek stays in the file, and truncate and remove leave the size they aim at.
LEMMA TargetsStep == Typed /\ Targets /\ [Next]_vars => Targets'
<1> SUFFICES ASSUME Typed, Targets, [Next]_vars PROVE Targets'
  OBVIOUS
<1>1. CASE SeekNext
  BY <1>1, FileAssumption, SizesAreNumbers
  DEF Typed, TypeOK, HandleOK, CallOK, Control, Flushing, Targets, SeekNext, Readable, seekVars,
    disk, fixed
<1>2. CASE SeekFails \/ ReadFatFails \/ ReadBlockFails
  BY <1>2, FileAssumption, SizesAreNumbers
  DEF Typed, TypeOK, HandleOK, CallOK, Control, Flushing, Targets, SeekFails, CardRefuses,
    Readable, Fails, Return, NoAccess, disk, handle, ReadFatFails, ReadFollowsChain,
    AtClusterStart, ReadBlockFails, CanFollow, IsBlock, ReadCluster
<1>3. CASE ReadNext
  BY <1>3, FileAssumption, SizesAreNumbers
  DEF Typed, TypeOK, HandleOK, CallOK, Control, Flushing, Targets, ReadNext, CanFollow,
    ReadFollowsChain, AtClusterStart, Readable, IsBlock, ReadCluster, Accessed, Advance, Amount,
    Least, disk, fixed, transferVars
<1>4. CASE ReadDone
  BY <1>4, FileAssumption, SizesAreNumbers
  DEF Typed, TypeOK, HandleOK, CallOK, Control, Targets, NoAccess, ReadDone, GoesBack, SeekTo,
    disk, history
<1>5. CASE WriteNext
  BY <1>5, FileAssumption, SizesAreNumbers
  DEF Typed, TypeOK, HandleOK, CallOK, Control, Flushing, Targets, WriteNext, WriteCluster,
    NeedsCluster, AtClusterStart, Readable, NextCluster, AddCluster, IsBlock, Accessed, Advance,
    Amount, Least, fixed, transferVars
<1>6. CASE WriteBlockFails
  BY <1>6, FileAssumption, SizesAreNumbers
  DEF Typed, TypeOK, HandleOK, CallOK, Control, Flushing, Targets, WriteBlockFails,
    WriteCluster, NeedsCluster, AtClusterStart, Readable, NextCluster, AddCluster, CardRefuses,
    IsBlock, Fails, Return, NoAccess
<1>7. CASE WriteFatFails \/ WriteNoCluster
  BY <1>7, FileAssumption, SizesAreNumbers
  DEF Typed, TypeOK, HandleOK, CallOK, Control, Flushing, Targets, WriteFatFails,
    AtClusterStart, CardRefuses, Readable, Return, NoAccess, disk, handle, WriteNoCluster,
    NeedsCluster, NextCluster, Fails
<1>8. CASE WriteDone
  BY <1>8, FileAssumption, SizesAreNumbers
  DEF Typed, TypeOK, HandleOK, CallOK, Control, Flushing, Targets, WriteDone, disk, locals,
    history
<1>9. CASE Free
  BY <1>9, FileAssumption, SizesAreNumbers
  DEF Typed, TypeOK, HandleOK, CallOK, Control, Flushing, Targets, Free, KeepTo, fixed, locals
<1>10. CASE FreeFails
  BY <1>10, FileAssumption, SizesAreNumbers
  DEF Typed, TypeOK, HandleOK, CallOK, Control, Flushing, Targets, FreeFails, CardRefuses,
    Readable, Fails, Return, NoAccess, handle
<1>11. CASE Reseek
  BY <1>11, FileAssumption, SizesAreNumbers
  DEF Typed, TypeOK, HandleOK, CallOK, Control, Flushing, Targets, Reseek, SeekTo, disk, fixed
<1>12. CASE Delete
  BY <1>12, FileAssumption, SizesAreNumbers
  DEF Typed, TypeOK, HandleOK, CallOK, Control, Flushing, Targets, Delete, Deleted, Closed,
    Return, NoAccess
<1>13. CASE DeleteFails
  BY <1>13, FileAssumption, SizesAreNumbers
  DEF Typed, TypeOK, HandleOK, CallOK, Control, Flushing, Targets, DeleteFails, CardRefuses,
    handle, Deleted, Closed, Return, NoAccess
<1>14. CASE Sync
  BY <1>14, FileAssumption, SizesAreNumbers
  DEF Typed, TypeOK, HandleOK, CallOK, Control, Flushing, Targets, Sync, WriteEntry, locals,
    history
<1>15. CASE SyncFails
  BY <1>15, FileAssumption, SizesAreNumbers
  DEF Typed, TypeOK, HandleOK, CallOK, Control, Flushing, Targets, SyncFails, CardRefuses,
    WriteEntry, Fails, Return, NoAccess
<1>16. CASE Done
  BY <1>16, FileAssumption, SizesAreNumbers
  DEF Typed, TypeOK, HandleOK, CallOK, Control, Flushing, Targets, Done, Closed, handle, Return,
    NoAccess, disk
<1>17. CASE GiveUp
  BY <1>17, FileAssumption, SizesAreNumbers
  DEF Typed, TypeOK, HandleOK, CallOK, Control, Flushing, Targets, GiveUp, Closed, locals,
    history
<1>18. ASSUME NEW m \in Modes, Open(m) \/ Create(m) \/ OpenTruncated(m)
      PROVE  Targets'
  BY <1>18, FileAssumption, SizesAreNumbers
  DEF Typed, TypeOK, HandleOK, CallOK, DiskOK, Control, Flushing, Targets, Deleted, Open,
    CanOpen, Opened, disk, locals, Create, OpenTruncated
<1>19. ASSUME NEW n \in Sizes, CreateContiguous(n)
      PROVE  Targets'
  BY <1>19, FileAssumption, SizesAreNumbers
  DEF Typed, TypeOK, HandleOK, CallOK, Control, Flushing, Targets, CreateContiguous, CanOpen,
    Deleted, locals
<1>20. ASSUME NEW n \in Sizes, CreateContiguousFails(n)
      PROVE  Targets'
  BY <1>20, FileAssumption, SizesAreNumbers
  DEF Typed, TypeOK, HandleOK, CallOK, Control, Flushing, Targets, CreateContiguousFails,
    CanOpen, Deleted, CardRefuses, Opened, locals
<1>21. ASSUME NEW n \in 0 .. MaxSize, SeekCall(n) \/ TruncateCall(n)
      PROVE  Targets'
  BY <1>21, FileAssumption, SizesAreNumbers
  DEF Typed, TypeOK, HandleOK, CallOK, Control, Flushing, Targets, SeekCall, CanCall, SeekTo,
    disk, fixed, TruncateCall, Least
<1>22. ASSUME NEW o \in {"read", "peek"}, NEW n \in 1 .. MaxRequest, ReadCall(o, n)
      PROVE  Targets'
  BY <1>22, FileAssumption, SizesAreNumbers
  DEF Typed, TypeOK, HandleOK, CallOK, Control, Flushing, Targets, ReadCall, CanCall, Least,
    disk, handle, history
<1>23. ASSUME NEW n \in 1 .. MaxRequest, WriteCall(n)
      PROVE  Targets'
  BY <1>23, FileAssumption, SizesAreNumbers
  DEF Typed, TypeOK, HandleOK, CallOK, Control, Flushing, Targets, WriteCall, CanCall, SeekTo,
    disk, fixed
<1>24. CASE RemoveCall
  BY <1>24, FileAssumption, SizesAreNumbers
  DEF Typed, TypeOK, HandleOK, CallOK, Control, Flushing, Targets, RemoveCall, CanCall, SeekTo,
    disk, fixed, locals
<1>25. ASSUME NEW o \in Ops, SyncCall(o) \/ Rejected(o)
      PROVE  Targets'
  BY <1>25, FileAssumption, SizesAreNumbers
  DEF Typed, TypeOK, HandleOK, CallOK, Control, Flushing, Targets, SyncCall, CanCall, disk,
    handle, locals, history, Rejected
<1>26. CASE UNCHANGED vars
  BY <1>26, FileAssumption, SizesAreNumbers
  DEF Typed, TypeOK, HandleOK, CallOK, Control, Flushing, Targets, vars, disk, handle, locals,
    history
<1> QED
  BY <1>1, <1>2, <1>3, <1>4, <1>5, <1>6, <1>7, <1>8, <1>9, <1>10, <1>11, <1>12, <1>13, <1>14,
    <1>15, <1>16, <1>17, <1>18, <1>19, <1>20, <1>21, <1>22, <1>23, <1>24, <1>25, <1>26,
    FileAssumption
  DEF Next, Step, Call, Ops

\* With O_APPEND a write begins at the end, or after it.
LEMMA AppendsStep == Typed /\ Targets /\ Appends /\ [Next]_vars => Appends'
<1> SUFFICES ASSUME Typed, Targets, Appends, [Next]_vars PROVE Appends'
  OBVIOUS
<1>1. CASE SeekNext
  BY <1>1, FileAssumption
  DEF Typed, TypeOK, HandleOK, CallOK, HistoryOK, Control, Targets, Appends, NoAccess, SeekNext,
    Readable, seekVars, disk, fixed
<1>2. CASE SeekFails \/ ReadFatFails \/ ReadBlockFails
  BY <1>2, FileAssumption
  DEF Typed, TypeOK, HandleOK, CallOK, HistoryOK, Control, Targets, Appends, NoAccess,
    SeekFails, CardRefuses, Readable, Fails, Return, disk, handle, ReadFatFails,
    ReadFollowsChain, AtClusterStart, ReadBlockFails, CanFollow, IsBlock, ReadCluster
<1>3. CASE ReadNext \/ ReadDone
  BY <1>3, FileAssumption
  DEF Typed, TypeOK, HandleOK, CallOK, HistoryOK, Control, Targets, Appends, NoAccess, ReadNext,
    CanFollow, ReadFollowsChain, AtClusterStart, Readable, IsBlock, ReadCluster, Accessed,
    Advance, Amount, Least, disk, fixed, transferVars, ReadDone, GoesBack, SeekTo, history
<1>4. CASE WriteNext
  BY <1>4, FileAssumption
  DEF Typed, TypeOK, HandleOK, CallOK, HistoryOK, Control, Targets, Appends, NoAccess,
    WriteNext, WriteCluster, NeedsCluster, AtClusterStart, Readable, NextCluster, AddCluster,
    IsBlock, Accessed, Advance, Amount, Least, fixed, transferVars
<1>5. CASE WriteBlockFails
  BY <1>5, FileAssumption
  DEF Typed, TypeOK, HandleOK, CallOK, HistoryOK, Control, Targets, Appends, NoAccess,
    WriteBlockFails, WriteCluster, NeedsCluster, AtClusterStart, Readable, NextCluster,
    AddCluster, CardRefuses, IsBlock, Fails, Return
<1>6. CASE WriteFatFails \/ WriteNoCluster
  BY <1>6, FileAssumption
  DEF Typed, TypeOK, HandleOK, CallOK, HistoryOK, Control, Targets, Appends, NoAccess,
    WriteFatFails, AtClusterStart, CardRefuses, Readable, Return, disk, handle, WriteNoCluster,
    NeedsCluster, NextCluster, Fails
<1>7. CASE WriteDone
  BY <1>7, FileAssumption
  DEF Typed, TypeOK, HandleOK, CallOK, HistoryOK, Control, Targets, Appends, NoAccess,
    WriteDone, disk, locals, history
<1>8. CASE Free
  BY <1>8, FileAssumption
  DEF Typed, TypeOK, HandleOK, CallOK, HistoryOK, Control, Targets, Appends, NoAccess, Free,
    KeepTo, fixed, locals
<1>9. CASE FreeFails
  BY <1>9, FileAssumption
  DEF Typed, TypeOK, HandleOK, CallOK, HistoryOK, Control, Targets, Appends, NoAccess,
    FreeFails, CardRefuses, Readable, Fails, Return, handle
<1>10. CASE Reseek
  BY <1>10, FileAssumption
  DEF Typed, TypeOK, HandleOK, CallOK, HistoryOK, Control, Targets, Appends, NoAccess, Reseek,
    SeekTo, disk, fixed
<1>11. CASE Delete
  BY <1>11, FileAssumption
  DEF Typed, TypeOK, HandleOK, CallOK, HistoryOK, Control, Targets, Appends, NoAccess, Delete,
    Deleted, Closed, Return
<1>12. CASE DeleteFails
  BY <1>12, FileAssumption
  DEF Typed, TypeOK, HandleOK, CallOK, HistoryOK, Control, Targets, Appends, NoAccess,
    DeleteFails, CardRefuses, handle, Deleted, Closed, Return
<1>13. CASE Sync
  BY <1>13, FileAssumption
  DEF Typed, TypeOK, HandleOK, CallOK, HistoryOK, Control, Targets, Appends, NoAccess, Sync,
    WriteEntry, locals, history
<1>14. CASE SyncFails
  BY <1>14, FileAssumption
  DEF Typed, TypeOK, HandleOK, CallOK, HistoryOK, Control, Targets, Appends, NoAccess,
    SyncFails, CardRefuses, WriteEntry, Fails, Return
<1>15. CASE Done
  BY <1>15, FileAssumption
  DEF Typed, TypeOK, HandleOK, CallOK, HistoryOK, Control, Targets, Appends, NoAccess, Done,
    Closed, handle, Return, disk
<1>16. CASE GiveUp
  BY <1>16, FileAssumption
  DEF Typed, TypeOK, HandleOK, CallOK, HistoryOK, Control, Targets, Appends, NoAccess, GiveUp,
    Closed, locals, history
<1>17. ASSUME NEW m \in Modes, Open(m) \/ Create(m) \/ OpenTruncated(m)
      PROVE  Appends'
  BY <1>17, FileAssumption
  DEF Typed, TypeOK, HandleOK, CallOK, HistoryOK, Control, Targets, Appends, NoAccess, Open,
    CanOpen, Deleted, Opened, disk, locals, Create, OpenTruncated
<1>18. ASSUME NEW n \in Sizes, CreateContiguous(n)
      PROVE  Appends'
  BY <1>18, FileAssumption
  DEF Typed, TypeOK, HandleOK, CallOK, HistoryOK, Control, Targets, Appends, NoAccess,
    CreateContiguous, CanOpen, Deleted, locals
<1>19. ASSUME NEW n \in Sizes, CreateContiguousFails(n)
      PROVE  Appends'
  BY <1>19, FileAssumption
  DEF Typed, TypeOK, HandleOK, CallOK, HistoryOK, Control, Targets, Appends, NoAccess,
    CreateContiguousFails, CanOpen, Deleted, CardRefuses, Opened, locals
<1>20. ASSUME NEW n \in 0 .. MaxSize, SeekCall(n) \/ TruncateCall(n)
      PROVE  Appends'
  BY <1>20, FileAssumption
  DEF Typed, TypeOK, HandleOK, CallOK, HistoryOK, Control, Targets, Appends, NoAccess, SeekCall,
    CanCall, SeekTo, disk, fixed, TruncateCall, Least
<1>21. ASSUME NEW o \in {"read", "peek"}, NEW n \in 1 .. MaxRequest, ReadCall(o, n)
      PROVE  Appends'
  BY <1>21, FileAssumption
  DEF Typed, TypeOK, HandleOK, CallOK, HistoryOK, Control, Targets, Appends, NoAccess, ReadCall,
    CanCall, Least, disk, handle, history
<1>22. ASSUME NEW n \in 1 .. MaxRequest, WriteCall(n)
      PROVE  Appends'
  BY <1>22, FileAssumption
  DEF Typed, TypeOK, HandleOK, CallOK, HistoryOK, Control, Targets, Appends, NoAccess,
    WriteCall, CanCall, SeekTo, disk, fixed
<1>23. CASE RemoveCall
  BY <1>23, FileAssumption
  DEF Typed, TypeOK, HandleOK, CallOK, HistoryOK, Control, Targets, Appends, NoAccess,
    RemoveCall, CanCall, SeekTo, disk, fixed, locals
<1>24. ASSUME NEW o \in Ops, SyncCall(o) \/ Rejected(o)
      PROVE  Appends'
  BY <1>24, FileAssumption
  DEF Typed, TypeOK, HandleOK, CallOK, HistoryOK, Control, Targets, Appends, NoAccess, SyncCall,
    CanCall, disk, handle, locals, history, Rejected
<1>25. CASE UNCHANGED vars
  BY <1>25, FileAssumption
  DEF Typed, TypeOK, HandleOK, CallOK, HistoryOK, Control, Targets, Appends, NoAccess, vars,
    disk, handle, locals, history
<1> QED
  BY <1>1, <1>2, <1>3, <1>4, <1>5, <1>6, <1>7, <1>8, <1>9, <1>10, <1>11, <1>12, <1>13, <1>14,
    <1>15, <1>16, <1>17, <1>18, <1>19, <1>20, <1>21, <1>22, <1>23, <1>24, <1>25, FileAssumption
  DEF Next, Step, Call, Ops

\* A refused access fails its call.
LEMMA FailuresStep ==
  Typed /\ RefusalFails /\ ClosedWell /\ [Next]_vars => (RefusalFails /\ ClosedWell)'
<1> SUFFICES ASSUME Typed, RefusalFails, ClosedWell, [Next]_vars PROVE (RefusalFails /\ ClosedWell)'
  OBVIOUS
<1>1. CASE SeekNext
  BY <1>1
  DEF Typed, TypeOK, HandleOK, HistoryOK, CallOK, Control, RefusalFails, ClosedWell, SeekNext,
    Readable, seekVars, disk, fixed
<1>2. CASE SeekFails \/ ReadFatFails \/ ReadBlockFails
  BY <1>2
  DEF Typed, TypeOK, HandleOK, HistoryOK, CallOK, Control, RefusalFails, ClosedWell, SeekFails,
    CardRefuses, Readable, Fails, Return, NoAccess, disk, handle, ReadFatFails,
    ReadFollowsChain, AtClusterStart, ReadBlockFails, CanFollow, IsBlock, ReadCluster
<1>3. CASE ReadNext \/ ReadDone
  BY <1>3
  DEF Typed, TypeOK, HandleOK, HistoryOK, CallOK, Control, RefusalFails, ClosedWell, ReadNext,
    CanFollow, ReadFollowsChain, AtClusterStart, Readable, IsBlock, ReadCluster, Accessed,
    Advance, Amount, Least, disk, fixed, transferVars, ReadDone, GoesBack, SeekTo, history
<1>4. CASE WriteNext
  BY <1>4
  DEF Typed, TypeOK, HandleOK, HistoryOK, CallOK, Control, RefusalFails, ClosedWell, WriteNext,
    WriteCluster, NeedsCluster, AtClusterStart, Readable, NextCluster, AddCluster, IsBlock,
    Accessed, Advance, Amount, Least, fixed, transferVars
<1>5. CASE WriteBlockFails
  BY <1>5
  DEF Typed, TypeOK, HandleOK, HistoryOK, CallOK, Control, RefusalFails, ClosedWell,
    WriteBlockFails, WriteCluster, NeedsCluster, AtClusterStart, Readable, NextCluster,
    AddCluster, CardRefuses, IsBlock, Fails, Return, NoAccess
<1>6. CASE WriteFatFails \/ WriteNoCluster
  BY <1>6
  DEF Typed, TypeOK, HandleOK, HistoryOK, CallOK, Control, RefusalFails, ClosedWell,
    WriteFatFails, AtClusterStart, CardRefuses, Readable, Return, NoAccess, disk, handle,
    WriteNoCluster, NeedsCluster, NextCluster, Fails
<1>7. CASE WriteDone
  BY <1>7
  DEF Typed, TypeOK, HandleOK, HistoryOK, CallOK, Control, RefusalFails, ClosedWell, WriteDone,
    disk, locals, history
<1>8. CASE Free
  BY <1>8
  DEF Typed, TypeOK, HandleOK, HistoryOK, CallOK, Control, RefusalFails, ClosedWell, Free,
    KeepTo, fixed, locals
<1>9. CASE FreeFails
  BY <1>9
  DEF Typed, TypeOK, HandleOK, HistoryOK, CallOK, Control, RefusalFails, ClosedWell, FreeFails,
    CardRefuses, Readable, Fails, Return, NoAccess, handle
<1>10. CASE Reseek
  BY <1>10
  DEF Typed, TypeOK, HandleOK, HistoryOK, CallOK, Control, RefusalFails, ClosedWell, Reseek,
    SeekTo, disk, fixed
<1>11. CASE Delete
  BY <1>11
  DEF Typed, TypeOK, HandleOK, HistoryOK, CallOK, Control, RefusalFails, ClosedWell, Delete,
    Deleted, Closed, Return, NoAccess
<1>12. CASE DeleteFails
  BY <1>12
  DEF Typed, TypeOK, HandleOK, HistoryOK, CallOK, Control, RefusalFails, ClosedWell,
    DeleteFails, CardRefuses, handle, Deleted, Closed, Return, NoAccess
<1>13. CASE Sync
  BY <1>13
  DEF Typed, TypeOK, HandleOK, HistoryOK, CallOK, Control, RefusalFails, ClosedWell, Sync,
    WriteEntry, locals, history
<1>14. CASE SyncFails
  BY <1>14
  DEF Typed, TypeOK, HandleOK, HistoryOK, CallOK, Control, RefusalFails, ClosedWell, SyncFails,
    CardRefuses, WriteEntry, Fails, Return, NoAccess
<1>15. CASE Done
  BY <1>15
  DEF Typed, TypeOK, HandleOK, HistoryOK, CallOK, Control, RefusalFails, ClosedWell, Done,
    Closed, handle, Return, NoAccess, disk
<1>16. CASE GiveUp
  BY <1>16
  DEF Typed, TypeOK, HandleOK, HistoryOK, CallOK, Control, RefusalFails, ClosedWell, GiveUp,
    Closed, locals, history
<1>17. ASSUME NEW m \in Modes, Open(m) \/ Create(m) \/ OpenTruncated(m)
      PROVE  (RefusalFails /\ ClosedWell)'
  BY <1>17
  DEF Typed, TypeOK, HandleOK, HistoryOK, CallOK, Control, RefusalFails, ClosedWell, Open,
    CanOpen, Deleted, Opened, disk, locals, Create, OpenTruncated
<1>18. ASSUME NEW n \in Sizes, CreateContiguous(n)
      PROVE  (RefusalFails /\ ClosedWell)'
  BY <1>18
  DEF Typed, TypeOK, HandleOK, HistoryOK, CallOK, Control, RefusalFails, ClosedWell,
    CreateContiguous, CanOpen, Deleted, locals
<1>19. ASSUME NEW n \in Sizes, CreateContiguousFails(n)
      PROVE  (RefusalFails /\ ClosedWell)'
  BY <1>19
  DEF Typed, TypeOK, HandleOK, HistoryOK, CallOK, Control, RefusalFails, ClosedWell,
    CreateContiguousFails, CanOpen, Deleted, CardRefuses, Opened, locals
<1>20. ASSUME NEW n \in 0 .. MaxSize, SeekCall(n) \/ TruncateCall(n)
      PROVE  (RefusalFails /\ ClosedWell)'
  BY <1>20
  DEF Typed, TypeOK, HandleOK, HistoryOK, CallOK, Control, RefusalFails, ClosedWell, SeekCall,
    CanCall, SeekTo, disk, fixed, TruncateCall, Least
<1>21. ASSUME NEW o \in {"read", "peek"}, NEW n \in 1 .. MaxRequest, ReadCall(o, n)
      PROVE  (RefusalFails /\ ClosedWell)'
  BY <1>21
  DEF Typed, TypeOK, HandleOK, HistoryOK, CallOK, Control, RefusalFails, ClosedWell, ReadCall,
    CanCall, Least, disk, handle, history
<1>22. ASSUME NEW n \in 1 .. MaxRequest, WriteCall(n)
      PROVE  (RefusalFails /\ ClosedWell)'
  BY <1>22
  DEF Typed, TypeOK, HandleOK, HistoryOK, CallOK, Control, RefusalFails, ClosedWell, WriteCall,
    CanCall, SeekTo, disk, fixed
<1>23. CASE RemoveCall
  BY <1>23
  DEF Typed, TypeOK, HandleOK, HistoryOK, CallOK, Control, RefusalFails, ClosedWell, RemoveCall,
    CanCall, SeekTo, disk, fixed, locals
<1>24. ASSUME NEW o \in Ops, SyncCall(o) \/ Rejected(o)
      PROVE  (RefusalFails /\ ClosedWell)'
  BY <1>24
  DEF Typed, TypeOK, HandleOK, HistoryOK, CallOK, Control, RefusalFails, ClosedWell, SyncCall,
    CanCall, disk, handle, locals, history, Rejected
<1>25. CASE UNCHANGED vars
  BY <1>25
  DEF Typed, TypeOK, HandleOK, HistoryOK, CallOK, Control, RefusalFails, ClosedWell, vars, disk,
    handle, locals, history
<1> QED
  BY <1>1, <1>2, <1>3, <1>4, <1>5, <1>6, <1>7, <1>8, <1>9, <1>10, <1>11, <1>12, <1>13, <1>14,
    <1>15, <1>16, <1>17, <1>18, <1>19, <1>20, <1>21, <1>22, <1>23, <1>24, <1>25, FileAssumption
  DEF Next, Step, Call, Ops

-----------------------------------------------------------------------------
(* No two things share a cluster. *)

LEMMA GrowsApart ==
  ASSUME DiskOK, HandleOK, Apart, NEW c, AddCluster(c), others' = others
  PROVE  Apart'
<1>1. /\ c \in free /\ Len(chain') = Len(chain) + 1 /\ chain' \in Seq(Cluster)
      /\ \A i \in 1 .. Len(chain) : chain'[i] = chain[i]
      /\ chain'[Len(chain) + 1] = c
      /\ free' = free \ {c}
  BY Grows
<1>2. Len(chain) \in Nat /\ DOMAIN chain = 1 .. Len(chain) /\ DOMAIN chain' = 1 .. Len(chain) + 1
  BY <1>1 DEF DiskOK
<1>3. c \notin others /\ \A i \in 1 .. Len(chain) : chain[i] # c
  BY <1>1, <1>2 DEF Apart
<1>4. \A i, j \in DOMAIN chain' : chain'[i] = chain'[j] => i = j
  <2> SUFFICES ASSUME NEW i \in 1 .. Len(chain) + 1, NEW j \in 1 .. Len(chain) + 1, chain'[i] = chain'[j]
               PROVE  i = j
    BY <1>2
  <2>1. CASE i <= Len(chain) /\ j <= Len(chain)
    BY <1>1, <1>2, <2>1 DEF Apart
  <2>2. CASE i = Len(chain) + 1 \/ j = Len(chain) + 1
    BY <1>1, <1>2, <1>3, <2>2
  <2> QED
    BY <1>2, <2>1, <2>2
<1>5. \A i \in DOMAIN chain' : chain'[i] \notin free' /\ chain'[i] \notin others'
  BY <1>1, <1>2, <1>3 DEF Apart
<1> QED
  BY <1>1, <1>4, <1>5 DEF Apart

LEMMA KeptApart ==
  ASSUME DiskOK, Apart, NEW k \in 0 .. Len(chain), KeepTo(k), others' = others
  PROVE  Apart'
<1>1. /\ chain' \in Seq(Cluster) /\ Len(chain') = k
      /\ \A i \in 1 .. k : chain'[i] = chain[i]
  BY Kept
<1>2. /\ Len(chain) \in Nat /\ DOMAIN chain = 1 .. Len(chain) /\ DOMAIN chain' = 1 .. k
      /\ \A i \in 1 .. k : i \in 1 .. Len(chain)
  BY <1>1 DEF DiskOK
<1>3. free' = free \cup {chain[i] : i \in k + 1 .. Len(chain)}
  BY DEF KeepTo
<1>4. \A i, j \in DOMAIN chain' : chain'[i] = chain'[j] => i = j
  BY <1>1, <1>2 DEF Apart
<1>5. \A i \in 1 .. k, j \in k + 1 .. Len(chain) : chain[i] # chain[j]
  BY <1>2 DEF Apart
<1>6. \A i \in DOMAIN chain' : chain'[i] \notin free' /\ chain'[i] \notin others'
  BY <1>1, <1>2, <1>3, <1>5 DEF Apart
<1>7. free' \cap others' = {}
  BY <1>2, <1>3 DEF Apart
<1> QED
  BY <1>4, <1>6, <1>7 DEF Apart

LEMMA RunApart ==
  ASSUME DiskOK, Apart, NEW n \in Sizes, CreateContiguous(n)
  PROVE  Apart' /\ free' = free \ Clusters'
<1>1. PICK s \in [1 .. (n - 1) \div ClusterSize + 1 -> free] :
        /\ \A i, j \in DOMAIN s : s[i] = s[j] => i = j
        /\ chain' = s
        /\ free' = {c \in free : \A i \in DOMAIN s : s[i] # c}
        /\ others' = others
  BY DEF CreateContiguous
<1>2. \A i \in DOMAIN s : s[i] \in free
  BY <1>1
<1>3. Apart'
  BY <1>1, <1>2 DEF Apart
<1>4. free' = free \ Clusters'
  BY <1>1 DEF Clusters
<1> QED
  BY <1>3, <1>4

\* The clusters of the file stay its own, and each is in the chain once.
LEMMA ApartStep == Typed /\ Apart /\ [Next]_vars => Apart'
<1> SUFFICES ASSUME Typed, Apart, [Next]_vars PROVE Apart'
  OBVIOUS
<1>1. CASE SeekNext \/ SeekFails \/ ReadNext \/ ReadFatFails \/ ReadBlockFails \/ ReadDone \/
  WriteFatFails \/ WriteDone \/ Reseek \/ Done \/ RemoveCall \/ Sync \/ SyncFails \/ FreeFails
  BY <1>1
  DEF Apart, SeekNext, Readable, seekVars, disk, fixed, SeekFails, CardRefuses, Fails, Return,
    NoAccess, handle, ReadNext, CanFollow, ReadFollowsChain, AtClusterStart, IsBlock,
    ReadCluster, Accessed, Advance, Amount, Least, transferVars, ReadFatFails, ReadBlockFails,
    ReadDone, GoesBack, SeekTo, history, WriteFatFails, WriteDone, locals, Reseek, Done, Closed,
    RemoveCall, CanCall, Sync, WriteEntry, SyncFails, FreeFails
<1>2. ASSUME NEW m \in Modes, Open(m) \/ OpenTruncated(m) \/ Create(m)
      PROVE  Apart'
  BY <1>2
  DEF Apart, Open, CanOpen, Deleted, Opened, disk, locals, OpenTruncated, Create
<1>3. ASSUME NEW n \in 0 .. MaxSize, SeekCall(n) \/ TruncateCall(n)
      PROVE  Apart'
  BY <1>3
  DEF Apart, SeekCall, CanCall, SeekTo, disk, fixed, TruncateCall, Least
<1>4. ASSUME NEW o \in {"read", "peek"}, NEW n \in 1 .. MaxRequest, ReadCall(o, n)
      PROVE  Apart'
  BY <1>4
  DEF Apart, ReadCall, CanCall, Least, disk, handle, history
<1>5. ASSUME NEW n \in 1 .. MaxRequest, WriteCall(n)
      PROVE  Apart'
  BY <1>5
  DEF Apart, WriteCall, CanCall, SeekTo, disk, fixed
<1>6. ASSUME NEW o \in Ops, SyncCall(o) \/ Rejected(o)
      PROVE  Apart'
  BY <1>6
  DEF Apart, SyncCall, CanCall, disk, handle, locals, history, Rejected
<1>7. ASSUME NEW n \in Sizes, CreateContiguous(n)
      PROVE  Apart'
  BY <1>7, RunApart DEF Typed, TypeOK
<1>8. ASSUME NEW n \in Sizes, CreateContiguousFails(n)
      PROVE  Apart'
  BY <1>8
  DEF Apart, CreateContiguousFails, CanOpen, Deleted, CardRefuses, Opened, locals
<1>9. CASE WriteNext \/ WriteBlockFails
  <2>1. PICK c : WriteCluster(c)
    BY <1>9 DEF WriteNext, WriteBlockFails
  <2>2. others' = others
    BY <1>9 DEF WriteNext, WriteBlockFails
  <2>3. CASE NeedsCluster
    BY <2>1, <2>2, <2>3, GrowsApart DEF WriteCluster, Typed, TypeOK
  <2>4. CASE ~NeedsCluster
    BY <2>1, <2>2, <2>4 DEF WriteCluster, Apart
  <2> QED
    BY <2>3, <2>4
<1>10. CASE WriteNoCluster
  BY <1>10
  DEF Apart, WriteNoCluster, NeedsCluster, AtClusterStart, Readable, NextCluster, CardRefuses,
    Fails, Return, NoAccess, handle
<1>11. CASE Free
  <2>1. DiskOK /\ others' = others
    BY <1>11 DEF Free, Typed, TypeOK
  <2>2. PICK k \in 0 .. Len(chain) : KeepTo(k)
    BY <1>11, <2>1, FreeKeeps
  <2> QED
    BY <2>1, <2>2, KeptApart
<1>12. CASE Delete \/ DeleteFails
  BY <1>12
  DEF Apart, Delete, Deleted, Closed, Return, NoAccess, DeleteFails, CardRefuses, handle
<1>13. CASE GiveUp
  BY <1>13
  DEF Apart, GiveUp, Closed, locals, history
<1>14. CASE UNCHANGED vars
  BY <1>14
  DEF Apart, vars, disk, handle, locals, history
<1> QED
  BY <1>1, <1>2, <1>3, <1>4, <1>5, <1>6, <1>7, <1>8, <1>9, <1>10, <1>11, <1>12, <1>13, <1>14,
    FileAssumption
  DEF Next, Step, Call, Ops

-----------------------------------------------------------------------------
(* Positions and the clusters they belong to. *)

LEMMA PositionOfCluster ==
  ASSUME NEW p \in Nat, p > 0, NEW l \in Nat
  PROVE  /\ Before(p) \in Nat \ {0}
         /\ (Before(p) - 1) * ClusterSize < p /\ p <= Before(p) * ClusterSize
         /\ p <= l * ClusterSize => Before(p) <= l
<1> DEFINE q == (p - 1) \div ClusterSize
<1>1. q \in Nat /\ q * ClusterSize <= p - 1 /\ p - 1 < (q + 1) * ClusterSize
  BY SizeIsPositive, Quotient
<1>2. ASSUME p <= l * ClusterSize PROVE q + 1 <= l
  <2>1. q * ClusterSize < l * ClusterSize
    BY <1>1, <1>2, SizeIsPositive
  <2> QED
    BY <1>1, <2>1, SizeIsPositive
<1> QED
  BY <1>1, <1>2, SizeIsPositive DEF Before

LEMMA IndexNumbers ==
  ASSUME NEW p \in Nat, NEW l \in Nat
  PROVE  /\ IndexOf(p) \in Nat \ {0}
         /\ (IndexOf(p) - 1) * ClusterSize <= p /\ p < IndexOf(p) * ClusterSize
         /\ p < l * ClusterSize => IndexOf(p) <= l
<1> DEFINE q == p \div ClusterSize
<1>1. q \in Nat /\ q * ClusterSize <= p /\ p < (q + 1) * ClusterSize
  BY SizeIsPositive, Quotient
<1>2. ASSUME p < l * ClusterSize PROVE q + 1 <= l
  <2>1. q * ClusterSize < l * ClusterSize
    BY <1>1, <1>2, SizeIsPositive
  <2> QED
    BY <1>1, <2>1, SizeIsPositive
<1> QED
  BY <1>1, <1>2, SizeIsPositive DEF IndexOf

\* The byte at a position is in the cluster of the one before it, but at the
\* start of a cluster.
LEMMA ByteAfter ==
  ASSUME NEW p \in Nat, p > 0
  PROVE  /\ p % ClusterSize = 0 => IndexOf(p) = Before(p) + 1 /\ p = Before(p) * ClusterSize
         /\ p % ClusterSize # 0 => IndexOf(p) = Before(p)
<1>1. p \div ClusterSize \in Nat
  BY SizeIsPositive, Remainder
<1>2. p % ClusterSize = 0 => Before(p) = p \div ClusterSize /\ p = (p \div ClusterSize) * ClusterSize
  <2>1. p % ClusterSize = 0 =>
          (p - 1) \div ClusterSize = p \div ClusterSize - 1 /\ p = (p \div ClusterSize) * ClusterSize
    BY SizeIsPositive, QuotientBefore
  <2>2. (p - 1) \div ClusterSize = p \div ClusterSize - 1 => Before(p) = p \div ClusterSize
    BY <1>1 DEF Before
  <2> QED
    BY <2>1, <2>2
<1>3. p % ClusterSize # 0 => Before(p) = p \div ClusterSize + 1
  BY <1>1, SizeIsPositive, QuotientBefore DEF Before
<1> QED
  BY <1>1, <1>2, <1>3 DEF IndexOf

\* A turn of read() or write() stays in a block, and a block in a cluster.
LEMMA TurnStaysInCluster ==
  ASSUME HandleOK, CallOK, todo > 0
  PROVE  /\ Amount \in 1 .. todo
         /\ curPosition_ + Amount \in Nat
         /\ curPosition_ + Amount <= IndexOf(curPosition_) * ClusterSize
         /\ Before(curPosition_ + Amount) = IndexOf(curPosition_)
<1>1. /\ curPosition_ \in Nat /\ todo \in Nat
      /\ BlockSize \in Nat \ {0} /\ BlocksPerCluster \in Nat \ {0}
  BY FileAssumption DEF HandleOK, CallOK
<1>2. Amount \in 1 .. todo /\ Amount <= BlockSize - (curPosition_ % BlockSize)
  BY <1>1, Remainder DEF Amount, Least
<1>3. (curPosition_ % ClusterSize) + (BlockSize - (curPosition_ % BlockSize)) <= ClusterSize
  BY <1>1, BlockInCluster DEF ClusterSize
<1>4. (curPosition_ % ClusterSize) + Amount <= ClusterSize
  BY <1>1, <1>2, <1>3, SizeIsPositive, Remainder
<1>5. Amount \in Nat /\ Amount > 0
  BY <1>1, <1>2
<1>6. /\ (curPosition_ + Amount - 1) \div ClusterSize = curPosition_ \div ClusterSize
      /\ curPosition_ + Amount <= (curPosition_ \div ClusterSize + 1) * ClusterSize
  BY <1>1, <1>4, <1>5, SizeIsPositive, QuotientWithin
<1> QED
  BY <1>1, <1>2, <1>5, <1>6 DEF IndexOf, Before

\* fatGet of a cluster of the chain.
LEMMA FollowsChain ==
  ASSUME DiskOK, Apart, NEW i \in 1 .. Len(chain)
  PROVE  FatEntry(chain[i]) = IF i < Len(chain) THEN chain[i + 1] ELSE EOC
<1>1. Len(chain) \in Nat /\ \A j \in 1 .. Len(chain) : chain[j] = chain[i] => j = i
  BY DEF DiskOK, Apart
<1>2. CASE i < Len(chain)
  <2>1. i \in 1 .. Len(chain) - 1
    BY <1>1, <1>2
  <2>2. (CHOOSE j \in 1 .. Len(chain) - 1 : chain[j] = chain[i]) = i
    BY <1>1, <2>1
  <2> QED
    BY <1>2, <2>1, <2>2 DEF FatEntry
<1>3. CASE i = Len(chain)
  <2>1. ~ \E j \in 1 .. Len(chain) - 1 : chain[j] = chain[i]
    BY <1>1, <1>3
  <2> QED
    BY <1>1, <1>3, <2>1 DEF FatEntry
<1> QED
  BY <1>1, <1>2, <1>3

-----------------------------------------------------------------------------
(* What an access computes. *)

\* What the parts of the invariant say of the numbers in it.
LEMMA Known ==
  ASSUME IInv, Sound
  PROVE  /\ Typed /\ TypeOK /\ DiskOK /\ HandleOK /\ CallOK /\ Control /\ Apart /\ Gone /\ Targets
         /\ Covered /\ AtCluster /\ ReadsWithin /\ (~failed => Exact)
         /\ Len(chain) \in Nat /\ DOMAIN chain = 1 .. Len(chain)
         /\ \A i \in 1 .. Len(chain) : chain[i] \in Cluster
         /\ fileSize_ \in Nat /\ curPosition_ \in Nat /\ target \in Nat /\ steps \in Nat
         /\ EOC \notin Cluster /\ NoCluster \notin Cluster /\ EOC # NoCluster
BY FileAssumption DEF IInv, Position, Typed, TypeOK, DiskOK, HandleOK, CallOK

\* The cluster of the byte before the position.
LEMMA CurrentCluster ==
  ASSUME IInv, Sound, isOpen, pc # "seek", curCluster_ # EOC
  PROVE  IF curPosition_ = 0 THEN curCluster_ = NoCluster
         ELSE /\ Before(curPosition_) \in 1 .. Len(chain)
              /\ curCluster_ = chain[Before(curPosition_)]
BY Known DEF AtCluster, InChain

\* In a seek the loop is as many clusters before the target as it counts.
LEMMA ClusterOnTheWay ==
  ASSUME IInv, Sound, pc = "seek", curCluster_ # EOC
  PROVE  /\ Before(target) - steps \in 1 .. Len(chain)
         /\ curCluster_ = chain[Before(target) - steps]
         /\ Before(target) \in 1 .. Len(chain)
<1>1. isOpen /\ 0 < target /\ target <= fileSize_ /\ fileSize_ <= Len(chain) * ClusterSize
  BY Known DEF Control, Targets, Covered
<1>2. target <= Len(chain) * ClusterSize
  BY <1>1, Known, SizeIsPositive
<1>3. Before(target) \in 1 .. Len(chain)
  BY <1>1, <1>2, Known, PositionOfCluster
<1> QED
  BY <1>1, <1>3, Known DEF AtCluster, InChain

LEMMA ReadHits ==
  ASSUME IInv, Sound, pc = "read", todo > 0, CanFollow, IsBlock(ReadCluster)
  PROVE  InChain(ReadCluster, IndexOf(curPosition_))
<1>0. isOpen /\ todo \in Nat
  BY Known DEF Control, CallOK
<1>1. EOCIsABlock => ~failed /\ curCluster_ # EOC /\ curPosition_ <= fileSize_
  BY <1>0, Known DEF Sound, Exact, Fitting
<1>2. curPosition_ <= fileSize_ => curPosition_ < Len(chain) * ClusterSize
  <2>1. curPosition_ <= fileSize_ => curPosition_ + todo <= fileSize_
    BY Known DEF ReadsWithin
  <2>2. fileSize_ <= Len(chain) * ClusterSize /\ Len(chain) * ClusterSize \in Nat
    BY <1>0, Known, SizeIsPositive DEF Covered
  <2> QED
    BY <1>0, <2>1, <2>2, Known
<1>3. CASE ReadFollowsChain
  <2>1. /\ curCluster_ # EOC /\ curPosition_ > 0 /\ curPosition_ % ClusterSize = 0
        /\ ReadCluster = FatEntry(curCluster_)
    BY <1>3, Known DEF CanFollow, Readable, ReadFollowsChain, ReadCluster, AtClusterStart
  <2> DEFINE k == Before(curPosition_)
  <2>2. k \in 1 .. Len(chain) /\ curCluster_ = chain[k]
    BY <1>0, <2>1, CurrentCluster
  <2>3. IndexOf(curPosition_) = k + 1 /\ curPosition_ = k * ClusterSize
    BY <2>1, Known, ByteAfter
  <2>4. ReadCluster = IF k < Len(chain) THEN chain[k + 1] ELSE EOC
    BY <2>1, <2>2, Known, FollowsChain
  <2>5. k < Len(chain)
    <3>1. CASE ReadCluster = EOC
      <4>1. curPosition_ < Len(chain) * ClusterSize
        BY <1>1, <1>2, <3>1 DEF IsBlock
      <4> HIDE DEF k
      <4> QED
        BY <2>2, <2>3, <4>1, Known, SizeIsPositive
    <3> QED
      BY <2>2, <2>4, <3>1, Known
  <2> QED
    BY <2>2, <2>3, <2>4, <2>5, Known DEF InChain
<1>4. CASE AtClusterStart /\ curPosition_ = 0
  <2>1. ReadCluster = firstCluster_ /\ firstCluster_ = HeadOfChain
    BY <1>0, <1>4, Known DEF ReadFollowsChain, ReadCluster, Covered
  <2>2. 0 < Len(chain) * ClusterSize
    BY <1>2, <1>4, Known
  <2>3. Len(chain) > 0
    BY <2>2, Known, SizeIsPositive
  <2>4. IndexOf(0) = 1
    BY SizeIsPositive DEF IndexOf
  <2> QED
    BY <1>4, <2>1, <2>3, <2>4, Known DEF InChain, HeadOfChain
<1>5. CASE ~AtClusterStart
  <2>1. ReadCluster = curCluster_
    BY <1>5 DEF ReadFollowsChain, ReadCluster
  <2>2. curCluster_ # EOC
    BY <1>1, <2>1 DEF IsBlock
  <2>3. curPosition_ > 0 /\ curPosition_ % ClusterSize # 0
    BY <1>5, Known, SizeIsPositive DEF AtClusterStart
  <2>4. IndexOf(curPosition_) = Before(curPosition_)
    BY <2>3, Known, ByteAfter
  <2> QED
    BY <1>0, <2>1, <2>2, <2>3, <2>4, Known, CurrentCluster DEF InChain
<1> QED
  BY <1>3, <1>4, <1>5 DEF ReadFollowsChain

\* The end mark is written to only if it is taken for a cluster.
LEMMA WritesAvoidEnd ==
  ASSUME IInv, Sound, pc = "write", WriteCluster(EOC)
  PROVE  /\ curCluster_ = EOC /\ ~AtClusterStart /\ ~EOCIsABlock
         /\ UNCHANGED <<chain, free, firstCluster_, dirDirty>>
<1>1. ~NeedsCluster
  BY Known, Grows DEF WriteCluster
<1>2. ~AtClusterStart
  BY <1>1 DEF WriteCluster, NeedsCluster
<1>3. curCluster_ = EOC /\ UNCHANGED <<chain, free, firstCluster_, dirDirty>>
  BY <1>1, <1>2 DEF WriteCluster
<1>4. ~EOCIsABlock
  BY <1>3, Known DEF Sound, Exact, Fitting, Control
<1> QED
  BY <1>2, <1>3, <1>4

\* A turn of write() goes to the cluster of its position, an old or a new one.
LEMMA WriteHits ==
  ASSUME IInv, Sound, pc = "write", NEW c, c # EOC, WriteCluster(c)
  PROVE  /\ chain' \in Seq(Cluster) /\ Len(chain') \in Nat
         /\ IndexOf(curPosition_) \in 1 .. Len(chain') /\ c = chain'[IndexOf(curPosition_)]
         /\ firstCluster_' = HeadOfChain'
         /\ \A i \in 1 .. Len(chain) : i \in 1 .. Len(chain') /\ chain'[i] = chain[i]
         /\ \/ UNCHANGED <<chain, free>>
            \/ /\ Len(chain') = Len(chain) + 1
               /\ chain'[Len(chain) + 1] = c
               /\ Len(chain) * ClusterSize = curPosition_
               /\ c \in free /\ free' = free \ {c}
<1>0. isOpen /\ firstCluster_ = HeadOfChain
  BY Known DEF Control, Covered
<1>1. CASE NeedsCluster
  <2>1. /\ AtClusterStart /\ curCluster_ # EOC /\ NextCluster \in {NoCluster, EOC}
        /\ AddCluster(c)
    BY <1>1 DEF NeedsCluster, Readable, WriteCluster
  <2>2. /\ c \in free /\ c \in Cluster /\ chain' \in Seq(Cluster) /\ Len(chain') = Len(chain) + 1
        /\ \A i \in 1 .. Len(chain) : chain'[i] = chain[i]
        /\ chain'[Len(chain) + 1] = c /\ free' = free \ {c}
    BY <2>1, Known, Grows
  <2>3. Len(chain) * ClusterSize = curPosition_ /\ IndexOf(curPosition_) = Len(chain) + 1
    <3>1. CASE curPosition_ = 0
      <4>1. NextCluster = HeadOfChain
        BY <1>0, <2>1, <3>1, Known, CurrentCluster DEF NextCluster
      <4>2. Len(chain) = 0
        BY <2>1, <4>1, Known DEF HeadOfChain
      <4>3. IndexOf(0) = 1
        BY SizeIsPositive DEF IndexOf
      <4> QED
        BY <3>1, <4>2, <4>3, SizeIsPositive
    <3>2. CASE curPosition_ # 0
      <4> DEFINE k == Before(curPosition_)
      <4>1. k \in 1 .. Len(chain) /\ curCluster_ = chain[k]
        BY <1>0, <2>1, <3>2, Known, CurrentCluster
      <4>2. IndexOf(curPosition_) = k + 1 /\ curPosition_ = k * ClusterSize
        BY <2>1, <3>2, Known, ByteAfter DEF AtClusterStart
      <4>3. NextCluster = FatEntry(chain[k])
        BY <4>1, Known DEF NextCluster
      <4>4. NextCluster = IF k < Len(chain) THEN chain[k + 1] ELSE EOC
        BY <4>1, <4>3, Known, FollowsChain
      <4>5. k = Len(chain)
        BY <2>1, <4>1, <4>4, Known
      <4> QED
        BY <4>2, <4>5
    <3> QED
      BY <3>1, <3>2
  <2>4. firstCluster_' = HeadOfChain'
    <3>1. firstCluster_' = IF firstCluster_ = NoCluster THEN c ELSE firstCluster_
      BY <2>1 DEF AddCluster
    <3>2. chain = << >> <=> Len(chain) = 0
      BY Known DEF DiskOK
    <3>3. HeadOfChain' = chain'[1]
      BY <2>2, Known DEF HeadOfChain
    <3> QED
      BY <1>0, <2>2, <3>1, <3>2, <3>3, Known DEF HeadOfChain
  <2> QED
    BY <2>2, <2>3, <2>4, Known
<1>2. CASE ~NeedsCluster
  <2>1. /\ UNCHANGED <<chain, free, firstCluster_>>
        /\ AtClusterStart => Readable(curCluster_)
        /\ c = IF AtClusterStart THEN NextCluster ELSE curCluster_
    BY <1>2 DEF WriteCluster
  <2>2. IndexOf(curPosition_) \in 1 .. Len(chain) /\ c = chain[IndexOf(curPosition_)]
    <3>1. CASE AtClusterStart /\ curPosition_ = 0
      <4>1. c = HeadOfChain /\ c \notin {NoCluster, EOC}
        BY <1>0, <1>2, <2>1, <3>1, Known, CurrentCluster DEF NextCluster, NeedsCluster, Readable
      <4>2. Len(chain) > 0 /\ c = chain[1]
        BY <4>1, Known DEF HeadOfChain
      <4>3. IndexOf(0) = 1
        BY SizeIsPositive DEF IndexOf
      <4> QED
        BY <3>1, <4>2, <4>3, Known
    <3>2. CASE AtClusterStart /\ curPosition_ # 0
      <4> DEFINE k == Before(curPosition_)
      <4>1. k \in 1 .. Len(chain) /\ curCluster_ = chain[k]
        BY <1>0, <2>1, <3>2, Known, CurrentCluster DEF Readable
      <4>2. IndexOf(curPosition_) = k + 1
        BY <3>2, Known, ByteAfter DEF AtClusterStart
      <4>3. c = FatEntry(chain[k])
        BY <2>1, <3>2, <4>1, Known DEF NextCluster
      <4>4. c = IF k < Len(chain) THEN chain[k + 1] ELSE EOC
        BY <4>1, <4>3, Known, FollowsChain
      <4> QED
        BY <4>1, <4>2, <4>4, Known
    <3>3. CASE ~AtClusterStart
      <4>1. curPosition_ > 0 /\ curPosition_ % ClusterSize # 0
        BY <3>3, Known, SizeIsPositive DEF AtClusterStart
      <4>2. IndexOf(curPosition_) = Before(curPosition_)
        BY <4>1, Known, ByteAfter
      <4> QED
        BY <1>0, <2>1, <3>3, <4>1, <4>2, Known, CurrentCluster
    <3> QED
      BY <3>1, <3>2, <3>3
  <2> QED
    BY <1>0, <2>1, <2>2, Known DEF HeadOfChain, DiskOK
<1> QED
  BY <1>1, <1>2

\* seekSet begins: the cluster it starts from is on the way, or the end mark.
LEMMA SeekStarts ==
  ASSUME IInv, Sound, isOpen, pc # "seek", NEW pos \in Nat, pos <= fileSize_,
         NEW next, next # "seek", SeekTo(pos, next),
         UNCHANGED <<chain, isOpen>>
  PROVE  /\ AtCluster'
         /\ curPosition_' \in {0, curPosition_}
         /\ curCluster_' = EOC => curCluster_ = EOC
<1>0. /\ firstCluster_ = HeadOfChain /\ fileSize_ <= Len(chain) * ClusterSize
      /\ Len(chain) * ClusterSize \in Nat
  BY Known, SizeIsPositive DEF Covered
<1>1. CASE pos = 0
  BY <1>1, FileAssumption DEF SeekTo, AtCluster
<1>2. CASE pos # 0
  <2> DEFINE nCur == (curPosition_ - 1) \div ClusterSize
             nNew == (pos - 1) \div ClusterSize
             restart == nNew < nCur \/ curPosition_ = 0
  <2>1. /\ curCluster_' = (IF restart THEN firstCluster_ ELSE curCluster_)
        /\ steps' = (IF restart THEN nNew ELSE nNew - nCur)
        /\ target' = pos /\ pc' = "seek" /\ curPosition_' = curPosition_
    BY <1>2 DEF SeekTo
  <2>2. Before(pos) \in 1 .. Len(chain) /\ Before(pos) = nNew + 1 /\ nNew \in Int
    <3>1. pos <= Len(chain) * ClusterSize
      BY <1>0, Known
    <3> QED
      BY <1>2, <3>1, Known, PositionOfCluster, SizeIsPositive DEF Before
  <2>3. nCur \in Int /\ Before(curPosition_) = nCur + 1
    BY Known, SizeIsPositive DEF Before
  <2> HIDE DEF nCur, nNew
  <2>4. CASE restart
    <3>1. curCluster_' = chain[1] /\ Before(pos) - steps' = 1
      BY <1>0, <2>1, <2>2, <2>4, Known DEF HeadOfChain
    <3>2. curCluster_' \in Cluster /\ curCluster_' # EOC
      BY <2>2, <3>1, Known
    <3>3. Before(target') - steps' \in DOMAIN chain'
      BY <2>1, <2>2, <3>1, Known
    <3> QED
      BY <2>1, <3>1, <3>2, <3>3 DEF AtCluster, InChain, Before
  <2>5. CASE ~restart
    <3>1. curPosition_ > 0 /\ curCluster_' = curCluster_ /\ Before(pos) - steps' = Before(curPosition_)
      BY <2>1, <2>2, <2>3, <2>5, Known
    <3>2. curCluster_ # EOC =>
            /\ Before(curPosition_) \in 1 .. Len(chain)
            /\ curCluster_ = chain[Before(curPosition_)]
      BY <3>1, Known, CurrentCluster
    <3> QED
      BY <2>1, <3>1, <3>2, Known DEF AtCluster, InChain, Before
  <2> QED
    BY <2>4, <2>5
<1> QED
  BY <1>1, <1>2

-----------------------------------------------------------------------------
(* The invariant about positions is kept. *)

\* Nothing undoes a failure or a refusal.
LEMMA FlagsStay == Typed /\ [Next]_vars => (refused => refused') /\ (failed => failed')
<1> SUFFICES ASSUME Typed, [Next]_vars PROVE (refused => refused') /\ (failed => failed')
  OBVIOUS
<1>1. CASE SeekNext \/ ReadNext \/ ReadDone \/ WriteNext \/ WriteDone \/ Free \/ Reseek \/ Sync
  \/ GiveUp
  BY <1>1
  DEF Typed, TypeOK, HistoryOK, SeekNext, Readable, seekVars, disk, fixed, ReadNext, CanFollow,
    ReadFollowsChain, AtClusterStart, IsBlock, ReadCluster, Accessed, Advance, Amount, Least,
    transferVars, ReadDone, GoesBack, SeekTo, history, WriteNext, WriteCluster, NeedsCluster,
    NextCluster, AddCluster, WriteDone, locals, Free, KeepTo, Reseek, Sync, WriteEntry, GiveUp,
    Closed
<1>2. CASE SeekFails \/ ReadFatFails \/ ReadBlockFails
  BY <1>2
  DEF Typed, TypeOK, HistoryOK, SeekFails, CardRefuses, Readable, Fails, Return, NoAccess, disk,
    handle, ReadFatFails, ReadFollowsChain, AtClusterStart, ReadBlockFails, CanFollow, IsBlock,
    ReadCluster
<1>3. CASE WriteFatFails \/ WriteNoCluster \/ WriteBlockFails
  BY <1>3
  DEF Typed, TypeOK, HistoryOK, WriteFatFails, AtClusterStart, CardRefuses, Readable, Return,
    NoAccess, disk, handle, WriteNoCluster, NeedsCluster, NextCluster, Fails, WriteBlockFails,
    WriteCluster, AddCluster, IsBlock
<1>4. CASE FreeFails \/ SyncFails
  BY <1>4
  DEF Typed, TypeOK, HistoryOK, FreeFails, CardRefuses, Readable, Fails, Return, NoAccess,
    handle, SyncFails, WriteEntry
<1>5. CASE Delete \/ DeleteFails \/ Done
  BY <1>5
  DEF Typed, TypeOK, HistoryOK, Delete, Deleted, Closed, Return, NoAccess, DeleteFails,
    CardRefuses, handle, Done, disk
<1>6. ASSUME NEW m \in Modes, Open(m) \/ Create(m) \/ OpenTruncated(m)
      PROVE  (refused => refused') /\ (failed => failed')
  BY <1>6
  DEF Typed, TypeOK, HistoryOK, Open, CanOpen, Deleted, Opened, disk, locals, Create,
    OpenTruncated
<1>7. ASSUME NEW n \in Sizes, CreateContiguous(n) \/ CreateContiguousFails(n)
      PROVE  (refused => refused') /\ (failed => failed')
  BY <1>7
  DEF Typed, TypeOK, HistoryOK, CreateContiguous, CanOpen, Deleted, locals,
    CreateContiguousFails, CardRefuses, Opened
<1>8. ASSUME NEW n \in 0 .. MaxSize, SeekCall(n) \/ TruncateCall(n)
      PROVE  (refused => refused') /\ (failed => failed')
  BY <1>8
  DEF Typed, TypeOK, HistoryOK, SeekCall, CanCall, SeekTo, disk, fixed, TruncateCall, Least
<1>9. ASSUME NEW o \in {"read", "peek"}, NEW n \in 1 .. MaxRequest, ReadCall(o, n)
      PROVE  (refused => refused') /\ (failed => failed')
  BY <1>9
  DEF Typed, TypeOK, HistoryOK, ReadCall, CanCall, Least, disk, handle, history
<1>10. ASSUME NEW n \in 1 .. MaxRequest, WriteCall(n)
      PROVE  (refused => refused') /\ (failed => failed')
  BY <1>10
  DEF Typed, TypeOK, HistoryOK, WriteCall, CanCall, SeekTo, disk, fixed
<1>11. CASE RemoveCall
  BY <1>11
  DEF Typed, TypeOK, HistoryOK, RemoveCall, CanCall, SeekTo, disk, fixed, locals
<1>12. ASSUME NEW o \in Ops, SyncCall(o) \/ Rejected(o)
      PROVE  (refused => refused') /\ (failed => failed')
  BY <1>12
  DEF Typed, TypeOK, HistoryOK, SyncCall, CanCall, disk, handle, locals, history, Rejected
<1>13. CASE UNCHANGED vars
  BY <1>13
  DEF Typed, TypeOK, HistoryOK, vars, disk, handle, locals, history
<1> QED
  BY <1>1, <1>2, <1>3, <1>4, <1>5, <1>6, <1>7, <1>8, <1>9, <1>10, <1>11, <1>12, <1>13,
    FileAssumption
  DEF Next, Step, Call, Ops

\* What truncate() keeps ends with the cluster of its last byte.
LEMMA FreeHits ==
  ASSUME IInv, Sound, Free
  PROVE  \E k \in 0 .. Len(chain) :
           /\ KeepTo(k) /\ chain' \in Seq(Cluster) /\ Len(chain') = k
           /\ \A i \in 1 .. k : chain'[i] = chain[i]
           /\ curPosition_ = target /\ fileSize_' = target /\ target <= k * ClusterSize
           /\ IF target = 0 THEN k = 0 /\ firstCluster_' = NoCluster /\ curCluster_ = NoCluster
              ELSE /\ k = Before(target) /\ curCluster_ = chain[k] /\ (k - 1) * ClusterSize < target
                   /\ firstCluster_' = firstCluster_
<1>1. pc = "free" /\ isOpen /\ curPosition_ = target /\ fileSize_' = target
  BY Known DEF Free, Control, Targets
<1>2. CASE target = 0
  <2>1. KeepTo(0) /\ firstCluster_' = NoCluster /\ curCluster_ = NoCluster
    BY <1>1, <1>2, Known DEF Free, Targets
  <2>2. 0 \in 0 .. Len(chain)
    BY Known
  <2> QED
    BY <1>1, <1>2, <2>1, <2>2, Known, Kept, SizeIsPositive
<1>3. CASE target # 0
  <2>1. PICK k \in DOMAIN chain : chain[k] = curCluster_ /\ KeepTo(k)
    BY <1>3 DEF Free
  <2>2. firstCluster_' = firstCluster_
    BY <1>3 DEF Free
  <2>3. k \in 1 .. Len(chain) /\ curCluster_ # EOC
    BY <2>1, Known
  <2>4. Before(target) \in 1 .. Len(chain) /\ chain[k] = chain[Before(target)]
    BY <1>1, <1>3, <2>1, <2>3, CurrentCluster
  <2>5. k = Before(target)
    BY <2>3, <2>4, Known DEF Apart
  <2>6. (k - 1) * ClusterSize < target /\ target <= k * ClusterSize
    <3>1. target \in Nat /\ target > 0 /\ Len(chain) \in Nat
      BY <1>3, Known
    <3>2. (Before(target) - 1) * ClusterSize < target /\ target <= Before(target) * ClusterSize
      BY <3>1, PositionOfCluster
    <3> QED
      BY <2>5, <3>2
  <2>7. /\ k \in 0 .. Len(chain) /\ chain' \in Seq(Cluster) /\ Len(chain') = k
        /\ \A i \in 1 .. k : chain'[i] = chain[i]
    BY <2>1, <2>3, Known, Kept
  <2> QED
    BY <1>1, <1>3, <2>1, <2>2, <2>5, <2>6, <2>7
<1> QED
  BY <1>2, <1>3

\* The chain begins where it should and never gets too short,
LEMMA CoveredStep == IInv /\ Sound /\ Sound' /\ [Next]_vars => Covered'
<1> SUFFICES ASSUME IInv, Sound, Sound', [Next]_vars PROVE Covered'
  OBVIOUS
<1>1. CASE SeekFails \/ ReadFatFails \/ ReadBlockFails \/ WriteFatFails \/ WriteNoCluster \/
  FreeFails \/ Sync \/ SyncFails
  BY <1>1, Known
  DEF Covered, HeadOfChain, Control, Sound, SeekFails, CardRefuses, Readable, Fails, Return,
    NoAccess, disk, handle, ReadFatFails, ReadFollowsChain, AtClusterStart, ReadBlockFails,
    CanFollow, IsBlock, ReadCluster, WriteFatFails, WriteNoCluster, NeedsCluster, NextCluster,
    FreeFails, Sync, WriteEntry, locals, history, SyncFails
<1>2. CASE SeekNext
  <2>1. pc = "seek" => target <= Len(chain) * ClusterSize
    BY Known, SizeIsPositive DEF Targets, Covered, Control
  <2> QED
    BY <1>2, <2>1, Known DEF SeekNext, seekVars, disk, fixed, Covered, HeadOfChain, Control
<1>3. CASE ReadNext
  <2>1. InChain(ReadCluster, IndexOf(curPosition_)) /\ curPosition_' = curPosition_ + Amount
    BY <1>3, ReadHits DEF ReadNext, Advance
  <2>2. curPosition_ + Amount <= Len(chain) * ClusterSize
    <3>1. curPosition_ + Amount <= IndexOf(curPosition_) * ClusterSize /\ curPosition_ + Amount \in Nat
      BY <1>3, Known, TurnStaysInCluster DEF ReadNext
    <3>2. IndexOf(curPosition_) \in 1 .. Len(chain)
      BY <2>1, Known DEF InChain
    <3> QED
      BY <3>1, <3>2, Known, SizeIsPositive
  <2> QED
    BY <1>3, <2>1, <2>2, Known DEF ReadNext, disk, fixed, Covered, HeadOfChain
<1>4. CASE ReadDone
  BY <1>4, Known, SizeIsPositive
  DEF Covered, HeadOfChain, ReadDone, GoesBack, SeekTo, disk, history
<1>5. CASE WriteNext
  <2>1. PICK c : WriteCluster(c) /\ IsBlock(c)
    BY <1>5 DEF WriteNext
  <2>2. c # EOC
    BY <1>5, <2>1, WritesAvoidEnd DEF WriteNext, IsBlock
  <2>3. /\ Len(chain') \in Nat /\ Len(chain') >= Len(chain) /\ firstCluster_' = HeadOfChain'
        /\ IndexOf(curPosition_) \in 1 .. Len(chain')
    BY <1>5, <2>1, <2>2, Known, WriteHits DEF WriteNext
  <2>4. curPosition_ + Amount <= IndexOf(curPosition_) * ClusterSize /\ curPosition_ + Amount \in Nat
    BY <1>5, Known, TurnStaysInCluster DEF WriteNext
  <2>5. curPosition_ + Amount <= Len(chain') * ClusterSize
    BY <2>3, <2>4, SizeIsPositive
  <2>6. fileSize_ <= Len(chain') * ClusterSize
    <3>1. fileSize_ <= Len(chain) * ClusterSize
      BY <1>5, Known DEF Covered, Control, WriteNext
    <3> QED
      BY <2>3, <3>1, Known, SizeIsPositive
  <2>7. isOpen' /\ fileSize_' = fileSize_ /\ curPosition_' = curPosition_ + Amount
    BY <1>5, Known DEF WriteNext, Advance, fixed, Control
  <2> QED
    BY <2>3, <2>5, <2>6, <2>7 DEF Covered
<1>6. CASE WriteBlockFails
  <2>1. WriteCluster(EOC)
    BY <1>6 DEF WriteBlockFails, CardRefuses, IsBlock, Sound
  <2>2. UNCHANGED <<chain, free, firstCluster_, dirDirty>>
    BY <1>6, <2>1, WritesAvoidEnd DEF WriteBlockFails
  <2> QED
    BY <1>6, <2>2, Known DEF WriteBlockFails, Covered, HeadOfChain
<1>7. CASE WriteDone
  BY <1>7, Known
  DEF Covered, HeadOfChain, Control, WriteDone, disk, locals, history
<1>8. CASE Free
  <2>1. PICK k \in 0 .. Len(chain) :
           /\ Len(chain') = k /\ chain' \in Seq(Cluster)
           /\ \A i \in 1 .. k : chain'[i] = chain[i]
           /\ curPosition_ = target /\ fileSize_' = target /\ target <= k * ClusterSize
           /\ IF target = 0 THEN k = 0 /\ firstCluster_' = NoCluster
              ELSE k = Before(target) /\ firstCluster_' = firstCluster_
    BY <1>8, FreeHits
  <2>2. isOpen /\ isOpen' /\ curPosition_' = curPosition_ /\ firstCluster_ = HeadOfChain
    BY <1>8, Known DEF Free, fixed, Control, Covered
  <2>3. firstCluster_' = HeadOfChain'
    <3>1. CASE target = 0
      BY <2>1, <3>1 DEF HeadOfChain
    <3>2. CASE target # 0
      <4>1. k > 0
        BY <2>1, <3>2, Known, PositionOfCluster
      <4>2. chain # << >> /\ chain' # << >> /\ chain'[1] = chain[1]
        BY <2>1, <4>1, Known
      <4> QED
        BY <2>1, <2>2, <3>2, <4>2 DEF HeadOfChain
    <3> QED
      BY <3>1, <3>2
  <2> QED
    BY <2>1, <2>2, <2>3 DEF Covered
<1>9. CASE Reseek
  BY <1>9, Known, SizeIsPositive
  DEF Covered, HeadOfChain, Reseek, SeekTo, disk, fixed
<1>10. CASE Delete
  BY <1>10, Known
  DEF Covered, Delete, Deleted, Closed, Return, NoAccess
<1>11. CASE DeleteFails
  BY <1>11 DEF DeleteFails, CardRefuses, Sound
<1>12. CASE Done
  <2>1. CASE op = "close"
    <3>1. entry = [first |-> firstCluster_, size |-> fileSize_]
      BY <1>12, <2>1, Known DEF Done, IInv, Agrees, Control
    <3>2. isOpen /\ ~isOpen' /\ entry' = entry /\ chain' = chain
      BY <1>12, <2>1, Known DEF Done, Closed, disk, Control
    <3> QED
      BY <3>1, <3>2, Known DEF Covered, HeadOfChain
  <2>2. CASE op # "close"
    BY <1>12, <2>2, Known DEF Done, disk, handle, Covered, HeadOfChain
  <2> QED
    BY <2>1, <2>2
<1>13. CASE GiveUp
  BY <1>13 DEF GiveUp, IInv, ClosedWell, Sound
<1>14. ASSUME NEW m \in Modes, Open(m) \/ OpenTruncated(m)
      PROVE  Covered'
  BY <1>14, Known, SizeIsPositive
  DEF Covered, HeadOfChain, DiskOK, Deleted, Open, CanOpen, Opened, disk, locals, OpenTruncated
<1>15. ASSUME NEW m \in Modes, Create(m)
      PROVE  Covered'
  BY <1>15, Known, SizeIsPositive
  DEF Covered, HeadOfChain, Gone, Create, CanOpen, Deleted, Opened, locals
<1>16. ASSUME NEW n \in Sizes, CreateContiguous(n)
      PROVE  Covered'
  <2>1. /\ Len(chain') = (n - 1) \div ClusterSize + 1 /\ Len(chain') > 0
        /\ firstCluster_' = chain'[1]
    BY <1>16, Known, RunTypes
  <2>2. isOpen' /\ fileSize_' = n /\ curPosition_' = 0
    BY <1>16 DEF CreateContiguous
  <2>3. n \in Nat /\ n > 0
    BY SizesAreNumbers
  <2>4. Len(chain') = Before(n)
    BY <2>1 DEF Before
  <2>5. n <= Before(n) * ClusterSize
    BY <2>3, PositionOfCluster
  <2>6. chain' # << >> /\ ClusterSize \in Nat
    BY <2>1, SizeIsPositive
  <2> QED
    BY <2>1, <2>2, <2>3, <2>4, <2>5, <2>6 DEF Covered, HeadOfChain
<1>17. ASSUME NEW n \in Sizes, CreateContiguousFails(n)
      PROVE  Covered'
  BY <1>17, Known, SizeIsPositive
  DEF Covered, HeadOfChain, Gone, CreateContiguousFails, CanOpen, Deleted, CardRefuses, Opened,
    locals
<1>18. ASSUME NEW n \in 0 .. MaxSize, SeekCall(n)
      PROVE  Covered'
  BY <1>18, Known, SizeIsPositive
  DEF Covered, HeadOfChain, CanCall, SeekCall, SeekTo, disk, fixed
<1>19. ASSUME NEW n \in 0 .. MaxSize, TruncateCall(n)
      PROVE  Covered'
  BY <1>19, Known, SizeIsPositive
  DEF Covered, HeadOfChain, CanCall, TruncateCall, SeekTo, Least, disk, fixed
<1>20. ASSUME NEW o \in {"read", "peek"}, NEW n \in 1 .. MaxRequest, ReadCall(o, n)
      PROVE  Covered'
  BY <1>20, Known
  DEF Covered, HeadOfChain, ReadCall, CanCall, Least, disk, handle, history
<1>21. ASSUME NEW n \in 1 .. MaxRequest, WriteCall(n)
      PROVE  Covered'
  BY <1>21, Known, SizeIsPositive
  DEF Covered, HeadOfChain, WriteCall, CanCall, SeekTo, disk, fixed
<1>22. CASE RemoveCall
  BY <1>22, Known, SizeIsPositive
  DEF Covered, HeadOfChain, RemoveCall, CanCall, SeekTo, disk, fixed, locals
<1>23. ASSUME NEW o \in Ops, SyncCall(o) \/ Rejected(o)
      PROVE  Covered'
  BY <1>23, Known
  DEF Covered, HeadOfChain, SyncCall, CanCall, disk, handle, locals, history, Rejected
<1>24. CASE UNCHANGED vars
  BY <1>24, Known
  DEF Covered, HeadOfChain, vars, disk, handle, locals, history
<1> QED
  BY <1>1, <1>2, <1>3, <1>4, <1>5, <1>6, <1>7, <1>8, <1>9, <1>10, <1>11, <1>12, <1>13, <1>14,
    <1>15, <1>16, <1>17, <1>18, <1>19, <1>20, <1>21, <1>22, <1>23, <1>24, FileAssumption
  DEF Next, Step, Call, Ops

\* the current cluster stays the one of the position,
LEMMA AtClusterStep == IInv /\ Sound /\ Sound' /\ [Next]_vars => AtCluster'
<1> SUFFICES ASSUME IInv, Sound, Sound', [Next]_vars PROVE AtCluster'
  OBVIOUS
<1>1. CASE ReadFatFails \/ WriteFatFails \/ WriteNoCluster \/ FreeFails \/ Sync \/ SyncFails
  BY <1>1, Known
  DEF AtCluster, InChain, ReadFatFails, ReadFollowsChain, AtClusterStart, CardRefuses, Readable,
    Fails, Return, NoAccess, disk, handle, WriteFatFails, WriteNoCluster, NeedsCluster,
    NextCluster, FreeFails, Sync, WriteEntry, locals, history, SyncFails
<1>2. CASE SeekNext
  <2>1. pc = "seek" /\ isOpen /\ chain' = chain /\ target' = target /\ after # "seek" /\ 0 < target
    BY <1>2, Known DEF SeekNext, seekVars, disk, Control, Targets, CallOK
  <2>2. CASE curCluster_ = EOC
    BY <1>2, <2>1, <2>2, Known DEF SeekNext, Readable, AtCluster
  <2>3. CASE curCluster_ # EOC /\ steps = 0
    <3>1. curCluster_' = curCluster_ /\ curPosition_' = target /\ pc' # "seek"
      BY <1>2, <2>1, <2>3 DEF SeekNext
    <3>2. Before(target) \in 1 .. Len(chain) /\ curCluster_ = chain[Before(target)]
      BY <2>1, <2>3, ClusterOnTheWay, Known
    <3> QED
      BY <2>1, <3>1, <3>2, Known DEF AtCluster, InChain, Before
  <2>4. CASE curCluster_ # EOC /\ steps > 0
    <3> DEFINE i == Before(target) - steps
    <3>1. i \in 1 .. Len(chain) /\ curCluster_ = chain[i] /\ Before(target) \in 1 .. Len(chain)
      BY <2>1, <2>4, ClusterOnTheWay
    <3>2. curCluster_' = FatEntry(curCluster_) /\ steps' = steps - 1 /\ pc' = "seek"
      BY <1>2, <2>1, <2>4 DEF SeekNext
    <3>3. i < Len(chain) /\ Before(target) - steps' = i + 1
      BY <2>4, <3>1, <3>2, Known
    <3>4. curCluster_' = chain[i + 1]
      BY <3>1, <3>2, <3>3, Known, FollowsChain
    <3>5. i + 1 \in 1 .. Len(chain) /\ chain[i + 1] \in Cluster
      BY <3>1, <3>3, Known
    <3> HIDE DEF i
    <3> QED
      BY <2>1, <3>2, <3>3, <3>4, <3>5, Known DEF AtCluster, InChain, Before
  <2> QED
    BY <2>2, <2>3, <2>4, Known
<1>3. CASE SeekFails
  <2>1. curCluster_ = EOC
    BY <1>3 DEF SeekFails, CardRefuses, Readable, Sound
  <2> QED
    BY <1>3, <2>1, Known DEF SeekFails, handle, AtCluster
<1>4. CASE ReadNext
  <2>1. /\ InChain(ReadCluster, IndexOf(curPosition_)) /\ curPosition_' = curPosition_ + Amount
        /\ curCluster_' = ReadCluster /\ chain' = chain /\ pc' = "read"
    BY <1>4, ReadHits DEF ReadNext, Advance, disk
  <2>2. Before(curPosition_') = IndexOf(curPosition_) /\ curPosition_' > 0
    BY <1>4, <2>1, Known, TurnStaysInCluster DEF ReadNext
  <2>3. curCluster_' # EOC
    BY <2>1, Known DEF InChain
  <2> QED
    BY <2>1, <2>2, <2>3 DEF AtCluster, InChain, Before
<1>5. CASE ReadBlockFails
  <2>1. ReadCluster = EOC /\ curCluster_' = EOC /\ curPosition_' = curPosition_
    BY <1>5 DEF ReadBlockFails, CardRefuses, IsBlock, Sound
  <2>2. curPosition_ # 0
    <3>1. SUFFICES ASSUME curPosition_ = 0 PROVE FALSE
      OBVIOUS
    <3>2. ReadCluster = firstCluster_
      BY <3>1, SizeIsPositive DEF ReadCluster, ReadFollowsChain, AtClusterStart
    <3> QED
      BY <2>1, <3>2, Known DEF HandleOK
  <2> QED
    BY <2>1, <2>2, Known DEF AtCluster
<1>6. CASE ReadDone
  <2>1. isOpen /\ isOpen' = isOpen /\ chain' = chain /\ pc # "seek"
    BY <1>6, Known DEF ReadDone, CanCall, disk, fixed, Control
  <2>2. ASSUME NEW pos \in Nat, pos <= fileSize_, NEW next, next # "seek", SeekTo(pos, next)
        PROVE  AtCluster'
    BY <2>1, <2>2, SeekStarts
  <2>3. CASE GoesBack
    <3>1. curPosition_ - 1 \in Nat /\ curPosition_ - 1 <= fileSize_ /\ SeekTo(curPosition_ - 1, "done")
      BY <1>6, <2>3, Known DEF ReadDone, Control, Targets, CanCall, HandleOK, CallOK, GoesBack, NoAccess
    <3> QED
      BY <2>2, <3>1
  <2>4. CASE ~(GoesBack)
    BY <1>6, <2>1, <2>4, Known DEF ReadDone, AtCluster, InChain, locals
  <2> QED
    BY <2>3, <2>4
<1>7. CASE WriteNext
  <2>1. PICK c : WriteCluster(c) /\ IsBlock(c) /\ curCluster_' = c
    BY <1>7 DEF WriteNext
  <2>2. c # EOC
    BY <1>7, <2>1, WritesAvoidEnd DEF WriteNext, IsBlock
  <2>3. IndexOf(curPosition_) \in 1 .. Len(chain') /\ c = chain'[IndexOf(curPosition_)]
    BY <1>7, <2>1, <2>2, WriteHits DEF WriteNext
  <2>4. DOMAIN chain' = 1 .. Len(chain') /\ pc' = "write" /\ curPosition_' = curPosition_ + Amount
    BY <1>7, <2>1, <2>2, WriteHits DEF WriteNext, Advance
  <2>5. Before(curPosition_') = IndexOf(curPosition_) /\ curPosition_' > 0
    BY <1>7, <2>4, Known, TurnStaysInCluster DEF WriteNext
  <2> QED
    BY <2>1, <2>2, <2>3, <2>4, <2>5 DEF AtCluster, InChain, Before
<1>8. CASE WriteBlockFails
  <2>1. WriteCluster(EOC) /\ curCluster_' = EOC /\ curPosition_' = curPosition_
    BY <1>8 DEF WriteBlockFails, CardRefuses, IsBlock, Sound
  <2>2. ~AtClusterStart
    BY <1>8, <2>1, WritesAvoidEnd DEF WriteBlockFails
  <2>3. curPosition_ # 0
    BY <2>2, SizeIsPositive DEF AtClusterStart
  <2> QED
    BY <2>1, <2>3, Known DEF AtCluster
<1>9. CASE WriteDone
  BY <1>9, Known
  DEF AtCluster, InChain, WriteDone, disk, locals, history
<1>10. CASE Free
  <2>1. PICK k \in 0 .. Len(chain) :
           /\ Len(chain') = k /\ chain' \in Seq(Cluster)
           /\ \A i \in 1 .. k : chain'[i] = chain[i]
           /\ curPosition_ = target
           /\ target # 0 => k = Before(target) /\ curCluster_ = chain[k]
           /\ target = 0 => curCluster_ = NoCluster
    BY <1>10, FreeHits
  <2>2. curPosition_' = curPosition_ /\ curCluster_' = curCluster_ /\ pc' = "sync"
    BY <1>10 DEF Free
  <2>3. CASE target = 0
    BY <2>1, <2>2, <2>3, Known DEF AtCluster
  <2>4. CASE target # 0
    <3>1. k \in 1 .. Len(chain)
      BY <2>1, <2>4, Known, PositionOfCluster
    <3>2. k \in DOMAIN chain' /\ chain'[k] = chain[k] /\ chain[k] \in Cluster
      BY <2>1, <3>1, Known
    <3> QED
      BY <2>1, <2>2, <2>4, <3>2, Known DEF AtCluster, InChain, Before
  <2> QED
    BY <2>3, <2>4
<1>11. CASE Reseek
  <2>1. isOpen /\ isOpen' = isOpen /\ chain' = chain /\ pc # "seek"
    BY <1>11, Known DEF Reseek, CanCall, disk, fixed, Control
  <2>2. ASSUME NEW pos \in Nat, pos <= fileSize_, NEW next, next # "seek", SeekTo(pos, next)
        PROVE  AtCluster'
    BY <2>1, <2>2, SeekStarts
  <2>3. CASE TRUE
    <3>1. newPos \in Nat /\ newPos <= fileSize_ /\ SeekTo(newPos, IF op = "remove" THEN "delete" ELSE "done")
      BY <1>11, <2>3, Known DEF Reseek, Control, Targets, CanCall, HandleOK, CallOK, GoesBack, NoAccess
    <3> QED
      BY <2>2, <3>1
  <2> QED
    BY <2>3
<1>12. CASE Delete
  BY <1>12, Known
  DEF AtCluster, InChain, Delete, Deleted, Closed, Return, NoAccess
<1>13. CASE DeleteFails
  BY <1>13 DEF DeleteFails, CardRefuses, Sound
<1>14. CASE Done
  BY <1>14, Known
  DEF AtCluster, InChain, Done, Closed, handle, Return, NoAccess, disk
<1>15. CASE GiveUp
  BY <1>15, Known
  DEF AtCluster, InChain, GiveUp, Closed, locals, history
<1>16. ASSUME NEW m \in Modes, Open(m) \/ Create(m) \/ OpenTruncated(m)
      PROVE  AtCluster'
  BY <1>16, Known
  DEF AtCluster, Open, CanOpen, Deleted, Opened, disk, locals, Create, OpenTruncated
<1>17. ASSUME NEW n \in Sizes, CreateContiguous(n)
      PROVE  AtCluster'
  BY <1>17, Known
  DEF AtCluster, InChain, CreateContiguous, CanOpen, Deleted, locals
<1>18. ASSUME NEW n \in Sizes, CreateContiguousFails(n)
      PROVE  AtCluster'
  BY <1>18, Known
  DEF AtCluster, InChain, CreateContiguousFails, CanOpen, Deleted, CardRefuses, Opened, locals
<1>19. ASSUME NEW n \in 0 .. MaxSize, SeekCall(n)
      PROVE  AtCluster'
  <2>1. isOpen /\ isOpen' = isOpen /\ chain' = chain /\ pc # "seek"
    BY <1>19, Known DEF SeekCall, CanCall, disk, fixed, Control
  <2>2. ASSUME NEW pos \in Nat, pos <= fileSize_, NEW next, next # "seek", SeekTo(pos, next)
        PROVE  AtCluster'
    BY <2>1, <2>2, SeekStarts
  <2>3. CASE TRUE
    <3>1. n \in Nat /\ n <= fileSize_ /\ SeekTo(n, "done")
      BY <1>19, <2>3, Known DEF SeekCall, Control, Targets, CanCall, HandleOK, CallOK, GoesBack, NoAccess
    <3> QED
      BY <2>2, <3>1
  <2> QED
    BY <2>3
<1>20. ASSUME NEW n \in 0 .. MaxSize, TruncateCall(n)
      PROVE  AtCluster'
  <2>1. isOpen /\ isOpen' = isOpen /\ chain' = chain /\ pc # "seek"
    BY <1>20, Known DEF TruncateCall, CanCall, disk, fixed, Control
  <2>2. ASSUME NEW pos \in Nat, pos <= fileSize_, NEW next, next # "seek", SeekTo(pos, next)
        PROVE  AtCluster'
    BY <2>1, <2>2, SeekStarts
  <2>3. CASE fileSize_ # 0
    <3>1. n \in Nat /\ n <= fileSize_ /\ SeekTo(n, "free")
      BY <1>20, <2>3, Known DEF TruncateCall, Control, Targets, CanCall, HandleOK, CallOK, GoesBack, NoAccess
    <3> QED
      BY <2>2, <3>1
  <2>4. CASE ~(fileSize_ # 0)
    BY <1>20, <2>1, <2>4, Known DEF TruncateCall, AtCluster, InChain, locals
  <2> QED
    BY <2>3, <2>4
<1>21. ASSUME NEW o \in {"read", "peek"}, NEW n \in 1 .. MaxRequest, ReadCall(o, n)
      PROVE  AtCluster'
  BY <1>21, Known
  DEF AtCluster, InChain, ReadCall, CanCall, Least, disk, handle, history
<1>22. ASSUME NEW n \in 1 .. MaxRequest, WriteCall(n)
      PROVE  AtCluster'
  <2>1. isOpen /\ isOpen' = isOpen /\ chain' = chain /\ pc # "seek"
    BY <1>22, Known DEF WriteCall, CanCall, disk, fixed, Control
  <2>2. ASSUME NEW pos \in Nat, pos <= fileSize_, NEW next, next # "seek", SeekTo(pos, next)
        PROVE  AtCluster'
    BY <2>1, <2>2, SeekStarts
  <2>3. CASE "append" \in flags /\ curPosition_ # fileSize_
    <3>1. fileSize_ \in Nat /\ fileSize_ <= fileSize_ /\ SeekTo(fileSize_, "write")
      BY <1>22, <2>3, Known DEF WriteCall, Control, Targets, CanCall, HandleOK, CallOK, GoesBack, NoAccess
    <3> QED
      BY <2>2, <3>1
  <2>4. CASE ~("append" \in flags /\ curPosition_ # fileSize_)
    BY <1>22, <2>1, <2>4, Known DEF WriteCall, AtCluster, InChain, locals
  <2> QED
    BY <2>3, <2>4
<1>23. CASE RemoveCall
  <2>1. isOpen /\ isOpen' = isOpen /\ chain' = chain /\ pc # "seek"
    BY <1>23, Known DEF RemoveCall, CanCall, disk, fixed, Control
  <2>2. ASSUME NEW pos \in Nat, pos <= fileSize_, NEW next, next # "seek", SeekTo(pos, next)
        PROVE  AtCluster'
    BY <2>1, <2>2, SeekStarts
  <2>3. CASE fileSize_ # 0
    <3>1. 0 \in Nat /\ 0 <= fileSize_ /\ SeekTo(0, "free")
      BY <1>23, <2>3, Known DEF RemoveCall, Control, Targets, CanCall, HandleOK, CallOK, GoesBack, NoAccess
    <3> QED
      BY <2>2, <3>1
  <2>4. CASE ~(fileSize_ # 0)
    BY <1>23, <2>1, <2>4, Known DEF RemoveCall, AtCluster, InChain, locals
  <2> QED
    BY <2>3, <2>4
<1>24. ASSUME NEW o \in Ops, SyncCall(o) \/ Rejected(o)
      PROVE  AtCluster'
  BY <1>24, Known
  DEF AtCluster, InChain, SyncCall, CanCall, disk, handle, locals, history, Rejected
<1>25. CASE UNCHANGED vars
  BY <1>25, Known
  DEF AtCluster, InChain, vars, disk, handle, locals, history
<1> QED
  BY <1>1, <1>2, <1>3, <1>4, <1>5, <1>6, <1>7, <1>8, <1>9, <1>10, <1>11, <1>12, <1>13, <1>14,
    <1>15, <1>16, <1>17, <1>18, <1>19, <1>20, <1>21, <1>22, <1>23, <1>24, <1>25, FileAssumption
  DEF Next, Step, Call, Ops

\* a read never passes the end it began before,
LEMMA ReadsWithinStep == Typed /\ ReadsWithin /\ [Next]_vars => ReadsWithin'
<1> SUFFICES ASSUME Typed, ReadsWithin, [Next]_vars PROVE ReadsWithin'
  OBVIOUS
<1>1. CASE ReadFatFails \/ WriteFatFails \/ WriteNoCluster \/ FreeFails \/ Sync \/ SyncFails
  BY <1>1
  DEF Typed, TypeOK, HandleOK, CallOK, Control, ReadsWithin, ReadFatFails, ReadFollowsChain,
    AtClusterStart, CardRefuses, Readable, Fails, Return, NoAccess, disk, handle, WriteFatFails,
    WriteNoCluster, NeedsCluster, NextCluster, FreeFails, Sync, WriteEntry, locals, history,
    SyncFails
<1>2. CASE SeekNext
  BY <1>2
  DEF Typed, TypeOK, HandleOK, CallOK, Control, ReadsWithin, SeekNext, Readable, seekVars, disk,
    fixed
<1>3. CASE SeekFails
  BY <1>3
  DEF Typed, TypeOK, HandleOK, CallOK, Control, ReadsWithin, SeekFails, CardRefuses, Readable,
    Fails, Return, NoAccess, disk, handle
<1>4. CASE ReadNext
  <2>1. /\ curPosition_' = curPosition_ + Amount /\ todo' = todo - Amount
        /\ fileSize_' = fileSize_ /\ pc = "read" /\ todo > 0
    BY <1>4 DEF ReadNext, Advance
  <2>2. Amount \in 1 .. todo /\ todo \in Nat /\ curPosition_ \in Nat /\ fileSize_ \in Nat
    BY <2>1, TurnStaysInCluster DEF Typed, TypeOK, HandleOK, CallOK
  <2> QED
    BY <2>1, <2>2 DEF ReadsWithin
<1>5. CASE ReadBlockFails
  BY <1>5
  DEF Typed, TypeOK, HandleOK, CallOK, Control, ReadsWithin, ReadBlockFails, CanFollow,
    ReadFollowsChain, AtClusterStart, Readable, CardRefuses, IsBlock, ReadCluster, Fails,
    Return, NoAccess, disk
<1>6. CASE ReadDone
  BY <1>6
  DEF Typed, TypeOK, HandleOK, CallOK, Control, ReadsWithin, ReadDone, GoesBack, SeekTo, disk,
    history
<1>7. CASE WriteNext
  BY <1>7
  DEF Typed, TypeOK, HandleOK, CallOK, Control, ReadsWithin, WriteNext, WriteCluster,
    NeedsCluster, AtClusterStart, Readable, NextCluster, AddCluster, IsBlock, Accessed, Advance,
    Amount, Least, fixed, transferVars
<1>8. CASE WriteBlockFails
  BY <1>8
  DEF Typed, TypeOK, HandleOK, CallOK, Control, ReadsWithin, WriteBlockFails, WriteCluster,
    NeedsCluster, AtClusterStart, Readable, NextCluster, AddCluster, CardRefuses, IsBlock,
    Fails, Return, NoAccess
<1>9. CASE WriteDone
  BY <1>9
  DEF Typed, TypeOK, HandleOK, CallOK, Control, ReadsWithin, WriteDone, disk, locals, history
<1>10. CASE Free
  BY <1>10
  DEF Typed, TypeOK, HandleOK, CallOK, Control, ReadsWithin, Free, KeepTo, fixed, locals
<1>11. CASE Reseek
  BY <1>11
  DEF Typed, TypeOK, HandleOK, CallOK, Control, ReadsWithin, Reseek, SeekTo, disk, fixed
<1>12. CASE Delete
  BY <1>12
  DEF Typed, TypeOK, HandleOK, CallOK, Control, ReadsWithin, Delete, Deleted, Closed, Return,
    NoAccess
<1>13. CASE DeleteFails
  BY <1>13
  DEF Typed, TypeOK, HandleOK, CallOK, Control, ReadsWithin, DeleteFails, CardRefuses, handle,
    Deleted, Closed, Return, NoAccess
<1>14. CASE Done
  BY <1>14
  DEF Typed, TypeOK, HandleOK, CallOK, Control, ReadsWithin, Done, Closed, handle, Return,
    NoAccess, disk
<1>15. CASE GiveUp
  BY <1>15
  DEF Typed, TypeOK, HandleOK, CallOK, Control, ReadsWithin, GiveUp, Closed, locals, history
<1>16. ASSUME NEW m \in Modes, Open(m) \/ Create(m) \/ OpenTruncated(m)
      PROVE  ReadsWithin'
  BY <1>16
  DEF Typed, TypeOK, HandleOK, CallOK, Control, ReadsWithin, Open, CanOpen, Deleted, Opened,
    disk, locals, Create, OpenTruncated
<1>17. ASSUME NEW n \in Sizes, CreateContiguous(n)
      PROVE  ReadsWithin'
  BY <1>17
  DEF Typed, TypeOK, HandleOK, CallOK, Control, ReadsWithin, CreateContiguous, CanOpen, Deleted,
    locals
<1>18. ASSUME NEW n \in Sizes, CreateContiguousFails(n)
      PROVE  ReadsWithin'
  BY <1>18
  DEF Typed, TypeOK, HandleOK, CallOK, Control, ReadsWithin, CreateContiguousFails, CanOpen,
    Deleted, CardRefuses, Opened, locals
<1>19. ASSUME NEW n \in 0 .. MaxSize, SeekCall(n) \/ TruncateCall(n)
      PROVE  ReadsWithin'
  BY <1>19
  DEF Typed, TypeOK, HandleOK, CallOK, Control, ReadsWithin, SeekCall, CanCall, SeekTo, disk,
    fixed, TruncateCall, Least
<1>20. ASSUME NEW o \in {"read", "peek"}, NEW n \in 1 .. MaxRequest, ReadCall(o, n)
      PROVE  ReadsWithin'
  BY <1>20
  DEF Typed, TypeOK, HandleOK, CallOK, Control, ReadsWithin, ReadCall, CanCall, Least, disk,
    handle, history
<1>21. ASSUME NEW n \in 1 .. MaxRequest, WriteCall(n)
      PROVE  ReadsWithin'
  BY <1>21
  DEF Typed, TypeOK, HandleOK, CallOK, Control, ReadsWithin, WriteCall, CanCall, SeekTo, disk,
    fixed
<1>22. CASE RemoveCall
  BY <1>22
  DEF Typed, TypeOK, HandleOK, CallOK, Control, ReadsWithin, RemoveCall, CanCall, SeekTo, disk,
    fixed, locals
<1>23. ASSUME NEW o \in Ops, SyncCall(o) \/ Rejected(o)
      PROVE  ReadsWithin'
  BY <1>23
  DEF Typed, TypeOK, HandleOK, CallOK, Control, ReadsWithin, SyncCall, CanCall, disk, handle,
    locals, history, Rejected
<1>24. CASE UNCHANGED vars
  BY <1>24
  DEF Typed, TypeOK, HandleOK, CallOK, Control, ReadsWithin, vars, disk, handle, locals, history
<1> QED
  BY <1>1, <1>2, <1>3, <1>4, <1>5, <1>6, <1>7, <1>8, <1>9, <1>10, <1>11, <1>12, <1>13, <1>14,
    <1>15, <1>16, <1>17, <1>18, <1>19, <1>20, <1>21, <1>22, <1>23, <1>24, FileAssumption
  DEF Next, Step, Call, Ops

\* No cluster is lost when the chain grows,
LEMMA GrowsConserved ==
  ASSUME DiskOK, HandleOK, Conserved, NEW c, AddCluster(c), others' = others
  PROVE  Conserved'
<1>1. /\ c \in free /\ c \in Cluster /\ Len(chain') = Len(chain) + 1 /\ free' = free \ {c}
      /\ chain' \in Seq(Cluster)
      /\ \A i \in 1 .. Len(chain) : chain'[i] = chain[i]
      /\ chain'[Len(chain) + 1] = c
  BY Grows
<1>2. Len(chain) \in Nat /\ DOMAIN chain = 1 .. Len(chain) /\ DOMAIN chain' = 1 .. Len(chain) + 1
  BY <1>1 DEF DiskOK
<1>3. Clusters' = Clusters \cup {c}
  <2>1. ASSUME NEW x \in Clusters' PROVE x \in Clusters \cup {c}
    <3>1. PICK i \in 1 .. Len(chain) + 1 : x = chain'[i]
      BY <1>2, <2>1 DEF Clusters
    <3>2. i = Len(chain) + 1 \/ i \in 1 .. Len(chain)
      BY <1>2
    <3> QED
      BY <1>1, <1>2, <3>1, <3>2 DEF Clusters
  <2>2. ASSUME NEW x \in Clusters PROVE x \in Clusters'
    <3>1. PICK i \in 1 .. Len(chain) : x = chain[i]
      BY <1>2, <2>2 DEF Clusters
    <3>2. i \in 1 .. Len(chain) + 1 /\ x = chain'[i]
      BY <1>1, <1>2, <3>1
    <3> QED
      BY <1>2, <3>2 DEF Clusters
  <2>3. c \in Clusters'
    <3>1. Len(chain) + 1 \in 1 .. Len(chain) + 1
      BY <1>2
    <3> QED
      BY <1>1, <1>2, <3>1 DEF Clusters
  <2> QED
    BY <2>1, <2>2, <2>3
<1> QED
  BY <1>1, <1>3 DEF Conserved

\* or when what follows its k-th cluster is freed.
LEMMA KeptConserved ==
  ASSUME DiskOK, Apart, Conserved, NEW k \in 0 .. Len(chain), KeepTo(k), others' = others
  PROVE  Conserved'
<1>1. /\ Len(chain') = k /\ chain' \in Seq(Cluster)
      /\ \A i \in 1 .. k : chain'[i] = chain[i]
      /\ free' = free \cup {chain[i] : i \in k + 1 .. Len(chain)}
  BY Kept DEF KeepTo
<1>2. /\ Len(chain) \in Nat /\ DOMAIN chain = 1 .. Len(chain) /\ DOMAIN chain' = 1 .. k
      /\ \A i \in 1 .. Len(chain) : chain[i] \in Cluster /\ chain[i] \notin others
      /\ \A i, j \in 1 .. Len(chain) : chain[i] = chain[j] => i = j
  BY <1>1 DEF DiskOK, Apart
<1>3. ASSUME NEW x \in Clusters' PROVE \E i \in 1 .. k : x = chain[i]
  BY <1>1, <1>2, <1>3 DEF Clusters
<1>4. ASSUME NEW i \in 1 .. k PROVE chain[i] \in Clusters'
  BY <1>1, <1>2 DEF Clusters
<1>5. ASSUME NEW x \in free' PROVE x \in Cluster \ (others \cup Clusters')
  <2>1. CASE x \in free
    <3>1. x \in Cluster /\ x \notin others /\ \A i \in 1 .. Len(chain) : x # chain[i]
      BY <1>2, <2>1 DEF Conserved, Clusters
    <3> QED
      BY <1>2, <1>3, <3>1
  <2>2. CASE x \notin free
    <3>1. PICK j \in k + 1 .. Len(chain) : x = chain[j]
      BY <1>1, <1>5, <2>2
    <3>2. j \in 1 .. Len(chain) /\ \A i \in 1 .. k : i \in 1 .. Len(chain) /\ i # j
      OBVIOUS
    <3>3. x \in Cluster /\ x \notin others /\ \A i \in 1 .. k : x # chain[i]
      BY <1>2, <3>1, <3>2
    <3> QED
      BY <1>3, <3>3
  <2> QED
    BY <2>1, <2>2
<1>6. ASSUME NEW x \in Cluster \ (others \cup Clusters') PROVE x \in free'
  <2>1. CASE x \in Clusters
    <3>1. PICK j \in 1 .. Len(chain) : x = chain[j]
      BY <1>2, <2>1 DEF Clusters
    <3>2. j \notin 1 .. k
      BY <1>4, <1>6, <3>1
    <3>3. j \in k + 1 .. Len(chain)
      BY <3>2
    <3> QED
      BY <1>1, <3>1, <3>3
  <2>2. CASE x \notin Clusters
    BY <1>1, <1>6, <2>2 DEF Conserved
  <2> QED
    BY <2>1, <2>2
<1> QED
  BY <1>5, <1>6 DEF Conserved

\* Between writes the size alone says how long the chain is.
LEMMA Fits ==
  ASSUME IInv, Sound, ~failed, isOpen
  PROVE  /\ curCluster_ # EOC
         /\ pc # "write" => curPosition_ <= fileSize_ /\ (Len(chain) - 1) * ClusterSize < fileSize_
         /\ \/ (Len(chain) - 1) * ClusterSize < fileSize_
            \/ (Len(chain) - 1) * ClusterSize < curPosition_
<1>1. (Len(chain) - 1) * ClusterSize \in Int
  BY Known, SizeIsPositive
<1> DEFINE low == (Len(chain) - 1) * ClusterSize
<1>2. /\ curCluster_ # EOC /\ (pc # "write" => curPosition_ <= fileSize_)
      /\ low < fileSize_ \/ low < curPosition_
  BY Known DEF Exact, Fitting
<1> HIDE DEF low
<1>3. low \in Int /\ (pc # "write" => curPosition_ <= fileSize_ /\ low < fileSize_)
  BY <1>1, <1>2, Known DEF low
<1> QED
  BY <1>2, <1>3 DEF low

\* A file of no bytes has no clusters.
LEMMA NoBytesNoClusters ==
  ASSUME IInv, Sound, ~failed, isOpen, pc # "write", fileSize_ = 0
  PROVE  chain = << >>
<1>1. (Len(chain) - 1) * ClusterSize < 0
  BY Fits
<1>2. Len(chain) = 0
  BY <1>1, Known, SizeIsPositive
<1> QED
  BY <1>2, Known DEF DiskOK

\* no cluster is lost without a failed call,
LEMMA ConservedStep == IInv /\ Sound /\ Sound' /\ ~failed /\ ~failed' /\ [Next]_vars => Conserved'
<1> SUFFICES ASSUME IInv, Sound, Sound', ~failed, ~failed', [Next]_vars PROVE Conserved'
  OBVIOUS
<1>1. CASE SeekFails \/ ReadFatFails \/ ReadBlockFails \/ WriteFatFails \/ WriteNoCluster \/
  WriteBlockFails \/ FreeFails \/ SyncFails \/ DeleteFails
  BY <1>1 DEF SeekFails, ReadFatFails, ReadBlockFails, WriteFatFails, WriteNoCluster, WriteBlockFails,
    FreeFails, SyncFails, DeleteFails, Fails, Return
<1>2. CASE SeekNext \/ ReadNext \/ ReadDone \/ WriteDone \/ Reseek \/ Sync
  BY <1>2, Known
  DEF Exact, Conserved, Clusters, SeekNext, Readable, seekVars, disk, fixed, ReadNext,
    CanFollow, ReadFollowsChain, AtClusterStart, IsBlock, ReadCluster, Accessed, Advance,
    Amount, Least, transferVars, ReadDone, GoesBack, SeekTo, history, WriteDone, locals, Reseek,
    Sync, WriteEntry
<1>3. CASE WriteNext
  <2>1. PICK c : WriteCluster(c) /\ others' = others
    BY <1>3 DEF WriteNext
  <2>2. CASE NeedsCluster
    BY <2>1, <2>2, Known, GrowsConserved DEF WriteCluster, Exact
  <2>3. CASE ~NeedsCluster
    BY <2>1, <2>3, Known DEF WriteCluster, Exact, Conserved, Clusters
  <2> QED
    BY <2>2, <2>3
<1>4. CASE Free
  <2>1. \E k \in 0 .. Len(chain) : KeepTo(k)
    BY <1>4, FreeHits
  <2>2. others' = others
    BY <1>4 DEF Free
  <2> QED
    BY <2>1, <2>2, Known, KeptConserved DEF Exact
<1>5. CASE Delete
  <2>1. op = "remove" /\ UNCHANGED <<free, others>> /\ chain' = << >> /\ isOpen /\ pc = "delete"
    BY <1>5, Known DEF Delete, Return, Control
  <2>2. chain = << >>
    BY <2>1, Known, NoBytesNoClusters DEF Targets
  <2> QED
    BY <2>1, <2>2, Known DEF Exact, Conserved, Clusters
<1>6. CASE Done
  BY <1>6, Known
  DEF Exact, Conserved, Clusters, Done, Closed, handle, Return, NoAccess, disk
<1>7. CASE GiveUp
  BY <1>7 DEF GiveUp, IInv, ClosedWell, Sound
<1>8. ASSUME NEW m \in Modes, Open(m) \/ Create(m) \/ OpenTruncated(m)
      PROVE  Conserved'
  BY <1>8, Known
  DEF Exact, Conserved, Clusters, Open, CanOpen, Deleted, Opened, disk, locals, Create,
    OpenTruncated
<1>9. ASSUME NEW n \in Sizes, CreateContiguous(n)
      PROVE  Conserved'
  <2>1. free' = free \ Clusters' /\ others' = others
    BY <1>9, Known, RunApart DEF CreateContiguous
  <2>2. free = Cluster \ others
    BY <1>9, Known DEF CreateContiguous, CanOpen, Gone, Exact, Conserved, Clusters
  <2> QED
    BY <2>1, <2>2 DEF Conserved
<1>10. ASSUME NEW n \in Sizes, CreateContiguousFails(n)
      PROVE  Conserved'
  BY <1>10, Known DEF CreateContiguousFails, CardRefuses, Sound, Exact, Conserved, Clusters
<1>11. ASSUME NEW n \in 0 .. MaxSize, SeekCall(n) \/ TruncateCall(n)
      PROVE  Conserved'
  BY <1>11, Known
  DEF Exact, Conserved, Clusters, SeekCall, CanCall, SeekTo, disk, fixed, TruncateCall, Least
<1>12. ASSUME NEW o \in {"read", "peek"}, NEW n \in 1 .. MaxRequest, ReadCall(o, n)
      PROVE  Conserved'
  BY <1>12, Known
  DEF Exact, Conserved, Clusters, ReadCall, CanCall, Least, disk, handle, history
<1>13. ASSUME NEW n \in 1 .. MaxRequest, WriteCall(n)
      PROVE  Conserved'
  BY <1>13, Known
  DEF Exact, Conserved, Clusters, WriteCall, CanCall, SeekTo, disk, fixed
<1>14. CASE RemoveCall
  BY <1>14, Known
  DEF Exact, Conserved, Clusters, RemoveCall, CanCall, SeekTo, disk, fixed, locals
<1>15. ASSUME NEW o \in Ops, SyncCall(o) \/ Rejected(o)
      PROVE  Conserved'
  BY <1>15, Known
  DEF Exact, Conserved, Clusters, SyncCall, CanCall, disk, handle, locals, history, Rejected
<1>16. CASE UNCHANGED vars
  BY <1>16, Known
  DEF Exact, Conserved, Clusters, vars, disk, handle, locals, history
<1> QED
  BY <1>1, <1>2, <1>3, <1>4, <1>5, <1>6, <1>7, <1>8, <1>9, <1>10, <1>11, <1>12, <1>13, <1>14,
    <1>15, <1>16, FileAssumption
  DEF Next, Step, Call, Ops

\* and the chain never gets too long without one.
LEMMA FittingStep == IInv /\ Sound /\ Sound' /\ ~failed /\ ~failed' /\ [Next]_vars => Fitting'
<1> SUFFICES ASSUME IInv, Sound, Sound', ~failed, ~failed', [Next]_vars PROVE Fitting'
  OBVIOUS
<1>1. CASE SeekFails \/ ReadFatFails \/ ReadBlockFails \/ WriteFatFails \/ WriteNoCluster \/
  WriteBlockFails \/ FreeFails \/ SyncFails \/ DeleteFails
  BY <1>1 DEF SeekFails, ReadFatFails, ReadBlockFails, WriteFatFails, WriteNoCluster, WriteBlockFails,
    FreeFails, SyncFails, DeleteFails, Fails, Return
<1>2. CASE SeekNext
  <2>1. /\ pc = "seek" /\ isOpen /\ isOpen' /\ chain' = chain /\ fileSize_' = fileSize_
        /\ target <= fileSize_
    BY <1>2, Known DEF SeekNext, seekVars, disk, fixed, Control, Targets
  <2>2. /\ curCluster_ # EOC /\ curPosition_ <= fileSize_
        /\ (Len(chain) - 1) * ClusterSize < fileSize_
    BY <2>1, Fits
  <2>3. curPosition_' <= fileSize_
    BY <1>2, <2>1, <2>2 DEF SeekNext
  <2>4. curCluster_' # EOC
    <3>1. CASE steps > 0
      <4> DEFINE i == Before(target) - steps
      <4>1. i \in 1 .. Len(chain) /\ curCluster_ = chain[i] /\ Before(target) \in 1 .. Len(chain)
        BY <2>1, <2>2, ClusterOnTheWay
      <4>2. i < Len(chain)
        BY <3>1, <4>1, Known
      <4> HIDE DEF i
      <4>3. curCluster_' = chain[i + 1] /\ i + 1 \in 1 .. Len(chain)
        BY <1>2, <3>1, <4>1, <4>2, Known, FollowsChain DEF SeekNext
      <4> QED
        BY <4>3, Known
    <3>2. CASE ~(steps > 0)
      BY <1>2, <2>2, <3>2 DEF SeekNext
    <3> QED
      BY <3>1, <3>2
  <2> QED
    BY <2>1, <2>2, <2>3, <2>4 DEF Fitting
<1>3. CASE ReadNext
  <2>1. /\ isOpen /\ isOpen' /\ chain' = chain /\ fileSize_' = fileSize_ /\ pc = "read" /\ pc' = "read"
        /\ curPosition_' = curPosition_ + Amount /\ curCluster_' = ReadCluster /\ todo > 0
    BY <1>3, Known DEF ReadNext, Advance, disk, fixed, Control
  <2>2. curPosition_ <= fileSize_ /\ (Len(chain) - 1) * ClusterSize < fileSize_
    BY <2>1, Fits
  <2>3. curCluster_' # EOC
    BY <1>3, <2>1, Known, ReadHits DEF InChain, ReadNext
  <2>4. curPosition_' <= fileSize_
    <3>1. curPosition_ + todo <= fileSize_
      BY <2>1, <2>2, Known DEF ReadsWithin
    <3>2. Amount \in 1 .. todo /\ todo \in Nat
      BY <2>1, Known, TurnStaysInCluster DEF CallOK
    <3> QED
      BY <2>1, <3>1, <3>2, Known
  <2> QED
    BY <2>1, <2>2, <2>3, <2>4 DEF Fitting
<1>4. CASE ReadDone
  <2>1. /\ isOpen /\ isOpen' /\ chain' = chain /\ fileSize_' = fileSize_ /\ pc # "seek"
        /\ pc # "write"
    BY <1>4, Known DEF ReadDone, CanCall, disk, fixed, Control
  <2>2. /\ curCluster_ # EOC /\ curPosition_ <= fileSize_
        /\ (Len(chain) - 1) * ClusterSize < fileSize_
    BY <2>1, Fits
  <2>3. ASSUME NEW pos \in Nat, pos <= fileSize_, NEW next, next # "seek", SeekTo(pos, next)
        PROVE  curCluster_' # EOC /\ curPosition_' \in {0, curPosition_}
    BY <2>1, <2>2, <2>3, SeekStarts
  <2>4. CASE GoesBack
    <3>1. curPosition_ - 1 \in Nat /\ curPosition_ - 1 <= fileSize_ /\ SeekTo(curPosition_ - 1, "done")
      BY <1>4, <2>4, Known DEF ReadDone, Control, Targets, CanCall, HandleOK, CallOK, GoesBack, NoAccess
    <3>2. curCluster_' # EOC /\ curPosition_' \in {0, curPosition_}
      BY <2>3, <3>1
    <3> QED
      BY <2>1, <2>2, <3>2, Known DEF Fitting
  <2>5. CASE ~(GoesBack)
    BY <1>4, <2>1, <2>2, <2>5, Known DEF ReadDone, Fitting, locals
  <2> QED
    BY <2>4, <2>5
<1>5. CASE WriteNext
  <2>1. PICK c : WriteCluster(c) /\ IsBlock(c) /\ curCluster_' = c
    BY <1>5 DEF WriteNext
  <2>2. c # EOC
    BY <1>5, <2>1, WritesAvoidEnd DEF WriteNext, IsBlock
  <2>3. /\ isOpen /\ isOpen' /\ fileSize_' = fileSize_ /\ pc = "write" /\ pc' = "write"
        /\ curPosition_' = curPosition_ + Amount
    BY <1>5, Known DEF WriteNext, Advance, fixed, Control
  <2>4. curPosition_ < curPosition_' /\ curPosition_' \in Nat
    BY <1>5, <2>3, Known, TurnStaysInCluster DEF WriteNext
  <2>5. \/ chain' = chain
        \/ Len(chain') = Len(chain) + 1 /\ Len(chain) * ClusterSize = curPosition_
    BY <2>1, <2>2, <2>3, WriteHits
  <2>6. CASE chain' = chain
    <3> DEFINE low == (Len(chain) - 1) * ClusterSize
    <3>1. low \in Int /\ (low < fileSize_ \/ low < curPosition_)
      BY <2>3, Fits, Known, SizeIsPositive
    <3> HIDE DEF low
    <3>2. low < fileSize_ \/ low < curPosition_'
      BY <2>4, <3>1, Known
    <3> QED
      BY <2>1, <2>2, <2>3, <2>6, <3>2 DEF low, Fitting
  <2>7. CASE Len(chain') = Len(chain) + 1 /\ Len(chain) * ClusterSize = curPosition_
    <3>1. (Len(chain') - 1) * ClusterSize < curPosition_'
      BY <2>4, <2>7, Known
    <3> QED
      BY <2>1, <2>2, <2>3, <3>1 DEF Fitting
  <2> QED
    BY <2>5, <2>6, <2>7
<1>6. CASE WriteDone
  <2>1. /\ isOpen /\ isOpen' /\ chain' = chain /\ curPosition_' = curPosition_
        /\ curCluster_' = curCluster_
        /\ fileSize_' = IF curPosition_ > fileSize_ THEN curPosition_ ELSE fileSize_
    BY <1>6, Known DEF WriteDone, disk, Control
  <2> DEFINE low == (Len(chain) - 1) * ClusterSize
  <2>2. low \in Int /\ (low < fileSize_ \/ low < curPosition_) /\ curCluster_ # EOC
    BY <2>1, Fits, Known, SizeIsPositive
  <2> HIDE DEF low
  <2>3. curPosition_ <= fileSize_' /\ low < fileSize_'
    BY <2>1, <2>2, Known
  <2> QED
    BY <2>1, <2>2, <2>3 DEF low, Fitting
<1>7. CASE Free
  <2>1. PICK k \in 0 .. Len(chain) :
           /\ Len(chain') = k /\ curPosition_ = target /\ fileSize_' = target
           /\ IF target = 0 THEN k = 0 ELSE (k - 1) * ClusterSize < target
    BY <1>7, FreeHits
  <2>2. /\ isOpen /\ isOpen' /\ curPosition_' = target /\ curCluster_' = curCluster_
        /\ curCluster_ # EOC
    BY <1>7, <2>1, Known, Fits DEF Free, fixed, Control
  <2>3. (Len(chain') - 1) * ClusterSize < target
    BY <2>1, Known, SizeIsPositive
  <2> QED
    BY <2>1, <2>2, <2>3, Known DEF Fitting
<1>8. CASE Reseek
  <2>1. /\ isOpen /\ isOpen' /\ chain' = chain /\ fileSize_' = fileSize_ /\ pc # "seek"
        /\ pc # "write"
    BY <1>8, Known DEF Reseek, CanCall, disk, fixed, Control
  <2>2. /\ curCluster_ # EOC /\ curPosition_ <= fileSize_
        /\ (Len(chain) - 1) * ClusterSize < fileSize_
    BY <2>1, Fits
  <2>3. ASSUME NEW pos \in Nat, pos <= fileSize_, NEW next, next # "seek", SeekTo(pos, next)
        PROVE  curCluster_' # EOC /\ curPosition_' \in {0, curPosition_}
    BY <2>1, <2>2, <2>3, SeekStarts
  <2>4. CASE TRUE
    <3>1. newPos \in Nat /\ newPos <= fileSize_ /\ SeekTo(newPos, IF op = "remove" THEN "delete" ELSE "done")
      BY <1>8, <2>4, Known DEF Reseek, Control, Targets, CanCall, HandleOK, CallOK, GoesBack, NoAccess
    <3>2. curCluster_' # EOC /\ curPosition_' \in {0, curPosition_}
      BY <2>3, <3>1
    <3> QED
      BY <2>1, <2>2, <3>2, Known DEF Fitting
  <2> QED
    BY <2>4
<1>9. CASE Delete
  BY <1>9, Known DEF Delete, Closed, Return, Fitting, Deleted
<1>10. CASE Sync
  <2>1. /\ isOpen /\ isOpen' /\ chain' = chain /\ curPosition_' = curPosition_
        /\ curCluster_' = curCluster_ /\ fileSize_' = fileSize_ /\ pc # "write"
    BY <1>10, Known DEF Sync, Control
  <2>2. /\ curCluster_ # EOC /\ curPosition_ <= fileSize_
        /\ (Len(chain) - 1) * ClusterSize < fileSize_
    BY <2>1, Fits
  <2> QED
    BY <2>1, <2>2 DEF Fitting
<1>11. CASE Done
  <2>1. /\ isOpen /\ chain' = chain /\ entry' = entry /\ pc = "done" /\ pc' = "idle"
    BY <1>11, Known DEF Done, disk, Control, Return
  <2>2. /\ curCluster_ # EOC /\ curPosition_ <= fileSize_
        /\ (Len(chain) - 1) * ClusterSize < fileSize_
    BY <2>1, Fits
  <2>3. CASE op = "close"
    <3>1. entry.size = fileSize_
      BY <2>1, <2>3 DEF IInv, Agrees
    <3> QED
      BY <1>11, <2>1, <2>2, <2>3, <3>1 DEF Done, Closed, Fitting
  <2>4. CASE op # "close"
    BY <1>11, <2>1, <2>2, <2>4 DEF Done, handle, Fitting
  <2> QED
    BY <2>3, <2>4
<1>12. CASE GiveUp
  BY <1>12 DEF GiveUp, IInv, ClosedWell, Sound
<1>13. ASSUME NEW m \in Modes, Open(m) \/ OpenTruncated(m)
      PROVE  Fitting'
  <2>1. /\ isOpen' /\ chain' = chain /\ fileSize_' = entry.size /\ curPosition_' = 0
        /\ curCluster_' = NoCluster /\ ~isOpen /\ entry # Deleted
    BY <1>13 DEF Open, OpenTruncated, CanOpen, Opened, disk
  <2>2. (Len(chain) - 1) * ClusterSize < entry.size
    BY <2>1, Known DEF Exact, Fitting
  <2>3. 0 <= entry.size
    BY <2>1, Known DEF DiskOK
  <2> QED
    BY <2>1, <2>2, <2>3, Known DEF Fitting
<1>14. ASSUME NEW m \in Modes, Create(m)
      PROVE  Fitting'
  BY <1>14, Known, SizeIsPositive
  DEF Fitting, Gone, Create, CanOpen, Deleted, Opened, locals
<1>15. ASSUME NEW n \in Sizes, CreateContiguous(n)
      PROVE  Fitting'
  <2>1. Len(chain') = Before(n) /\ isOpen' /\ fileSize_' = n /\ curPosition_' = 0 /\ curCluster_' = NoCluster
    BY <1>15, Known, RunTypes DEF CreateContiguous, Before
  <2>2. n \in Nat /\ n > 0
    BY SizesAreNumbers
  <2>3. (Before(n) - 1) * ClusterSize < n
    BY <2>2, PositionOfCluster
  <2> QED
    BY <2>1, <2>2, <2>3, Known DEF Fitting
<1>16. ASSUME NEW n \in Sizes, CreateContiguousFails(n)
      PROVE  Fitting'
  BY <1>16, Known, SizeIsPositive
  DEF Fitting, Gone, CreateContiguousFails, CanOpen, Deleted, CardRefuses, Opened, locals
<1>17. ASSUME NEW n \in 0 .. MaxSize, SeekCall(n)
      PROVE  Fitting'
  <2>1. /\ isOpen /\ isOpen' /\ chain' = chain /\ fileSize_' = fileSize_ /\ pc # "seek"
        /\ pc # "write"
    BY <1>17, Known DEF SeekCall, CanCall, disk, fixed, Control
  <2>2. /\ curCluster_ # EOC /\ curPosition_ <= fileSize_
        /\ (Len(chain) - 1) * ClusterSize < fileSize_
    BY <2>1, Fits
  <2>3. ASSUME NEW pos \in Nat, pos <= fileSize_, NEW next, next # "seek", SeekTo(pos, next)
        PROVE  curCluster_' # EOC /\ curPosition_' \in {0, curPosition_}
    BY <2>1, <2>2, <2>3, SeekStarts
  <2>4. CASE TRUE
    <3>1. n \in Nat /\ n <= fileSize_ /\ SeekTo(n, "done")
      BY <1>17, <2>4, Known DEF SeekCall, Control, Targets, CanCall, HandleOK, CallOK, GoesBack, NoAccess
    <3>2. curCluster_' # EOC /\ curPosition_' \in {0, curPosition_}
      BY <2>3, <3>1
    <3> QED
      BY <2>1, <2>2, <3>2, Known DEF Fitting
  <2> QED
    BY <2>4
<1>18. ASSUME NEW n \in 0 .. MaxSize, TruncateCall(n)
      PROVE  Fitting'
  <2>1. /\ isOpen /\ isOpen' /\ chain' = chain /\ fileSize_' = fileSize_ /\ pc # "seek"
        /\ pc # "write"
    BY <1>18, Known DEF TruncateCall, CanCall, disk, fixed, Control
  <2>2. /\ curCluster_ # EOC /\ curPosition_ <= fileSize_
        /\ (Len(chain) - 1) * ClusterSize < fileSize_
    BY <2>1, Fits
  <2>3. ASSUME NEW pos \in Nat, pos <= fileSize_, NEW next, next # "seek", SeekTo(pos, next)
        PROVE  curCluster_' # EOC /\ curPosition_' \in {0, curPosition_}
    BY <2>1, <2>2, <2>3, SeekStarts
  <2>4. CASE fileSize_ # 0
    <3>1. n \in Nat /\ n <= fileSize_ /\ SeekTo(n, "free")
      BY <1>18, <2>4, Known DEF TruncateCall, Control, Targets, CanCall, HandleOK, CallOK, GoesBack, NoAccess
    <3>2. curCluster_' # EOC /\ curPosition_' \in {0, curPosition_}
      BY <2>3, <3>1
    <3> QED
      BY <2>1, <2>2, <3>2, Known DEF Fitting
  <2>5. CASE ~(fileSize_ # 0)
    BY <1>18, <2>1, <2>2, <2>5, Known DEF TruncateCall, Fitting, locals
  <2> QED
    BY <2>4, <2>5
<1>19. ASSUME NEW o \in {"read", "peek"}, NEW n \in 1 .. MaxRequest, ReadCall(o, n)
      PROVE  Fitting'
  BY <1>19, Known, Fits
  DEF Fitting, ReadCall, CanCall, Least, disk, handle, history
<1>20. ASSUME NEW n \in 1 .. MaxRequest, WriteCall(n)
      PROVE  Fitting'
  <2>1. /\ isOpen /\ isOpen' /\ chain' = chain /\ fileSize_' = fileSize_ /\ pc # "seek"
        /\ pc # "write"
    BY <1>20, Known DEF WriteCall, CanCall, disk, fixed, Control
  <2>2. /\ curCluster_ # EOC /\ curPosition_ <= fileSize_
        /\ (Len(chain) - 1) * ClusterSize < fileSize_
    BY <2>1, Fits
  <2>3. ASSUME NEW pos \in Nat, pos <= fileSize_, NEW next, next # "seek", SeekTo(pos, next)
        PROVE  curCluster_' # EOC /\ curPosition_' \in {0, curPosition_}
    BY <2>1, <2>2, <2>3, SeekStarts
  <2>4. CASE "append" \in flags /\ curPosition_ # fileSize_
    <3>1. fileSize_ \in Nat /\ fileSize_ <= fileSize_ /\ SeekTo(fileSize_, "write")
      BY <1>20, <2>4, Known DEF WriteCall, Control, Targets, CanCall, HandleOK, CallOK, GoesBack, NoAccess
    <3>2. curCluster_' # EOC /\ curPosition_' \in {0, curPosition_}
      BY <2>3, <3>1
    <3> QED
      BY <2>1, <2>2, <3>2, Known DEF Fitting
  <2>5. CASE ~("append" \in flags /\ curPosition_ # fileSize_)
    BY <1>20, <2>1, <2>2, <2>5, Known DEF WriteCall, Fitting, locals
  <2> QED
    BY <2>4, <2>5
<1>21. CASE RemoveCall
  <2>1. /\ isOpen /\ isOpen' /\ chain' = chain /\ fileSize_' = fileSize_ /\ pc # "seek"
        /\ pc # "write"
    BY <1>21, Known DEF RemoveCall, CanCall, disk, fixed, Control
  <2>2. /\ curCluster_ # EOC /\ curPosition_ <= fileSize_
        /\ (Len(chain) - 1) * ClusterSize < fileSize_
    BY <2>1, Fits
  <2>3. ASSUME NEW pos \in Nat, pos <= fileSize_, NEW next, next # "seek", SeekTo(pos, next)
        PROVE  curCluster_' # EOC /\ curPosition_' \in {0, curPosition_}
    BY <2>1, <2>2, <2>3, SeekStarts
  <2>4. CASE fileSize_ # 0
    <3>1. 0 \in Nat /\ 0 <= fileSize_ /\ SeekTo(0, "free")
      BY <1>21, <2>4, Known DEF RemoveCall, Control, Targets, CanCall, HandleOK, CallOK, GoesBack, NoAccess
    <3>2. curCluster_' # EOC /\ curPosition_' \in {0, curPosition_}
      BY <2>3, <3>1
    <3> QED
      BY <2>1, <2>2, <3>2, Known DEF Fitting
  <2>5. CASE ~(fileSize_ # 0)
    BY <1>21, <2>1, <2>2, <2>5, Known DEF RemoveCall, Fitting, locals
  <2> QED
    BY <2>4, <2>5
<1>22. ASSUME NEW o \in Ops, SyncCall(o) \/ Rejected(o)
      PROVE  Fitting'
  BY <1>22, Known
  DEF Fitting, Exact, SyncCall, CanCall, disk, handle, locals, history, Rejected
<1>23. CASE UNCHANGED vars
  BY <1>23, Known
  DEF Fitting, Exact, vars, disk, handle, locals, history
<1> QED
  BY <1>1, <1>2, <1>3, <1>4, <1>5, <1>6, <1>7, <1>8, <1>9, <1>10, <1>11, <1>12, <1>13, <1>14,
    <1>15, <1>16, <1>17, <1>18, <1>19, <1>20, <1>21, <1>22, <1>23, FileAssumption
  DEF Next, Step, Call, Ops

-----------------------------------------------------------------------------
(* The results. *)

\* Together: the invariant about positions is kept by every step.
LEMMA PositionStep == IInv /\ [Next]_vars => (Sound => Position)'
<1> SUFFICES ASSUME IInv, [Next]_vars, Sound' PROVE Position'
  OBVIOUS
<1>1. Sound /\ (~failed' => ~failed)
  <2>1. (refused => refused') /\ (failed => failed')
    BY FlagsStay DEF IInv
  <2>2. refused \in BOOLEAN /\ failed \in BOOLEAN
    BY DEF IInv, Typed, TypeOK, HistoryOK
  <2> QED
    BY <2>1, <2>2 DEF Sound
<1>2. Covered'
  BY <1>1, CoveredStep
<1>3. AtCluster'
  BY <1>1, AtClusterStep
<1>4. ReadsWithin'
  BY <1>1, ReadsWithinStep DEF IInv, Position
<1>5. ~failed' => Exact'
  BY <1>1, ConservedStep, FittingStep DEF Exact
<1> QED
  BY <1>2, <1>3, <1>4, <1>5 DEF Position

\* It holds in the beginning,
LEMMA InvariantInit == Init => IInv
<1> SUFFICES ASSUME Init PROVE IInv
  OBVIOUS
<1>1. Typed
  BY TypesInit
<1>2. Gone /\ Agrees /\ Targets /\ Appends /\ RefusalFails /\ ClosedWell /\ Apart
  BY DEF Init, Gone, Agrees, Targets, Appends, RefusalFails, ClosedWell, Apart
<1>3. Covered /\ AtCluster /\ ReadsWithin
  BY DEF Init, Covered, AtCluster, ReadsWithin
<1>4. Exact
  BY DEF Init, Exact, Conserved, Fitting, Clusters
<1> QED
  BY <1>1, <1>2, <1>3, <1>4 DEF IInv, Position

\* and is kept with all the rest.
LEMMA InvariantStep == IInv /\ [Next]_vars => IInv'
<1> SUFFICES ASSUME IInv, [Next]_vars PROVE IInv'
  OBVIOUS
<1>1. Typed' /\ Gone' /\ Agrees' /\ Targets' /\ Appends' /\ Apart'
  BY TypesStep, GoneStep, AgreesStep, TargetsStep, AppendsStep, ApartStep DEF IInv
<1>2. RefusalFails' /\ ClosedWell'
  BY FailuresStep DEF IInv
<1>3. (Sound => Position)'
  BY PositionStep
<1> QED
  BY <1>1, <1>2, <1>3 DEF IInv

\* The invariant holds of every reachable state: of the chain, the entry, the
\* position and the current cluster together, with any number of refused
\* accesses and failed calls.
THEOREM Invariant == Spec => []IInv
<1>1. Init => IInv
  BY InvariantInit
<1>2. IInv /\ [Next]_vars => IInv'
  BY InvariantStep
<1> QED
  BY <1>1, <1>2, PTL DEF Spec

\* An open handle that is not dirty says what the directory entry says, between
\* any two calls, however the earlier ones failed: the flag is set by every
\* change of size or first cluster and cleared only with the entry written.
THEOREM HandlesAgree == Spec => []CleanHandleMatchesEntry
<1>1. IInv => CleanHandleMatchesEntry
  BY DEF IInv, Agrees, CleanHandleMatchesEntry
<1> QED
  BY <1>1, Invariant, PTL

\* With O_APPEND no write goes to a byte the file has, refused accesses and
\* seeks by the application or not: write() seeks to the end first, and gives
\* up when that seek fails.
THEOREM AppendsAtEnd == Spec => []AppendWritesAtEnd
<1>1. IInv => AppendWritesAtEnd
  BY DEF IInv, Appends, AppendWritesAtEnd
<1> QED
  BY <1>1, Invariant, PTL

\* As long as no call has failed, every cluster that is neither the file's nor
\* another's is free and the file has no cluster more than its size needs,
\* whatever was written, truncated, removed and created again.
THEOREM NoClusterLeaks == Spec => []NothingLeaks
<1>1. IInv => NothingLeaks
  <2> SUFFICES ASSUME IInv, pc = "idle", ~failed
               PROVE  /\ isOpen => /\ (Len(chain) - 1) * ClusterSize < fileSize_
                                   /\ fileSize_ <= Len(chain) * ClusterSize
                      /\ free = Cluster \ (others \cup Clusters)
    BY DEF NothingLeaks
  <2>1. Sound
    BY DEF IInv, RefusalFails, Sound, Typed, TypeOK, HistoryOK
  <2>2. isOpen => (Len(chain) - 1) * ClusterSize < fileSize_
    BY <2>1, Fits
  <2>3. isOpen => fileSize_ <= Len(chain) * ClusterSize
    BY <2>1, Known DEF Covered
  <2>4. free = Cluster \ (others \cup Clusters)
    BY <2>1, Known DEF Exact, Conserved
  <2> QED
    BY <2>2, <2>3, <2>4
<1> QED
  BY <1>1, Invariant, PTL

\* As long as no access was refused, and no call failed where the end mark is
\* the number of a block, the entry that a closed file leaves covers its bytes:
\* its cluster begins the chain and the chain is long enough for its size.  Unless
\* the end mark is such a number, failed calls do the entry no harm.
THEOREM EntryCoversFile ==
  /\ Spec => [](Sound => EntryFitsChain)
  /\ ~EOCIsABlock => (Spec => []EntryFitsChain)
<1>1. IInv => (Sound => EntryFitsChain)
  BY Known DEF Covered, HeadOfChain, EntryFitsChain
<1>2. Spec => [](Sound => EntryFitsChain)
  BY <1>1, Invariant, PTL
<1>3. ASSUME ~EOCIsABlock PROVE Spec => []EntryFitsChain
  <2>1. (Sound => EntryFitsChain) => EntryFitsChain
    BY <1>3 DEF Sound, EntryFitsChain
  <2> QED
    BY <1>2, <2>1, PTL
<1> QED
  BY <1>2, <1>3

-----------------------------------------------------------------------------
(* Where the accesses go. *)

\* An access is in the cluster of its position, also one that extends the file.
AccessInPlace == access.by # "none" => InChain(access.cluster, IndexOf(access.pos))

\* Each turn of read() and write() goes to the cluster of its position.
LEMMA AccessStep == IInv /\ Sound /\ Sound' /\ AccessInPlace /\ [Next]_vars => AccessInPlace'
<1> SUFFICES ASSUME IInv, Sound, Sound', AccessInPlace, [Next]_vars PROVE AccessInPlace'
  OBVIOUS
<1>1. CASE SeekFails \/ ReadFatFails \/ ReadBlockFails \/ WriteFatFails \/ WriteNoCluster \/
  WriteBlockFails \/ FreeFails \/ SyncFails \/ Delete \/ DeleteFails \/ Done
  <2>1. access' = NoAccess
    BY <1>1 DEF SeekFails, ReadFatFails, ReadBlockFails, WriteFatFails, WriteNoCluster, WriteBlockFails,
      FreeFails, SyncFails, Delete, DeleteFails, Done, Fails, Return
  <2> QED
    BY <2>1 DEF AccessInPlace, NoAccess
<1>2. CASE SeekNext \/ ReadDone \/ WriteDone \/ Reseek \/ Sync
  BY <1>2
  DEF AccessInPlace, InChain, IndexOf, Sound, SeekNext, Readable, seekVars, disk, fixed,
    ReadDone, GoesBack, SeekTo, history, WriteDone, locals, Reseek, Sync, WriteEntry
<1>3. CASE ReadNext
  <2>1. /\ InChain(ReadCluster, IndexOf(curPosition_)) /\ chain' = chain
        /\ access' = [by |-> op, pos |-> curPosition_, cluster |-> ReadCluster, size |-> fileSize_]
    BY <1>3, ReadHits DEF ReadNext, Accessed, disk
  <2> QED
    BY <2>1 DEF AccessInPlace, InChain, IndexOf
<1>4. CASE WriteNext
  <2>1. PICK c : /\ WriteCluster(c) /\ IsBlock(c)
                 /\ access' = [by |-> op, pos |-> curPosition_, cluster |-> c, size |-> fileSize_]
    BY <1>4 DEF WriteNext, Accessed
  <2>2. c # EOC
    BY <1>4, <2>1, WritesAvoidEnd DEF WriteNext, IsBlock
  <2>3. /\ IndexOf(curPosition_) \in 1 .. Len(chain') /\ c = chain'[IndexOf(curPosition_)]
        /\ chain' \in Seq(Cluster)
    BY <1>4, <2>1, <2>2, WriteHits DEF WriteNext
  <2>4. DOMAIN chain' = 1 .. Len(chain')
    BY <2>3
  <2> QED
    BY <2>1, <2>3, <2>4 DEF AccessInPlace, InChain, IndexOf
<1>5. CASE Free
  <2>1. access' = access /\ op \in Flushing /\ access.by \in {"none", op}
    BY <1>5, Known DEF Free, Control
  <2>2. access.by \in {"none", "read", "peek", "write"}
    BY Known DEF TypeOK, HistoryOK
  <2>3. access.by = "none"
    BY <2>1, <2>2 DEF Flushing
  <2> QED
    BY <2>1, <2>3 DEF AccessInPlace
<1>6. ASSUME NEW m \in Modes, Open(m) \/ OpenTruncated(m)
      PROVE  AccessInPlace'
  BY <1>6
  DEF AccessInPlace, InChain, IndexOf, Sound, Open, CanOpen, Deleted, Opened, disk, locals,
    OpenTruncated
<1>7. ASSUME NEW m \in Modes, Create(m)
      PROVE  AccessInPlace'
  <2>1. access = NoAccess
    BY <1>7, Known DEF Create, CanOpen, Control
  <2>2. access' = access
    BY <1>7 DEF Create, history
  <2> QED
    BY <2>1, <2>2 DEF AccessInPlace, NoAccess
<1>8. ASSUME NEW n \in Sizes, CreateContiguousFails(n)
      PROVE  AccessInPlace'
  <2>1. access = NoAccess
    BY <1>8, Known DEF CreateContiguousFails, CanOpen, Control
  <2>2. access' = access
    BY <1>8 DEF CreateContiguousFails, history
  <2> QED
    BY <2>1, <2>2 DEF AccessInPlace, NoAccess
<1>9. CASE GiveUp
  <2>1. access = NoAccess
    BY <1>9, Known DEF GiveUp, CanOpen, Control
  <2>2. access' = access
    BY <1>9 DEF GiveUp, history
  <2> QED
    BY <2>1, <2>2 DEF AccessInPlace, NoAccess
<1>10. ASSUME NEW n \in Sizes, CreateContiguous(n)
      PROVE  AccessInPlace'
  <2>1. access = NoAccess
    BY <1>10, Known DEF CreateContiguous, CanOpen, Control
  <2>2. access' = access
    BY <1>10 DEF CreateContiguous
  <2> QED
    BY <2>1, <2>2 DEF AccessInPlace, NoAccess
<1>11. ASSUME NEW n \in 0 .. MaxSize, SeekCall(n) \/ TruncateCall(n)
      PROVE  AccessInPlace'
  BY <1>11
  DEF AccessInPlace, InChain, IndexOf, Sound, SeekCall, CanCall, SeekTo, disk, fixed,
    TruncateCall, Least
<1>12. ASSUME NEW o \in {"read", "peek"}, NEW n \in 1 .. MaxRequest, ReadCall(o, n)
      PROVE  AccessInPlace'
  BY <1>12
  DEF AccessInPlace, InChain, IndexOf, Sound, ReadCall, CanCall, Least, disk, handle, history
<1>13. ASSUME NEW n \in 1 .. MaxRequest, WriteCall(n)
      PROVE  AccessInPlace'
  BY <1>13
  DEF AccessInPlace, InChain, IndexOf, Sound, WriteCall, CanCall, SeekTo, disk, fixed
<1>14. CASE RemoveCall
  BY <1>14
  DEF AccessInPlace, InChain, IndexOf, Sound, RemoveCall, CanCall, SeekTo, disk, fixed,
    locals
<1>15. ASSUME NEW o \in Ops, SyncCall(o) \/ Rejected(o)
      PROVE  AccessInPlace'
  BY <1>15
  DEF AccessInPlace, InChain, IndexOf, Sound, SyncCall, CanCall, disk, handle, locals,
    history, Rejected
<1>16. CASE UNCHANGED vars
  BY <1>16
  DEF AccessInPlace, InChain, IndexOf, vars, disk, handle, locals, history
<1> QED
  BY <1>1, <1>2, <1>3, <1>4, <1>5, <1>6, <1>7, <1>8, <1>9, <1>10, <1>11, <1>12, <1>13, <1>14,
    <1>15, <1>16, FileAssumption
  DEF Next, Step, Call, Ops

\* As long as no access was refused, and no call failed where the end mark is
\* the number of a block, every block is read or written in the cluster its
\* position belongs to, those that extend the file as well: in all sequences of
\* seeks, reads, writes, truncations and re-openings.
THEOREM AccessesInPlace == Spec => [](Sound => AccessInPlace)
<1>1. Init => (Sound => AccessInPlace)
  BY DEF Init, AccessInPlace, NoAccess
<1>2. IInv /\ (Sound => AccessInPlace) /\ [Next]_vars => (Sound => AccessInPlace)'
  <2> SUFFICES ASSUME IInv, Sound => AccessInPlace, [Next]_vars, Sound' PROVE AccessInPlace'
    OBVIOUS
  <2>1. (refused => refused') /\ (failed => failed')
    BY FlagsStay DEF IInv
  <2>2. Sound
    BY <2>1 DEF Sound
  <2> QED
    BY <2>2, AccessStep
<1> QED
  BY <1>1, <1>2, Invariant, PTL DEF Spec

\* So the accesses of a sound file hit their clusters, and unless the end mark is
\* the number of a block of the card, those after a failed call do as well.
THEOREM AccessesHit ==
  /\ Spec => [](Sound => AccessAtPosition)
  /\ ~EOCIsABlock => (Spec => []AccessAtPosition)
<1>1. (Sound => AccessInPlace) => (Sound => AccessAtPosition)
  BY DEF AccessInPlace, AccessAtPosition
<1>2. Spec => [](Sound => AccessAtPosition)
  BY <1>1, AccessesInPlace, PTL
<1>3. ASSUME ~EOCIsABlock PROVE Spec => []AccessAtPosition
  <2>1. (Sound => AccessAtPosition) => AccessAtPosition
    BY <1>3 DEF Sound, AccessAtPosition
  <2> QED
    BY <1>2, <2>1, PTL
<1> QED
  BY <1>2, <1>3

\* Under the same conditions a write never leaves the file: where it does, as in
\* SpiSdFile_outside.cfg, a call has failed before.
THEOREM WritesStay ==
  /\ Spec => [](Sound => WritesStayInFile)
  /\ ~EOCIsABlock => (Spec => [](~refused => WritesStayInFile))
<1>1. (Sound => AccessInPlace) => (Sound => WritesStayInFile)
  BY DEF AccessInPlace, InChain, WritesStayInFile, Clusters
<1>2. Spec => [](Sound => WritesStayInFile)
  BY <1>1, AccessesInPlace, PTL
<1>3. ASSUME ~EOCIsABlock PROVE Spec => [](~refused => WritesStayInFile)
  <2>1. (Sound => WritesStayInFile) => (~refused => WritesStayInFile)
    BY <1>3 DEF Sound
  <2> QED
    BY <1>2, <2>1, PTL
<1> QED
  BY <1>2, <1>3

=============================================================================
