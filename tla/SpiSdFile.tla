------------------------------ MODULE SpiSdFile ------------------------------
(***************************************************************************)
(* One file and the SpiSdFile handle an application reads, writes, seeks,   *)
(* truncates and removes it with.                                          *)
(*                                                                         *)
(* Below the handle are the promises of ChainStore and BlockStore: the file *)
(* owns a sequence of clusters, fatGet follows it, addCluster and freeChain *)
(* act on it at once, a block access works or is refused.  Bytes have no    *)
(* contents here: what matters is which block an access goes to.  One step  *)
(* is one turn of a loop, so a call may fail after each of its accesses.    *)
(***************************************************************************)
EXTENDS Integers, Sequences, FiniteSets

CONSTANTS
  BlockSize, BlocksPerCluster,  \* 512 and blocksPerCluster_
  Cluster,        \* the clusters of the volume
  NoCluster,      \* the cluster number 0
  EOC,            \* an end-of-chain entry, when it is used as a cluster number
  EOCIsABlock,    \* whether clusterStartBlock(EOC) wraps to a block of the card
  Modes,          \* the sets of flags the file is opened with
  MaxRequest,     \* bound: the most bytes of a read or write
  MaxSize,        \* bound: no write begins where it could end beyond it
  DateTime,       \* whether a date/time callback is set
  CardFails       \* whether an access may be refused

ClusterSize == BlockSize * BlocksPerCluster

ASSUME FileAssumption ==
  /\ BlockSize \in Nat \ {0} /\ BlocksPerCluster \in Nat \ {0}
  /\ NoCluster \notin Cluster /\ EOC \notin Cluster /\ NoCluster # EOC
  /\ Modes \subseteq SUBSET {"read", "write", "append", "sync"}
  /\ IsFiniteSet(Cluster)
  /\ MaxRequest \in Nat \ {0} /\ MaxSize \in Nat
  /\ {EOCIsABlock, DateTime, CardFails} \subseteq BOOLEAN

VARIABLES
  chain,          \* the clusters of the file
  free,           \* the free clusters
  others,         \* the clusters of other files, and bad ones
  damaged,        \* a chain was freed in part only: the file is given up
  entry,          \* its directory entry: [first, size], Deleted when there is none
  isOpen,         \* type_ # FAT_FILE_TYPE_CLOSED
  flags,          \* O_READ, O_WRITE, O_APPEND, O_SYNC of flags_
  dirDirty,       \* F_FILE_DIR_DIRTY of flags_
  writeError,     \* the error flag of Print
  firstCluster_, fileSize_, curCluster_, curPosition_,
  pc, op,         \* where the call in progress is, and which it is
  todo,           \* read, write: bytes left
  steps,          \* seekSet: clusters left
  target, after,  \* seekSet: its argument and where its caller goes on
  newPos,         \* truncate: its local
  access,         \* history: the last block access of the call
  refused,        \* history: an access has been refused
  failed,         \* history: a call has failed
  failure         \* history: the last call if it failed, "none" if not

disk == <<chain, free, others, damaged, entry>>
handle == <<isOpen, flags, dirDirty, firstCluster_, fileSize_, curCluster_, curPosition_>>
locals == <<todo, steps, target, after, newPos>>
history == <<access, refused, failed, failure>>
vars == <<disk, handle, writeError, pc, op, locals, history>>

Deleted == [first |-> NoCluster, size |-> -1]

NoAccess == [by |-> "none", pos |-> 0, cluster |-> NoCluster, size |-> 0]

Clusters == {chain[i] : i \in DOMAIN chain}

Least(a, b) == IF a < b THEN a ELSE b

Init ==
  /\ chain = << >> /\ damaged = FALSE
  /\ others \in SUBSET Cluster /\ free = Cluster \ others
  /\ entry = Deleted
  /\ isOpen = FALSE /\ flags = {} /\ dirDirty = FALSE /\ writeError = FALSE
  /\ firstCluster_ = NoCluster /\ fileSize_ = 0
  /\ curCluster_ = NoCluster /\ curPosition_ = 0
  /\ pc = "idle" /\ op = "none"
  /\ todo = 0 /\ steps = 0 /\ target = 0 /\ after = "done" /\ newPos = 0
  /\ access = NoAccess /\ refused = FALSE /\ failed = FALSE
  /\ failure = "none"

-----------------------------------------------------------------------------
(* What lies below. *)

\* The entry of c; fatGet refuses a number beyond the FAT, as EOC is.
FatEntry(c) ==
  IF \E i \in 1 .. Len(chain) - 1 : chain[i] = c
    THEN chain[(CHOOSE i \in 1 .. Len(chain) - 1 : chain[i] = c) + 1]
    ELSE EOC

Readable(c) == c # EOC

\* The block of position curPosition_ in cluster c is one of the card's.
IsBlock(c) == c # EOC \/ EOCIsABlock

Accessed(c) ==
  access' = [by |-> op, pos |-> curPosition_, cluster |-> c, size |-> fileSize_]

-----------------------------------------------------------------------------
(* Calls begin and end. *)

\* The locals go out of scope.
Return(ok) ==
  /\ pc' = "idle" /\ op' = "none"
  /\ todo' = 0 /\ steps' = 0 /\ target' = 0 /\ after' = "done" /\ newPos' = 0
  /\ access' = NoAccess
  /\ failure' = IF ok THEN "none" ELSE op
  /\ failed' = (failed \/ ~ok)

\* The call in progress fails; write() says so through the error flag.
Fails ==
  /\ Return(FALSE)
  /\ writeError' = (writeError \/ op = "write")

CardRefuses == CardFails /\ refused' = TRUE

CanCall(o) == pc = "idle" /\ isOpen /\ ~damaged /\ op' = o

\* seekSet: position 0 needs no cluster, elsewhere the chain is followed from
\* the cluster before the position, or from the first one to go back.
SeekTo(pos, next) ==
  IF pos = 0
    THEN /\ curCluster_' = NoCluster /\ curPosition_' = 0
         /\ pc' = next
         /\ UNCHANGED <<steps, target, after>>
    ELSE LET nCur == (curPosition_ - 1) \div ClusterSize
             nNew == (pos - 1) \div ClusterSize
             restart == nNew < nCur \/ curPosition_ = 0
         IN /\ curCluster_' = IF restart THEN firstCluster_ ELSE curCluster_
            /\ steps' = IF restart THEN nNew ELSE nNew - nCur
            /\ target' = pos /\ after' = next
            /\ pc' = "seek"
            /\ UNCHANGED curPosition_

-----------------------------------------------------------------------------
(* open, O_CREAT, O_TRUNC and createContiguous. *)

Opened(m, e) ==
  /\ isOpen' = TRUE /\ flags' = m /\ dirDirty' = FALSE /\ writeError' = FALSE
  /\ firstCluster_' = e.first /\ fileSize_' = e.size
  /\ curCluster_' = NoCluster /\ curPosition_' = 0
  /\ failure' = "none"

CanOpen == pc = "idle" /\ ~isOpen /\ ~damaged

Open(m) ==
  /\ CanOpen /\ entry # Deleted
  /\ Opened(m, entry)
  /\ UNCHANGED <<disk, pc, op, locals, access, refused, failed>>

\* open() of a name that is not there adds an empty entry.
Create(m) ==
  /\ CanOpen /\ entry = Deleted
  /\ entry' = [first |-> NoCluster, size |-> 0]
  /\ Opened(m, entry')
  /\ UNCHANGED <<chain, free, damaged, others, pc, op, locals, access, refused, failed>>

\* open() with O_TRUNC: an empty file needs no freeing.
OpenTruncated(m) ==
  /\ CanOpen /\ entry # Deleted /\ "write" \in m
  /\ Opened(m, entry)
  /\ op' = "open"
  /\ pc' = IF entry.size = 0 THEN "done" ELSE "free"
  /\ UNCHANGED <<disk, locals, access, refused, failed>>

\* The clusters come at once, or there is no such run and the file goes again.
CreateContiguous(size) ==
  /\ CanOpen /\ entry = Deleted
  /\ \E s \in [1 .. (size - 1) \div ClusterSize + 1 -> free] :
       /\ \A i, j \in DOMAIN s : s[i] = s[j] => i = j
       /\ chain' = s
       /\ free' = {c \in free : \A i \in DOMAIN s : s[i] # c}
       /\ firstCluster_' = s[1]
  /\ entry' = [first |-> NoCluster, size |-> 0]
  /\ fileSize_' = size
  /\ isOpen' = TRUE /\ flags' = {"read", "write"} /\ dirDirty' = TRUE
  /\ writeError' = FALSE /\ failure' = "none"
  /\ curCluster_' = NoCluster /\ curPosition_' = 0
  /\ op' = "create" /\ pc' = "sync"
  /\ UNCHANGED <<damaged, others, locals, access, refused, failed>>

\* No run of free clusters, or a refused access: remove() deletes the entry.
CreateContiguousFails(size) ==
  /\ CanOpen /\ entry = Deleted
  /\ \/ size > ClusterSize /\ UNCHANGED <<free, refused>>
     \/ free = {} /\ UNCHANGED <<free, refused>>
     \/ CardRefuses /\ free' \in SUBSET free
  /\ entry' = [first |-> NoCluster, size |-> 0]
  /\ Opened({"read", "write"}, entry')
  /\ op' = "create" /\ pc' = "delete"
  /\ UNCHANGED <<chain, damaged, others, locals, access, failed>>

-----------------------------------------------------------------------------
(* seekSet. *)

\* What reading, seeking and syncing never change.
fixed == <<isOpen, flags, writeError, failed, failure>>

\* seekSet, seekCur, seekEnd and rewind.
SeekCall(pos) ==
  /\ CanCall("seek") /\ pos <= fileSize_
  /\ SeekTo(pos, "done")
  /\ UNCHANGED <<disk, dirDirty, firstCluster_, fileSize_, fixed, todo, newPos, access, refused>>

seekVars == <<disk, dirDirty, firstCluster_, fileSize_, fixed, op, todo, target, after, newPos,
              access, refused>>

\* Slip: one cluster too few.
SeekNextTooEarly ==
  /\ pc = "seek"
  /\ IF steps > 1
       THEN /\ Readable(curCluster_)
            /\ curCluster_' = FatEntry(curCluster_)
            /\ steps' = steps - 1
            /\ UNCHANGED <<pc, curPosition_>>
       ELSE curPosition_' = target /\ pc' = after /\ UNCHANGED <<curCluster_, steps>>
  /\ UNCHANGED seekVars

\* The loop follows the chain, then the position is set.
SeekNext ==
  /\ pc = "seek"
  /\ IF steps > 0
       THEN /\ Readable(curCluster_)
            /\ curCluster_' = FatEntry(curCluster_)
            /\ steps' = steps - 1
            /\ UNCHANGED <<pc, curPosition_>>
       ELSE curPosition_' = target /\ pc' = after /\ UNCHANGED <<curCluster_, steps>>
  /\ UNCHANGED seekVars

\* A refused access leaves curCluster_ on the way and the position as it was.
SeekFails ==
  /\ pc = "seek" /\ steps > 0
  /\ \/ CardRefuses
     \/ ~Readable(curCluster_) /\ UNCHANGED refused
  /\ Fails
  /\ UNCHANGED <<disk, handle>>

-----------------------------------------------------------------------------
(* read. *)

\* Slip: nothing of a block that is read or written from its start.
AmountToBoundary == Least(todo, (BlockSize - (curPosition_ % BlockSize)) % BlockSize)

Amount == Least(todo, BlockSize - (curPosition_ % BlockSize))

\* Slip: a part of a block counts for a whole one.
AdvanceByBlock ==
  /\ curPosition_' = curPosition_ + Amount
  /\ todo' = todo - BlockSize

Advance ==
  /\ curPosition_' = curPosition_ + Amount
  /\ todo' = todo - Amount

\* read of n bytes, or of one by File's peek.  The unsigned difference wraps
\* when the position is beyond the end, and the request stands as it is.
ReadCall(o, n) ==
  /\ CanCall(o) /\ "read" \in flags
  /\ curPosition_ <= MaxSize
  /\ todo' = IF curPosition_ > fileSize_ THEN n ELSE Least(n, fileSize_ - curPosition_)
  /\ pc' = "read"
  /\ UNCHANGED <<disk, handle, writeError, steps, target, after, newPos, history>>

AtClusterStart == curPosition_ % ClusterSize = 0

ReadFollowsChain == AtClusterStart /\ curPosition_ # 0

ReadCluster ==
  IF ReadFollowsChain THEN FatEntry(curCluster_)
  ELSE IF AtClusterStart THEN firstCluster_ ELSE curCluster_

CanFollow == ReadFollowsChain => Readable(curCluster_)

transferVars == <<op, steps, target, after, newPos>>

ReadNext ==
  /\ pc = "read" /\ todo > 0
  /\ CanFollow /\ IsBlock(ReadCluster)
  /\ curCluster_' = ReadCluster
  /\ Accessed(ReadCluster)
  /\ Advance
  /\ UNCHANGED <<disk, dirDirty, firstCluster_, fileSize_, fixed, pc, transferVars, refused>>

\* fatGet fails: nothing has moved.
ReadFatFails ==
  /\ pc = "read" /\ todo > 0 /\ ReadFollowsChain
  /\ \/ CardRefuses
     \/ ~Readable(curCluster_) /\ UNCHANGED refused
  /\ Fails
  /\ UNCHANGED <<disk, handle>>

\* The block cannot be read: curCluster_ has moved on, the position has not.
ReadBlockFails ==
  /\ pc = "read" /\ todo > 0 /\ CanFollow
  /\ \/ CardRefuses
     \/ ~IsBlock(ReadCluster) /\ UNCHANGED refused
  /\ curCluster_' = ReadCluster
  /\ Fails
  /\ UNCHANGED <<disk, isOpen, flags, dirDirty, firstCluster_, fileSize_, curPosition_>>

\* peek goes back before the byte it has read, if seekSet lets it.
GoesBack == op = "peek" /\ access.by = "peek" /\ curPosition_ - 1 <= fileSize_

ReadDone ==
  /\ pc = "read" /\ todo = 0
  /\ IF GoesBack
       THEN SeekTo(curPosition_ - 1, "done")
       ELSE pc' = "done" /\ UNCHANGED <<curCluster_, curPosition_, steps, target, after>>
  /\ UNCHANGED <<disk, isOpen, flags, dirDirty, firstCluster_, fileSize_, writeError, op, todo, newPos, history>>

-----------------------------------------------------------------------------
(* write. *)

\* Slip: O_APPEND is not looked at.
WriteCallNoAppend(n) ==
  /\ CanCall("write") /\ "write" \in flags
  /\ curPosition_ + n <= MaxSize
  /\ todo' = n /\ pc' = "write"
  /\ UNCHANGED <<disk, handle, fixed, steps, target, after, newPos, access, refused>>

WriteCall(n) ==
  /\ CanCall("write") /\ "write" \in flags
  /\ IF "append" \in flags /\ curPosition_ # fileSize_
       THEN SeekTo(fileSize_, "write") /\ fileSize_ + n <= MaxSize
       ELSE /\ curPosition_ + n <= MaxSize
            /\ pc' = "write"
            /\ UNCHANGED <<curCluster_, curPosition_, steps, target, after>>
  /\ todo' = n
  /\ UNCHANGED <<disk, dirDirty, firstCluster_, fileSize_, fixed, newPos, access, refused>>

NextCluster == IF curCluster_ = NoCluster THEN firstCluster_ ELSE FatEntry(curCluster_)

\* The start of a new cluster, and the chain ends here: addCluster.
NeedsCluster ==
  /\ AtClusterStart /\ Readable(curCluster_)
  /\ NextCluster \in {NoCluster, EOC}

\* Slip: the directory entry is not told of the first cluster.
AddClusterNotDirty(c) ==
  /\ c \in free
  /\ chain' = Append(chain, c) /\ free' = free \ {c}
  /\ firstCluster_' = IF firstCluster_ = NoCluster THEN c ELSE firstCluster_
  /\ UNCHANGED dirDirty

AddCluster(c) ==
  /\ c \in free
  /\ chain' = Append(chain, c) /\ free' = free \ {c}
  /\ firstCluster_' = IF firstCluster_ = NoCluster THEN c ELSE firstCluster_
  /\ dirDirty' = (dirDirty \/ firstCluster_ = NoCluster)

\* The cluster this turn writes to: the current one, the next, or a new one.
WriteCluster(c) ==
  IF NeedsCluster THEN AddCluster(c)
  ELSE /\ AtClusterStart => Readable(curCluster_)
       /\ c = IF AtClusterStart THEN NextCluster ELSE curCluster_
       /\ UNCHANGED <<chain, free, firstCluster_, dirDirty>>

WriteNext ==
  /\ pc = "write" /\ todo > 0
  /\ \E c \in Cluster \cup {EOC} :
       /\ WriteCluster(c) /\ IsBlock(c)
       /\ curCluster_' = c
       /\ Accessed(c)
  /\ Advance
  /\ UNCHANGED <<damaged, others, entry, fileSize_, fixed, pc, transferVars, refused>>

\* The FAT cannot be read: the one way out that sets no error flag.
WriteFatFails ==
  /\ pc = "write" /\ todo > 0
  /\ AtClusterStart /\ curCluster_ # NoCluster
  /\ \/ CardRefuses
     \/ ~Readable(curCluster_) /\ UNCHANGED refused
  /\ Return(FALSE)
  /\ UNCHANGED <<disk, handle, writeError>>

\* No cluster is free, or an access of allocContiguous was refused: then a
\* cluster it had marked is lost.
WriteNoCluster ==
  /\ pc = "write" /\ todo > 0 /\ NeedsCluster
  /\ \/ free = {} /\ UNCHANGED <<free, refused>>
     \/ CardRefuses /\ \E lost \in SUBSET free : Cardinality(lost) <= 1 /\ free' = free \ lost
  /\ Fails
  /\ UNCHANGED <<chain, damaged, others, entry, handle>>

\* The block cannot be written: the chain and curCluster_ have moved on.
WriteBlockFails ==
  /\ pc = "write" /\ todo > 0
  /\ \E c \in Cluster \cup {EOC} :
       /\ WriteCluster(c)
       /\ \/ CardRefuses
          \/ ~IsBlock(c) /\ UNCHANGED refused
       /\ curCluster_' = c
  /\ Fails
  /\ UNCHANGED <<damaged, others, entry, isOpen, flags, fileSize_, curPosition_>>

\* All is written: the size follows the position.
WriteDone ==
  /\ pc = "write" /\ todo = 0
  /\ IF curPosition_ > fileSize_
       THEN fileSize_' = curPosition_ /\ dirDirty' = TRUE
       ELSE UNCHANGED fileSize_ /\ dirDirty' = (dirDirty \/ DateTime)
  /\ pc' = IF "sync" \in flags THEN "sync" ELSE "done"
  /\ UNCHANGED <<disk, isOpen, flags, writeError, firstCluster_, curCluster_, curPosition_,
                 op, locals, history>>

-----------------------------------------------------------------------------
(* truncate and remove. *)

\* A file of no bytes is truncated already.
TruncateCall(length) ==
  /\ CanCall("truncate") /\ "write" \in flags /\ length <= fileSize_
  /\ IF fileSize_ = 0
       THEN pc' = "done" /\ UNCHANGED <<curCluster_, curPosition_, steps, target, after, newPos>>
       ELSE SeekTo(length, "free") /\ newPos' = Least(curPosition_, length)
  /\ UNCHANGED <<disk, dirDirty, firstCluster_, fileSize_, fixed, todo, access, refused>>

RemoveCall ==
  /\ CanCall("remove") /\ "write" \in flags
  /\ IF fileSize_ = 0
       THEN pc' = "delete" /\ UNCHANGED <<curCluster_, curPosition_>>
       ELSE SeekTo(0, "free")
  /\ UNCHANGED <<disk, dirDirty, firstCluster_, fileSize_, fixed, locals, access, refused>>

KeepTo(k) ==
  /\ chain' = SubSeq(chain, 1, k)
  /\ free' = free \cup {chain[i] : i \in k + 1 .. Len(chain)}

\* Slip: the first cluster is not forgotten with the chain.
FreeKeepsFirst ==
  /\ pc = "free"
  /\ IF target = 0 THEN KeepTo(0)
     ELSE \E i \in DOMAIN chain : chain[i] = curCluster_ /\ KeepTo(i)
  /\ fileSize_' = target /\ dirDirty' = TRUE
  /\ pc' = "sync"
  /\ UNCHANGED <<damaged, others, entry, fixed, firstCluster_, curCluster_, curPosition_, op, locals, access, refused>>

\* All of the chain, or what comes after the current cluster.
Free ==
  /\ pc = "free"
  /\ IF target = 0
       THEN KeepTo(0) /\ firstCluster_' = NoCluster
       ELSE /\ \E i \in DOMAIN chain : chain[i] = curCluster_ /\ KeepTo(i)
            /\ UNCHANGED firstCluster_
  /\ fileSize_' = target /\ dirDirty' = TRUE
  /\ pc' = "sync"
  /\ UNCHANGED <<damaged, others, entry, fixed, curCluster_, curPosition_, op, locals, access, refused>>

\* Nothing was freed yet, or the file cannot be used again.
FreeFails ==
  /\ pc = "free"
  /\ \/ CardRefuses /\ damaged' \in BOOLEAN
     \/ target > 0 /\ ~Readable(curCluster_) /\ UNCHANGED <<damaged, others, refused>>
  /\ Fails
  /\ UNCHANGED <<chain, free, others, entry, handle>>

\* The position after truncate.
Reseek ==
  /\ pc = "reseek"
  /\ SeekTo(newPos, IF op = "remove" THEN "delete" ELSE "done")
  /\ UNCHANGED <<disk, dirDirty, firstCluster_, fileSize_, fixed, op, todo, newPos, access, refused>>

\* The fields of a closed handle are not used again.
Closed ==
  /\ isOpen' = FALSE /\ flags' = {} /\ dirDirty' = FALSE
  /\ firstCluster_' = NoCluster /\ fileSize_' = 0
  /\ curCluster_' = NoCluster /\ curPosition_' = 0

\* The entry is marked deleted; no file names its clusters any more.
Delete ==
  /\ pc = "delete"
  /\ entry' = Deleted /\ chain' = << >>
  /\ Closed
  /\ Return(op = "remove")
  /\ UNCHANGED <<free, damaged, others, writeError, refused>>

\* The entry cannot be read, or its block not written.
DeleteFails ==
  /\ pc = "delete" /\ CardRefuses
  /\ \/ UNCHANGED <<entry, chain, handle>>
     \/ entry' = Deleted /\ chain' = << >> /\ Closed
  /\ Return(FALSE)
  /\ UNCHANGED <<free, damaged, others, writeError>>

-----------------------------------------------------------------------------
(* sync and close. *)

SyncCall(o) ==
  /\ o \in {"sync", "close"}
  /\ CanCall(o)
  /\ pc' = "sync"
  /\ UNCHANGED <<disk, handle, writeError, locals, history>>

WriteEntry ==
  /\ entry' = IF dirDirty THEN [first |-> firstCluster_, size |-> fileSize_] ELSE entry
  /\ dirDirty' = FALSE

\* Slip: the flag is cleared, the entry is not written.
SyncSkipsEntry ==
  /\ pc = "sync"
  /\ UNCHANGED entry /\ dirDirty' = FALSE
  /\ pc' = IF op \in {"truncate", "remove", "open"} THEN "reseek" ELSE "done"
  /\ UNCHANGED <<chain, free, damaged, others, isOpen, flags, firstCluster_, fileSize_, curCluster_,
                 curPosition_, writeError, op, locals, history>>

Sync ==
  /\ pc = "sync"
  /\ WriteEntry
  /\ pc' = IF op \in {"truncate", "remove", "open"} THEN "reseek" ELSE "done"
  /\ UNCHANGED <<chain, free, damaged, others, isOpen, flags, firstCluster_, fileSize_, curCluster_,
                 curPosition_, writeError, op, locals, history>>

\* The entry's block cannot be read, or the buffer not be flushed after it.
SyncFails ==
  /\ pc = "sync" /\ CardRefuses
  /\ \/ dirDirty /\ UNCHANGED <<entry, dirDirty>>
     \/ WriteEntry
  /\ Fails
  /\ UNCHANGED <<chain, free, damaged, others, isOpen, flags, firstCluster_, fileSize_, curCluster_,
                 curPosition_>>

\* The call returns success; close() ends the life of the handle.
Done ==
  /\ pc = "done"
  /\ IF op = "close" THEN Closed ELSE UNCHANGED handle
  /\ Return(TRUE)
  /\ UNCHANGED <<disk, writeError, refused>>

\* File::close frees the handle even when close() failed: an entry that was
\* never told of the clusters loses them.
GiveUp ==
  /\ pc = "idle" /\ isOpen /\ failure = "close"
  /\ Closed
  /\ chain' = IF entry.first = NoCluster THEN << >> ELSE chain
  /\ UNCHANGED <<free, damaged, others, entry, writeError, pc, op, locals, history>>

\* The calls that return at once because of the handle or the argument.
Rejected(o) ==
  /\ pc = "idle" /\ ~damaged
  /\ \/ ~isOpen \/ o \in {"seek", "truncate"}
     \/ o \in {"read", "peek"} /\ "read" \notin flags
     \/ o \in {"write", "remove"} /\ "write" \notin flags
  /\ failure' = o
  /\ writeError' = (writeError \/ o = "write")
  /\ UNCHANGED <<disk, handle, pc, op, locals, access, refused, failed>>

-----------------------------------------------------------------------------

\* What the library does by itself once it is called.
Step ==
  \/ SeekNext \/ SeekFails
  \/ ReadNext \/ ReadFatFails \/ ReadBlockFails \/ ReadDone
  \/ WriteNext \/ WriteFatFails \/ WriteNoCluster \/ WriteBlockFails \/ WriteDone
  \/ Free \/ FreeFails \/ Reseek \/ Delete \/ DeleteFails
  \/ Sync \/ SyncFails \/ Done

Sizes == 1 .. Cardinality(Cluster) * ClusterSize

Call ==
  \/ \E m \in Modes : Open(m) \/ Create(m) \/ OpenTruncated(m)
  \/ \E n \in Sizes : CreateContiguous(n) \/ CreateContiguousFails(n)
  \/ \E n \in 0 .. MaxSize : SeekCall(n) \/ TruncateCall(n)
  \/ \E n \in 1 .. MaxRequest : ReadCall("read", n) \/ WriteCall(n)
  \/ ReadCall("peek", 1)
  \/ RemoveCall
  \/ \E o \in {"read", "peek", "write", "seek", "truncate", "remove", "sync", "close"} :
       SyncCall(o) \/ Rejected(o)
  \/ GiveUp

Next == Step \/ Call

Spec == Init /\ [][Next]_vars

\* A call that has begun runs on by itself; the card never owes it a refusal.
FairSpec == Spec /\ WF_vars(Step /\ UNCHANGED refused)

-----------------------------------------------------------------------------
(* Properties. *)

Ops == {"none", "open", "create", "read", "peek", "write", "seek", "truncate", "remove", "sync", "close"}

DiskOK ==
  /\ chain \in Seq(Cluster) /\ free \subseteq Cluster /\ others \subseteq Cluster /\ damaged \in BOOLEAN
  /\ entry \in [first : Cluster \cup {NoCluster}, size : Nat] \cup {Deleted}

HandleOK ==
  /\ isOpen \in BOOLEAN /\ flags \in SUBSET {"read", "write", "append", "sync"}
  /\ dirDirty \in BOOLEAN /\ writeError \in BOOLEAN
  /\ firstCluster_ \in Cluster \cup {NoCluster} /\ fileSize_ \in Nat
  /\ curCluster_ \in Cluster \cup {NoCluster, EOC} /\ curPosition_ \in Nat

CallOK ==
  /\ pc \in {"idle", "seek", "read", "write", "free", "reseek", "delete", "sync", "done"}
  /\ op \in Ops
  /\ todo \in 0 .. MaxRequest /\ steps \in Nat /\ target \in Nat /\ newPos \in Nat
  /\ after \in {"write", "free", "delete", "done"}

HistoryOK ==
  /\ access \in [by : {"none", "read", "peek", "write"}, pos : Nat,
                 cluster : Cluster \cup {NoCluster, EOC}, size : Nat]
  /\ refused \in BOOLEAN /\ failed \in BOOLEAN
  /\ failure \in Ops

\* The variables hold what the code's variables can hold.
TypeOK == DiskOK /\ HandleOK /\ CallOK /\ HistoryOK

IndexOf(pos) == pos \div ClusterSize + 1

InChain(c, i) == i \in DOMAIN chain /\ c = chain[i]

\* Every block is read or written in the cluster its position belongs to,
\* through any sequence of seeks back and forth, writes that stop for want of
\* space, truncations and re-openings (read 619-632, write 1138-1173, seekSet
\* 913-928).  A read that a failed write left beyond the end is the matter of
\* WritesStayInFile.
AccessAtPosition ==
  ~refused /\ access.by # "none" /\ (access.by # "write" => access.pos < access.size)
    => InChain(access.cluster, IndexOf(access.pos))

\* The same when accesses are refused: a failed call that is repeated goes on
\* where the position says.
AccessAtPositionAlways ==
  access.by # "none" /\ access.pos < access.size
    => InChain(access.cluster, IndexOf(access.pos))

\* Between calls the handle and the entry agree unless the handle knows that
\* they do not: no change of size or first cluster can be lost by a close
\* (the settings of F_FILE_DIR_DIRTY in addCluster, truncate, write, sync).
CleanHandleMatchesEntry ==
  pc = "idle" /\ isOpen /\ ~dirDirty /\ ~damaged
    => entry = [first |-> firstCluster_, size |-> fileSize_]

\* As long as no access was refused the entry that a closed file leaves behind
\* covers its bytes: the chain starts at its cluster and is long enough.
EntryFitsChain ==
  ~refused /\ entry # Deleted /\ ~isOpen =>
    /\ entry.size <= Len(chain) * ClusterSize
    /\ entry.first = IF chain = << >> THEN NoCluster ELSE chain[1]

\* As long as no call failed the chain has just the clusters the size needs and
\* every other cluster is free: truncate, remove and createContiguous leak none.
NothingLeaks ==
  pc = "idle" /\ ~failed =>
    /\ isOpen => (Len(chain) - 1) * ClusterSize < fileSize_ /\ fileSize_ <= Len(chain) * ClusterSize
    /\ free = Cluster \ (others \cup Clusters)

\* O_APPEND: a write never changes bytes the file already has, refused accesses
\* and seeks before it or not (write 1130-1133).
AppendWritesAtEnd ==
  "append" \in flags /\ access.by = "write" => access.pos >= access.size

\* A write only ever goes to clusters of the file itself.
WritesStayInFile == access.by = "write" => access.cluster \in Clusters

\* Every call returns, refused accesses or not.
CallsReturn == pc # "idle" ~> pc = "idle"

=============================================================================
