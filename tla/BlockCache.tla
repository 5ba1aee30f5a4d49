----------------------------- MODULE BlockCache -----------------------------
(***************************************************************************)
(* The write-back cache of SpiSdVolume: one 512-byte buffer shared by every *)
(* volume and every open file, the block number it stands for, a dirty     *)
(* flag and the address of the FAT mirror that must be written with it.    *)
(* SpiSdFile works on the same static variables directly (SpiSdFile.cpp    *)
(* 1174-1202), so its accesses are operations of this module too.          *)
(*                                                                         *)
(* One action is one call of the library into the cache with every card    *)
(* access the call makes.  A card access fails when the card refuses it;   *)
(* a write that fails may have reached the flash or not.  Power may be     *)
(* lost between any two card accesses.                                     *)
(***************************************************************************)
EXTENDS Naturals, FiniteSets

CONSTANTS
  Block,          \* the block numbers the card accepts; 0 is the boot block
  FatBlock,       \* blocks of the first FAT
  ClientBlock,    \* directory and data blocks
  BlocksPerFat,   \* blocksPerFat_
  FatCount,       \* fatCount_
  Part, Value,    \* a block is a function from parts to values
  FirstPart,      \* the part at offset 0
  Zero,           \* the value of a zeroed part
  NoBlock,        \* 0XFFFFFFFF, the number of no block
  NoData,         \* the data of a reply that delivers none
  CardFails       \* whether the card may refuse an access

Content == [Part -> Value]

Mirror(b) == b + BlocksPerFat

MirrorBlock == IF FatCount > 1 THEN {Mirror(b) : b \in FatBlock} ELSE {}

LogicalBlock == {0} \cup FatBlock \cup ClientBlock

ASSUME BlocksAssumption ==
  /\ Block \subseteq Nat /\ NoBlock \notin Block
  /\ BlocksPerFat \in Nat /\ FatCount \in Nat \ {0}
  /\ LogicalBlock \cup MirrorBlock \subseteq Block
  /\ 0 \notin FatBlock \cup ClientBlock \cup MirrorBlock
  /\ FatBlock \cap ClientBlock = {}
  /\ MirrorBlock \cap LogicalBlock = {}

ASSUME ContentAssumption ==
  /\ FirstPart \in Part /\ Zero \in Value /\ NoData \notin Content
  /\ CardFails \in BOOLEAN

VARIABLES
  disk,               \* the blocks on the card
  cacheBlockNumber_,  \* the block the buffer stands for, or NoBlock
  cacheBuffer_,       \* the 512-byte buffer
  cacheDirty_,        \* the buffer holds changes the card has not got
  cacheMirrorBlock_,  \* the second-FAT block to write with the buffer, 0 if none
  reply,              \* the last call and its return value
  abandoned           \* history: FAT blocks whose pending mirror write was given up

cacheVars == <<cacheBlockNumber_, cacheBuffer_, cacheDirty_, cacheMirrorBlock_>>

vars == <<disk, cacheVars, reply, abandoned>>

Reply(op, b, ok, data) == [op |-> op, block |-> b, ok |-> ok, data |-> data]

ZeroBlock == [p \in Part |-> Zero]

-----------------------------------------------------------------------------
(* The card, seen through SpiSd2Card::readBlock and writeBlock. *)

\* writeBlock refuses block 0 itself; the card refuses what it has not got.
Writable == Block \ {0}

Store(bs, c) == [b \in Block |-> IF b \in bs THEN c ELSE disk[b]]

-----------------------------------------------------------------------------
(* cacheFlush(): the buffered block first, then the mirror. *)

FlushTargets ==
  {cacheBlockNumber_} \cup (IF cacheMirrorBlock_ # 0 THEN {cacheMirrorBlock_} ELSE {})

FlushSucceeds == cacheDirty_ => FlushTargets \subseteq Writable

\* Slip: the second FAT is forgotten.
FlushedPrimaryOnly == IF cacheDirty_ THEN Store({cacheBlockNumber_}, cacheBuffer_) ELSE disk

FlushedDisk == IF cacheDirty_ THEN Store(FlushTargets, cacheBuffer_) ELSE disk

\* Slips: the address is not reset, or is reset to the wrong sentinel.
MirrorNotReset == cacheMirrorBlock_

MirrorResetToNoBlock == IF cacheDirty_ THEN NoBlock ELSE cacheMirrorBlock_

FlushedMirror == IF cacheDirty_ THEN 0 ELSE cacheMirrorBlock_

\* The writes a flush that does not complete may have made.
PartialFlush ==
  {w \in {{}, {cacheBlockNumber_}, FlushTargets} : w \subseteq Writable}

FlushFails ==
  /\ cacheDirty_
  /\ \/ CardFails /\ \E w \in PartialFlush : disk' = Store(w, cacheBuffer_)
     \/ cacheBlockNumber_ \notin Writable /\ UNCHANGED disk

-----------------------------------------------------------------------------
(* cacheRawBlock(b, action): a hit costs nothing, a miss flushes, then reads. *)

Hit(b) == cacheBlockNumber_ = b

FetchSucceeds(b) == Hit(b) \/ FlushSucceeds

Fetched(b) == IF Hit(b) THEN cacheBuffer_ ELSE FlushedDisk[b]

FetchedDirty(b) == Hit(b) /\ cacheDirty_

FetchedMirror(b) == IF Hit(b) THEN cacheMirrorBlock_ ELSE FlushedMirror

\* Slip: a dirty block is evicted without being written.
FetchWithoutFlush(b) == UNCHANGED disk

FetchDisk(b) == disk' = IF Hit(b) THEN disk ELSE FlushedDisk

FetchFails(b) ==
  /\ ~Hit(b)
  /\ \/ FlushFails /\ UNCHANGED cacheVars
     \/ /\ CardFails /\ FlushSucceeds
        /\ disk' = FlushedDisk
        /\ cacheDirty_' = FALSE
        /\ cacheMirrorBlock_' = FlushedMirror
        /\ UNCHANGED <<cacheBlockNumber_, cacheBuffer_>>

-----------------------------------------------------------------------------
(* The calls. *)

Init ==
  /\ disk \in [Block -> Content]
  /\ \A b \in FatBlock : FatCount > 1 => disk[Mirror(b)] = disk[b]
  /\ cacheBlockNumber_ = NoBlock
  /\ cacheBuffer_ = ZeroBlock
  /\ cacheDirty_ = FALSE
  /\ cacheMirrorBlock_ = 0
  /\ reply = Reply("boot", NoBlock, TRUE, NoData)
  /\ abandoned = {}

\* fatGet, readDirCache, a buffered read: the block is looked at in the cache.
ReadCached(b) ==
  /\ FetchSucceeds(b)
  /\ FetchDisk(b)
  /\ cacheBlockNumber_' = b
  /\ cacheBuffer_' = Fetched(b)
  /\ cacheDirty_' = FetchedDirty(b)
  /\ cacheMirrorBlock_' = FetchedMirror(b)
  /\ reply' = Reply("read", b, TRUE, Fetched(b))
  /\ UNCHANGED abandoned

ReadCachedFails(b) ==
  /\ FetchFails(b)
  /\ reply' = Reply("read", b, FALSE, NoData)
  /\ UNCHANGED abandoned

\* A directory entry or part of a data block is changed in the cache
\* (cacheDirEntry for write, timestamp, the rewrite branch of write).
WriteCached(b, p, v) ==
  /\ FetchSucceeds(b)
  /\ FetchDisk(b)
  /\ cacheBlockNumber_' = b
  /\ cacheBuffer_' = [Fetched(b) EXCEPT ![p] = v]
  /\ cacheDirty_' = TRUE
  /\ cacheMirrorBlock_' = FetchedMirror(b)
  /\ reply' = Reply("patch", b, TRUE, NoData)
  /\ UNCHANGED abandoned

\* fatPut: an entry of the first FAT is stored and its mirror noted.
FatPut(b, p, v) ==
  /\ FetchSucceeds(b)
  /\ FetchDisk(b)
  /\ cacheBlockNumber_' = b
  /\ cacheBuffer_' = [Fetched(b) EXCEPT ![p] = v]
  /\ cacheDirty_' = TRUE
  /\ cacheMirrorBlock_' = IF FatCount > 1 THEN Mirror(b) ELSE FetchedMirror(b)
  /\ reply' = Reply("patch", b, TRUE, NoData)
  /\ UNCHANGED abandoned

PatchFails(b) ==
  /\ FetchFails(b)
  /\ reply' = Reply("patch", b, FALSE, NoData)
  /\ UNCHANGED abandoned

\* The first bytes of a block past the end of the file: the buffer takes the
\* block's number without a read and keeps the other parts it had.
WriteFresh(b, v) ==
  /\ FlushSucceeds
  /\ disk' = FlushedDisk
  /\ cacheBlockNumber_' = b
  /\ cacheBuffer_' = [cacheBuffer_ EXCEPT ![FirstPart] = v]
  /\ cacheDirty_' = TRUE
  /\ cacheMirrorBlock_' = FlushedMirror
  /\ reply' = Reply("replace", b, TRUE, NoData)
  /\ UNCHANGED abandoned

\* cacheZeroBlock: a block of a new directory cluster.
CacheZeroBlock(b) ==
  /\ FlushSucceeds
  /\ disk' = FlushedDisk
  /\ cacheBlockNumber_' = b
  /\ cacheBuffer_' = ZeroBlock
  /\ cacheDirty_' = TRUE
  /\ cacheMirrorBlock_' = FlushedMirror
  /\ reply' = Reply("replace", b, TRUE, NoData)
  /\ UNCHANGED abandoned

\* WriteFresh and cacheZeroBlock return false when the flush fails.
ReplaceCachedFails(b) ==
  /\ FlushFails
  /\ reply' = Reply("replace", b, FALSE, NoData)
  /\ UNCHANGED <<cacheVars, abandoned>>

\* A whole block goes straight to the card; a cached copy of it is forgotten
\* by its number only.
\* Slip: the cached copy stays valid.
KeptNumber(b) == cacheBlockNumber_

InvalidatedNumber(b) == IF Hit(b) THEN NoBlock ELSE cacheBlockNumber_

WriteFull(b, c) ==
  /\ cacheBlockNumber_' = InvalidatedNumber(b)
  /\ disk' = Store({b}, c)
  /\ reply' = Reply("replace", b, TRUE, NoData)
  /\ UNCHANGED <<cacheBuffer_, cacheDirty_, cacheMirrorBlock_, abandoned>>

WriteFullFails(b, c) ==
  /\ CardFails
  /\ cacheBlockNumber_' = InvalidatedNumber(b)
  /\ disk' \in {disk, Store({b}, c)}
  /\ reply' = Reply("replace", b, FALSE, NoData)
  /\ UNCHANGED <<cacheBuffer_, cacheDirty_, cacheMirrorBlock_, abandoned>>

\* A whole block that is not the cached one is read straight from the card.
ReadDirect(b) ==
  /\ ~Hit(b)
  /\ reply' = Reply("read", b, TRUE, disk[b])
  /\ UNCHANGED <<disk, cacheVars, abandoned>>

ReadDirectFails(b) ==
  /\ ~Hit(b) /\ CardFails
  /\ reply' = Reply("read", b, FALSE, NoData)
  /\ UNCHANGED <<disk, cacheVars, abandoned>>

\* sync() once the directory entry is up to date: cacheFlush().
Sync ==
  /\ FlushSucceeds
  /\ disk' = FlushedDisk
  /\ cacheDirty_' = FALSE
  /\ cacheMirrorBlock_' = FlushedMirror
  /\ reply' = Reply("sync", NoBlock, TRUE, NoData)
  /\ UNCHANGED <<cacheBlockNumber_, cacheBuffer_, abandoned>>

SyncFails ==
  /\ FlushFails
  /\ reply' = Reply("sync", NoBlock, FALSE, NoData)
  /\ UNCHANGED <<cacheVars, abandoned>>

PendingMirror == IF cacheMirrorBlock_ # 0 THEN {cacheBlockNumber_} \cap FatBlock ELSE {}

\* cacheClear() drops the buffer whether or not its flush succeeded.
CacheClear ==
  /\ \/ /\ FlushSucceeds
        /\ disk' = FlushedDisk
        /\ cacheDirty_' = FALSE
        /\ cacheMirrorBlock_' = FlushedMirror
        /\ UNCHANGED abandoned
     \/ /\ FlushFails
        /\ abandoned' = abandoned \cup PendingMirror
        /\ UNCHANGED <<cacheDirty_, cacheMirrorBlock_>>
  /\ cacheBlockNumber_' = NoBlock
  /\ reply' = Reply("boot", NoBlock, TRUE, NoData)
  /\ UNCHANGED cacheBuffer_

\* Power is lost, perhaps in the middle of a flush; the statics start afresh.
PowerLoss ==
  /\ IF cacheDirty_ THEN \E w \in PartialFlush : disk' = Store(w, cacheBuffer_)
                    ELSE UNCHANGED disk
  /\ cacheBlockNumber_' = NoBlock
  /\ cacheBuffer_' = ZeroBlock
  /\ cacheDirty_' = FALSE
  /\ cacheMirrorBlock_' = 0
  /\ reply' = Reply("boot", NoBlock, TRUE, NoData)
  /\ abandoned' = abandoned \cup PendingMirror

Next ==
  \/ \E b \in LogicalBlock : ReadCached(b) \/ ReadCachedFails(b)
  \/ \E b \in ClientBlock : ReadDirect(b) \/ ReadDirectFails(b)
  \/ \E b \in FatBlock, p \in Part, v \in Value : FatPut(b, p, v)
  \/ \E b \in ClientBlock, p \in Part, v \in Value : WriteCached(b, p, v)
  \/ \E b \in FatBlock \cup ClientBlock : PatchFails(b)
  \/ \E b \in ClientBlock : \/ \E v \in Value : WriteFresh(b, v)
                            \/ CacheZeroBlock(b) \/ ReplaceCachedFails(b)
                            \/ \E c \in Content : WriteFull(b, c) \/ WriteFullFails(b, c)
  \/ Sync
  \/ SyncFails
  \/ CacheClear
  \/ PowerLoss

Spec == Init /\ [][Next]_vars

-----------------------------------------------------------------------------
(* Properties. *)

\* Every variable of the cache has its type.
TypeOK ==
  /\ disk \in [Block -> Content]
  /\ cacheBlockNumber_ \in LogicalBlock \cup {NoBlock}
  /\ cacheBuffer_ \in Content
  /\ cacheDirty_ \in BOOLEAN
  /\ cacheMirrorBlock_ \in {0} \cup MirrorBlock
  /\ reply \in [op : {"boot", "read", "patch", "replace", "sync"},
               block : LogicalBlock \cup {NoBlock},
               ok : BOOLEAN, data : Content \cup {NoData}]
  /\ abandoned \subseteq FatBlock

\* A buffer that is not dirty holds exactly what the card has for its block.
\* Evicting it without a write (cacheRawBlock, line 131) loses nothing, and a
\* direct write (SpiSdFile.cpp 1174-1183) leaves no stale copy behind.
CleanBufferIsOnCard ==
  ~cacheDirty_ /\ cacheBlockNumber_ # NoBlock => cacheBuffer_ = disk[cacheBlockNumber_]

\* cacheMirrorBlock_ is set exactly when the buffer is a dirty block of the
\* first FAT and then names its mirror (only a buffer that lost its number,
\* and can no longer be flushed, may keep an address).  A left-over address
\* would make cacheFlush (lines 116-121) copy some other block over the second
\* FAT; a missing one would leave the second FAT behind.
MirrorBelongsToBuffer ==
  /\ cacheMirrorBlock_ # 0 =>
       /\ cacheDirty_
       /\ \/ cacheBlockNumber_ = NoBlock
          \/ cacheBlockNumber_ \in FatBlock /\ cacheMirrorBlock_ = Mirror(cacheBlockNumber_)
  /\ FatCount > 1 /\ cacheDirty_ /\ cacheBlockNumber_ \in FatBlock => cacheMirrorBlock_ # 0

\* The two FATs on the card differ in a block only while the cache still owes
\* the mirror write: refused writes and retries in any order never leave them
\* apart for good.  Only a power loss or a cacheClear() gives the write up.
FatCopiesAgree ==
  FatCount > 1 =>
    \A b \in FatBlock \ abandoned :
      disk[Mirror(b)] # disk[b] => cacheBlockNumber_ = b /\ cacheMirrorBlock_ = Mirror(b)

\* What a caller reads, and what would survive a power loss.
view == [b \in LogicalBlock |-> IF Hit(b) THEN cacheBuffer_ ELSE disk[b]]

stable == [b \in LogicalBlock |-> disk[b]]

BS == INSTANCE BlockStore WITH view <- view, stable <- stable, reply <- reply

\* The cache is a memory of blocks: every read returns the last write whatever
\* was evicted, flushed, refused or bypassed in between, and a sync() that
\* answers success leaves everything on the card.
ImplementsBlockStore == BS!Spec

\* As long as the card accepts every access, sync() succeeds
\* (SpiSdFile.cpp:933 "causes all modified data and directory fields to be
\* written to the storage device").
SyncSucceedsOnWorkingCard ==
  CardFails \/ ~(reply.op = "sync" /\ ~reply.ok)

=============================================================================
