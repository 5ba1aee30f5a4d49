-------------------------- MODULE BlockCacheProofs --------------------------
(***************************************************************************)
(* Proofs about BlockCache for any card, any FAT geometry and any contents. *)
(***************************************************************************)
EXTENDS BlockCache, TLAPS

\* Block 0 is only ever read, so a dirty buffer never stands for it.
BootBlockIsClean == cacheDirty_ => cacheBlockNumber_ # 0

\* The inductive invariant.  FatCopiesAgree needs MirrorBelongsToBuffer (a
\* flush of a FAT block must bring the mirror along), and both need
\* BootBlockIsClean and TypeOK to know that a flush hits the intended blocks.
IInv ==
  /\ TypeOK
  /\ BootBlockIsClean
  /\ CleanBufferIsOnCard
  /\ MirrorBelongsToBuffer
  /\ FatCopiesAgree

-----------------------------------------------------------------------------
(* What the pieces of an action yield. *)

\* A store of a whole block leaves a card full of blocks.
LEMMA StoreType ==
  ASSUME disk \in [Block -> Content], NEW bs, NEW c \in Content
  PROVE  Store(bs, c) \in [Block -> Content]
BY DEF Store

\* So does a flush, and the mirror address it leaves is a legal one.
LEMMA FlushType ==
  ASSUME TypeOK
  PROVE  /\ FlushedDisk \in [Block -> Content]
         /\ FlushedMirror \in {0} \cup MirrorBlock
         /\ \A w : Store(w, cacheBuffer_) \in [Block -> Content]
BY StoreType DEF TypeOK, FlushedDisk, FlushedMirror

\* A fetch of a block yields a block.
LEMMA FetchType ==
  ASSUME TypeOK, NEW b \in LogicalBlock
  PROVE  /\ Fetched(b) \in Content
         /\ FetchedDirty(b) \in BOOLEAN
         /\ FetchedMirror(b) \in {0} \cup MirrorBlock
         /\ FetchDisk(b) => disk' \in [Block -> Content]
<1>1. b \in Block
  BY BlocksAssumption
<1>2. FlushedDisk[b] \in Content
  BY <1>1, FlushType
<1> QED
  BY <1>2, FlushType DEF TypeOK, Fetched, FetchedDirty, FetchedMirror, FetchDisk

\* A fetch that fails leaves every variable in its type.
LEMMA FetchFailsType ==
  ASSUME TypeOK, NEW b \in LogicalBlock, FetchFails(b)
  PROVE  /\ disk' \in [Block -> Content]
         /\ cacheBlockNumber_' \in LogicalBlock \cup {NoBlock}
         /\ cacheBuffer_' \in Content
         /\ cacheDirty_' \in BOOLEAN
         /\ cacheMirrorBlock_' \in {0} \cup MirrorBlock
BY FlushType DEF TypeOK, FetchFails, FlushFails, cacheVars

\* A reply of one of the calls is a reply.
LEMMA ReplyType ==
  ASSUME NEW op \in {"boot", "read", "patch", "replace", "sync"},
         NEW b \in LogicalBlock \cup {NoBlock}, NEW ok \in BOOLEAN,
         NEW d \in Content \cup {NoData}
  PROVE  Reply(op, b, ok, d) \in [op : {"boot", "read", "patch", "replace", "sync"},
                                  block : LogicalBlock \cup {NoBlock},
                                  ok : BOOLEAN, data : Content \cup {NoData}]
BY DEF Reply

\* A part of a block is replaced by a value: the result is a block.
LEMMA PatchType ==
  ASSUME NEW c \in Content, NEW p \in Part, NEW v \in Value
  PROVE  [c EXCEPT ![p] = v] \in Content
BY DEF Content

LEMMA ZeroBlockType == ZeroBlock \in Content
BY ContentAssumption DEF ZeroBlock, Content

-----------------------------------------------------------------------------
(* Type correctness. *)

\* One call, made in a state of the right type, leaves the right types.
LEMMA TypeStep ==
  ASSUME TypeOK, Next
  PROVE  TypeOK'
<1> USE DEF TypeOK
<1>0. /\ NoBlock \in LogicalBlock \cup {NoBlock}
      /\ 0 \in LogicalBlock
      /\ FatBlock \cup ClientBlock \subseteq LogicalBlock
      /\ FirstPart \in Part
  BY ContentAssumption DEF LogicalBlock
<1>1. ASSUME NEW b \in LogicalBlock, ReadCached(b) PROVE TypeOK'
  BY <1>1, FetchType, ReplyType DEF ReadCached
<1>2. ASSUME NEW b \in LogicalBlock, ReadCachedFails(b) PROVE TypeOK'
  BY <1>2, FetchFailsType, ReplyType DEF ReadCachedFails
<1>3. ASSUME NEW b \in ClientBlock, ReadDirect(b) PROVE TypeOK'
  <2>1. b \in LogicalBlock /\ b \in Block
    BY <1>0, BlocksAssumption
  <2> QED
    BY <1>3, <2>1, ReplyType DEF ReadDirect, cacheVars
<1>4. ASSUME NEW b \in ClientBlock, ReadDirectFails(b) PROVE TypeOK'
  BY <1>0, <1>4, ReplyType DEF ReadDirectFails, cacheVars
<1>5. ASSUME NEW b \in FatBlock, NEW p \in Part, NEW v \in Value, FatPut(b, p, v)
      PROVE  TypeOK'
  <2>1. FatCount > 1 => Mirror(b) \in MirrorBlock
    BY DEF MirrorBlock
  <2> QED
    BY <1>0, <1>5, <2>1, FetchType, PatchType, ReplyType DEF FatPut
<1>6. ASSUME NEW b \in ClientBlock, NEW p \in Part, NEW v \in Value, WriteCached(b, p, v)
      PROVE  TypeOK'
  BY <1>0, <1>6, FetchType, PatchType, ReplyType DEF WriteCached
<1>7. ASSUME NEW b \in FatBlock \cup ClientBlock, PatchFails(b) PROVE TypeOK'
  BY <1>0, <1>7, FetchFailsType, ReplyType DEF PatchFails
<1>8. ASSUME NEW b \in ClientBlock, NEW v \in Value, WriteFresh(b, v) PROVE TypeOK'
  BY <1>0, <1>8, FlushType, PatchType, ReplyType DEF WriteFresh
<1>9. ASSUME NEW b \in ClientBlock, CacheZeroBlock(b) PROVE TypeOK'
  BY <1>0, <1>9, FlushType, ZeroBlockType, ReplyType DEF CacheZeroBlock
<1>10. ASSUME NEW b \in ClientBlock, ReplaceCachedFails(b) PROVE TypeOK'
  <2>1. disk' \in [Block -> Content]
    BY <1>10, FlushType DEF ReplaceCachedFails, FlushFails
  <2> QED
    BY <1>0, <1>10, <2>1, ReplyType DEF ReplaceCachedFails, cacheVars
<1>11. ASSUME NEW b \in ClientBlock, NEW c \in Content, WriteFull(b, c) PROVE TypeOK'
  BY <1>0, <1>11, StoreType, ReplyType DEF WriteFull, InvalidatedNumber
<1>12. ASSUME NEW b \in ClientBlock, NEW c \in Content, WriteFullFails(b, c) PROVE TypeOK'
  <2>1. Store({b}, c) \in [Block -> Content]
    BY StoreType
  <2> QED
    BY <1>0, <1>12, <2>1, ReplyType DEF WriteFullFails, InvalidatedNumber
<1>13. ASSUME Sync PROVE TypeOK'
  BY <1>0, <1>13, FlushType, ReplyType DEF Sync
<1>14. ASSUME SyncFails PROVE TypeOK'
  <2>1. disk' \in [Block -> Content]
    BY <1>14, FlushType DEF SyncFails, FlushFails
  <2> QED
    BY <1>0, <1>14, <2>1, ReplyType DEF SyncFails, cacheVars
<1>15. ASSUME CacheClear PROVE TypeOK'
  <2>1. disk' \in [Block -> Content] /\ cacheMirrorBlock_' \in {0} \cup MirrorBlock
    BY <1>15, FlushType DEF CacheClear, FlushFails
  <2> QED
    BY <1>0, <1>15, <2>1, ReplyType DEF CacheClear, PendingMirror
<1>16. ASSUME PowerLoss PROVE TypeOK'
  <2>1. disk' \in [Block -> Content]
    BY <1>16, FlushType DEF PowerLoss
  <2> QED
    BY <1>0, <1>16, <2>1, ZeroBlockType, ReplyType DEF PowerLoss, PendingMirror
<1> QED
  BY <1>1, <1>2, <1>3, <1>4, <1>5, <1>6, <1>7, <1>8, <1>9, <1>10, <1>11, <1>12,
     <1>13, <1>14, <1>15, <1>16 DEF Next

\* The state the program starts in has the right types.
LEMMA InitType ==
  ASSUME Init
  PROVE  TypeOK
<1>1. reply \in [op : {"boot", "read", "patch", "replace", "sync"},
                 block : LogicalBlock \cup {NoBlock},
                 ok : BOOLEAN, data : Content \cup {NoData}]
  BY ReplyType DEF Init
<1> QED
  BY <1>1, ZeroBlockType DEF Init, TypeOK

\* Every variable of the cache has its type, whatever the card refuses.
THEOREM TypeCorrect == Spec => []TypeOK
<1>1. Init => TypeOK
  BY InitType
<1>2. TypeOK /\ [Next]_vars => TypeOK'
  BY TypeStep DEF vars, cacheVars, TypeOK
<1> QED
  BY <1>1, <1>2, PTL DEF Spec

-----------------------------------------------------------------------------
(* Consistency of the buffer with the card. *)

\* The copies of a card agree outside the FAT block ex.
Agree(card, ex) ==
  FatCount > 1 => \A b \in FatBlock \ (abandoned \cup ex) : card[Mirror(b)] = card[b]

\* A mirror block is no block of the first FAT, and of one FAT block only.
LEMMA MirrorFacts ==
  ASSUME FatCount > 1, NEW b \in FatBlock
  PROVE  /\ Mirror(b) \in Block /\ b \in Block
         /\ Mirror(b) \notin LogicalBlock
         /\ Mirror(b) # 0 /\ b # 0
         /\ \A c \in FatBlock : Mirror(b) = Mirror(c) => b = c
<1>1. Mirror(b) \in MirrorBlock /\ b \in LogicalBlock
  BY DEF MirrorBlock, LogicalBlock
<1>2. b \in Nat /\ \A c \in FatBlock : c \in Nat
  BY BlocksAssumption DEF LogicalBlock
<1> QED
  BY <1>1, <1>2, BlocksAssumption DEF Mirror

\* A flush that succeeds brings the card up to date with the buffer, mirror
\* included, and leaves no mirror write pending.
LEMMA FlushConsistent ==
  ASSUME IInv, FlushSucceeds
  PROVE  /\ Agree(FlushedDisk, {})
         /\ FlushedMirror = 0
         /\ cacheBlockNumber_ # NoBlock => FlushedDisk[cacheBlockNumber_] = cacheBuffer_
<1> USE DEF IInv, TypeOK
<1>1. CASE ~cacheDirty_
  <2>1. cacheMirrorBlock_ = 0 /\ FlushedDisk = disk /\ FlushedMirror = 0
    BY <1>1 DEF MirrorBelongsToBuffer, FlushedDisk, FlushedMirror
  <2>2. Agree(disk, {})
    BY <2>1, MirrorFacts DEF Agree, FatCopiesAgree
  <2> QED
    BY <1>1, <2>1, <2>2 DEF CleanBufferIsOnCard
<1>2. CASE cacheDirty_
  <2>1. /\ cacheBlockNumber_ \in Block /\ FlushTargets \subseteq Block
        /\ cacheBlockNumber_ \in FlushTargets
        /\ cacheBlockNumber_ # NoBlock
    BY <1>2, BlocksAssumption DEF FlushSucceeds, FlushTargets, Writable
  <2>2. FlushedDisk = Store(FlushTargets, cacheBuffer_) /\ FlushedMirror = 0
    BY <1>2 DEF FlushedDisk, FlushedMirror
  <2>3. FlushedDisk[cacheBlockNumber_] = cacheBuffer_
    BY <2>1, <2>2 DEF Store
  <2>4. ASSUME FatCount > 1, NEW b \in FatBlock \ abandoned
        PROVE  FlushedDisk[Mirror(b)] = FlushedDisk[b]
    <3>1. CASE b = cacheBlockNumber_
      <4>1. cacheMirrorBlock_ = Mirror(b)
        BY <1>2, <2>1, <2>4, <3>1 DEF MirrorBelongsToBuffer
      <4>2. Mirror(b) \in FlushTargets
        BY <4>1, <2>4, MirrorFacts DEF FlushTargets
      <4> QED
        BY <2>1, <2>2, <2>4, <3>1, <4>2, MirrorFacts DEF Store
    <3>2. CASE b # cacheBlockNumber_
      <4>1. b \notin FlushTargets
        <5>1. b \notin MirrorBlock
          BY BlocksAssumption DEF LogicalBlock
        <5> QED
          BY <3>2, <5>1, <2>4, MirrorFacts DEF FlushTargets
      <4>2. Mirror(b) \notin FlushTargets
        <5>1. Mirror(b) # cacheBlockNumber_
          BY <2>1, <2>4, MirrorFacts
        <5>2. cacheMirrorBlock_ # 0 => cacheMirrorBlock_ # Mirror(b)
          BY <2>1, <2>4, <3>2, MirrorFacts DEF MirrorBelongsToBuffer
        <5> QED
          BY <5>1, <5>2 DEF FlushTargets
      <4>3. disk[Mirror(b)] = disk[b]
        BY <2>4, <3>2 DEF FatCopiesAgree
      <4> QED
        BY <2>2, <2>4, <4>1, <4>2, <4>3, MirrorFacts DEF Store
    <3> QED
      BY <3>1, <3>2
  <2> QED
    BY <2>1, <2>2, <2>3, <2>4 DEF Agree
<1> QED
  BY <1>1, <1>2

\* Only the pair of the buffered block can differ.
LEMMA PendingOnly ==
  ASSUME IInv
  PROVE  Agree(disk, PendingMirror)
BY MirrorFacts DEF IInv, FatCopiesAgree, Agree, PendingMirror

\* A flush that is cut short only ever disturbs the pair of the buffered block.
LEMMA PartialFlushConsistent ==
  ASSUME IInv, cacheDirty_, NEW w \in PartialFlush
  PROVE  Agree(Store(w, cacheBuffer_), PendingMirror)
<1> USE DEF IInv, TypeOK
<1>1. SUFFICES ASSUME FatCount > 1, NEW b \in FatBlock \ (abandoned \cup PendingMirror)
               PROVE  Store(w, cacheBuffer_)[Mirror(b)] = Store(w, cacheBuffer_)[b]
  BY DEF Agree
<1>2. b # cacheBlockNumber_
  BY <1>1 DEF PendingMirror, MirrorBelongsToBuffer
<1>3. CASE cacheBlockNumber_ = NoBlock
  <2>1. w = {}
    BY <1>3, BlocksAssumption DEF PartialFlush, FlushTargets, Writable
  <2> QED
    BY <1>1, <1>2, <2>1, MirrorFacts DEF Store, FatCopiesAgree
<1>4. CASE cacheBlockNumber_ \in LogicalBlock
  <2>1. b \notin FlushTargets
    BY <1>1, <1>2, MirrorFacts, BlocksAssumption DEF FlushTargets, LogicalBlock
  <2>2. Mirror(b) \notin FlushTargets
    BY <1>1, <1>2, <1>4, MirrorFacts, BlocksAssumption DEF FlushTargets, MirrorBelongsToBuffer
  <2>3. w \subseteq FlushTargets
    BY DEF PartialFlush, FlushTargets
  <2> QED
    BY <1>1, <1>2, <2>1, <2>2, <2>3, MirrorFacts DEF Store, FatCopiesAgree
<1> QED
  BY <1>3, <1>4

\* After a fetch that succeeds the buffer stands for b and is as consistent
\* with the card as it was for the block it held before.
LEMMA FetchConsistent ==
  ASSUME IInv, NEW b \in LogicalBlock, FetchSucceeds(b), FetchDisk(b)
  PROVE  /\ ~FetchedDirty(b) => Fetched(b) = disk'[b]
         /\ FetchedMirror(b) # 0 =>
              FetchedDirty(b) /\ b \in FatBlock /\ FetchedMirror(b) = Mirror(b)
         /\ FatCount > 1 /\ FetchedDirty(b) /\ b \in FatBlock => FetchedMirror(b) # 0
         /\ FatCount > 1 => \A c \in FatBlock \ abandoned :
              disk'[Mirror(c)] # disk'[c] => c = b /\ FetchedMirror(b) = Mirror(b)
         /\ FetchedDirty(b) => b # 0
<1> USE DEF IInv, TypeOK
<1>0. b # NoBlock
  BY BlocksAssumption
<1>1. CASE Hit(b)
  BY <1>0, <1>1 DEF Hit, Fetched, FetchedDirty, FetchedMirror, FetchDisk, CleanBufferIsOnCard,
     MirrorBelongsToBuffer, FatCopiesAgree, BootBlockIsClean
<1>2. CASE ~Hit(b)
  <2>1. FlushSucceeds /\ disk' = FlushedDisk
    BY <1>2 DEF FetchSucceeds, FetchDisk
  <2>2. Agree(disk', {}) /\ FetchedMirror(b) = 0 /\ Fetched(b) = disk'[b] /\ ~FetchedDirty(b)
    BY <1>2, <2>1, FlushConsistent DEF FetchedMirror, Fetched, FetchedDirty
  <2> QED
    BY <2>2 DEF Agree
<1> QED
  BY <1>1, <1>2

\* A flush that fails and keeps the buffer keeps the invariant.
LEMMA FlushFailsConsistent ==
  ASSUME IInv, FlushFails, UNCHANGED <<cacheVars, abandoned>>
  PROVE  BootBlockIsClean' /\ CleanBufferIsOnCard' /\ MirrorBelongsToBuffer' /\ FatCopiesAgree'
<1> USE DEF IInv
<1>1. BootBlockIsClean' /\ CleanBufferIsOnCard' /\ MirrorBelongsToBuffer'
  BY DEF FlushFails, cacheVars, BootBlockIsClean, CleanBufferIsOnCard, MirrorBelongsToBuffer
<1>2. CASE UNCHANGED disk
  BY <1>1, <1>2 DEF FatCopiesAgree, cacheVars
<1>3. ASSUME cacheDirty_, NEW w \in PartialFlush, disk' = Store(w, cacheBuffer_)
      PROVE  FatCopiesAgree'
  <2>1. Agree(disk', PendingMirror)
    BY <1>3, PartialFlushConsistent
  <2>2. \A b \in PendingMirror : FatCount > 1 =>
           cacheBlockNumber_ = b /\ cacheMirrorBlock_ = Mirror(b)
    BY BlocksAssumption DEF PendingMirror, MirrorBelongsToBuffer, LogicalBlock
  <2> QED
    BY <2>1, <2>2 DEF FatCopiesAgree, Agree, cacheVars
<1> QED
  BY <1>1, <1>2, <1>3 DEF FlushFails

\* So does a fetch that fails, in its flush or in its read.
LEMMA FetchFailsConsistent ==
  ASSUME IInv, NEW b \in LogicalBlock, FetchFails(b), UNCHANGED abandoned
  PROVE  BootBlockIsClean' /\ CleanBufferIsOnCard' /\ MirrorBelongsToBuffer' /\ FatCopiesAgree'
<1>1. CASE FlushFails /\ UNCHANGED cacheVars
  BY <1>1, FlushFailsConsistent
<1>2. CASE /\ FlushSucceeds
           /\ disk' = FlushedDisk
           /\ cacheDirty_' = FALSE
           /\ cacheMirrorBlock_' = FlushedMirror
           /\ UNCHANGED <<cacheBlockNumber_, cacheBuffer_>>
  BY <1>2, FlushConsistent DEF BootBlockIsClean, CleanBufferIsOnCard, MirrorBelongsToBuffer,
     FatCopiesAgree, Agree
<1> QED
  BY <1>1, <1>2 DEF FetchFails

\* One call, made in a consistent state, leaves a consistent state.
LEMMA ConsistencyStep ==
  ASSUME IInv, Next
  PROVE  IInv'
<1> DEFINE Good == BootBlockIsClean /\ CleanBufferIsOnCard /\ MirrorBelongsToBuffer
                   /\ FatCopiesAgree
<1>0. /\ TypeOK' /\ IInv
      /\ FatBlock \cup ClientBlock \cup {0} = LogicalBlock
      /\ NoBlock \notin LogicalBlock /\ NoBlock # 0
  BY TypeStep, BlocksAssumption DEF IInv, LogicalBlock
<1> USE DEF BootBlockIsClean, CleanBufferIsOnCard, MirrorBelongsToBuffer, FatCopiesAgree
<1>1. ASSUME NEW b \in LogicalBlock, ReadCached(b) PROVE Good'
  BY <1>1, FetchConsistent DEF ReadCached
<1>2. ASSUME NEW b \in LogicalBlock,
             ReadCachedFails(b) \/ PatchFails(b)
      PROVE  Good'
  BY <1>2, FetchFailsConsistent DEF ReadCachedFails, PatchFails
<1>3. ASSUME NEW b \in ClientBlock, ReadDirect(b) \/ ReadDirectFails(b) PROVE Good'
  <2>1. UNCHANGED <<disk, cacheVars, abandoned>>
    BY <1>3 DEF ReadDirect, ReadDirectFails
  <2> QED
    BY <2>1 DEF cacheVars, IInv
<1>4. ASSUME NEW b \in FatBlock, NEW p \in Part, NEW v \in Value, FatPut(b, p, v)
      PROVE  Good'
  <2>1. b \in LogicalBlock /\ b # 0 /\ b # NoBlock
    BY <1>0, BlocksAssumption
  <2>2. FatCount > 1 => Mirror(b) # 0
    BY MirrorFacts
  <2> QED
    BY <1>4, <2>1, <2>2, FetchConsistent DEF FatPut
<1>5. ASSUME NEW b \in ClientBlock, NEW p \in Part, NEW v \in Value, WriteCached(b, p, v)
      PROVE  Good'
  <2>1. b \in LogicalBlock /\ b # 0 /\ b # NoBlock /\ b \notin FatBlock
    BY <1>0, BlocksAssumption
  <2> QED
    BY <1>5, <2>1, FetchConsistent DEF WriteCached
<1>6. ASSUME NEW b \in ClientBlock,
             CacheZeroBlock(b) \/ \E v \in Value : WriteFresh(b, v)
      PROVE  Good'
  <2>1. b # 0 /\ b \notin FatBlock
    BY BlocksAssumption
  <2>2. FlushSucceeds /\ disk' = FlushedDisk /\ cacheDirty_' = TRUE
        /\ cacheMirrorBlock_' = 0 /\ cacheBlockNumber_' = b /\ UNCHANGED abandoned
    BY <1>6, FlushConsistent DEF CacheZeroBlock, WriteFresh
  <2> QED
    BY <2>1, <2>2, FlushConsistent DEF Agree
<1>7. ASSUME NEW b \in ClientBlock, ReplaceCachedFails(b) PROVE Good'
  BY <1>7, FlushFailsConsistent DEF ReplaceCachedFails
<1>8. ASSUME NEW b \in ClientBlock, NEW c \in Content, WriteFull(b, c) \/ WriteFullFails(b, c)
      PROVE  Good'
  <2>1. b \in Block /\ b \notin FatBlock /\ b \notin MirrorBlock
    BY <1>0, BlocksAssumption DEF LogicalBlock
  <2>2. disk' \in {disk, Store({b}, c)} /\ cacheBlockNumber_' = InvalidatedNumber(b)
        /\ UNCHANGED <<cacheBuffer_, cacheDirty_, cacheMirrorBlock_, abandoned>>
    BY <1>8 DEF WriteFull, WriteFullFails
  <2>3. \A x \in Block \ {b} : disk'[x] = disk[x]
    BY <2>2 DEF Store
  <2>4. BootBlockIsClean' /\ MirrorBelongsToBuffer'
    BY <1>0, <2>1, <2>2 DEF InvalidatedNumber, Hit, IInv
  <2>5. CleanBufferIsOnCard'
    BY <1>0, <2>2, <2>3, BlocksAssumption DEF InvalidatedNumber, Hit, IInv, TypeOK
  <2>6. FatCopiesAgree'
    <3>1. ASSUME FatCount > 1, NEW x \in FatBlock
          PROVE  disk'[Mirror(x)] = disk[Mirror(x)] /\ disk'[x] = disk[x]
      BY <2>1, <2>3, <3>1, MirrorFacts DEF MirrorBlock
    <3>2. \A x \in FatBlock : cacheBlockNumber_ = x => cacheBlockNumber_' = x
      BY <2>1, <2>2 DEF InvalidatedNumber, Hit
    <3> QED
      BY <2>2, <3>1, <3>2 DEF IInv
  <2> QED
    BY <2>4, <2>5, <2>6
<1>9. ASSUME Sync PROVE Good'
  BY <1>9, FlushConsistent DEF Sync, Agree, IInv
<1>10. ASSUME SyncFails PROVE Good'
  BY <1>10, FlushFailsConsistent DEF SyncFails
<1>11. ASSUME CacheClear PROVE Good'
  <2>1. CASE FlushSucceeds /\ disk' = FlushedDisk /\ cacheDirty_' = FALSE
             /\ cacheMirrorBlock_' = FlushedMirror /\ UNCHANGED abandoned
    BY <1>0, <1>11, <2>1, FlushConsistent DEF CacheClear, Agree
  <2>2. CASE FlushFails /\ abandoned' = abandoned \cup PendingMirror
             /\ UNCHANGED <<cacheDirty_, cacheMirrorBlock_>>
    <3>1. Agree(disk', PendingMirror)
      <4>1. CASE UNCHANGED disk
        BY <4>1, PendingOnly DEF Agree
      <4>2. CASE \E w \in PartialFlush : disk' = Store(w, cacheBuffer_)
        BY <2>2, <4>2, PartialFlushConsistent DEF FlushFails
      <4> QED
        BY <2>2, <4>1, <4>2 DEF FlushFails
    <3> QED
      BY <1>0, <1>11, <2>2, <3>1 DEF CacheClear, Agree, IInv, FlushFails
  <2> QED
    BY <1>11, <2>1, <2>2 DEF CacheClear
<1>12. ASSUME PowerLoss PROVE Good'
  <2>1. Agree(disk', PendingMirror)
    <3>1. CASE cacheDirty_
      BY <1>12, <3>1, PartialFlushConsistent DEF PowerLoss
    <3>2. CASE ~cacheDirty_
      <4>1. disk' = disk
        BY <1>12, <3>2 DEF PowerLoss
      <4> QED
        BY <4>1, PendingOnly DEF Agree
    <3> QED
      BY <3>1, <3>2
  <2> QED
    BY <1>0, <1>12, <2>1 DEF PowerLoss, Agree
<1>13. Good'
  <2>1. ClientBlock \subseteq LogicalBlock /\ FatBlock \cup ClientBlock \subseteq LogicalBlock
    BY DEF LogicalBlock
  <2> QED
    BY <1>1, <1>2, <1>3, <1>4, <1>5, <1>6, <1>7, <1>8, <1>9, <1>10, <1>11, <1>12, <2>1 DEF Next
<1> QED
  BY <1>0, <1>13 DEF IInv

\* The program starts in a consistent state.
LEMMA InitIInv ==
  ASSUME Init
  PROVE  IInv
BY InitType, BlocksAssumption DEF Init, IInv, BootBlockIsClean, CleanBufferIsOnCard,
   MirrorBelongsToBuffer, FatCopiesAgree

\* Consistency is about the variables of the cache only.
LEMMA StutterIInv ==
  ASSUME IInv, UNCHANGED vars
  PROVE  IInv'
BY DEF vars, cacheVars, IInv, TypeOK, BootBlockIsClean, CleanBufferIsOnCard,
   MirrorBelongsToBuffer, FatCopiesAgree

\* In every reachable state the clean buffer is on the card, a pending mirror
\* address belongs to the buffered FAT block, and the two FATs differ only
\* where the cache still owes the mirror write or gave it up.
THEOREM Consistency == Spec => [](CleanBufferIsOnCard /\ MirrorBelongsToBuffer /\ FatCopiesAgree)
<1>1. Init => IInv
  BY InitIInv
<1>2. IInv /\ [Next]_vars => IInv'
  BY ConsistencyStep, StutterIInv
<1>3. IInv => CleanBufferIsOnCard /\ MirrorBelongsToBuffer /\ FatCopiesAgree
  BY DEF IInv
<1> QED
  BY <1>1, <1>2, <1>3, PTL DEF Spec

\* So a clean buffer may be replaced without a write, which is what
\* cacheRawBlock (SpiSdVolume.cpp 129-143) does.
THEOREM CleanBufferSafe == Spec => []CleanBufferIsOnCard
BY Consistency, PTL

\* And a flush of one block never writes the mirror of another
\* (cacheFlush, SpiSdVolume.cpp 109-127).
THEOREM MirrorSafe == Spec => []MirrorBelongsToBuffer
BY Consistency, PTL

-----------------------------------------------------------------------------
(* The cache implements the memory of blocks. *)

\* What is read and what is stable are contents of the logical blocks.
LEMMA ViewType ==
  ASSUME TypeOK
  PROVE  /\ view \in [LogicalBlock -> Content] /\ stable \in [LogicalBlock -> Content]
         /\ \A x \in LogicalBlock : /\ stable[x] = disk[x]
                                    /\ view[x] = IF Hit(x) THEN cacheBuffer_ ELSE disk[x]
BY BlocksAssumption DEF TypeOK, view, stable

\* A flush that succeeds makes what is stable what is read.
LEMMA FlushView ==
  ASSUME IInv, FlushSucceeds
  PROVE  \A x \in LogicalBlock : FlushedDisk[x] = view[x]
<1>1. SUFFICES ASSUME NEW x \in LogicalBlock PROVE FlushedDisk[x] = view[x]
  OBVIOUS
<1>2. TypeOK /\ x \in Block /\ x # NoBlock /\ x \notin MirrorBlock
  BY BlocksAssumption DEF IInv
<1>3. CASE Hit(x)
  BY <1>2, <1>3, FlushConsistent, ViewType DEF Hit
<1>4. CASE ~Hit(x)
  <2>1. x \notin FlushTargets
    BY <1>2, <1>4 DEF Hit, FlushTargets, TypeOK
  <2> QED
    BY <1>2, <1>4, <2>1, ViewType DEF FlushedDisk, Store
<1> QED
  BY <1>3, <1>4

\* A flush that is cut short writes nothing but the buffered block back.
LEMMA PartialFlushView ==
  ASSUME IInv, NEW w \in PartialFlush, NEW x \in LogicalBlock
  PROVE  Store(w, cacheBuffer_)[x] \in {stable[x], view[x]}
<1>1. TypeOK /\ x \in Block /\ x \notin MirrorBlock
  BY BlocksAssumption DEF IInv
<1>2. x \in w => Hit(x)
  BY <1>1 DEF PartialFlush, FlushTargets, Hit, TypeOK
<1> QED
  BY <1>1, <1>2, ViewType DEF Store

\* Writing blocks back, and nothing else, is what a fetch does to the card.
LEMMA FetchView ==
  ASSUME IInv, NEW b \in LogicalBlock, FetchSucceeds(b), FetchDisk(b)
  PROVE  /\ Fetched(b) = view[b]
         /\ \A x \in LogicalBlock : /\ disk'[x] \in {stable[x], view[x]}
                                    /\ x # b => disk'[x] = view[x]
<1>1. CASE Hit(b)
  <2>1. \A x \in LogicalBlock : x # b => ~Hit(x)
    BY <1>1 DEF Hit
  <2> QED
    BY <1>1, <2>1, ViewType DEF Fetched, FetchDisk, IInv
<1>2. CASE ~Hit(b)
  BY <1>2, FlushView DEF Fetched, FetchDisk, FetchSucceeds
<1> QED
  BY <1>1, <1>2

\* A flush that fails, with the buffer kept, writes back at most the buffer.
LEMMA FlushFailsView ==
  ASSUME IInv, TypeOK', FlushFails, UNCHANGED cacheVars
  PROVE  view' = view /\ BS!WriteBack(stable')
<1>1. \A x \in LogicalBlock : disk'[x] \in {stable[x], view[x]}
  BY PartialFlushView, ViewType DEF FlushFails, IInv
<1>2. \A x \in LogicalBlock : stable'[x] = disk'[x]
  BY BlocksAssumption DEF stable
<1>3. stable' \in [LogicalBlock -> Content]
  BY BlocksAssumption DEF stable, TypeOK
<1>4. BS!WriteBack(stable')
  BY <1>1, <1>2, <1>3 DEF BS!WriteBack, BS!Content, Content
<1>5. \A x \in LogicalBlock : ~Hit(x) => disk'[x] = disk[x]
  BY <1>1, ViewType DEF IInv
<1> QED
  BY <1>4, <1>5 DEF view, Hit, cacheVars

\* The same for a fetch that fails.
LEMMA FetchFailsView ==
  ASSUME IInv, TypeOK', NEW b \in LogicalBlock, FetchFails(b)
  PROVE  view' = view /\ BS!WriteBack(stable')
<1>1. CASE FlushFails /\ UNCHANGED cacheVars
  BY <1>1, FlushFailsView
<1>2. CASE FlushSucceeds /\ disk' = FlushedDisk /\ UNCHANGED <<cacheBlockNumber_, cacheBuffer_>>
  <2>1. \A x \in LogicalBlock : disk'[x] = view[x]
    BY <1>2, FlushView
  <2>2. stable' \in [LogicalBlock -> Content]
    BY BlocksAssumption DEF stable, TypeOK
  <2>3. BS!WriteBack(stable')
    BY <2>1, <2>2, BlocksAssumption DEF BS!WriteBack, BS!Content, Content, stable
  <2>4. view' = view
    BY <1>2, <2>1, ViewType DEF view, Hit, IInv
  <2> QED
    BY <2>3, <2>4
<1> QED
  BY <1>1, <1>2 DEF FetchFails

\* A card that took some of the buffered blocks is a legal write-back.
LEMMA WriteBackView ==
  ASSUME TypeOK', \A x \in LogicalBlock : disk'[x] \in {stable[x], view[x]}
  PROVE  BS!WriteBack(stable')
<1>1. stable' \in [LogicalBlock -> Content] /\ \A x \in LogicalBlock : stable'[x] = disk'[x]
  BY BlocksAssumption DEF stable, TypeOK
<1> QED
  BY <1>1 DEF BS!WriteBack, BS!Content, Content

\* After a call that fetched b only the view of b may have changed.
LEMMA FetchedView ==
  ASSUME IInv, TypeOK', NEW b \in LogicalBlock, NEW c \in Content,
         FetchSucceeds(b), FetchDisk(b), cacheBlockNumber_' = b, cacheBuffer_' = c
  PROVE  /\ BS!WriteBack(stable')
         /\ view' = [view EXCEPT ![b] = c]
<1>1. BS!WriteBack(stable')
  BY FetchView, WriteBackView
<1>2. \A x \in LogicalBlock : view'[x] = IF x = b THEN c ELSE disk'[x]
  BY DEF view, Hit
<1>3. \A x \in LogicalBlock : x # b => disk'[x] = view[x]
  BY FetchView
<1>4. view' \in [LogicalBlock -> Content] /\ view \in [LogicalBlock -> Content]
  BY ViewType, BlocksAssumption DEF view, Hit, TypeOK, IInv
<1> QED
  BY <1>1, <1>2, <1>3, <1>4

\* So it is for a call that flushed and gave the buffer to b.
LEMMA ReplacedView ==
  ASSUME IInv, TypeOK', NEW b \in LogicalBlock, NEW c \in Content,
         FlushSucceeds, disk' = FlushedDisk, cacheBlockNumber_' = b, cacheBuffer_' = c
  PROVE  /\ view' = [view EXCEPT ![b] = c]
         /\ stable' \in [LogicalBlock -> Content]
         /\ \A x \in LogicalBlock : stable'[x] \in {stable[x], view[x]}
<1>1. \A x \in LogicalBlock : disk'[x] = view[x]
  BY FlushView
<1>2. \A x \in LogicalBlock : view'[x] = IF x = b THEN c ELSE disk'[x]
  BY DEF view, Hit
<1>3. view' \in [LogicalBlock -> Content] /\ view \in [LogicalBlock -> Content]
  BY ViewType, BlocksAssumption DEF view, Hit, TypeOK, IInv
<1>4. stable' \in [LogicalBlock -> Content] /\ \A x \in LogicalBlock : stable'[x] = disk'[x]
  BY BlocksAssumption DEF stable, TypeOK
<1> QED
  BY <1>1, <1>2, <1>3, <1>4

\* One call of the cache is a step of the memory of blocks.
LEMMA RefinementStep ==
  ASSUME IInv, TypeOK', Next
  PROVE  BS!Next
<1> USE DEF BS!Reply, Reply
<1>0. FatBlock \cup ClientBlock \cup {0} = LogicalBlock /\ NoBlock \notin LogicalBlock
  BY BlocksAssumption DEF LogicalBlock
<1>1. ASSUME NEW b \in LogicalBlock, ReadCached(b) PROVE BS!Read(b)
  <2>1. Fetched(b) = view[b] /\ Fetched(b) \in Content
    BY <1>1, FetchView, FetchType DEF ReadCached, IInv
  <2>2. BS!WriteBack(stable') /\ view' = [view EXCEPT ![b] = Fetched(b)]
    BY <1>1, <2>1, FetchedView DEF ReadCached
  <2>3. view' = view
    BY <2>1, <2>2, ViewType DEF IInv
  <2> QED
    BY <1>1, <2>1, <2>2, <2>3 DEF ReadCached, BS!Read
<1>2. ASSUME NEW b \in LogicalBlock, ReadCachedFails(b) PROVE BS!Fail("read", b)
  BY <1>2, FetchFailsView DEF ReadCachedFails, BS!Fail
<1>3. ASSUME NEW b \in ClientBlock, ReadDirect(b) PROVE BS!Read(b)
  <2>1. b \in LogicalBlock /\ UNCHANGED <<view, stable>>
    BY <1>0, <1>3 DEF ReadDirect, cacheVars, view, stable, Hit
  <2>2. BS!WriteBack(stable')
    BY <2>1, ViewType DEF BS!WriteBack, BS!Content, Content, IInv
  <2>3. disk[b] = view[b]
    BY <1>3, <2>1, ViewType DEF ReadDirect, IInv
  <2> QED
    BY <1>3, <2>1, <2>2, <2>3 DEF ReadDirect, BS!Read
<1>4. ASSUME NEW b \in ClientBlock, ReadDirectFails(b) PROVE BS!Fail("read", b)
  <2>1. b \in LogicalBlock /\ UNCHANGED <<view, stable>>
    BY <1>0, <1>4 DEF ReadDirectFails, cacheVars, view, stable, Hit
  <2>2. BS!WriteBack(stable')
    BY <2>1, ViewType DEF BS!WriteBack, BS!Content, Content, IInv
  <2> QED
    BY <1>4, <2>1, <2>2 DEF ReadDirectFails, BS!Fail
<1>5. ASSUME NEW b \in FatBlock \cup ClientBlock, NEW p \in Part, NEW v \in Value,
             FatPut(b, p, v) \/ WriteCached(b, p, v)
      PROVE  BS!Patch(b)
  <2>1. b \in LogicalBlock
    BY <1>0
  <2>2. Fetched(b) = view[b] /\ Fetched(b) \in Content
    BY <1>5, <2>1, FetchView, FetchType DEF FatPut, WriteCached, IInv
  <2> DEFINE c == [Fetched(b) EXCEPT ![p] = v]
  <2>3. c \in Content
    BY <2>2, PatchType
  <2>4. BS!WriteBack(stable') /\ view' = [view EXCEPT ![b] = c]
    BY <1>5, <2>1, <2>3, FetchedView DEF FatPut, WriteCached
  <2>5. view' = [view EXCEPT ![b] = [@ EXCEPT ![p] = v]]
    BY <2>2, <2>4
  <2>6. reply' = BS!Reply("patch", b, TRUE, NoData)
    BY <1>5 DEF FatPut, WriteCached
  <2> QED
    BY <2>4, <2>5, <2>6 DEF BS!Patch
<1>6. ASSUME NEW b \in FatBlock \cup ClientBlock, PatchFails(b) PROVE BS!Fail("patch", b)
  BY <1>0, <1>6, FetchFailsView DEF PatchFails, BS!Fail
<1>7. ASSUME NEW b \in ClientBlock,
             CacheZeroBlock(b) \/ \E v \in Value : WriteFresh(b, v)
      PROVE  BS!Replace(b)
  <2>1. b \in LogicalBlock
    BY <1>0
  <2>2. PICK c \in Content : cacheBuffer_' = c
    BY DEF TypeOK
  <2>3. /\ FlushSucceeds /\ disk' = FlushedDisk /\ cacheBlockNumber_' = b
        /\ reply' = Reply("replace", b, TRUE, NoData)
    BY <1>7 DEF CacheZeroBlock, WriteFresh
  <2> QED
    BY <2>1, <2>2, <2>3, ReplacedView DEF BS!Replace, BS!Content, Content
<1>8. ASSUME NEW b \in ClientBlock, ReplaceCachedFails(b) PROVE BS!Fail("replace", b)
  BY <1>8, FlushFailsView DEF ReplaceCachedFails, BS!Fail
<1>9. ASSUME NEW b \in ClientBlock, NEW c \in Content, WriteFull(b, c) PROVE BS!Replace(b)
  <2>1. b \in LogicalBlock /\ b \in Block
    BY <1>0, BlocksAssumption
  <2>2. \A x \in LogicalBlock : disk'[x] = IF x = b THEN c ELSE disk[x]
    BY <1>9, BlocksAssumption DEF WriteFull, Store
  <2>3. \A x \in LogicalBlock : x # b => (Hit(x)' <=> Hit(x))
    BY <1>0, <1>9, <2>1 DEF WriteFull, InvalidatedNumber, Hit
  <2>4. ~Hit(b)'
    BY <1>0, <1>9, <2>1 DEF WriteFull, InvalidatedNumber, Hit
  <2>5. \A x \in LogicalBlock : view'[x] = IF x = b THEN c ELSE view[x]
    BY <1>9, <2>2, <2>3, <2>4, ViewType DEF WriteFull, view, IInv
  <2>6. view \in [LogicalBlock -> Content] /\ view' \in [LogicalBlock -> Content]
        /\ stable' \in [LogicalBlock -> Content]
    BY ViewType, BlocksAssumption DEF IInv, view, stable, TypeOK, Hit
  <2>7. view' = [view EXCEPT ![b] = c]
    BY <2>1, <2>5, <2>6
  <2>8. \A x \in LogicalBlock : stable'[x] = IF x = b THEN view'[b] ELSE stable[x]
    BY <2>2, <2>5, <2>1, ViewType DEF stable, IInv
  <2> QED
    BY <1>9, <2>6, <2>7, <2>8 DEF WriteFull, BS!Replace, BS!Content, Content
<1>10. ASSUME NEW b \in ClientBlock, NEW c \in Content, WriteFullFails(b, c)
       PROVE  BS!ReplaceFails(b)
  <2>1. b \in LogicalBlock /\ b \in Block
    BY <1>0, BlocksAssumption
  <2>2. \A x \in LogicalBlock : x # b => disk'[x] = disk[x]
    BY <1>10, BlocksAssumption DEF WriteFullFails, Store
  <2>3. \A x \in LogicalBlock : x # b => (Hit(x)' <=> Hit(x))
    BY <1>0, <1>10, <2>1 DEF WriteFullFails, InvalidatedNumber, Hit
  <2>4. ~Hit(b)'
    BY <1>0, <1>10, <2>1 DEF WriteFullFails, InvalidatedNumber, Hit
  <2>5. \A x \in LogicalBlock : view'[x] = IF x = b THEN disk'[b] ELSE view[x]
    BY <1>10, <2>2, <2>3, <2>4, ViewType DEF WriteFullFails, view, IInv
  <2>6. view \in [LogicalBlock -> Content] /\ view' \in [LogicalBlock -> Content]
        /\ stable \in [LogicalBlock -> Content] /\ stable' \in [LogicalBlock -> Content]
    BY ViewType, BlocksAssumption DEF IInv, view, stable, TypeOK, Hit
  <2>7. \A x \in LogicalBlock : stable'[x] = disk'[x] /\ stable[x] = disk[x]
    BY BlocksAssumption DEF stable
  <2>8. stable' = [stable EXCEPT ![b] = disk'[b]] /\ view' = [view EXCEPT ![b] = stable'[b]]
    BY <2>1, <2>2, <2>5, <2>6, <2>7
  <2>9. disk'[b] \in Content
    BY <2>1 DEF TypeOK
  <2> QED
    BY <1>10, <2>8, <2>9 DEF WriteFullFails, BS!ReplaceFails, BS!Content, Content
<1>11. ASSUME Sync PROVE BS!Sync
  <2>1. \A x \in LogicalBlock : disk'[x] = view[x]
    BY <1>11, FlushView DEF Sync
  <2>2. stable' = view
    BY <2>1, ViewType DEF stable, IInv
  <2>3. view' = view
    BY <1>11, <2>1, ViewType DEF Sync, view, Hit, IInv
  <2> QED
    BY <1>11, <2>2, <2>3 DEF Sync, BS!Sync
<1>12. ASSUME SyncFails PROVE BS!Fail("sync", NoBlock)
  BY <1>12, FlushFailsView DEF SyncFails, BS!Fail
<1>13. ASSUME CacheClear \/ PowerLoss PROVE BS!Forget
  <2>1. \A x \in LogicalBlock : disk'[x] \in {stable[x], view[x]}
    <3>1. CASE disk' = disk
      BY <3>1, ViewType DEF IInv
    <3>2. CASE FlushSucceeds /\ disk' = FlushedDisk
      BY <3>2, FlushView
    <3>3. CASE \E w \in PartialFlush : disk' = Store(w, cacheBuffer_)
      BY <3>3, PartialFlushView
    <3> QED
      BY <1>13, <3>1, <3>2, <3>3 DEF CacheClear, PowerLoss, FlushFails
  <2>2. cacheBlockNumber_' = NoBlock /\ reply' = Reply("boot", NoBlock, TRUE, NoData)
    BY <1>13 DEF CacheClear, PowerLoss
  <2>3. view' = stable'
    BY <1>0, <2>2 DEF view, stable, Hit
  <2> QED
    BY <2>1, <2>2, <2>3, WriteBackView DEF BS!Forget
<1> QED
  BY <1>0, <1>1, <1>2, <1>3, <1>4, <1>5, <1>6, <1>7, <1>8, <1>9, <1>10, <1>11, <1>12, <1>13
  DEF Next, BS!Next

\* The cache refines the memory of blocks for every card and geometry: reads
\* return the last write, and a sync that answers success makes it stable.
THEOREM Refinement == Spec => ImplementsBlockStore
<1>1. Init => BS!Init
  BY ViewType, InitType, BlocksAssumption
  DEF Init, BS!Init, BS!Content, Content, view, stable, Hit, LogicalBlock, BS!Reply, Reply
<1>2. IInv /\ TypeOK' /\ [Next]_vars => [BS!Next]_BS!vars
  <2>1. UNCHANGED vars => UNCHANGED BS!vars
    BY DEF vars, cacheVars, BS!vars, view, stable, Hit
  <2> QED
    BY <2>1, RefinementStep
<1>3. Init => IInv
  BY InitIInv
<1>4. IInv /\ [Next]_vars => IInv'
  BY ConsistencyStep, StutterIInv
<1>5. IInv => TypeOK
  BY DEF IInv
<1> QED
  BY <1>1, <1>2, <1>3, <1>4, <1>5, PTL DEF Spec, ImplementsBlockStore, BS!Spec

=============================================================================
