------------------------------- MODULE Volume -------------------------------
(***************************************************************************)
(* Mounting a card: SpiSDClass::begin, SpiSdVolume::init and openRoot.      *)
(*                                                                         *)
(* begin() reads the partition table and the boot sector through the same   *)
(* buffer as everything else, computes where the parts of the volume are    *)
(* and opens the root.  Each access may be refused, begin() may be called   *)
(* again after it failed or succeeded, and while it has not succeeded the   *)
(* card may be exchanged.  Nothing of this resets the buffer or the handle  *)
(* on the root.  A card is what its blocks say when they are taken for a    *)
(* partition table or a boot sector; one step is one block access.          *)
(***************************************************************************)
EXTENDS Integers, FiniteSets

CONSTANTS
  Cards,           \* the cards: block 0 as a partition table, whether its first partition is
                   \* valid and where it begins; the blocks that are boot sectors; the
                   \* size of the root, in entries
  EntriesPerBlock, \* directory entries in a block: 16
  Fat12End,        \* the least number of clusters of FAT16: 4085
  Fat16End,        \* and of FAT32: 65525
  MaxShift,        \* the largest cluster has 2^MaxShift blocks: 7
  MaxRefused       \* bound: how many accesses may be refused

\* What a block says as a boot sector.
BootSector ==
  [blockSize : {0, 512}, fats : Nat, reserved : Nat, perCluster : Nat, perFat16 : Nat, perFat32 : Nat,
   rootEntries : Nat, total16 : Nat, total32 : Nat, rootCluster : Nat]

\* A block that is none.
NoBoot ==
  [blockSize |-> 0, fats |-> 0, reserved |-> 0, perCluster |-> 0, perFat16 |-> 0, perFat32 |-> 0,
   rootEntries |-> 0, total16 |-> 0, total32 |-> 0, rootCluster |-> 0]

NoBlock == -1

\* The block a card's boot sector has to be at.
BootBlock(card) == IF card.table.valid THEN card.table.first ELSE 0

\* No other block of a card may be taken for a boot sector: what a card keeps
\* of an earlier formatting, and the copy FAT32 has of its own, are left out.
ASSUME VolumeAssumption ==
  /\ \A card \in Cards :
       /\ card.table \in [valid : BOOLEAN, first : Nat] /\ card.rootSize \in Nat
       /\ card.table.valid => card.table.first # 0
       /\ DOMAIN card.boot \subseteq {BootBlock(card)}
       /\ \A b \in DOMAIN card.boot : card.boot[b] \in BootSector
  /\ EntriesPerBlock \in Nat \ {0}
  /\ {Fat12End, Fat16End, MaxShift, MaxRefused} \subseteq Nat

VARIABLES
  inserted,       \* the card in the slot
  cached,         \* cacheBlockNumber_, and the card the buffer was read from
  part, start,    \* init: the partition it tries and its first block
  vol,            \* the fields init() computes
  root,           \* type_ and fileSize_ (in entries) of the handle on the root
  stage,          \* where begin() is
  began,          \* what the last begin() returned
  mounted,        \* history: begin() has returned true
  refused,        \* history: how many accesses have been refused
  trouble         \* history: one of them in the call in progress, or in the last

volumeVars == <<inserted, cached, part, start, vol, root, stage, began, mounted, refused, trouble>>

NoVolume ==
  [fatCount |-> 0, blocksPerCluster |-> 0, clusterSizeShift |-> 0, blocksPerFat |-> 0, fatStart |-> 0,
   rootEntries |-> 0, rootStart |-> 0, dataStart |-> 0, clusterCount |-> 0, fatType |-> 0]

VolumeInit ==
  /\ inserted \in Cards
  /\ cached = [number |-> NoBlock, card |-> inserted]
  /\ part = 1 /\ start = 0
  /\ vol = NoVolume
  /\ root = [type |-> "closed", size |-> 0]
  /\ stage = "idle" /\ began = FALSE /\ mounted = FALSE
  /\ refused = 0 /\ trouble = FALSE

-----------------------------------------------------------------------------
(* The computation of the geometry. *)

BootAt(card, b) == IF b \in DOMAIN card.boot THEN card.boot[b] ELSE NoBoot

FirstPart(card, b) == IF b = 0 THEN card.table ELSE [valid |-> FALSE, first |-> 0]

Shifts == 0 .. MaxShift

\* The tests of init(): what it takes for a boot sector.
IsBoot(b) ==
  /\ b.blockSize = 512
  /\ b.fats # 0 /\ b.reserved # 0 /\ b.perCluster # 0

\* The shift its loop finds, if there is one.
HasShift(b) == \E s \in Shifts : b.perCluster = 2 ^ s

Shift(b) == CHOOSE s \in Shifts : b.perCluster = 2 ^ s

PerFat(b) == IF b.perFat16 # 0 THEN b.perFat16 ELSE b.perFat32

Total(b) == IF b.total16 # 0 THEN b.total16 ELSE b.total32

\* Slip: a last block of the root that is not full is not counted.
RootBlocksDown(b) == b.rootEntries \div EntriesPerBlock

RootBlocks(b) == (b.rootEntries + EntriesPerBlock - 1) \div EntriesPerBlock

FatType(clusters) ==
  CASE clusters < Fat12End -> 12
    [] clusters >= Fat12End /\ clusters < Fat16End -> 16
    [] clusters >= Fat16End -> 32

\* What init() computes from boot sector b at block first.
Geometry(b, first) ==
  LET fatStart == first + b.reserved
      behindFats == fatStart + b.fats * PerFat(b)
      dataStart == behindFats + RootBlocks(b)
      clusters == (Total(b) - (dataStart - first)) \div b.perCluster
  IN [fatCount |-> b.fats, blocksPerCluster |-> b.perCluster, clusterSizeShift |-> Shift(b),
      blocksPerFat |-> PerFat(b), fatStart |-> fatStart, rootEntries |-> b.rootEntries,
      rootStart |-> IF FatType(clusters) = 32 THEN b.rootCluster ELSE behindFats,
      dataStart |-> dataStart, clusterCount |-> clusters, fatType |-> FatType(clusters)]

-----------------------------------------------------------------------------
(* Accesses. *)

Hit(b) == cached.number = b

\* The card whose block b the buffer has once b was asked for.
Source(b) == IF Hit(b) THEN cached.card ELSE inserted

\* cacheRawBlock succeeds: the block is in the buffer, or is read into it.
Fetches(b) ==
  /\ cached' = [number |-> b, card |-> Source(b)]
  /\ UNCHANGED <<refused, trouble>>

\* Something refuses to go on; the buffer keeps its block.
Refusal ==
  /\ refused < MaxRefused
  /\ refused' = refused + 1 /\ trouble' = TRUE
  /\ UNCHANGED cached

RefusesBlock(b) == ~Hit(b) /\ Refusal

\* begin() returns r.
Reply(r) ==
  /\ stage' = "idle" /\ began' = r
  /\ mounted' = (mounted \/ r)
  /\ part' = 1 /\ start' = 0

goesOn == <<began, mounted>>

-----------------------------------------------------------------------------
(* begin(). *)

\* Another card is put in; while begin() has not succeeded.
Insert(card) ==
  /\ stage = "idle" /\ ~mounted /\ card # inserted
  /\ inserted' = card
  /\ trouble' = FALSE
  /\ UNCHANGED <<cached, part, start, vol, root, stage, began, mounted, refused>>

\* begin() is called: card.init() and setSpiClock().
Begin ==
  /\ stage = "idle"
  /\ \/ /\ trouble' = FALSE
        /\ stage' = "table" /\ part' = 1 /\ start' = 0
        /\ UNCHANGED <<cached, refused, goesOn>>
     \/ Refusal /\ Reply(FALSE)
  /\ UNCHANGED <<inserted, vol, root>>

\* init(dev, 0) after init(dev, 1) has failed.
TrySuperFloppy ==
  /\ part' = 0 /\ start' = 0 /\ stage' = "boot"
  /\ UNCHANGED goesOn

\* init(dev, 1) reads the partition table.
ReadTable ==
  /\ stage = "table"
  /\ \/ /\ Fetches(0)
        /\ LET p == FirstPart(Source(0), 0)
           IN IF p.valid
                THEN /\ start' = p.first /\ stage' = "boot"
                     /\ UNCHANGED <<part, goesOn>>
                ELSE TrySuperFloppy
     \/ RefusesBlock(0) /\ TrySuperFloppy
  /\ UNCHANGED <<inserted, vol, root>>

\* init() has failed with this partition.
PartFails == IF part = 1 THEN TrySuperFloppy ELSE Reply(FALSE)

\* init() reads the boot sector; it sets three fields before it finds that the
\* size of a cluster is no power of two.
ReadBoot ==
  /\ stage = "boot"
  /\ \/ /\ Fetches(start)
        /\ LET b == BootAt(Source(start), start)
           IN \/ ~IsBoot(b) /\ PartFails /\ UNCHANGED vol
              \/ /\ IsBoot(b) /\ ~HasShift(b)
                 /\ vol' = [vol EXCEPT !.fatCount = b.fats, !.blocksPerCluster = b.perCluster,
                                       !.clusterSizeShift = MaxShift + 2]
                 /\ PartFails
              \/ /\ IsBoot(b) /\ HasShift(b)
                 /\ vol' = Geometry(b, start)
                 /\ stage' = "root"
                 /\ UNCHANGED <<part, start, goesOn>>
     \/ RefusesBlock(start) /\ PartFails /\ UNCHANGED vol
  /\ UNCHANGED <<inserted, root>>

\* The boot sector init() must find on a card, and what it then computes.
Sound(card) == LET b == BootAt(card, BootBlock(card)) IN IsBoot(b) /\ HasShift(b)

GeometryOf(card) == Geometry(BootAt(card, BootBlock(card)), BootBlock(card))

\* The size chainSize finds: of the card's root, or nothing sensible if the
\* geometry is not the card's.
RootChain == IF Sound(inserted) /\ vol = GeometryOf(inserted) THEN inserted.rootSize ELSE 0

\* openRoot refuses a handle that is open, or FAT12.
OpenRootFails ==
  /\ stage = "root"
  /\ root.type # "closed" \/ vol.fatType = 12
  /\ Reply(FALSE)
  /\ UNCHANGED <<inserted, cached, vol, root, refused, trouble>>

OpenRoot16 ==
  /\ stage = "root"
  /\ root.type = "closed" /\ vol.fatType = 16
  /\ root' = [type |-> "root16", size |-> vol.rootEntries]
  /\ Reply(TRUE)
  /\ UNCHANGED <<inserted, cached, vol, refused, trouble>>

\* Slip: the type is set when the size is known.
TypeWhenCounted == root

\* The type is set before the clusters of the root are counted.
TypeWhenRefused == [root EXCEPT !.type = "root32"]

OpenRoot32 ==
  /\ stage = "root"
  /\ root.type = "closed" /\ vol.fatType = 32
  /\ \/ /\ Fetches(vol.fatStart)
        /\ root' = [type |-> "root32", size |-> RootChain]
        /\ Reply(TRUE)
     \/ /\ RefusesBlock(vol.fatStart)
        /\ root' = TypeWhenRefused
        /\ Reply(FALSE)
  /\ UNCHANGED <<inserted, vol>>

VolumeNext ==
  \/ \E card \in Cards : Insert(card)
  \/ Begin \/ ReadTable \/ ReadBoot
  \/ OpenRootFails \/ OpenRoot16 \/ OpenRoot32

VolumeSpec == VolumeInit /\ [][VolumeNext]_volumeVars

-----------------------------------------------------------------------------
(* Properties. *)

\* Types: the fields and locals of begin(), the handle on the root.
VolumeTypeOK ==
  /\ inserted \in Cards
  /\ cached.card \in Cards /\ cached.number \in Nat \cup {NoBlock}
  /\ part \in {0, 1} /\ start \in Nat
  /\ vol.fatType \in {0, 12, 16, 32}
  /\ root.type \in {"closed", "root16", "root32"} /\ root.size \in Nat
  /\ stage \in {"idle", "table", "boot", "root"}
  /\ began \in BOOLEAN /\ mounted \in BOOLEAN
  /\ refused \in 0 .. MaxRefused /\ trouble \in BOOLEAN

\* Once begin() has returned true the geometry and the open root are those of
\* the card in the slot, whatever was refused before, however often begin()
\* was called and whichever card was in the slot then: neither the buffer nor
\* the handle may carry over what they have of another card (SPISD.cpp:205-208;
\* SpiSdVolume.cpp:24, 281, 295).
BeginMatchesCard ==
  mounted /\ stage = "idle" =>
    /\ Sound(inserted) /\ vol = GeometryOf(inserted)
    /\ root.type = (IF vol.fatType = 16 THEN "root16" ELSE "root32")
    /\ root.size >= (IF vol.fatType = 16 THEN vol.rootEntries ELSE inserted.rootSize)

\* Every part of the mounted volume lies behind the one before and inside the
\* volume: FATs, the root of FAT16 to its last entry, the blocks of the last
\* cluster (SpiSdVolume.cpp:310-334, dataStartBlock_ and clusterCount_).
GeometryIsSound ==
  mounted /\ stage = "idle" =>
    LET b == BootAt(inserted, BootBlock(inserted))
        behindFats == vol.fatStart + vol.fatCount * vol.blocksPerFat
    IN /\ vol.fatStart > BootBlock(inserted)
       /\ \A e \in 0 .. vol.rootEntries - 1 :
            LET block == (IF vol.fatType = 16 THEN vol.rootStart ELSE behindFats) + e \div EntriesPerBlock
            IN behindFats <= block /\ block < vol.dataStart
       /\ \A c \in 2 .. vol.clusterCount + 1 :
            LET first == vol.dataStart + (c - 2) * 2 ^ vol.clusterSizeShift
            IN first + vol.blocksPerCluster <= BootBlock(inserted) + Total(b)

\* A begin() that is refused nothing succeeds on a card with a FAT16 or FAT32
\* volume, whatever earlier attempts met and whichever card was in the slot
\* then: init()'s comment gives as its reasons to fail that there is no valid
\* partition, no valid file system, or an I/O error (SpiSdVolume.cpp:255-258).
FreshBeginSucceeds ==
  [][stage # "idle" /\ stage' = "idle" /\ ~trouble' /\ ~mounted
       /\ Sound(inserted) /\ GeometryOf(inserted).fatType # 12 => began']_volumeVars

=============================================================================
