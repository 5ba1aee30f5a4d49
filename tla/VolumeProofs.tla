----------------------------- MODULE VolumeProofs -----------------------------
(***************************************************************************)
(* Proofs about Volume, for every set of cards and whatever is refused.     *)
(*                                                                         *)
(* MountMatchesCard: a begin() that returned true found the volume of the   *)
(* card in the slot, although the buffer survives the exchange of a card.   *)
(* The reason is in IInv: only block 0 of an earlier card can still be in   *)
(* the buffer when it is asked for, and as long as the handle on the root   *)
(* is closed that block is no boot sector that could be mounted, or         *)
(* begin() would have ended otherwise.                                      *)
(* MountedIsSound: the geometry of a mounted volume lies inside the volume; *)
(* the arithmetic is in the lemmas below.                                   *)
(***************************************************************************)
EXTENDS Volume, TLAPS

\* Block 0 of a card is a boot sector openRoot accepts.
Usable(card) ==
  /\ IsBoot(BootAt(card, 0)) /\ HasShift(BootAt(card, 0))
  /\ Geometry(BootAt(card, 0), 0).fatType # 12

\* The geometry is that of the boot sector in the buffer.
FromBuffer ==
  LET b == BootAt(cached.card, start)
  IN /\ cached.number = start
     /\ IsBoot(b) /\ HasShift(b) /\ vol = Geometry(b, start)

Unopened == ~mounted /\ root.type = "closed"

\* What begin() knows at each of its stages.
Stages ==
  /\ stage = "table" => part = 1
  /\ stage = "boot" =>
       \/ part = 0 /\ start = 0
       \/ part = 1 /\ start # 0 /\ cached.number = 0
  /\ stage = "root" => FromBuffer /\ (start # 0 => cached.card = inserted)

\* What may be left in the buffer of a card that is no longer there.
LeftOver ==
  /\ Unopened /\ stage = "idle" /\ cached.number = 0 => ~Usable(cached.card)
  /\ Unopened /\ stage # "idle" /\ cached.number = 0 /\ cached.card # inserted => ~Usable(cached.card)

\* What stays as it is once begin() has succeeded.
Mounted ==
  mounted =>
    /\ cached.card = inserted
    /\ Sound(inserted) /\ vol = GeometryOf(inserted)
    /\ root.type = (IF vol.fatType = 16 THEN "root16" ELSE "root32")
    /\ root.size >= (IF vol.fatType = 16 THEN vol.rootEntries ELSE inserted.rootSize)

MountTypes ==
  /\ inserted \in Cards
  /\ cached \in [number : Nat \cup {NoBlock}, card : Cards]
  /\ start \in Nat /\ part \in {0, 1}
  /\ stage \in {"idle", "table", "boot", "root"}
  /\ mounted \in BOOLEAN
  /\ root \in [type : {"closed", "root16", "root32"}, size : Nat]

IInv == MountTypes /\ Stages /\ LeftOver /\ Mounted

-----------------------------------------------------------------------------
(* Boot sectors. *)

\* A block that is taken for a boot sector is the one there should be.
LEMMA OneBootSector ==
  ASSUME NEW card \in Cards, NEW b \in Nat, IsBoot(BootAt(card, b))
  PROVE  b = BootBlock(card)
<1>1. b \in DOMAIN card.boot
  BY DEF IsBoot, BootAt, NoBoot
<1>2. QED
  BY <1>1, VolumeAssumption

\* So what is computed from it is the geometry of the card.
LEMMA BootGivesGeometry ==
  ASSUME NEW card \in Cards, NEW b \in Nat, IsBoot(BootAt(card, b)), HasShift(BootAt(card, b))
  PROVE  Sound(card) /\ Geometry(BootAt(card, b), b) = GeometryOf(card)
BY OneBootSector DEF Sound, GeometryOf

\* The fields of a boot sector are numbers.
LEMMA BootFields ==
  ASSUME NEW card \in Cards, NEW b \in Nat
  PROVE  BootAt(card, b) \in BootSector
BY VolumeAssumption DEF BootAt, NoBoot, BootSector

LEMMA RootEntriesOf ==
  ASSUME NEW card \in Cards
  PROVE  GeometryOf(card).rootEntries \in Nat
<1>1. BootBlock(card) \in Nat
  BY VolumeAssumption DEF BootBlock
<1>2. BootAt(card, BootBlock(card)) \in BootSector
  BY <1>1, BootFields
<1>3. QED
  BY <1>2 DEF GeometryOf, Geometry, BootSector

-----------------------------------------------------------------------------
(* Accesses. *)

\* A block that is fetched comes from the card, or was in the buffer.
LEMMA FetchedBlock ==
  ASSUME IInv, NEW b \in Nat, Fetches(b)
  PROVE  /\ cached' \in [number : Nat \cup {NoBlock}, card : Cards]
         /\ cached'.number = b /\ cached'.card = Source(b)
         /\ Source(b) \in Cards
         /\ cached.number # b => Source(b) = inserted
         /\ cached.number = b => Source(b) = cached.card
BY DEF Fetches, Source, Hit, IInv, MountTypes

\* TrySuperFloppy with the buffer as it was, or with a block in it that is of
\* the card in the slot.
LEMMA SuperFloppyKeeps ==
  ASSUME IInv, TrySuperFloppy, UNCHANGED <<inserted, vol, root>>,
         stage \in {"table", "boot"},
         \/ cached' = cached
         \/ /\ cached' \in [number : Nat \cup {NoBlock}, card : Cards]
            /\ cached'.card \in {inserted, cached.card}
            /\ cached'.card # inserted => cached'.number = cached.number
  PROVE  IInv'
<1> USE DEF TrySuperFloppy, goesOn
<1>1. MountTypes'
  BY DEF IInv, MountTypes
<1>2. Stages'
  BY DEF Stages
<1>3. LeftOver'
  BY DEF IInv, LeftOver, Unopened, Usable, MountTypes
<1>4. Mounted'
  BY DEF IInv, Mounted, MountTypes
<1>5. QED
  BY <1>1, <1>2, <1>3, <1>4 DEF IInv

-----------------------------------------------------------------------------
(* IInv is inductive. *)

LEMMA InitInv == VolumeInit => IInv
<1> SUFFICES ASSUME VolumeInit PROVE IInv
  OBVIOUS
<1> USE DEF VolumeInit
<1>1. MountTypes
  BY DEF MountTypes, NoBlock
<1>2. Stages /\ LeftOver /\ Mounted
  BY DEF Stages, LeftOver, Mounted, NoBlock, Unopened
<1>3. QED
  BY <1>1, <1>2 DEF IInv

LEMMA InsertInv == ASSUME IInv, NEW card \in Cards, Insert(card) PROVE IInv'
<1> USE DEF Insert
<1>1. MountTypes' /\ Stages' /\ Mounted'
  BY DEF IInv, MountTypes, Stages, Mounted
<1>2. LeftOver'
  BY DEF IInv, LeftOver, Unopened, Usable
<1>3. QED
  BY <1>1, <1>2 DEF IInv

LEMMA BeginInv == ASSUME IInv, Begin PROVE IInv'
<1> USE DEF Begin, Refusal, Reply, goesOn
<1>1. MountTypes'
  BY DEF IInv, MountTypes
<1>2. Stages'
  BY DEF Stages
<1>3. LeftOver'
  BY DEF IInv, LeftOver, Unopened, Usable, MountTypes
<1>4. Mounted'
  BY DEF IInv, Mounted, MountTypes
<1>5. QED
  BY <1>1, <1>2, <1>3, <1>4 DEF IInv

LEMMA ReadTableInv == ASSUME IInv, ReadTable PROVE IInv'
<1>1. CASE RefusesBlock(0) /\ TrySuperFloppy
  BY <1>1, SuperFloppyKeeps DEF ReadTable, RefusesBlock, Refusal
<1>2. CASE Fetches(0) /\ ~FirstPart(Source(0), 0).valid
  <2>1. TrySuperFloppy /\ UNCHANGED <<inserted, vol, root>> /\ stage = "table"
    BY <1>2 DEF ReadTable, RefusesBlock, Hit, Fetches, TrySuperFloppy, Refusal
  <2>2. QED
    BY <1>2, <2>1, FetchedBlock, SuperFloppyKeeps
<1>3. CASE Fetches(0) /\ FirstPart(Source(0), 0).valid
  <2> DEFINE p == FirstPart(Source(0), 0)
  <2>1. start' = p.first /\ stage' = "boot" /\ UNCHANGED <<part, began, mounted, inserted, vol, root>>
    BY <1>3 DEF ReadTable, RefusesBlock, Hit, Fetches, goesOn, TrySuperFloppy, Refusal
  <2>2. p.first \in Nat \ {0}
    BY <1>3, FetchedBlock, VolumeAssumption DEF FirstPart
  <2>3. stage = "table" /\ part = 1
    BY DEF ReadTable, IInv, Stages
  <2>4. MountTypes'
    BY <1>3, <2>1, <2>2, FetchedBlock DEF IInv, MountTypes
  <2>5. Stages'
    BY <1>3, <2>1, <2>2, <2>3, FetchedBlock DEF Stages
  <2>6. LeftOver'
    BY <1>3, <2>1, <2>3, FetchedBlock DEF IInv, LeftOver, Unopened, Usable
  <2>7. Mounted'
    BY <1>3, <2>1, FetchedBlock DEF IInv, Mounted
  <2>8. QED
    BY <2>4, <2>5, <2>6, <2>7 DEF IInv
<1>4. QED
  BY <1>1, <1>2, <1>3 DEF ReadTable

\* init() fails with a partition: the same for the way on, and begin() returns
\* when it was the whole card.
LEMMA PartFailsKeeps ==
  ASSUME IInv, stage = "boot", PartFails, UNCHANGED <<inserted, root>>,
         mounted => vol' = vol,
         \/ cached' = cached /\ cached.number # start
         \/ /\ cached' \in [number : Nat \cup {NoBlock}, card : Cards]
            /\ cached'.number = start /\ cached'.card = Source(start)
            /\ ~(IsBoot(BootAt(Source(start), start)) /\ HasShift(BootAt(Source(start), start)))
  PROVE  IInv'
<1>0. /\ \/ part = 0 /\ start = 0
         \/ part = 1 /\ start # 0 /\ cached.number = 0
      /\ mounted => cached.card = inserted
      /\ MountTypes
  BY DEF IInv, Stages, Mounted
<1>1. CASE part = 1
  <2>1. TrySuperFloppy
    BY <1>1 DEF PartFails
  <2> USE <2>1 DEF TrySuperFloppy, goesOn
  <2>2. MountTypes'
    BY <1>0, <1>1 DEF MountTypes
  <2>3. Stages'
    BY DEF Stages
  <2>4. LeftOver'
    BY <1>0, <1>1 DEF IInv, LeftOver, Unopened, Usable, Source, Hit
  <2>5. Mounted'
    BY <1>0, <1>1 DEF IInv, Mounted, Source, Hit
  <2>6. QED
    BY <2>2, <2>3, <2>4, <2>5 DEF IInv
<1>2. CASE part = 0
  <2>0. part # 1
    BY <1>2
  <2>1. Reply(FALSE)
    BY <2>0 DEF PartFails
  <2> USE <2>1 DEF Reply
  <2>2. MountTypes'
    BY <1>0 DEF MountTypes
  <2>3. Stages'
    BY DEF Stages
  <2>4. LeftOver'
    BY <1>0, <1>2 DEF LeftOver, Unopened, Usable, MountTypes
  <2>5. Mounted'
    BY <1>0 DEF IInv, Mounted, Source, Hit, MountTypes
  <2>6. QED
    BY <2>2, <2>3, <2>4, <2>5 DEF IInv
<1>3. QED
  BY <1>0, <1>1, <1>2

LEMMA ReadBootInv == ASSUME IInv, ReadBoot PROVE IInv'
<1> DEFINE b == BootAt(Source(start), start)
<1>0. stage = "boot" /\ UNCHANGED <<inserted, root>> /\ start \in Nat
  BY DEF ReadBoot, IInv, MountTypes
<1>1. CASE RefusesBlock(start) /\ PartFails /\ UNCHANGED vol
  BY <1>0, <1>1, PartFailsKeeps DEF RefusesBlock, Refusal, Hit
<1>2. CASE Fetches(start) /\ ~(IsBoot(b) /\ HasShift(b))
  <2>1. PartFails /\ (IsBoot(b) \/ UNCHANGED vol)
    BY <1>2 DEF ReadBoot, RefusesBlock, Refusal, Hit, Fetches
  <2>2. mounted => vol' = vol
    <3> SUFFICES ASSUME mounted, IsBoot(b) PROVE FALSE
      BY <2>1
    <3>1. Source(start) = inserted /\ Sound(inserted)
      BY <1>2, FetchedBlock, <1>0 DEF IInv, Mounted
    <3>2. start = BootBlock(inserted)
      BY <1>0, <3>1, OneBootSector DEF IInv, MountTypes
    <3>3. QED
      BY <1>2, <3>1, <3>2 DEF Sound
  <2>3. QED
    BY <1>0, <1>2, <2>1, <2>2, FetchedBlock, PartFailsKeeps
<1>3. CASE Fetches(start) /\ IsBoot(b) /\ HasShift(b)
  <2>1. vol' = Geometry(b, start) /\ stage' = "root" /\ UNCHANGED <<part, start, began, mounted>>
    BY <1>3 DEF ReadBoot, RefusesBlock, Refusal, Hit, Fetches, goesOn
  <2>2. MountTypes'
    BY <1>0, <1>3, <2>1, FetchedBlock DEF IInv, MountTypes
  <2>3. start # 0 => Source(start) = inserted
    BY <1>0, <1>3, FetchedBlock DEF IInv, Stages
  <2>4. Stages'
    BY <1>0, <1>3, <2>1, <2>3, FetchedBlock DEF Stages, FromBuffer
  <2>5. LeftOver'
    BY <1>0, <1>3, <2>1, <2>3, FetchedBlock DEF IInv, LeftOver, Unopened, Usable
  <2>6. Mounted'
    <3> SUFFICES ASSUME mounted PROVE Mounted'
      BY <2>1 DEF Mounted
    <3>1. Source(start) = inserted
      BY <1>0, <1>3, FetchedBlock DEF IInv, Mounted
    <3>2. vol' = GeometryOf(inserted)
      BY <1>0, <1>3, <2>1, <3>1, BootGivesGeometry DEF IInv, MountTypes
    <3>3. QED
      BY <1>0, <1>3, <2>1, <3>1, <3>2, FetchedBlock DEF IInv, Mounted
  <2>7. QED
    BY <2>2, <2>4, <2>5, <2>6 DEF IInv
<1>4. QED
  BY <1>1, <1>2, <1>3 DEF ReadBoot

LEMMA OpenRootFailsInv == ASSUME IInv, OpenRootFails PROVE IInv'
<1> USE DEF OpenRootFails, Reply
<1>1. MountTypes' /\ Stages'
  BY DEF IInv, MountTypes, Stages
<1>2. LeftOver'
  BY DEF IInv, LeftOver, Unopened, Usable, MountTypes, Stages, FromBuffer
<1>3. Mounted'
  BY DEF IInv, Mounted, MountTypes
<1>4. QED
  BY <1>1, <1>2, <1>3 DEF IInv

\* With the root closed and a volume it can be opened on, that is the volume of
\* the card in the slot: what is left over of another card is not usable.
LEMMA OpensOwnCard ==
  ASSUME IInv, stage = "root", root.type = "closed", vol.fatType # 12
  PROVE  ~mounted /\ cached.card = inserted /\ Sound(inserted) /\ vol = GeometryOf(inserted)
<1>1. ~mounted
  BY DEF IInv, Mounted
<1>2. FromBuffer /\ start \in Nat /\ cached.card \in Cards
  BY DEF IInv, Stages, MountTypes
<1>3. cached.card = inserted
  BY <1>1, <1>2 DEF IInv, Stages, LeftOver, Unopened, Usable, FromBuffer
<1>4. QED
  BY <1>1, <1>2, <1>3, BootGivesGeometry DEF FromBuffer

LEMMA OpenRoot16Inv == ASSUME IInv, OpenRoot16 PROVE IInv'
<1> USE DEF OpenRoot16, Reply
<1>1. cached.card = inserted /\ Sound(inserted) /\ vol = GeometryOf(inserted)
  BY OpensOwnCard
<1>2. vol.rootEntries \in Nat
  BY <1>1, RootEntriesOf DEF IInv, MountTypes
<1>3. MountTypes' /\ Stages'
  BY <1>2 DEF IInv, MountTypes, Stages
<1>4. LeftOver'
  BY DEF LeftOver, Unopened
<1>5. Mounted'
  BY <1>1, <1>2 DEF Mounted
<1>6. QED
  BY <1>3, <1>4, <1>5 DEF IInv

LEMMA OpenRoot32Inv == ASSUME IInv, OpenRoot32 PROVE IInv'
<1> USE DEF Reply
<1>0. /\ cached.card = inserted /\ Sound(inserted) /\ vol = GeometryOf(inserted) /\ ~mounted
      /\ inserted \in Cards /\ inserted.rootSize \in Nat /\ UNCHANGED <<inserted, vol>>
      /\ vol.fatType = 32
  BY OpensOwnCard, VolumeAssumption DEF OpenRoot32, IInv, MountTypes
<1>1. CASE /\ Fetches(vol.fatStart)
           /\ root' = [type |-> "root32", size |-> RootChain] /\ Reply(TRUE)
  <2>1. RootChain = inserted.rootSize
    BY <1>0 DEF RootChain
  <2>2. cached' \in [number : Nat \cup {NoBlock}, card : Cards] /\ cached'.card = inserted
    <3>1. vol.fatStart \in Nat
      <4>1. BootBlock(inserted) \in Nat
        BY <1>0, VolumeAssumption DEF BootBlock
      <4>2. BootAt(inserted, BootBlock(inserted)) \in BootSector
        BY <1>0, <4>1, BootFields
      <4>3. QED
        BY <1>0, <4>1, <4>2 DEF GeometryOf, Geometry, BootSector
    <3>2. QED
      BY <1>0, <1>1, <3>1, FetchedBlock
  <2>3. MountTypes' /\ Stages' /\ LeftOver'
    BY <1>0, <1>1, <2>1, <2>2 DEF IInv, MountTypes, Stages, LeftOver, Unopened
  <2>4. Mounted'
    BY <1>0, <1>1, <2>1, <2>2 DEF Mounted
  <2>5. QED
    BY <2>3, <2>4 DEF IInv
<1>2. CASE RefusesBlock(vol.fatStart) /\ root' = TypeWhenRefused /\ Reply(FALSE)
  <2>1. cached' = cached /\ root'.type = "root32" /\ root' \in [type : {"closed", "root16", "root32"}, size : Nat]
    BY <1>2 DEF RefusesBlock, Refusal, TypeWhenRefused, IInv, MountTypes
  <2>2. MountTypes' /\ Stages' /\ LeftOver' /\ Mounted'
    BY <1>0, <1>2, <2>1 DEF IInv, MountTypes, Stages, LeftOver, Unopened, Mounted
  <2>3. QED
    BY <2>2 DEF IInv
<1>3. QED
  BY <1>1, <1>2 DEF OpenRoot32

LEMMA StepInv == IInv /\ [VolumeNext]_volumeVars => IInv'
<1> SUFFICES ASSUME IInv, [VolumeNext]_volumeVars PROVE IInv'
  OBVIOUS
<1>1. CASE VolumeNext
  BY <1>1, InsertInv, BeginInv, ReadTableInv, ReadBootInv, OpenRootFailsInv, OpenRoot16Inv, OpenRoot32Inv
     DEF VolumeNext
<1>2. CASE UNCHANGED volumeVars
  BY <1>2 DEF volumeVars, IInv, MountTypes, Stages, FromBuffer, LeftOver, Unopened, Usable, Mounted
<1>3. QED
  BY <1>1, <1>2

\* Once begin() has returned true the geometry and the root are those of the
\* card in the slot (begin, SpiSdVolume::init, openRoot).
THEOREM MountMatchesCard == VolumeSpec => []BeginMatchesCard
<1>1. IInv => BeginMatchesCard
  BY DEF IInv, Mounted, BeginMatchesCard
<1>2. QED
  BY InitInv, StepInv, <1>1, PTL DEF VolumeSpec

-----------------------------------------------------------------------------
(* The geometry. *)

LEMMA Division ==
  ASSUME NEW a \in Int, NEW d \in Nat \ {0}
  PROVE  a \div d \in Int /\ d * (a \div d) <= a /\ a < d * (a \div d) + d
BY SMT

LEMMA ProductGrows ==
  ASSUME NEW d \in Nat, NEW x \in Int, NEW y \in Int, x <= y
  PROVE  d * x <= d * y
BY SMT

LEMMA ProductReflects ==
  ASSUME NEW d \in Nat, NEW x \in Int, NEW y \in Int, d * x < d * y
  PROVE  x < y
<1>1. CASE y <= x
  BY <1>1, ProductGrows
<1>2. QED
  BY <1>1

\* The blocks of e entries, the last one perhaps not full, have room for each.
LEMMA EntryHasBlock ==
  ASSUME NEW n \in Nat, NEW d \in Nat \ {0}, NEW e \in 0 .. n - 1
  PROVE  e \div d \in Nat /\ e \div d < (n + d - 1) \div d
<1> DEFINE q == e \div d
           k == (n + d - 1) \div d
<1>1. q \in Int /\ d * q <= e /\ e < d * q + d
  BY Division
<1>2. k \in Int /\ n + d - 1 < d * k + d
  BY Division
<1>3. d * q \in Int /\ d * k \in Int
  BY <1>1, <1>2
<1>4. d * q < d * k
  BY <1>1, <1>2, <1>3
<1>5. q < k
  BY <1>1, <1>2, <1>4, ProductReflects
<1>6. q >= 0
  <2>1. SUFFICES ASSUME q + 1 <= 0 PROVE FALSE
    BY <1>1
  <2>2. d * (q + 1) <= d * 0
    BY <1>1, <2>1, ProductGrows
  <2>3. d * (q + 1) = d * q + d /\ d * 0 = 0
    BY <1>1
  <2>4. QED
    BY <1>1, <1>3, <2>2, <2>3
<1>7. QED
  BY <1>1, <1>5, <1>6

\* The clusters counted fit into the blocks there are for them.
LEMMA ClusterHasBlocks ==
  ASSUME NEW blocks \in Int, NEW d \in Nat \ {0}, NEW c \in 2 .. blocks \div d + 1
  PROVE  (c - 2) * d + d <= blocks
<1>1. blocks \div d \in Int /\ d * (blocks \div d) <= blocks
  BY Division
<1>2. d * (c - 1) <= d * (blocks \div d)
  BY <1>1, ProductGrows
<1>3. (c - 2) * d + d = d * (c - 1) /\ d * (c - 1) \in Int
  OBVIOUS
<1>4. d * (blocks \div d) \in Int
  BY <1>1
<1>5. QED
  BY <1>1, <1>2, <1>3, <1>4

LEMMA ShiftIsPower ==
  ASSUME NEW b, HasShift(b)
  PROVE  Shift(b) \in Shifts /\ b.perCluster = 2 ^ Shift(b)
BY DEF HasShift, Shift

\* The geometry of any boot sector that is taken for one.
LEMMA GeometryLemma ==
  ASSUME NEW b \in BootSector, NEW first \in Nat, IsBoot(b), HasShift(b),
         NEW v, v = Geometry(b, first)
  PROVE  LET behindFats == v.fatStart + v.fatCount * v.blocksPerFat
         IN /\ v.fatStart > first
            /\ \A e \in 0 .. v.rootEntries - 1 :
                 LET block == (IF v.fatType = 16 THEN v.rootStart ELSE behindFats) + e \div EntriesPerBlock
                 IN behindFats <= block /\ block < v.dataStart
            /\ \A c \in 2 .. v.clusterCount + 1 :
                 LET at == v.dataStart + (c - 2) * 2 ^ v.clusterSizeShift
                 IN at + v.blocksPerCluster <= first + Total(b)
<1> DEFINE fatStart == first + b.reserved
           behind == fatStart + b.fats * PerFat(b)
           data == behind + RootBlocks(b)
           clusters == (Total(b) - (data - first)) \div b.perCluster
<1>1. /\ v.fatStart = fatStart /\ v.fatCount = b.fats /\ v.blocksPerFat = PerFat(b)
      /\ v.rootEntries = b.rootEntries /\ v.dataStart = data
      /\ v.clusterCount = clusters /\ v.blocksPerCluster = b.perCluster
      /\ v.clusterSizeShift = Shift(b) /\ v.fatType = FatType(clusters)
      /\ v.rootStart = IF FatType(clusters) = 32 THEN b.rootCluster ELSE behind
  BY DEF Geometry
<1>2. /\ b.reserved \in Nat \ {0} /\ b.perCluster \in Nat \ {0} /\ b.rootEntries \in Nat
      /\ PerFat(b) \in Nat /\ Total(b) \in Nat /\ b.fats \in Nat
  BY DEF BootSector, IsBoot, PerFat, Total
<1>3. fatStart \in Nat /\ behind \in Nat /\ fatStart > first
  BY <1>2
<1>4. RootBlocks(b) \in Int
  BY <1>2, VolumeAssumption, Division DEF RootBlocks
<1>5. ASSUME NEW e \in 0 .. v.rootEntries - 1
      PROVE  LET block == (IF v.fatType = 16 THEN v.rootStart ELSE behind) + e \div EntriesPerBlock
             IN behind <= block /\ block < v.dataStart
  <2>1. (IF v.fatType = 16 THEN v.rootStart ELSE behind) = behind
    BY <1>1
  <2>2. e \div EntriesPerBlock \in Nat /\ e \div EntriesPerBlock < RootBlocks(b)
    BY <1>1, <1>2, EntryHasBlock, VolumeAssumption DEF RootBlocks
  <2>3. QED
    BY <1>1, <1>3, <1>4, <2>1, <2>2
<1>6. ASSUME NEW c \in 2 .. v.clusterCount + 1
      PROVE  v.dataStart + (c - 2) * 2 ^ v.clusterSizeShift + v.blocksPerCluster <= first + Total(b)
  <2> DEFINE blocks == Total(b) - (data - first)
  <2>1. blocks \in Int /\ data \in Int
    BY <1>2, <1>3, <1>4
  <2>2. (c - 2) * b.perCluster + b.perCluster <= blocks
    BY <1>1, <1>2, <2>1, ClusterHasBlocks
  <2>3. 2 ^ v.clusterSizeShift = b.perCluster
    BY <1>1, ShiftIsPower
  <2>4. (c - 2) * b.perCluster \in Int
    <3>1. c - 2 \in Int
      OBVIOUS
    <3>2. QED
      BY <1>2, <3>1
  <2>5. QED
    BY <1>1, <1>2, <2>1, <2>2, <2>3, <2>4
<1>7. QED
  BY <1>1, <1>3, <1>5, <1>6

LEMMA InvIsSound == IInv => GeometryIsSound
<1> DEFINE first == BootBlock(inserted)
<1>1. SUFFICES ASSUME IInv, mounted, stage = "idle" PROVE GeometryIsSound
  BY DEF GeometryIsSound
<1>2. Sound(inserted) /\ vol = GeometryOf(inserted) /\ inserted \in Cards
  BY <1>1 DEF IInv, Mounted, MountTypes
<1>3. first \in Nat
  BY <1>2, VolumeAssumption DEF BootBlock
<1>4. BootAt(inserted, first) \in BootSector
  BY <1>2, <1>3, BootFields
<1>5. QED
  BY <1>2, <1>3, <1>4, GeometryLemma DEF GeometryIsSound, Sound, GeometryOf

\* Every part of a mounted volume lies behind the one before and inside the
\* volume, for every boot sector init() accepts.
THEOREM MountedIsSound == VolumeSpec => []GeometryIsSound
BY InitInv, StepInv, InvIsSound, PTL DEF VolumeSpec

=============================================================================
