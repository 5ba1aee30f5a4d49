------------------------------ MODULE Directory ------------------------------
(***************************************************************************)
(* Directories: SpiSdFile::open by name and by index, makeDir, remove,      *)
(* rmDir, rmRfStar and addDirCluster on a tree of directories.             *)
(*                                                                         *)
(* The application holds a handle on the root and at most one on another   *)
(* directory, or by mistake on a file; it opens a new name, a file or what *)
(* it removes through a handle of the call's own.  Below are the promises  *)
(* of ChainStore (a cluster is added or a chain freed at once) and of the  *)
(* cache: of all that was changed the card lacks at most the one block     *)
(* still held.  Writing a block leaves the card, at every instant, in a    *)
(* state power may be lost in.  One step is one block access, or one entry *)
(* of rmRfStar's loop.                                                     *)
(***************************************************************************)
EXTENDS Integers, Sequences, FiniteSets

CONSTANTS
  Root,           \* the cluster of the root, or its fixed area on FAT16
  Other,          \* the other clusters
  NoCluster,      \* the cluster number 0
  EOC, Free,      \* entries of the FAT: end of chain, and 0
  Name,           \* names in 8.3 form
  NoName,         \* the name of an entry that no call can ask for
  PerCluster,     \* entries in a cluster, one block here
  EmptyFiles,     \* whether callers pass an empty file as dirFile
  MaxRefused      \* bound: how many accesses may be refused

ASSUME DirectoryAssumption ==
  /\ IsFiniteSet(Other)
  /\ Root \notin Other /\ {NoCluster, EOC, Free} \cap (Other \cup {Root}) = {}
  /\ Cardinality({NoCluster, EOC, Free}) = 3
  /\ NoName \notin Name
  /\ PerCluster \in Nat /\ PerCluster >= 3
  /\ EmptyFiles \in BOOLEAN /\ MaxRefused \in Nat

Cluster == Other \cup {Root}

Index == 1 .. PerCluster

Slot == Cluster \X Index

NoSlot == <<NoCluster, 0>>

FatBlock == "fat"     \* one block holds the whole FAT
NoBlock == "none"

ASSUME BlocksAssumption == {FatBlock, NoBlock} \cap Cluster = {}

Entry(kind, name, first, size) == [kind |-> kind, name |-> name, first |-> first, size |-> size]

\* "other" is the volume label or part of a long name, "dot" is . or ..
Unnamed(kind) == Entry(kind, NoName, NoCluster, 0)

AnyEntry ==
  [kind : {"free", "deleted", "other", "dot", "file", "dir"}, name : Name \cup {NoName},
   first : Cluster \cup {NoCluster}, size : 0 .. 1]

Live(e) == e.kind \in {"file", "dir"}

Zeroed == [i \in Index |-> Unnamed("free")]

\* What a file puts into its cluster may look like an entry.
Data == [i \in Index |-> Unnamed("file")]

Closed == [type |-> "closed", first |-> NoCluster, size |-> 0, slot |-> NoSlot]

NoCall == [op |-> "none", d |-> "root", name |-> NoName]

VARIABLES
  fat, dir,       \* what a caller reads: the FAT, and each cluster as entries
  card,           \* what is on the card: [fat, dir]
  held,           \* the block the cache holds and the card lacks
  hand,           \* type_, firstCluster_, fileSize_ (in clusters) and entry of both handles
  this,           \* the handle of the call's own
  pc, call,       \* where the call in progress is: [op, d (dirFile or this), name]
  k,              \* the cluster being looked at, counted from 1
  empty,          \* open: the first empty slot
  stack,          \* rmRfStar: its frames, each a handle and a position
  spared,         \* history: the entries before the call that it has not come to remove
  refused,        \* history: how many accesses have been refused
  damaged         \* history: and left something no call repairs: the volume is given up

image == <<fat, dir>>
storage == <<fat, dir, card, held>>
locals == <<this, k, empty, stack>>
vars == <<storage, hand, locals, pc, call, spared, refused, damaged>>

View == [fat |-> fat, dir |-> dir]

Least(S) == CHOOSE i \in S : \A j \in S : i <= j

\* The clusters from c to the end of its chain.
Chain(f, c) ==
  LET from[n \in 0 .. Cardinality(Cluster)] ==
        [d \in Cluster \cup {NoCluster, EOC, Free} |->
          IF n = 0 \/ d \notin Cluster THEN << >> ELSE <<d>> \o from[n - 1][f[d]]]
  IN from[Cardinality(Cluster)][c]

ClustersFrom(f, c) == {Chain(f, c)[i] : i \in DOMAIN Chain(f, c)}

EntryAt(img, s) == img.dir[s[1]][s[2]]

\* The clusters of all directories below the root of an image.
DirClusters(img) ==
  LET below[n \in 0 .. Cardinality(Cluster)] ==
        IF n = 0 THEN ClustersFrom(img.fat, Root)
        ELSE below[n - 1] \cup
             UNION {ClustersFrom(img.fat, EntryAt(img, s).first) :
                    s \in {t \in below[n - 1] \X Index : EntryAt(img, t).kind = "dir"}}
  IN below[Cardinality(Cluster)]

LiveSlots(img) == {s \in DirClusters(img) \X Index : Live(EntryAt(img, s))}

\* The handle an entry is opened as; chainSize counts the chain of a directory.
Opened(s) ==
  LET e == EntryAt(View, s)
  IN [type |-> e.kind, first |-> e.first, slot |-> s,
      size |-> IF e.kind = "dir" THEN Len(Chain(fat, e.first)) ELSE e.size]

\* The root begins empty or, with a volume label, which may have a name calls
\* ask for, and the parts of long names, full but for one entry; that of FAT32
\* has one or two clusters.
Root16 == [type |-> "root16", clusters |-> <<Root>>]

Roots32 == {[type |-> "root32", clusters |-> r] : r \in {<<Root>>} \cup {<<Root, c>> : c \in Other}}

Label(name) == Entry("other", name, NoCluster, 0)

RootImage(r, full, label) ==
  [c \in Cluster |->
    IF \E j \in DOMAIN r : r[j] = c
      THEN [i \in Index |->
             IF ~full \/ <<c, i>> = <<r[Len(r)], PerCluster>> THEN Unnamed("free")
             ELSE Label(IF <<c, i>> = <<Root, 1>> THEN label ELSE NoName)]
      ELSE Data]

Init ==
  /\ \E r \in {Root16} \cup Roots32, full \in BOOLEAN, label \in Name \cup {NoName} :
       /\ full \/ (r.clusters = <<Root>> /\ r.type = "root32")
       /\ fat = [c \in Cluster |->
                  IF \A j \in DOMAIN r.clusters : r.clusters[j] # c THEN Free
                  ELSE IF c = r.clusters[Len(r.clusters)] THEN EOC ELSE r.clusters[2]]
       /\ dir = RootImage(r.clusters, full, label)
       /\ hand = [d \in {"root", "h"} |->
                   IF d = "h" THEN Closed
                   ELSE [Closed EXCEPT !.type = r.type, !.first = Root, !.size = Len(r.clusters)]]
  /\ card = View /\ held = NoBlock
  /\ this = Closed /\ k = 1 /\ empty = NoSlot /\ stack = << >>
  /\ pc = "idle" /\ call = NoCall
  /\ spared = {} /\ refused = 0 /\ damaged = FALSE

-----------------------------------------------------------------------------
(* The cache. *)

Stored(b) ==
  IF b = NoBlock THEN card
  ELSE IF b = FatBlock THEN [card EXCEPT !.fat = fat]
  ELSE [card EXCEPT !.dir[b] = dir[b]]

Flushes == card' = Stored(held) /\ held' = NoBlock

\* Reading other blocks than the one held writes that one.
Reads(blocks) ==
  IF blocks \subseteq {held} THEN UNCHANGED <<card, held>> ELSE Flushes

\* Block b becomes the one held.
Holds(b) == card' = (IF held = b THEN card ELSE Stored(held)) /\ held' = b

Puts(s, e) == Holds(s[1]) /\ dir' = [dir EXCEPT ![s[1]][s[2]] = e]

PutsFat(f) == Holds(FatBlock) /\ fat' = f

-----------------------------------------------------------------------------
(* Calls begin and end. *)

\* What the application keeps: what it opened, in place of what it had, as a
\* path walk does, until that is removed.
Kept(ok, h) ==
  CASE ok /\ call.op = "open" /\ (h.type = "dir" \/ h.size > 0 \/ EmptyFiles) -> [hand EXCEPT !["h"] = h]
    [] call.op \in {"rmDir", "rmRf"} /\ pc # "scan" -> [hand EXCEPT !["h"] = Closed]
    [] OTHER -> hand

\* The call returns; its own handle h and its locals go out of scope.
Returns(ok, h) ==
  /\ hand' = Kept(ok, h)
  /\ this' = Closed /\ k' = 1 /\ empty' = NoSlot /\ stack' = << >>
  /\ pc' = "idle" /\ call' = NoCall
  /\ spared' = {}

Return(ok) == Returns(ok, this) /\ UNCHANGED <<refused, damaged>>

Promised ==
  IF card # View THEN {}
  ELSE {[slot |-> s, entry |-> EntryAt(card, s), chain |-> Chain(card.fat, EntryAt(card, s).first)]
        : s \in LiveSlots(card)}

Begin(op, d, n) ==
  /\ pc = "idle" /\ ~damaged
  /\ hand[d].type # "closed"
  /\ call' = [op |-> op, d |-> d, name |-> n]
  /\ spared' = Promised
  /\ UNCHANGED <<storage, hand, refused, damaged>>

Spares(s) == spared' = {x \in spared : x.slot # s}

goesOn == <<hand, call, refused, damaged>>

\* One access of a straight piece of a call: the entry of the call's handle is
\* rewritten in its block, or the block held is flushed.
Rewrites(e, next) ==
  /\ Puts(this.slot, e)
  /\ pc' = next
  /\ UNCHANGED <<fat, locals, spared, goesOn>>

FlushesTo(next) ==
  /\ Flushes
  /\ pc' = next
  /\ UNCHANGED <<image, locals, spared, goesOn>>

thisEntry == EntryAt(View, this.slot)

-----------------------------------------------------------------------------
(* open by name: the search, a slot for a new entry, the entry. *)

OpenCall(op, d, n) ==
  /\ Begin(op, d, n)
  /\ pc' = "search"
  /\ UNCHANGED locals

dirFile == hand[call.d]

Here == Chain(fat, dirFile.first)[k]

Block == dir[Here]

\* The search reads a block of a directory; a file ends it.
Searching == pc = "search" /\ k <= dirFile.size /\ dirFile.type # "file"

\* What ends the search: a slot never used, or an entry of the name.
Stops == {i \in Index : Block[i].kind = "free" \/ Block[i].name = call.name}

EmptyHere ==
  {i \in Index : Block[i].kind \in {"free", "deleted"} /\ \A j \in Stops : i <= j}

\* Slip: the index is that of the position behind the entry.
FirstEmptyBehind ==
  IF empty # NoSlot \/ EmptyHere = {} THEN empty
  ELSE <<Here, (Least(EmptyHere) % PerCluster) + 1>>

FirstEmpty ==
  IF empty # NoSlot \/ EmptyHere = {} THEN empty ELSE <<Here, Least(EmptyHere)>>

ReadsHere == Reads({Here} \cup IF k > 1 THEN {FatBlock} ELSE {})

SearchNext ==
  /\ Searching /\ Stops = {}
  /\ ReadsHere
  /\ empty' = FirstEmpty
  /\ k' = k + 1
  /\ UNCHANGED <<image, this, stack, pc, spared, goesOn>>

\* Slip: remove deletes the entry only.
TruncateSkipped(h) == "delete"

\* truncate(0): a file of size 0 keeps what clusters it has.
Truncate(h) == IF h.size = 0 THEN "delete" ELSE "free"

\* The name exists: only remove goes on, with a file.
SearchFinds ==
  /\ Searching /\ Stops # {}
  /\ LET s == <<Here, Least(Stops)>>
         h == Opened(s)
     IN /\ h.type \in {"file", "dir"}
        /\ IF h.type = "dir" THEN Reads({Here, FatBlock}) ELSE ReadsHere
        /\ IF call.op = "remove" /\ h.type = "file"
             THEN /\ this' = h /\ Spares(s)
                  /\ pc' = Truncate(h)
                  /\ UNCHANGED <<k, empty, stack, goesOn>>
             ELSE /\ Returns(call.op = "open" \/ (call.op = "create" /\ h.type = "file"), h)
                  /\ UNCHANGED <<refused, damaged>>
  /\ UNCHANGED image

Creates == call.op \in {"create", "mkdir"}

\* The name does not exist: a new entry needs a slot or a new cluster, which
\* the root of FAT16 cannot get.
NoEntry(slot) ==
  IF ~Creates \/ (slot = NoSlot /\ dirFile.type = "root16")
    THEN Return(FALSE)
    ELSE /\ empty' = slot
         /\ pc' = IF slot = NoSlot THEN "grow" ELSE "fill"
         /\ UNCHANGED <<this, k, stack, spared, goesOn>>

SearchEnds ==
  \/ /\ Searching /\ Stops # {} /\ Block[Least(Stops)].kind = "free"
     /\ ReadsHere
     /\ NoEntry(FirstEmpty)
     /\ UNCHANGED image
  \/ /\ pc = "search" /\ k > dirFile.size
     /\ NoEntry(empty)
     /\ UNCHANGED storage

\* readDirCache: dirFile is no directory.  openCachedEntry: the volume label
\* has the name.
SearchFails ==
  \/ /\ pc = "search" /\ k <= dirFile.size /\ dirFile.type = "file"
     /\ Return(FALSE)
     /\ UNCHANGED storage
  \/ /\ Searching /\ Stops # {} /\ Block[Least(Stops)].kind = "other"
     /\ ReadsHere
     /\ Return(FALSE)
     /\ UNCHANGED image

\* addCluster finds no free cluster.
NoSpace ==
  /\ pc \in {"grow", "own"}
  /\ \A c \in Cluster : fat[c] # Free
  /\ Return(FALSE)
  /\ UNCHANGED storage

\* addCluster appends c after cluster last, or makes it the first one.
Appended(last, c) ==
  [x \in Cluster |-> IF x = c THEN EOC ELSE IF x = last THEN c ELSE fat[x]]

\* Slip: the chain is extended behind its first cluster.
LastOfFirst(h) == h.first

LastOf(h) == IF h.size = 0 THEN NoCluster ELSE Chain(fat, h.first)[h.size]

\* open: dirFile is full and gets a cluster.
Grow(c) ==
  /\ pc = "grow" /\ fat[c] = Free
  /\ PutsFat(Appended(LastOf(dirFile), c))
  /\ hand' = IF dirFile.first = NoCluster THEN [hand EXCEPT ![call.d].first = c] ELSE hand
  /\ empty' = <<c, 1>>
  /\ pc' = "zero"
  /\ UNCHANGED <<dir, this, k, stack, call, spared, refused, damaged>>

\* cacheZeroBlock: the block held is flushed, c's begins empty.
Zeroes(c) == card' = Stored(held) /\ held' = c /\ dir' = [dir EXCEPT ![c] = Zeroed]

\* Slip: the size grows by entries and not by clusters.
GrownByEntries == dirFile.size + PerCluster

Grown == dirFile.size + 1

Zero ==
  /\ pc = "zero"
  /\ Zeroes(empty[1])
  /\ hand' = [hand EXCEPT ![call.d].size = Grown]
  /\ pc' = "fill"
  /\ UNCHANGED <<fat, locals, call, spared, refused, damaged>>

Fill ==
  /\ pc = "fill"
  /\ Puts(empty, Entry("file", call.name, NoCluster, 0))
  /\ pc' = "fillFlush"
  /\ UNCHANGED <<fat, locals, spared, goesOn>>

FillFlush ==
  /\ pc = "fillFlush"
  /\ Flushes
  /\ IF call.op = "mkdir"
       THEN /\ this' = Opened(empty)
            /\ pc' = "own"
            /\ UNCHANGED <<k, empty, stack, spared, goesOn>>
       ELSE Return(TRUE)
  /\ UNCHANGED image

-----------------------------------------------------------------------------
(* makeDir goes on: its own first cluster, the attribute, . and .. *)

Own(c) ==
  /\ pc = "own" /\ fat[c] = Free
  /\ PutsFat(Appended(NoCluster, c))
  /\ this' = [this EXCEPT !.type = "dir", !.first = c]
  /\ pc' = "ownZero"
  /\ UNCHANGED <<dir, k, empty, stack, spared, goesOn>>

OwnZero ==
  /\ pc = "ownZero"
  /\ Zeroes(this.first)
  /\ this' = [this EXCEPT !.size = 1]
  /\ pc' = "ownSync"
  /\ UNCHANGED <<fat, k, empty, stack, spared, goesOn>>

\* Slip: addCluster does not say that the entry is out of date.
OwnSyncSkipped == pc = "ownSync" /\ Rewrites(thisEntry, "ownFlush")

\* sync leaves the size of a directory alone.
OwnSync ==
  pc = "ownSync" /\ Rewrites([thisEntry EXCEPT !.first = this.first], "ownFlush")

OwnFlush == pc = "ownFlush" /\ FlushesTo("attribute")

Attribute ==
  pc = "attribute" /\ Rewrites([thisEntry EXCEPT !.kind = "dir"], "dots")

Dots ==
  /\ pc = "dots"
  /\ Holds(this.first)
  /\ dir' = [dir EXCEPT ![this.first][1] = Unnamed("dot"), ![this.first][2] = Unnamed("dot")]
  /\ pc' = "dotsFlush"
  /\ UNCHANGED <<fat, locals, spared, goesOn>>

DotsFlush == pc = "dotsFlush" /\ Flushes /\ Return(TRUE) /\ UNCHANGED image

-----------------------------------------------------------------------------
(* remove: truncate(0) with its sync, then the entry is marked. *)

FreeAll ==
  /\ pc = "free"
  /\ PutsFat([c \in Cluster |-> IF c \in ClustersFrom(fat, this.first) THEN Free ELSE fat[c]])
  /\ this' = [this EXCEPT !.first = NoCluster, !.size = 0]
  /\ pc' = "sync"
  /\ UNCHANGED <<dir, k, empty, stack, spared, goesOn>>

Sync ==
  pc = "sync" /\ Rewrites([thisEntry EXCEPT !.first = NoCluster, !.size = 0], "syncFlush")

SyncFlush == pc = "syncFlush" /\ FlushesTo("delete")

Delete == pc = "delete" /\ Rewrites(Unnamed("deleted"), "deleteFlush")

\* remove returns, to the caller or to the loop of rmRfStar.
RemoveReturns ==
  IF stack = << >>
    THEN Return(TRUE)
    ELSE pc' = "rmRf" /\ this' = Closed /\ UNCHANGED <<k, empty, stack, spared, goesOn>>

\* Slip: the deleted entry stays in the cache.
DeleteNotFlushed ==
  pc = "deleteFlush" /\ RemoveReturns /\ UNCHANGED storage

DeleteFlush == pc = "deleteFlush" /\ Flushes /\ RemoveReturns /\ UNCHANGED image

-----------------------------------------------------------------------------
(* rmDir: a scan for entries in use, then remove. *)

RmDirCall ==
  /\ Begin("rmDir", "h", NoName)
  /\ hand["h"].type = "dir"
  /\ this' = hand["h"] /\ pc' = "scan"
  /\ UNCHANGED <<k, empty, stack>>

\* Slip: the size of the directory is taken as one cluster.
FirstBlockOnly == 1

LastBlock == this.size

ScanBlock == dir[Chain(fat, this.first)[k]]

\* The first entry that ends the scan of a block, a free one or one in use.
ScanStops == {i \in Index : ScanBlock[i].kind = "free" \/ Live(ScanBlock[i])}

ReadsScanned ==
  Reads({Chain(fat, this.first)[k]} \cup IF k > 1 THEN {FatBlock} ELSE {})

ScanNext ==
  /\ pc = "scan" /\ ScanStops = {} /\ k < LastBlock
  /\ ReadsScanned
  /\ k' = k + 1
  /\ UNCHANGED <<image, this, pc, empty, stack, spared, goesOn>>

ScanFindsEntry ==
  /\ pc = "scan" /\ ScanStops # {} /\ Live(ScanBlock[Least(ScanStops)])
  /\ ReadsScanned
  /\ Return(FALSE)
  /\ UNCHANGED image

\* Empty: the handle becomes that of a file, which remove() takes.
ScanEnds ==
  /\ pc = "scan"
  /\ IF ScanStops = {} THEN k = LastBlock ELSE ~Live(ScanBlock[Least(ScanStops)])
  /\ ReadsScanned
  /\ this' = [this EXCEPT !.type = "file"]
  /\ Spares(this.slot)
  /\ k' = 1
  /\ pc' = Truncate(this)
  /\ UNCHANGED <<image, empty, stack, goesOn>>

-----------------------------------------------------------------------------
(* rmRfStar: one frame for each directory it is in. *)

Frame(h) == [handle |-> h, pos |-> 1]

\* Nobody uses another handle below what is removed.
RmRfCall(d) ==
  /\ Begin("rmRf", d, NoName)
  /\ hand[d].type # "file"
  /\ d = "root" => hand["h"] = Closed
  /\ stack' = <<Frame(hand[d])>>
  /\ pc' = "rmRf"
  /\ UNCHANGED <<this, k, empty>>

Top == stack[Len(stack)]

Below == SubSeq(stack, 1, Len(stack) - 1)

\* The slot at the position of the frame on top.
TopSlot ==
  <<Chain(fat, Top.handle.first)[((Top.pos - 1) \div PerCluster) + 1],
    ((Top.pos - 1) % PerCluster) + 1>>

InTop == pc = "rmRf" /\ Top.pos <= PerCluster * Top.handle.size

ReadsTop ==
  Reads({TopSlot[1]} \cup IF Top.pos > PerCluster THEN {FatBlock} ELSE {})

\* Slip: after an entry was removed the next one is skipped.
AdvancedTooFar == Append(Below, [Top EXCEPT !.pos = @ + IF Live(EntryAt(View, TopSlot)) THEN 2 ELSE 1])

Advanced == Append(Below, [Top EXCEPT !.pos = @ + 1])

RmRfSkips ==
  /\ InTop /\ EntryAt(View, TopSlot).kind \in {"deleted", "dot", "other"}
  /\ ReadsTop
  /\ stack' = Advanced
  /\ UNCHANGED <<image, this, pc, k, empty, spared, goesOn>>

\* open by index: a file is removed, a directory is entered.
RmRfFile ==
  /\ InTop /\ EntryAt(View, TopSlot).kind = "file"
  /\ ReadsTop
  /\ this' = Opened(TopSlot) /\ Spares(TopSlot)
  /\ stack' = Advanced
  /\ pc' = Truncate(Opened(TopSlot))
  /\ UNCHANGED <<image, k, empty, goesOn>>

RmRfDir ==
  /\ InTop /\ EntryAt(View, TopSlot).kind = "dir"
  /\ Reads({TopSlot[1], FatBlock})
  /\ stack' = Append(Advanced, Frame(Opened(TopSlot)))
  /\ UNCHANGED <<image, this, pc, k, empty, spared, goesOn>>

\* The end of a frame: the root stays, another directory is removed.
RmRfEnds ==
  /\ \/ InTop /\ EntryAt(View, TopSlot).kind = "free" /\ ReadsTop
     \/ pc = "rmRf" /\ ~InTop /\ UNCHANGED <<card, held>>
  /\ IF Top.handle.type \in {"root16", "root32"}
       THEN Return(TRUE)
       ELSE /\ this' = Top.handle /\ stack' = Below
            /\ pc' = "scan"
            /\ UNCHANGED <<k, empty, spared, goesOn>>
  /\ UNCHANGED image

-----------------------------------------------------------------------------
(* What else may happen: refused accesses, the handle is closed, and what    *)
(* SpiSdFile does to a file of the tree. *)

Accesses ==
  CASE pc = "idle"   -> FALSE
    [] pc = "search" -> Searching
    [] pc = "rmRf"   -> InTop
    [] OTHER         -> TRUE

\* The chain and the entry no longer fit, or a cluster is in a directory and
\* has not been zeroed.
LeavesDamage ==
  \/ pc \in {"zero", "sync"}
  \/ pc \in {"syncFlush", "delete"} /\ thisEntry.kind = "dir"

\* A flush that was refused may have reached the card.
Fails ==
  /\ refused < MaxRefused /\ Accesses
  /\ card' \in {card, Stored(held)}
  /\ refused' = refused + 1
  /\ IF pc = "free" THEN damaged' \in BOOLEAN ELSE damaged' = LeavesDamage
  /\ Returns(FALSE, this)
  /\ UNCHANGED <<image, held>>

Close ==
  /\ pc = "idle" /\ hand["h"].type # "closed"
  /\ Flushes
  /\ hand' = [hand EXCEPT !["h"] = Closed]
  /\ UNCHANGED <<image, locals, pc, call, spared, refused, damaged>>

\* A file that is opened, written, closed: its first cluster is allocated
\* unless an earlier write got one, and its entry is on the card.
FileIsWritten(s, c) ==
  /\ pc = "idle" /\ ~damaged
  /\ LET e == EntryAt(View, s)
     IN /\ e.kind = "file" /\ e.size = 0
        /\ IF e.first = NoCluster THEN fat[c] = Free ELSE c = e.first
        /\ fat' = Appended(NoCluster, c)
        /\ dir' = [dir EXCEPT ![c] = Data, ![s[1]][s[2]].first = c, ![s[1]][s[2]].size = 1]
  /\ card' = View' /\ held' = NoBlock
  /\ UNCHANGED <<hand, locals, pc, call, spared, refused, damaged>>

-----------------------------------------------------------------------------

Step ==
  \/ SearchNext \/ SearchFinds \/ SearchEnds \/ SearchFails \/ NoSpace
  \/ \E c \in Other : Grow(c) \/ Own(c)
  \/ Zero \/ Fill \/ FillFlush
  \/ OwnZero \/ OwnSync \/ OwnFlush \/ Attribute \/ Dots \/ DotsFlush
  \/ FreeAll \/ Sync \/ SyncFlush \/ Delete \/ DeleteFlush
  \/ ScanNext \/ ScanFindsEntry \/ ScanEnds
  \/ RmRfSkips \/ RmRfFile \/ RmRfDir \/ RmRfEnds

Call ==
  \/ \E op \in {"open", "create", "mkdir", "remove"}, d \in {"root", "h"}, n \in Name :
       OpenCall(op, d, n)
  \/ RmDirCall \/ Close
  \/ \E d \in {"root", "h"} : RmRfCall(d)
  \/ \E s \in LiveSlots(View), c \in Other : FileIsWritten(s, c)

Next == Step \/ Fails \/ Call

Spec == Init /\ [][Next]_vars

-----------------------------------------------------------------------------
(* Properties. *)

\* The variables hold what the code's variables can hold.
TypeOK ==
  /\ fat \in [Cluster -> Cluster \cup {EOC, Free}]
  /\ dir \in [Cluster -> [Index -> AnyEntry]]
  /\ card \in [fat : [Cluster -> Cluster \cup {EOC, Free}], dir : [Cluster -> [Index -> AnyEntry]]]
  /\ held \in Cluster \cup {FatBlock, NoBlock}
  /\ \A h \in {hand["root"], hand["h"], this} \cup {stack[i].handle : i \in DOMAIN stack} :
       /\ h.type \in {"closed", "file", "dir", "root16", "root32"}
       /\ h.first \in Cluster \cup {NoCluster}
       /\ h.size \in 0 .. Cardinality(Cluster)
       /\ h.slot \in Slot \cup {NoSlot}
  /\ k \in 1 .. Cardinality(Cluster) + 1
  /\ empty \in Slot \cup {NoSlot}

Tree == LiveSlots(View)

\* The search open, remove and rmDir make through a directory for the name of
\* an entry in use ends at that entry: no entry of the same name and none that
\* was never used comes before it in the chain of the directory, whatever was
\* deleted and made again and in whichever cluster the first empty slot was
\* (open 378-402; rmDir 804 and rmRfStar 851 stop at such an entry, too).
EveryEntryIsFound ==
  pc = "idle" /\ ~damaged =>
    \A first \in {Root} \cup {EntryAt(View, s).first : s \in {t \in Tree : EntryAt(View, t).kind = "dir"}} :
      LET chain == Chain(fat, first)
          at(j, i) == dir[chain[j]][i]
      IN \A j \in DOMAIN chain, i \in Index : Live(at(j, i)) =>
           \A jj \in 1 .. j, ii \in Index : jj < j \/ ii < i =>
             at(jj, ii).kind # "free" /\ at(jj, ii).name # at(j, i).name

EndsInEOC(c) == fat[Chain(fat, c)[Len(Chain(fat, c))]] = EOC

\* Between calls every directory and every file with data has a chain of
\* allocated clusters that ends, and no two of them share one, although
\* clusters go from removed files to directories and back.
TreeIsSound ==
  pc = "idle" /\ ~damaged =>
    LET owners == Tree \cup {NoSlot}
        first(s) == IF s = NoSlot THEN Root ELSE EntryAt(View, s).first
    IN /\ \A s \in Tree :
            EntryAt(View, s).kind = "dir" \/ EntryAt(View, s).size > 0 => first(s) # NoCluster
       /\ \A s \in owners : first(s) # NoCluster => EndsInEOC(first(s))
       /\ \A s, t \in owners :
            s # t => ClustersFrom(fat, first(s)) \cap ClustersFrom(fat, first(t)) = {}

\* Without a refused access no cluster is lost: between calls each is free, of
\* the root, or in the chain of an entry (remove, rmDir and rmRfStar free all).
NoLeak ==
  pc = "idle" /\ refused = 0 =>
    \A c \in Other :
      fat[c] # Free =>
        c \in ClustersFrom(fat, Root)
          \cup UNION {ClustersFrom(fat, EntryAt(View, s).first) : s \in Tree}

\* A directory whose chain is about to be freed has no entry in use in any of
\* its clusters ("removed only if it is empty", 777).
RemovedIsEmpty ==
  pc = "free" /\ thisEntry.kind = "dir" =>
    \A c \in ClustersFrom(fat, this.first) : \A i \in Index : ~Live(dir[c][i])

\* Power may be lost at any instant: every entry there was before the call,
\* but for those the call has come to remove, is on the card as it was and so
\* is its chain, which a directory may only extend.
CrashSparesOthers ==
  [][card' # card => \A x \in spared :
       /\ x.slot \in LiveSlots(card') /\ EntryAt(card', x.slot) = x.entry
       /\ SubSeq(Chain(card'.fat, x.entry.first), 1, Len(x.chain)) = x.chain]_vars

\* What a call did is on the card when it returns: after an orderly return the
\* cache owes nothing, unless an access was refused.
Durable == pc = "idle" /\ refused = 0 => card = View

\* rmRfStar of the root ("like rm -rf *", 824) that returns true has removed
\* every entry, below the deepest directory and beyond the first cluster too.
RmRfClears == [][RmRfEnds /\ pc' = "idle" => Tree = {}]_vars

\* A new entry goes into a cluster of a directory (open: "reasons for failure
\* include difFile is not a directory", 353-354).
EntriesInDirectories == pc = "fillFlush" => empty[1] \in DirClusters(View)

=============================================================================
