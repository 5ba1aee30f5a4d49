# Formal models of the SPISD library

This directory holds TLA+ models of the SPISD library for the Spresense main
board (`src/SPISD`): a FAT16/FAT32 file system on an SD card behind an SPI
port. The modules are checked with TLC on small instances and, where noted,
proved with TLAPS for every value of their constants.

## The system

| Component | Code | State | Operations |
|---|---|---|---|
| Card driver | `utility/SpiSd2Card.*` | `type_`, `status_`, `errorCode_`, `inBlock_`, `block_`, `offset_`, `partialBlockRead_`, `settings` | `init`, `readBlock`, `readData`, `readEnd`, `readRegister`, `writeBlock`, `writeStart`/`writeData`/`writeStop`, `erase`, `waitNotBusy`, `waitStartBlock` |
| Block cache | `utility/SpiSdVolume.cpp` 20-28, 109-156; used directly by `SpiSdFile` | `cacheBuffer_`, `cacheBlockNumber_`, `cacheDirty_`, `cacheMirrorBlock_` (all static) | `cacheFlush`, `cacheRawBlock`, `cacheZeroBlock`, `cacheClear`, and the direct accesses of `read` and `write` |
| Cluster allocator | `utility/SpiSdVolume.cpp` 31-107, 159-243 | the FAT on the card, `allocSearchStart_` | `allocContiguous`, `freeChain`, `chainSize`, `fatGet`, `fatPut` |
| Volume set-up | `utility/SpiSdVolume.cpp` 260-342, `SPISD.cpp` 203-216 | geometry (`fatStartBlock_`, `clusterCount_`, ...), the handle on the root | `SpiSDClass::begin`, `init`, `openRoot` |
| File | `utility/SpiSdFile.cpp` | `flags_`, `type_`, `curCluster_`, `curPosition_`, `dirBlock_`, `dirIndex_`, `fileSize_`, `firstCluster_` per handle | `read`, `write`, `seekSet`, `sync`, `truncate`, `remove`, `close`, `createContiguous` |
| Directory | `utility/SpiSdFile.cpp` | directory entries on the card, directory handles | `open`, `makeDir`, `rmDir`, `rmRfStar`, `readDir`, `readDirCache`, `addDirCluster`, `timestamp` |
| Short names | `utility/SpiSdFile.cpp` 196-247 | none | `make83Name`, `dirName` |
| Path walk | `SPISD.cpp` | the root's handle, two handles that are swapped, a directory being listed | `walkPath`, `getParentDir`, `open`, `exists`, `mkdir`, `rmdir`, `remove`, `openNextFile`, `rewindDirectory` |
| Arduino wrapper | `File.cpp` | pointer to a heap handle, copied with the object | `write`, `read`, `peek`, `available`, `seek`, `close` |

The library is single-threaded and has no callbacks into itself; what makes it
hard is

* sharing: one 512-byte buffer stands in turn for FAT blocks, directory blocks
  and data blocks of every open file, and two layers manipulate it;
* failure at any access: every card access may be refused, and each call has an
  early return at each of them, leaving some of its work done;
* loss of power between any two writes, while the card holds only what was
  evicted or flushed;
* the FAT kept twice, chains walked and rebuilt one entry at a time;
* fixed-width arithmetic (`uint16_t` times and counts, `uint32_t` positions).

## The layers

     FileTree     (promise of SpiSDClass: a tree of named files)
        ^  implements
     SpiSD          paths, listings     -- uses --> Names    texts of names and paths
        |  extends                                     |
        |                                              v
        |                                           Volume   begin(): mounting a card
        |  opens, makes and removes entries of a directory
        v
     Directory      the tree of directories on the card and its handles
     SpiSdFile      one file and its handle
        |  allocate and free clusters           |  read and rewrite parts of blocks
        v                                       v
     ChainStore  (promise of the allocator)   BlockStore  (promise of the cache)
        ^                                       ^
        |  implements                           |  implements
     FatVolume    -- entries of the FAT -->   BlockCache
                                                |  blocks
                                                v
                                             SpiSd2Card   the driver and its card

Each module uses the promise of the one below and not its details. `FatVolume`
works on FAT entries that are either accessed or fail without effect: that is
what `BlockStore` promises of a block that is read or patched, and
`BlockCacheProofs!Refinement` proves that the cache keeps the promise. `SpiSdFile`
allocates and frees at once, which `ChainStore` promises;
`FatVolumeProofs!ImplementsChains` proves that the loops of `FatVolume` keep it.
`Directory` does the same, and takes from the cache that of all
that was changed the card lacks at most one block; what a file of the tree does when
it is written is `SpiSdFile`'s. `SpiSD` composes `Volume` and `Names` with what
`Directory` is checked to promise: every entry is found by its name
(`EveryEntryIsFound`), only an empty directory is removed (`RemovedIsEmpty`), a call
that returned is on the card (`Durable`), and a refused one has done all or nothing, or
left a file where `makeDir` was to make a directory; `SpiSDProofs!CallsKeepPromise`
proves that it implements `FileTree`. `BlockCache` takes a card that stores a block or refuses it;
`SpiSd2CardProofs` proves that of the driver (`ReadsReturnTheBlock`, `WritesAreStored`,
`WritesTheBlockTold`).

## The modules

**BlockStore** is a memory of blocks with a stable copy: reads return the last
write, a sync makes everything stable, a power loss falls back to any mixture of
stable and buffered blocks that write-backs may have produced.

**BlockCache** has the four static variables of `SpiSdVolume` under the code's
names, the card's blocks, and one action per call into the cache. The branches of
`read` and `write` that touch the cache directly (`ReadDirect`, `WriteFull`,
`WriteFresh`) are actions too. A flush is two writes, block and mirror; each may be
refused, a refused write may or may not have reached the flash, and power may go
between them. A block is a function from parts to values, so that a rewrite of one
part can be told from one of the whole block.

**ChainStore** keeps a sequence of clusters for each file and a set of free
clusters, with atomic append and cut.

**FatVolume** has the FAT itself. One step is one turn of a loop of
`allocContiguous` or `freeChain`, or the straight piece between two accesses; each
access may be refused, and what was written before stays. `chain` is what callers
were told, the FAT is compared with it. A file whose chain was freed in part is
`damaged`; a caller leaves it alone unless `Retry` says that `remove()` is called
again.

**Volume** is `begin()`: one step is one block access of `SpiSdVolume::init`, tried with
the partition table and then without, or of `openRoot`. A card is what its blocks say
when they are taken for a partition table or a boot sector. `cached` is the number of
the buffered block and the card it was read from, which the code does not keep: nothing
resets the buffer when `begin()` fails and another card is put in. `root` is the handle
`openRoot` refuses to open twice.

**Names** has `make83Name`, `dirName` and the two ways the library cuts a path,
`getNextPathComponent` (`WalkParts`) and the loop of `getParentDir` (`OpenParts`), as
functions of texts, with the reference definitions `Is83`, `Normal` and `Parts`.

**SpiSdFile** has the fields of one handle, the directory entry, the chain and the
locals of the call in progress. One step is one turn of a loop of `read`, `write`
or `seekSet`. Bytes have no contents; `access` records which cluster an access
went to for which position. `EOCIsABlock` says whether the block that
`clusterStartBlock` computes for an end mark is one of the card's: with small
clusters the card refuses it, with 16 or more blocks per cluster on FAT32 the shift
wraps to a block of the FAT.

**Directory** has the FAT, each cluster as a row of entries, the same on the card, the
one block the cache still holds, the handle on the root and one on another directory.
One step is one block access of `open`, `makeDir`, `remove`, `rmDir` or one entry of
`rmRfStar`, whose frames are a stack. Entries are free, deleted, dot, other (volume
label, long name), file or directory; a name is a model value, a cluster one block of
three entries. The volume label may have a name that calls ask for: the search, which
compares names whatever the attributes (`SpiSdFile.cpp:394`), ends at it, and what it
found cannot be opened (525), so the call fails (`SearchFails`). `spared` holds what was on the card when the call began and the call
has not come to remove. After a failure that leaves a chain half freed, or a cluster
linked and not zeroed, the volume is given up (`damaged`). A file with
data may be passed as `dirFile` and is refused; `EmptyFiles` says whether callers
pass an empty one, which is not.

**FileTree** is a tree of names in which a call finds, makes or removes what its path
names at once (`mkdir` one missing directory after another) and answers with the truth;
if the card refused something or was full the answer may be FALSE. The name of the
volume label is taken: nothing in the root can have it.

**SpiSD** has the slots of each directory in their order, the two handles of a walk with
the size each directory had when it was opened, the handle on the root from `Volume`, and
an application that lists a directory and writes to files between calls. The label of
each card has a name (`Label`) that may be one that is asked for; a file just made is
empty (size 0) until something is `written` to it. One step is one turn of the loop of
`walkPath` or `getParentDir`, one callback, or one piece of `open`. When a component is
missing `getParentDir` leaves `*index` unset; `Lost` lets any text, or none, stand there.
The refinement maps the slots to a tree of paths (`Tree`), the label to its name, and the
call to the path its text means (`Meant`). `Ask` leaves out the calls that would make an
entry below an empty file (`BelowEmpty`), which the code does and no tree of names can.

**SpiSd2Card** has the fields of the driver and a card: its mode (preparing or
sending a block, receiving one, in a multiple write), the bytes it has sent,
whether it is busy, dead, or failed to program. A call is a script of commands,
waits and transfers; a step performs the first and may end the call. The card takes
any time for anything, refuses commands and data, or stops for ever. Two things are
assumed of it: after a read timed out it sends no more, and between `writeStart`
and `writeStop` the caller calls nothing else, which the driver's comment asks for.

## The runs

| Run | Instance | What it shows |
|---|---|---|
| `cache` | one FAT block, its mirror, one client block, two parts, two values | types, a clean buffer equals its block, the pending mirror address belongs to the buffer, the FATs differ only by a mirror write still owed; every step is one of `BlockStore` |
| `cache_wedged` | as above with two blocks of each kind, a card that refuses nothing | **violated**: after a full-block write over a dirty cached block every `sync()` fails |
| `fat` | 4 clusters, 2 files, runs up to 3, some clusters bad | chains are what callers were told, never cross, no free cluster lies before the hint, "no space" is true, nothing is lost without a refused access; the loops implement `ChainStore`; every call returns |
| `fat_retry` | 3 clusters, failed removes repeated | **violated**: the second `remove()` frees clusters of another file |
| `file_invariants` | 3 clusters of 2 blocks of 2 bytes, some of them others'; three open modes | every access, those of `peek` included, goes to the cluster of its position, the entry left by a close fits the chain, no cluster leaks |
| `file_refused` | 2 clusters of one block, accesses refused | a handle that is not dirty agrees with its entry, an append handle never overwrites, every call returns |
| `file_outside` | 2 clusters, none refused, large clusters | **violated**: a write goes outside the file |
| `directory` | a root of one or two clusters and two more (or one), 2 names, 1 refused access | every entry is found by `open`'s search, chains disjoint, no leak, only empty directories removed, a returned call is on the card, `rmRfStar` clears the tree; at every instant the card has all the call in progress is not to remove |
| `directory_file` | as `directory`, none refused, empty files passed as directories | **violated**: a new entry is put into the cluster of an empty regular file |
| `card` | 3 blocks of 2 bytes and a byte of checksum, all kinds of card, a clock of 3 ticks | partial reads never get out of step, reads return the block asked for, successful writes are stored where they were told |
| `card_hangs` | one kind of card, a clock of 5 ticks, a card that may die | **violated**: a wait that begins just before the 16-bit clock wraps never ends |
| `spisd` | 6 cards, 1 refused access, trees of up to 3 nodes, 13 calls, all paths of up to 5 characters over a letter, the dot and the slash | what is mounted is the card in the slot and its parts lie apart; a walk's handles take turns; a listing is complete; names survive being stored and printed; each call is one of `FileTree`, whose tree leaves out the label's name |

Two more configurations lie beside these and end in a violation; they show faults that
the hazards of `PROJECT.json` name:

* `SpiSdFile_repeated.cfg` (`MCSpiSdFile`): `AccessAtPositionAlways` fails. `write`,
  `read` and `seekSet` move `curCluster_` on before the access that may be refused and
  leave `curPosition_` (`SpiSdFile.cpp:1146`): the repeated call works on the wrong
  cluster. `AccessAtPosition` therefore speaks of handles that were refused nothing.
* `Volume_exchange.cfg` (`MCVolume`): `FreshBeginSucceeds` fails. After a `begin()` that
  failed on one card the buffer still has its block 0, and the next card is judged by it
  (`SpiSdVolume.cpp:24`, 281), for ever, although `init`'s comment (255-258) gives as
  reasons to fail only the partition, the file system and I/O errors. A `begin()` whose
  `chainSize` was refused fails for ever too: `openRoot` has set `type_` by then
  (`SpiSdFile.cpp:562`). What `begin()` does mount is right, `BeginMatchesCard`.

Why the bounds are enough. In the cache one buffer is shared by two kinds of block;
one block of each kind and a mirror give every eviction, and the theorems hold for
any number. In the FAT a run of three has a first, an inner and a last cluster, four
clusters let the search begin anywhere, wrap and meet a used or bad one, and two
files are what crossing needs. In a directory three entries are the two dots and one
more, so that every second name needs a new cluster; a root that begins with two full
clusters grows behind the last one; two names make the entry before and the entry
after a deleted one. One refused access per behaviour is followed by any calls. Six cards are
FAT16 and FAT32, FAT32 with and without a partition table, FAT12, a cluster of three
blocks, and a blank card; FAT16's root fills one block and part of a second. Three nodes
give a directory in a directory with a file in it, a root that grows, and a name to be
found behind a deleted one; nodes are interchangeable, so the run uses symmetry.
Names have at most two characters and one, so that five make names too long on either
side, two dots, and paths of three parts. In a file, positions inside a block, at a block
boundary inside a cluster, and at a cluster boundary are the cases of the
arithmetic: blocks of two bytes and clusters of two blocks have them all, and three
clusters a first, a middle and a last; `MaxSize` is what the volume holds. When
accesses may be refused every prefix of every call is a state, so `file_refused` has
two clusters of one byte; the boundaries are then every position. On the card, two
bytes give a partial read with something left and one without, a write tells a new
block from the old ones, and a timeout of one tick on a clock of three lies before
and across the wrap.

The FAT16 card of `spisd` has the label `AA`, the FAT32 card the label `b`: the one is
asked for by `open` for writing, the other by `open`, `mkdir`, `remove` and `rmdir`, as the
last part of a path and on the way. In `directory` the label has no name a call asks for or
one of the two.

What callers of `SpiSD` do not do: call anything before `begin()` has returned TRUE, have
`mkdir` or `open` for writing make an entry below a file that is still empty (the finding
`directory_file`; the other calls may go through one, and are refused), go on with a listing
after they removed its directory (the listing ends there), or exchange a mounted card. The counts of a boot sector do not
contradict each other, a block other than the boot sector is not taken for one (the
backup of FAT32 is), and no component is so long that the 8-bit index of `walkPath`
wraps.

Fairness. The library is one thread that runs on once called: the steps of a call
are weakly fair, and no new call is owed. In `SpiSdFile` only steps without a new
refusal are fair: a call may not owe its end to an error. In `card_hangs` the clock
ticks and the driver looks; that a dead card stays dead is what the wait is for.
Deadlock is checked but where a system really stops: in `FatVolume` when the card is
full of damaged files, in `Directory` when the volume is given up, in two runs of `SpiSdFile` when the file has been given up.

## What is proved

**`BlockCacheProofs`**, for any card, geometry, number of FATs and content, from
`BlocksAssumption` and `ContentAssumption` (blocks of the card, distinct regions, a zero
value):

* `TypeCorrect`: `Spec => []TypeOK`, one action at a time.
* `Consistency`, and from it `CleanBufferSafe` and `MirrorSafe`: `CleanBufferIsOnCard`,
  `MirrorBelongsToBuffer` and `FatCopiesAgree` always hold. None is inductive alone: a
  flush restores agreement of the FATs only because the mirror address belongs to the
  buffer, and an eviction loses nothing only because a clean buffer is on the card.
  `IInv` is their conjunction with `TypeOK`. The lemmas follow the code: what a flush, a
  flush that stops half way, a fetch and a failed fetch do to `IInv`, then one step per
  action.
* `Refinement`: `Spec => ImplementsBlockStore`. The mapping is what a caller reads
  (`view`: the buffer for its block, the card elsewhere) and what would survive
  (`stable`: the card). Flushes and evictions leave `view` alone because a clean buffer
  is on the card; each action then is the abstract one, a failure, or a stutter.

**`FatVolumeProofs`**, for any number of clusters and files and runs of any length, with
every access refusable:

* `Types`: `Spec => []TypeOK`.
* `HintSafe`: no free cluster lies below `allocSearchStart_`. Inductive only with what the
  search knows (`HintCarries`): below the cluster a single allocation is looking at none
  is free, and the hint moves only there.
* `ChainsSafe` and `FilesAreApart`: if no failed `remove()` is called again
  (`~Retry`), the FAT spells out every sound chain and no cluster is in two. The
  invariant `IInv` describes the calls in progress: the run found is free until it is
  marked, its marked part leads from entry to entry to the end mark and belongs to no
  chain, and what is being freed belongs to the file being freed alone. Without
  `~Retry` it is false, as `fat_retry` shows.
* `NoSpaceSafe`: `allocContiguous` says that there is no space only when no run of the
  length asked for is free. The invariant (`Searched`) is about what the search has
  passed, before or after it went on from the begin of the FAT: at none of those clusters
  a free run ends. That a run across the place where the search began was not missed
  needs the exact hint of `HintSafe`, or the end of the file that is appended to.
* `NothingLost`: as long as no access was refused, every cluster between calls is free,
  bad or in a chain. The invariant `Accounted` adds the part of a run that is marked and
  not yet in a chain.
* `ImplementsChains`: if no failed `remove()` is called again, every step of the loops is
  a step of `ChainStore` or a stutter, whatever is refused. It needs `IInv` and what is
  free during a call: the run the call has not marked yet (`RunIsFree`), and the part of
  a chain that `freeChain` has passed (`PassedIsFree`).

**`VolumeProofs`**, for any set of cards that satisfies `VolumeAssumption` (what a card's
blocks are, and that no other block of a card looks like a boot sector) and any number of
refused accesses:

* `MountMatchesCard`: what `begin()` mounts is the card in the slot. In the
  invariant only block 0 of an earlier card can still be in the buffer when it is asked
  for, and as long as the handle on the root is closed that block is no boot sector that
  could be mounted, or `begin()` would have ended otherwise.
* `MountedIsSound`: for any boot sector, in arithmetic that does not wrap, the mounted
  parts lie behind one another and inside the volume.

**`SpiSdFileProofs`**, for blocks and clusters of any size, any finite set of clusters, any
modes and any refused accesses, from `FileAssumption`:

* `Types`: `Spec => []TypeOK`.
* `HandlesAgree`: a handle that is not dirty says what its entry says. Between calls this
  is inductive only with what it says in them (`Agrees`).
* `AppendsAtEnd`: with `O_APPEND` no write goes to a byte the file has. `Appends` adds
  where the seek before the write was told to go.
* `NoClusterLeaks`: as long as no call failed, each cluster is free, another file's, or
  one the size of the file needs.
* `EntryCoversFile`, `AccessesHit`, `WritesStay`: the entry a closed file leaves fits
  the chain, an access goes to the cluster of its position, a write stays in the file.
  The invariant `Position` ties `curCluster_` to `curPosition_`: outside a seek it is the
  cluster of the byte before the position, in one it is as many clusters before the
  target as the loop has left to go. It holds while the file is `Sound`: no access was
  refused, and if an end mark is the number of a block (`EOCIsABlock`) no call has
  failed. Without the first `SpiSdFile_repeated.cfg` breaks it, without the second
  `file_outside`. Each theorem is stated for sound files, and for all files if
  `~EOCIsABlock`: `AccessAtPosition` and `EntryFitsChain` as they stand,
  `WritesStayInFile` if no access was refused. `AccessesInPlace` says of the last access
  more than the runs check: those that extend the file are in it.

**`SpiSd2CardProofs`**, for blocks of any size, clocks of any width, any kinds of card and
any refusals, from `DriverAssumption`:

* `Types`: `Spec => []TypeOK`, which has that a wait given up has lasted for its timeout.
  `Waiting` ties the clock, which may wrap, to the ticks of the wait.
* `DriverInStep`: driver and card agree on the block being read, and no card is left
  sending between calls. The invariant knows the rest of the script of the call
  (`IsRest`); at each step of it, `Open` says that only between calls, before a command
  and before the data a block is open, `Sends` that a card prepares or sends only what
  the driver is about to read.
* `ReadsReturnTheBlock`, `WritesAreStored`, `WritesTheBlockTold`: they need `Setup`, by
  which the driver that is up counts blocks as its card does, and `Stores`, by which
  a write is stored unless the status that follows will say so.

**`SpiSDProofs`**, for any set of nodes, any characters and lengths of names, any calls,
cards and refused accesses, from `SpiSDAssumption`, `NamesAssumption` and
`VolumeAssumption`:

* `CallInvariant`: `Spec => []SInv`, of which the rest are consequences. No part of `SInv`
  is inductive alone. That no two entries of a directory have one name (`Orderly`) needs
  that a name that was not found is not there, so that the handle that looked knows all
  slots of its directory (`HandleInv`), which a directory that grows through another
  handle would break; that the search stops before nothing needs that behind a slot never
  used are only such slots. The volume label is in the root alone (`LabelInv`), and
  `Orderly` counts it among the entries. A listing (`ListInv`) has shown the entries
  before its place and no others; that the next call goes on behind the entry it
  returned, although it searches for its printed name from the start, needs that names
  are unique and that a printed name is found again. `IInv` of `VolumeProofs` is in
  `SInv`, so that begin()'s steps are proved there.
* `Types`, `TakeTurns` (`HandlesTakeTurns`), `ListsAll` (`ListingIsComplete`),
  `NamesComeBack` (`NamesSurvive`), and `StaysMounted`: what begin() found stays true
  through every call.
* The lemmas about names are for texts of any length. Where a text is cut is the least
  place of a character, so they argue about least elements of sets (`LeastOf`), where one
  would expect an induction over texts: that cutting, putting in upper case, printing with
  a dot and cutting again give back the name (`PrintedIsFound`), that `make83Name` accepts
  just the texts in 8.3 form (`MadeIfInForm`).
* `CallsKeepPromise` (`ImplementsFileTree`): each call is one of `FileTree`. The tree of
  the promise is made of the places of the directories (`Placed`), so `Rooted` has to
  hold first: each entry is held by one directory, what is not a directory holds nothing,
  and following the directories upwards ends at the root. Then making an entry
  adds one path to the tree (`CreatesTree`), removing one takes one away (`DeletesTree`),
  what a search says is true of the tree (`LookupTree`), nothing of the name of the label
  can be in it, and a directory looks empty just
  when no path goes through it (`TreeEmpty`). `Meaning` is what holds within a call: the
  path the call means is the place of the directory it has come to and then the names that
  are left of its text (`WalkMeans`, `ParentsMean`, `OpenMeans`), and the answer that is
  about to be given is true or excused by the card. It needs that the two ways of cutting
  a text agree with what the path means (`MeantIs`): of a plain path the pieces between its
  slashes (`WalkIsPlain`, `OpenIsPlain`), of others what the routine itself makes of them.
  That there are such pieces is proved by the least position at which there would be
  none (`PiecesExist`), that places are what they should be by the shortest that is not
  (`Shortest`). There is one lemma per action, and most of the steps of a call are none
  of the promise: only making, removing, a first refusal and the answer are.

**`DirectoryProofs`**, for any set of clusters, names and entries in a cluster and any
number of refused accesses, from `DirectoryAssumption` and `BlocksAssumption`:

* `CardLacksOneBlock`: what is on the card and the one block the cache holds are together
  what a caller reads (`Stored(held) = View`). It is inductive as it stands, but needs one
  lemma for each way a step treats the cache.
* `DoneIsDurable` (`Durable`): `Flushed` adds at which steps of a call nothing may be left
  to flush.
* `TreeInvariant`: if callers pass no empty file as `dirFile` (`~EmptyFiles`), `TInv`
  always holds. Without that condition it is false, as `directory_file` shows: entries get
  into clusters of a file. Nothing is assumed of what is refused or when; a volume given
  up (`damaged`) is only known to be left alone. `TInv` says
  - of the FAT and the entries (`TreeOK`): from the root and from the first cluster of
    each entry in use the FAT leads to an end mark, and no two of these chains meet. An
    entry in use stands in a cluster that the root or an entry of a directory counts.
    In the order of a chain no entry in use comes behind one never used, and no
    name comes twice. This has two exceptions that `pc` names: the slot whose chain is
    freed before its entry is deleted (`Loose`), and the directory whose new last cluster
    is linked and not yet zeroed (`Unzeroed`);
  - of each handle and each frame of `rmRfStar`: it is the root's or that of an entry in
    use, with its first cluster and the size its chain has. The entry of each frame
    stands in the directory of the frame below, so that removing an entry
    of the top frame leaves all frames true;
  - for each `pc`: what the search has looked at, that what precedes the slot it found
    is neither never used nor of the name asked for, what the new cluster of `makeDir` holds and that nobody
    names it, what the scan of `rmDir` has passed.
  The lemmas first say what truncating, linking, zeroing, and rewriting one entry do to
  any tree in order; then there is one lemma per action.
* `Types` (`TypeOK`), `EntriesAreFound` (`EveryEntryIsFound`), `ChainsAreApart`
  (`TreeIsSound`) and `FreedAreEmpty` (`RemovedIsEmpty`) follow from it.
* `RootIsCleared` (`RmRfClears`), under the same condition, for trees of any depth and
  directories of any length. `WalkInv`: behind the position of each frame of `rmRfStar`
  no entry is in use but the one the frame above is removing. It is inductive given
  `TInv`: what a step removes stands in the top frame and no chain of a frame is freed
  (`FramesApart`), so that no position comes to mean another slot. At the end the frame
  of the root has passed its last entry or one never used, so nothing stands in
  the root (`PositionOf`), and no directory below it can be reached (`DirClustersIn`).

**`DirectoryLossProofs`**, for the same constants and under `~EmptyFiles`, both for what
must not get lost:

* `NoClusterIsLost` (`NoLeak`): as long as no access was refused, every cluster is between
  calls free, the root's, or in the chain of an entry of the tree. That takes three
  invariants. `ReachInv`: every directory `TInv` speaks of is reached from the root;
  without it a cluster could belong to an entry of a directory nobody finds. It is stated
  without paths (`Rooted`): a set of clusters that has those of the root and,
  with the entry of a directory, those of the directory, has them all; so a step that
  keeps it needs no induction over the depth of the tree. `Covered`: each cluster in use
  is in a chain, but for the one `makeDir` has just got. `DataOnly` and `NamesNone`: a
  file of size 0 has no cluster and the entry `remove` is about to mark names none, which
  is why `truncate(0)` may return early and `remove` may forget the entry.
* `OthersAreSpared` (`CrashSparesOthers`): `SparedInv` says at every step that the entries
  of before the call, but those it has come to make or remove, stand where they stood in a
  cluster of a directory, and that their chains have at most grown. What reaches the card
  is what a caller reads (`WritesView`, from `LacksOne`), so they are on the card too,
  and by `ReachInv` in the tree that is found there.
* Both rest on one lemma per action that says what it frees and rewrites at most and that
  the rest and the ways to it stay (`Works(X, T)`).

Only model-checked is all liveness (`CallsReturn`, that each wait ends), which the prover
cannot do. No proof is by induction over data. `Chain` of `Directory` and the functions
that cut a path and place the directories are recursive; of `Chain` it is proved that it
walks along the FAT (`ChainWalked`, `ChainIs`), a least count of steps at which that would
fail standing in for an induction, and of the others that they exist and what one step of
them gives.

## What the models say of the code

Five disagreements between the code and its comments have a run each (`findings` in
`PROJECT.json`): the wedged cache (`SpiSdFile.cpp:1177`), the retried remove (1073),
the write outside the file (1173), the file taken for a directory (378), and the endless
wait (`SpiSd2Card.cpp:387`). The repeated call (1146) and the exchanged card
(`SpiSdVolume.cpp:24`) have the two further configurations above.

The actions show more that no comment denies. When the first write of a file runs out
of space the clusters it got stay in an entry of size 0, and `truncate(0)` returns
early (1061), so that `remove()` loses them. A `makeDir()` that fails leaves a regular
file of that name. Power lost inside `rmDir()` may leave a directory entry with first
cluster 0, inside `addDirCluster()` a directory whose last cluster holds old data.

## Not modelled

* Two handles on one file, and copies of a `SpiFile`, which share one heap handle that
  `close()` frees under the others (`File.cpp:84`): nothing in the library provides for
  either, and a use after free has no outcome a model could choose from.
* `available()` of a closed file (`File.cpp:81-86`) and the `int16_t` that `read()`
  returns for up to 65535 bytes (`SpiSdFile.cpp:661`): faults of one expression that need
  no sequence of steps.
* Restarting from a card that power loss left half written: `CrashSparesOthers` says what
  is still on it, not what the library makes of the half-made directory.
* `mkdir` and `open` for writing below an empty file, in `SpiSD` only: `Directory` makes
  such entries (`EmptyFiles`) and `directory_file` shows them. And a part of a long name
  whose bytes happen to be those of a short name, which would end a search as a volume
  label does.
* `timestamp`, which rewrites the dates of an entry, and read-only entries.
* A start token that arrives after its timeout (`SpiSd2Card.cpp:396`), and calls between
  `writeStart` and `writeStop` (500), which the driver's comment forbids.
* Boot sectors whose counts contradict each other, so that `clusterCount_` wraps.
* The packed structures of `SpiFatStructs.h` and the constants of `SpiSdInfo.h` are
  declarations. Formatted output (`ls`, `printDirName`, dates), `FreeRam` and the example
  sketches change no state of the file system.

