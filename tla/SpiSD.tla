-------------------------------- MODULE SpiSD --------------------------------
(***************************************************************************)
(* SpiSDClass on a mounted card: exists, mkdir, remove, rmdir and open by   *)
(* path, and the listing of a directory with openNextFile.                  *)
(*                                                                         *)
(* walkPath goes down a path with two handles it swaps, calling a callback  *)
(* at each component; getParentDir does it in its own way, from a copy of   *)
(* the root's handle.  A handle on a directory remembers the size it had    *)
(* when it was opened.  Below are the promises of Directory: a name is      *)
(* found, a new entry takes the first empty slot or a new cluster, and a    *)
(* refused call has done all or nothing of what a directory shows, or has   *)
(* left a file for the directory it was to make.  One step is one turn of a *)
(* loop between two callbacks.                                              *)
(*                                                                         *)
(* The application does two things no call here says: it writes to a file   *)
(* it has opened, and it keeps a directory open to list it.  Calls before   *)
(* begin() has returned true are not made.  Nor is one that would make      *)
(* entries below a file nothing has been written to: the code makes them in *)
(* the file (Directory's EntriesInDirectories).                             *)
(***************************************************************************)
EXTENDS Volume, Names

CONSTANTS
  Node,           \* files and directories below the root
  RootDir,        \* the root
  NoNode,         \* none
  Free, Deleted,  \* slots: never used, used and deleted
  Dot1, Other,    \* . or .., and the volume label, an entry of the root
  PerCluster,     \* slots in a cluster
  Label,          \* the name each card's volume label has: NoName if it has none,
                  \* or none a call could ask for
  Calls,          \* bound: the calls made, pairs <<op, path>>
  TextChar,       \* bound: the characters, and the length, of all the paths
  TextMax,        \* that are asked for while there is nothing on the card
  Lists,          \* whether directories are listed
  Worked          \* bound: the cards calls are made on

Walks == {"exists", "mkdir", "remove", "rmdir"}

ASSUME SpiSDAssumption ==
  /\ RootDir \notin Node /\ NoNode \notin Node \cup {RootDir}
  /\ {Free, Deleted, Dot1, Other} \cap Node = {} /\ Cardinality({Free, Deleted, Dot1, Other}) = 4
  /\ PerCluster \in Nat /\ PerCluster >= 2
  /\ Label \in [Cards -> [base : Seq(Letter), ext : Seq(Letter)]]
  /\ \A card \in Cards : make83Name(dirName(Label[card])) = Label[card]
  /\ Calls \subseteq (Walks \cup {"openRead", "openWrite"}) \X Seq(Char)
  /\ Lists \in BOOLEAN /\ TextMax \in Nat /\ Worked \subseteq Cards

Dir == Node \cup {RootDir}

Closed == [node |-> NoNode, size |-> 0]

NoCall == [op |-> "none", path |-> << >>, at |-> 1, text |-> << >>, more |-> FALSE,
           parent |-> "root", child |-> "sub1", meant |-> [op |-> "none", path |-> << >>]]

NoLister == [node |-> NoNode, size |-> 0, pos |-> 1, seen |-> {}, stays |-> {}, ended |-> FALSE, twice |-> FALSE]

VARIABLES
  kind,           \* "none", "file" or "dir" for each node
  name,           \* its name, and name[Other] that of the volume label
  slots,          \* the slots of each directory
  written,        \* the files something has been written to
  sub,            \* the two handles of the walk
  call,           \* the call in progress, its locals, and what it means
  pc,             \* where it is
  done,           \* history: it has removed what it is to remove
  reply,          \* what it is going to say, and then what it said
  lister          \* the SpiFile on a directory being listed, with its history

treeVars == <<kind, name, slots, written>>
callVars == <<sub, call, pc, done, reply>>
vars == <<volumeVars, treeVars, callVars, lister>>

\* A root of FAT16 is as large as the boot sector says, one of FAT32 a cluster;
\* its first slot is the volume label.
NewRoot(size) == [i \in 1 .. size |-> IF i = 1 THEN Other ELSE Free]

Init ==
  /\ VolumeInit
  /\ kind = [n \in Node |-> "none"]
  /\ name = [n \in Node \cup {Other} |-> NoName]
  /\ slots = [d \in Dir |-> << >>]
  /\ written = {}
  /\ sub = [s \in {"sub1", "sub2"} |-> Closed]
  /\ call = NoCall /\ pc = "idle" /\ done = FALSE /\ reply = FALSE
  /\ lister = NoLister

-----------------------------------------------------------------------------
(* Directories through a handle. *)

Handle(p) == IF p = "root" THEN [node |-> RootDir, size |-> root.size] ELSE sub[p]

IsDir(d) == d = RootDir \/ (d \in Node /\ kind[d] = "dir")

Named(d, i) == slots[d][i] \in Node

\* The name of what slot i holds, a file, a directory or the volume label.
HasName(d, i, n) == slots[d][i] \in Node \cup {Other} /\ name[slots[d][i]] = n

\* Where the search for a name through handle h ends: at an entry of that name,
\* whatever it is, or at a slot behind which there are none.
Ends(h, n) == {i \in 1 .. h.size : slots[h.node][i] = Free \/ HasName(h.node, i, n)}

Searched(h, n) == IsDir(h.node) /\ n # NoName

\* open: the node of that name, if h is a directory that has it.  A volume label
\* of that name is found, and not opened.
Lookup(h, n) ==
  IF ~Searched(h, n) \/ Ends(h, n) = {} THEN NoNode
  ELSE LET s == slots[h.node][Min(Ends(h, n))] IN IF s \in Node THEN s ELSE NoNode

\* Slip: a label is passed over, as if it had no name.
MissingAmongFiles(h, n) == Searched(h, n) /\ Lookup(h, n) = NoNode

\* h is a directory, and has nothing of that name.
Missing(h, n) ==
  Searched(h, n) /\ (Ends(h, n) # {} => slots[h.node][Min(Ends(h, n))] = Free)

\* The handle open returns; chainSize counts a directory.
Opened(n) ==
  [node |-> n, size |-> IF kind[n] = "dir" THEN Len(slots[n]) ELSE IF n \in written THEN 1 ELSE 0]

EmptySlots(h) == {i \in 1 .. h.size : slots[h.node][i] \in {Free, Deleted}}

Unused == {n \in Node : kind[n] = "none"}

\* A new entry can be made: the name is free in a directory, and there is a
\* slot, or it is not the root of FAT16.
CanCreate(h, n) ==
  /\ Missing(h, n)
  /\ EmptySlots(h) # {} \/ h.node # RootDir \/ root.type = "root32"

Grown(h) == EmptySlots(h) = {}

Cluster(first) == [i \in 1 .. PerCluster |-> IF i = 1 THEN first ELSE Free]

\* Node x becomes an entry of h's directory, in the first empty slot or in a
\* new cluster behind the last one h knows of.
Creates(h, x, n, k) ==
  LET here == IF Grown(h) THEN SubSeq(slots[h.node], 1, h.size) \o Cluster(x)
              ELSE [slots[h.node] EXCEPT ![Min(EmptySlots(h))] = x]
      own == [i \in 1 .. PerCluster |-> IF i <= 2 THEN Dot1 ELSE Free]
  IN /\ kind' = [kind EXCEPT ![x] = k]
     /\ name' = [name EXCEPT ![x] = n]
     /\ slots' = [slots EXCEPT ![h.node] = here, ![x] = IF k = "dir" THEN own ELSE << >>]
     /\ UNCHANGED written

\* addDirCluster: the handle p it was done through knows the new size.
HandleGrows(p) ==
  LET grows == IF Grown(Handle(p)) THEN PerCluster ELSE 0
  IN /\ root' = IF p = "root" THEN [root EXCEPT !.size = @ + grows] ELSE root
     /\ sub' = IF p = "root" THEN sub ELSE [sub EXCEPT ![p].size = @ + grows]

\* Entry x is marked deleted; a directory that was removed is listed no more.
Deletes(x) ==
  /\ kind' = [kind EXCEPT ![x] = "none"]
  /\ name' = [name EXCEPT ![x] = NoName]
  /\ written' = written \ {x}
  /\ slots' = [d \in Dir |-> IF d = x THEN << >>
                             ELSE [i \in DOMAIN slots[d] |-> IF slots[d][i] = x THEN Deleted ELSE slots[d][i]]]
  /\ lister' = IF lister.node = x THEN NoLister
                ELSE [lister EXCEPT !.seen = @ \ {x}, !.stays = @ \ {x}]

\* What rmDir looks for.
IsEmptyDir(x) ==
  LET frees == {i \in DOMAIN slots[x] : slots[x][i] = Free}
  IN \A i \in DOMAIN slots[x] : (\A j \in frees : i < j) => ~Named(x, i)

-----------------------------------------------------------------------------
(* The tree of the directories. *)

Holds(d, n) == \E i \in DOMAIN slots[d] : slots[d][i] = n

\* The root, and what is a file or a directory below it.
Present == {RootDir} \cup {n \in Node : kind[n] # "none"}

\* The names on the path to each file and directory.
Placed ==
  LET path[d \in Present] ==
        IF d = RootDir THEN << >> ELSE Append(path[CHOOSE up \in Present : Holds(up, d)], name[d])
  IN path

Tree ==
  LET places == Placed
  IN [p \in Range(places) |->
       IF \E d \in DOMAIN places : places[d] = p /\ IsDir(d) THEN "dir" ELSE "file"]

-----------------------------------------------------------------------------
(* What the text of a path means. *)

\* The path a caller means, as names of entries.
Meant(op, path) ==
  LET cut == IF Plain(path) THEN Parts(path)
             ELSE IF op \in Walks THEN WalkParts(path)
             ELSE LET p == OpenParts(path) IN IF Last(p) = << >> THEN Front(p) ELSE p
  IN [k \in DOMAIN cut |-> make83Name(cut[k])]

\* A directory named with a slash behind it is opened as it is.
MeantOp(op, path) ==
  IF op = "openWrite" /\ (path = << >> \/ Last(path) = Slash) THEN "openRead" ELSE op

-----------------------------------------------------------------------------
(* A call begins and ends. *)

mount == <<inserted, part, start, vol, stage, began, mounted>>

noRefusal == UNCHANGED <<refused, trouble>>

Refuses == refused < MaxRefused /\ refused' = refused + 1 /\ trouble' = TRUE

\* The path goes through a file that is still empty.
BelowEmpty(path) ==
  LET empty == {n \in Node \ written : kind[n] = "file"}
      places == Placed
  IN \E n \in empty : IsStrictPrefix(places[n], path)

Ask(op, path) ==
  /\ pc = "idle" /\ stage = "idle" /\ mounted /\ inserted \in Worked
  /\ LET m == [op |-> MeantOp(op, path), path |-> Meant(op, path)]
         c == NextComponent(path, 1)
         asked == [NoCall EXCEPT !.op = op, !.path = path, !.meant = m]
     IN /\ m.op \in {"mkdir", "openWrite"} => ~BelowEmpty(m.path)
        /\ IF op \in Walks
             THEN /\ call' = [asked EXCEPT !.text = c.text, !.at = c.next, !.more = c.more]
                  /\ pc' = op
                  /\ UNCHANGED sub
             ELSE /\ call' = [asked EXCEPT !.parent = "sub1", !.child = "sub2"]
                  /\ pc' = "parents"
                  /\ sub' = [sub EXCEPT !["sub1"] = Handle("root")]
  /\ cached' = [number |-> NoBlock, card |-> inserted]
  /\ trouble' = FALSE /\ reply' = FALSE
  /\ UNCHANGED <<mount, root, refused, treeVars, done, lister>>

\* The handles of the call go out of scope with it.
Return ==
  /\ pc = "return"
  /\ call' = NoCall /\ pc' = "idle" /\ done' = FALSE
  /\ sub' = [s \in DOMAIN sub |-> Closed]
  /\ UNCHANGED <<volumeVars, treeVars, reply, lister>>

Returns(r) == pc' = "return" /\ reply' = r

\* A callback has said ok.
After(ok) ==
  IF ok /\ call.more THEN pc' = "descend" /\ UNCHANGED reply ELSE Returns(ok)

parent == Handle(call.parent)

This == make83Name(call.text)

Here == Lookup(parent, This)

still == <<mount, cached>>

-----------------------------------------------------------------------------
(* walkPath and its callbacks. *)

CallbackExists ==
  /\ pc = "exists"
  /\ \/ noRefusal /\ After(Here # NoNode)
     \/ Refuses /\ After(FALSE)
  /\ UNCHANGED <<still, root, treeVars, sub, call, done, lister>>

\* The component is there.
MkdirFinds ==
  /\ pc = "mkdir" /\ Here # NoNode
  /\ \/ noRefusal /\ After(TRUE)
     \/ Refuses /\ After(FALSE)
  /\ UNCHANGED <<still, root, treeVars, sub, call, done, lister>>

\* makeDir fails: the name is none or the volume label's, or there is no room.
MkdirFails ==
  /\ pc = "mkdir" /\ Here = NoNode
  /\ \/ ~CanCreate(parent, This) /\ UNCHANGED refused
     \/ CanCreate(parent, This) /\ Unused = {} /\ UNCHANGED refused
     \/ Refuses
  /\ trouble' = (trouble \/ refused' # refused \/ Missing(parent, This))
  /\ After(FALSE)
  /\ UNCHANGED <<still, root, treeVars, sub, call, done, lister>>

\* makeDir makes the directory; refused, it may have made it or a file.
MkdirMakes ==
  /\ pc = "mkdir" /\ CanCreate(parent, This)
  /\ \E x \in Unused, k \in {"dir", "file"} :
       /\ Creates(parent, x, This, k)
       /\ \/ k = "dir" /\ noRefusal /\ After(TRUE)
          \/ Refuses /\ After(FALSE)
  /\ HandleGrows(call.parent)
  /\ UNCHANGED <<still, call, done, lister>>

\* The callbacks of remove and rmdir wait for the last component.
CallbackWaits ==
  /\ pc \in {"remove", "rmdir"} /\ call.more
  /\ pc' = "descend"
  /\ UNCHANGED <<volumeVars, treeVars, sub, call, done, reply, lister>>

Removable ==
  /\ Here # NoNode
  /\ IF call.op = "remove" THEN kind[Here] = "file"
     ELSE kind[Here] = "dir" /\ IsEmptyDir(Here)

\* Not there, not of the kind, or not empty.
CallbackRefuses ==
  /\ pc \in {"remove", "rmdir"} /\ ~call.more
  /\ \/ ~Removable /\ noRefusal
     \/ Refuses
  /\ After(FALSE)
  /\ UNCHANGED <<still, root, treeVars, sub, call, done, lister>>

\* remove(), or rmDir() and so remove().
CallbackRemoves ==
  /\ pc \in {"remove", "rmdir"} /\ ~call.more /\ Removable
  /\ Deletes(Here)
  /\ \/ noRefusal /\ After(TRUE)
     \/ Refuses /\ After(FALSE)
  /\ done' = TRUE
  /\ UNCHANGED <<still, root, sub, call>>

\* Slip: the handle gone down from stays open.
ClosesNone(s) == s

\* The parent is closed, unless it is the root or its close() is refused.
ClosesParent(s) == IF call.parent = "root" THEN s ELSE [s EXCEPT ![call.parent] = Closed]

\* The handle that is not p, of the two.
Twin(p) == IF p = "sub1" THEN "sub2" ELSE "sub1"

\* walkPath opens the component and goes on below it.
Descend ==
  /\ pc = "descend"
  /\ LET opens == sub[call.child].node = NoNode /\ Here # NoNode
         below == [sub EXCEPT ![call.child] = Opened(Here)]
         c == NextComponent(call.path, call.at)
     IN \/ /\ opens
           /\ \/ sub' = ClosesParent(below) /\ noRefusal
              \/ sub' = below /\ call.parent # "root" /\ Refuses
           /\ call' = [call EXCEPT !.text = c.text, !.at = c.next, !.more = c.more,
                                   !.parent = call.child,
                                   !.child = IF call.parent = "root" THEN "sub2" ELSE call.parent]
           /\ pc' = call.op /\ UNCHANGED reply
        \/ /\ (~opens /\ noRefusal) \/ Refuses
           /\ sub' = ClosesParent(sub)
           /\ UNCHANGED call
           /\ Returns(FALSE)
  /\ UNCHANGED <<still, root, treeVars, done, lister>>

-----------------------------------------------------------------------------
(* getParentDir and open. *)

\* Slip: what was found so far is returned when a component is missing.
FoundSoFar(p) == p

\* A component is missing: an object that is not open is returned.
Nothing(p) == Closed

\* One turn of getParentDir's loop: the next directory of the path.
ParentsNext ==
  /\ pc = "parents"
  /\ LET d == NextDirectory(call.path, call.at)
         x == Lookup(parent, make83Name(d.text))
     IN /\ d.more
        /\ \/ /\ x # NoNode
              /\ \/ /\ noRefusal
                    /\ sub' = [sub EXCEPT ![call.child] = Opened(x), ![call.parent] = Closed]
                 \/ /\ Refuses
                    /\ sub' = [sub EXCEPT ![call.child] = Opened(x)]
              /\ call' = [call EXCEPT !.at = d.next, !.parent = call.child, !.child = call.parent]
              /\ UNCHANGED pc
           \/ /\ (x = NoNode /\ noRefusal) \/ Refuses
              /\ sub' = [sub EXCEPT ![call.parent] = Nothing(@)]
              /\ pc' = "lost"
              /\ UNCHANGED call
  /\ UNCHANGED <<still, root, treeVars, done, reply, lister>>

\* The loop ends; what is left of the path is the name to open.
ParentsEnd ==
  /\ pc = "parents"
  /\ LET d == NextDirectory(call.path, call.at)
     IN /\ ~d.more
        /\ call' = [call EXCEPT !.text = d.rest]
        /\ pc' = IF d.rest = << >> THEN "same" ELSE "open"
  /\ UNCHANGED <<volumeVars, treeVars, sub, done, reply, lister>>

\* A component was missing and *index has not been set: any text, or none,
\* stands where open() looks for the rest of the path.
Lost ==
  /\ pc = "lost"
  /\ \E rest \in {p \in {c[2] : c \in Calls} : ~\E i \in DOMAIN p : p[i] = Slash} \cup {<< >>} :
       /\ call' = [call EXCEPT !.text = rest]
       /\ pc' = IF rest = << >> THEN "same" ELSE "open"
  /\ UNCHANGED <<volumeVars, treeVars, sub, done, reply, lister>>

\* An open SpiFile on a directory can be listed: the application keeps it.
Keeps(h) ==
  IF Lists /\ call.op = "openRead" /\ lister.node = NoNode /\ IsDir(h.node)
    THEN \/ UNCHANGED lister
         \/ lister' = [NoLister EXCEPT !.node = h.node, !.size = h.size,
                                       !.stays = {n \in Node : \E i \in DOMAIN slots[h.node] : slots[h.node][i] = n}]
    ELSE UNCHANGED lister

\* The path ends in a slash, or is empty: the directory itself is returned.
OpenSame ==
  /\ pc = "same"
  /\ Returns(parent.node # NoNode)
  /\ Keeps(parent)
  /\ UNCHANGED <<volumeVars, treeVars, sub, call, done>>

\* Slip: the copy of the root's handle is used.
ThroughCopy == call.parent

\* open() works on the root itself and not on the copy of its handle.
Through == IF parent.node = RootDir THEN "root" ELSE call.parent

dirFile == Handle(Through)

OpenFinds ==
  /\ pc = "open" /\ parent.node # NoNode
  /\ LET x == Lookup(dirFile, This)
         ok == x # NoNode /\ (call.op = "openWrite" => kind[x] = "file")
     IN /\ x # NoNode \/ call.op = "openRead"
        /\ \/ /\ noRefusal /\ Returns(ok)
              /\ IF ok THEN Keeps(Opened(x)) ELSE UNCHANGED lister
           \/ Refuses /\ Returns(FALSE) /\ UNCHANGED lister
  /\ UNCHANGED <<still, root, treeVars, sub, call, done>>

\* A file is made; refused, it may be there or not.
OpenCreates ==
  /\ pc = "open" /\ call.op = "openWrite"
  /\ parent.node # NoNode /\ CanCreate(dirFile, This)
  /\ \E x \in Unused : Creates(dirFile, x, This, "file")
  /\ HandleGrows(Through)
  /\ \/ noRefusal /\ Returns(TRUE)
     \/ Refuses /\ Returns(FALSE)
  /\ UNCHANGED <<still, call, done, lister>>

OpenFails ==
  /\ pc = "open"
  /\ \/ parent.node = NoNode /\ noRefusal
     \/ /\ parent.node # NoNode /\ call.op = "openWrite" /\ Lookup(dirFile, This) = NoNode
        /\ \/ /\ ~CanCreate(dirFile, This) \/ Unused = {}
              /\ UNCHANGED refused
           \/ Refuses
        /\ trouble' = (trouble \/ refused' # refused \/ Missing(dirFile, This))
  /\ Returns(FALSE)
  /\ UNCHANGED <<still, root, treeVars, sub, call, done, lister>>

-----------------------------------------------------------------------------
(* Listing a directory. *)

Listing == pc = "idle" /\ stage = "idle" /\ lister.node # NoNode

\* Slots readDir returns: not deleted, no dots, and before the first free one.
Shown ==
  {i \in lister.pos .. lister.size :
     /\ Named(lister.node, i)
     /\ \A j \in lister.pos .. i : slots[lister.node][j] # Free}

\* Slip: the search for the name leaves the position where it began.
StaysAtStart(i) == 1

\* The search for the name rewinds the directory and ends behind the entry.
Behind(i) == i + 1

\* openNextFile returns the next entry, opened by its printed name.
OpenNextFile ==
  /\ Listing /\ Shown # {}
  /\ LET x == slots[lister.node][Min(Shown)]
         h == [node |-> lister.node, size |-> lister.size]
         n == make83Name(dirName(name[x]))
     IN /\ Lookup(h, n) = x
        /\ lister' = [lister EXCEPT !.pos = Behind(Min(Ends(h, n))),
                                    !.seen = @ \cup {x}, !.twice = @ \/ (x \in lister.seen)]
  /\ UNCHANGED <<volumeVars, treeVars, callVars>>

\* No entry is left, or the next cannot be found by its name.
ListEnds ==
  /\ Listing /\ ~lister.ended
  /\ \/ Shown = {}
     \/ /\ Shown # {}
        /\ LET x == slots[lister.node][Min(Shown)]
           IN Lookup([node |-> lister.node, size |-> lister.size], make83Name(dirName(name[x]))) # x
  /\ lister' = [lister EXCEPT !.ended = TRUE]
  /\ UNCHANGED <<volumeVars, treeVars, callVars>>

RewindDirectory ==
  /\ Listing /\ lister.ended
  /\ lister' = [lister EXCEPT !.pos = 1, !.seen = {}, !.ended = FALSE, !.twice = FALSE]
  /\ UNCHANGED <<volumeVars, treeVars, callVars>>

CloseLister ==
  /\ Listing
  /\ lister' = NoLister
  /\ UNCHANGED <<volumeVars, treeVars, callVars>>

-----------------------------------------------------------------------------

NoFiles == \A n \in Node : kind[n] = "none"

\* begin(); the root's slots are those of the card when it is opened, and the
\* first of them has its label.
Mount ==
  /\ pc = "idle" /\ NoFiles
  /\ VolumeNext
  /\ IF mounted' /\ ~mounted
       THEN /\ slots' = [slots EXCEPT ![RootDir] = NewRoot(root'.size)]
            /\ name' = [name EXCEPT ![Other] = IF root'.size = 0 THEN NoName ELSE Label[inserted]]
       ELSE UNCHANGED <<slots, name>>
  /\ UNCHANGED <<kind, written, callVars, lister>>

\* The application writes to a file open() has returned, and it is empty no more.
Write ==
  /\ pc = "idle"
  /\ \E n \in Node \ written : kind[n] = "file" /\ written' = written \cup {n}
  /\ UNCHANGED <<volumeVars, kind, name, slots, callVars, lister>>

Next ==
  \/ Mount \/ Write
  \/ pc = "idle" /\ \E c \in Calls : Ask(c[1], c[2])
  \/ pc = "idle" /\ NoFiles /\ mounted /\ refused = 0 /\ lister = NoLister
     /\ \E n \in 0 .. TextMax : \E text \in [1 .. n -> TextChar] : Ask("exists", text)
  \/ CallbackExists
  \/ MkdirFinds \/ MkdirFails \/ MkdirMakes
  \/ CallbackWaits \/ CallbackRefuses \/ CallbackRemoves
  \/ Descend
  \/ ParentsNext \/ ParentsEnd \/ Lost
  \/ OpenSame \/ OpenFinds \/ OpenCreates \/ OpenFails
  \/ Return
  \/ OpenNextFile \/ ListEnds \/ RewindDirectory \/ CloseLister

Spec == Init /\ [][Next]_vars

-----------------------------------------------------------------------------
(* Properties. *)

\* Types of the tree, the walk's handles and the call; a handle's size never
\* exceeds its directory.
TypeOK ==
  /\ VolumeTypeOK
  /\ kind \in [Node -> {"none", "file", "dir"}]
  /\ written \subseteq {n \in Node : kind[n] = "file"}
  /\ \A n \in Node \cup {Other} : Range(name[n].base) \cup Range(name[n].ext) \subseteq Letter
  /\ \A d \in Dir : Range(slots[d]) \subseteq Node \cup {Free, Deleted, Dot1, Other}
  /\ \A s \in DOMAIN sub : sub[s].node \in Node \cup {RootDir, NoNode} /\ sub[s].size \in Nat
  /\ mounted => root.size = Len(slots[RootDir])
  /\ lister.node \in Dir => lister.size <= Len(slots[lister.node])
  /\ pc \in {"idle", "return", "exists", "mkdir", "remove", "rmdir", "descend", "parents", "lost", "same", "open"}
  /\ done \in BOOLEAN /\ reply \in BOOLEAN

EntryName == {n \in [base : Seq(Letter), ext : Seq(Letter)] : n.base # << >>}

Promise ==
  INSTANCE FileTree WITH
    Name <- EntryName, NoName <- NoName, tree <- Tree, label <- name[Other], done <- done,
    call <- call.meant,
    trouble <- trouble /\ pc # "idle",
    answer <- reply /\ pc = "idle"

\* exists, mkdir, remove, rmdir and open do what a tree of names promises: the
\* answer is the truth about the path the text means, whichever way it is cut,
\* and the tree changes only as the call says, for mkdir one directory after
\* the other; when a component is missing nothing is opened or made, although
\* *index then has no value (SPISD.cpp:85-192, 218-342).  No entry can be made
\* under the volume label's name (SpiSdFile.cpp:394, 525).  Nothing is said of
\* mkdir, or open for writing, below a file that is empty.
ImplementsFileTree == Promise!Spec

\* When walkPath opens a component the handle it uses is closed, and the one
\* it stands on is open: each handle left behind is closed before its turn
\* comes again (SPISD.cpp:113-131).  A close() that was refused is excepted.
HandlesTakeTurns ==
  pc \in Walks \cup {"descend"} /\ ~trouble =>
    /\ sub[call.child] = Closed
    /\ (call.parent = "root") = (sub[Twin(call.child)] = Closed)

\* openNextFile, called until it returns nothing, has returned each entry that
\* was there when the directory was opened and still is, and none twice,
\* although each call searches the directory from its start with the same
\* handle and others change it between the calls (SPISD.cpp:344-381).
ListingIsComplete ==
  /\ lister.ended => lister.stays \subseteq lister.seen
  /\ ~lister.twice

\* make83Name accepts the texts that are names in 8.3 form and no others, and
\* dirName prints what it made of one as the same text in upper case
\* (SpiSdFile.cpp:196-247).
NamesSurvive ==
  pc \in Walks =>
    /\ (This # NoName) = Is83(call.text)
    /\ This # NoName => /\ dirName(This) = Normal(call.text)
                        /\ make83Name(dirName(This)) = This

=============================================================================
