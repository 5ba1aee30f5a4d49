------------------------------ MODULE FileTree ------------------------------
(***************************************************************************)
(* What the calls of SpiSDClass promise: a tree of named files and          *)
(* directories.                                                             *)
(*                                                                         *)
(* A call names a path; what it does to the tree happens at once, or for    *)
(* mkdir one missing directory after another, and its answer tells the      *)
(* truth about the tree.  The name of the card's volume label is taken:     *)
(* nothing in the root can have it.  When the card refused an access or was *)
(* full the answer may be FALSE whatever was done.  This is the abstract    *)
(* specification that SpiSD is checked against.                             *)
(***************************************************************************)
EXTENDS Integers, Sequences, Functions

CONSTANTS
  Name,           \* names an entry can have
  NoName          \* a text that is none

VARIABLES
  tree,           \* from paths, sequences of names, to "dir" or "file"
  label,          \* the name of the card's volume label, or NoName
  call,           \* the call in progress: [op, path], op "none" between calls
  done,           \* it has removed what it is to remove
  trouble,        \* the card refused it something, or had no room
  answer          \* what the last call said

vars == <<tree, label, call, done, trouble, answer>>

NoCall == [op |-> "none", path |-> << >>]

Ops == {"exists", "mkdir", "remove", "rmdir", "openRead", "openWrite"}

Init ==
  /\ tree = [p \in {<< >>} |-> "dir"] /\ label = NoName
  /\ call = NoCall /\ done = FALSE /\ trouble = FALSE /\ answer = FALSE

Parent(path) == SubSeq(path, 1, Len(path) - 1)

IsDir(path) == path \in DOMAIN tree /\ tree[path] = "dir"

IsFile(path) == path \in DOMAIN tree /\ tree[path] = "file"

IsEmpty(path) == \A p \in DOMAIN tree : p # << >> => Parent(p) # path

Prefix(path, i) == SubSeq(path, 1, i)

\* Nothing can have this path: the label or a file is in the way, or a name is
\* none.
Hindered(path) ==
  \E i \in 1 .. Len(path) :
    path[i] \notin Name \/ Prefix(path, i) = <<label>> \/ IsFile(Prefix(path, i - 1))

-----------------------------------------------------------------------------

\* Another card, before anything is made.
Exchange ==
  /\ call.op = "none" /\ tree = [p \in {<< >>} |-> "dir"]
  /\ label' \in Name \cup {NoName}
  /\ UNCHANGED <<tree, call, done, trouble, answer>>

Call ==
  /\ call.op = "none" /\ call' # call
  /\ call'.op \in Ops /\ call'.path \in Seq(Name \cup {NoName})
  /\ answer' = FALSE
  /\ UNCHANGED <<tree, label, done, trouble>>

Added(path, kind) ==
  [p \in DOMAIN tree \cup {path} |-> IF p = path THEN kind ELSE tree[p]]

Without(path) == Restrict(tree, DOMAIN tree \ {path})

CanBeAdded(path) ==
  /\ path # << >> /\ path # <<label>>
  /\ IsDir(Parent(path)) /\ path \notin DOMAIN tree /\ path[Len(path)] \in Name

\* mkdir makes the next missing directory; in trouble it may leave a file.
MakeDir ==
  /\ call.op = "mkdir"
  /\ \E i \in 1 .. Len(call.path) :
       /\ CanBeAdded(Prefix(call.path, i))
       /\ \/ tree' = Added(Prefix(call.path, i), "dir")
          \/ trouble' /\ tree' = Added(Prefix(call.path, i), "file")
  /\ trouble' \in {trouble, TRUE}
  /\ UNCHANGED <<label, call, done, answer>>

\* open for writing makes the file.
MakeFile ==
  /\ call.op = "openWrite"
  /\ CanBeAdded(call.path)
  /\ tree' = Added(call.path, "file")
  /\ trouble' \in {trouble, TRUE}
  /\ UNCHANGED <<label, call, done, answer>>

\* remove takes a file, rmdir an empty directory, never the root.
Remove ==
  /\ ~done /\ done' = TRUE
  /\ \/ call.op = "remove" /\ IsFile(call.path)
     \/ call.op = "rmdir" /\ IsDir(call.path) /\ IsEmpty(call.path) /\ call.path # << >>
  /\ tree' = Without(call.path)
  /\ trouble' \in {trouble, TRUE}
  /\ UNCHANGED <<label, call, answer>>

\* The card refuses something, or is full.
Trouble ==
  /\ call.op # "none"
  /\ ~trouble /\ trouble' = TRUE
  /\ UNCHANGED <<tree, label, call, done, answer>>

\* A TRUE is true.
Confirmed ==
  CASE call.op \in {"exists", "openRead"} -> call.path \in DOMAIN tree
    [] call.op = "mkdir" -> call.path \in DOMAIN tree
    [] call.op = "openWrite" -> IsFile(call.path)
    [] call.op \in {"remove", "rmdir"} -> done

\* And a FALSE without trouble too.
Denied ==
  CASE call.op \in {"exists", "openRead"} -> call.path \notin DOMAIN tree
    [] call.op = "mkdir" -> Hindered(call.path)
    [] call.op = "openWrite" ->
         Hindered(call.path) \/ IsDir(call.path) \/ ~IsDir(Parent(call.path))
    [] call.op = "remove" -> ~done /\ ~IsFile(call.path)
    [] call.op = "rmdir" -> ~done /\ ~(IsDir(call.path) /\ IsEmpty(call.path))

Answer(r) ==
  /\ call.op # "none"
  /\ call' = NoCall /\ answer' = r
  /\ IF r THEN Confirmed ELSE Denied \/ trouble
  /\ done' = FALSE /\ trouble' = FALSE
  /\ UNCHANGED <<tree, label>>

Next ==
  \/ Exchange \/ Call
  \/ MakeDir \/ MakeFile \/ Remove \/ Trouble
  \/ \E r \in BOOLEAN : Answer(r)

Spec == Init /\ [][Next]_vars

=============================================================================
