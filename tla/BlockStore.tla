----------------------------- MODULE BlockStore -----------------------------
(***************************************************************************)
(* What SpiSdVolume's one-block cache promises to the code above it: a     *)
(* memory of blocks, each made of parts that can be written separately.    *)
(* `view' is what a caller reads, `stable' what the card keeps through a   *)
(* power loss.  Any block of `stable' may catch up with `view' at any step *)
(* (write-back happens when it happens); only a Sync that answers success  *)
(* obliges all of them to.                                                 *)
(***************************************************************************)
CONSTANTS
  LogicalBlock,   \* the blocks a caller may name (the FAT mirror is not one)
  Part,           \* the parts of a block
  Value,          \* what a part may hold
  NoBlock,        \* the block of a reply that concerns none
  NoData          \* the data of a reply that delivers none

Content == [Part -> Value]

VARIABLES
  view,           \* [LogicalBlock -> Content], what reads return
  stable,         \* [LogicalBlock -> Content], what survives a power loss
  reply           \* the last call: its operation, block, success and data

vars == <<view, stable, reply>>

Reply(op, b, ok, data) == [op |-> op, block |-> b, ok |-> ok, data |-> data]

\* s is a card on which some of the buffered blocks were written back.
WriteBack(s) ==
  /\ s \in [LogicalBlock -> Content]
  /\ \A b \in LogicalBlock : s[b] \in {stable[b], view[b]}

Init ==
  /\ stable \in [LogicalBlock -> Content]
  /\ view = stable
  /\ reply = Reply("boot", NoBlock, TRUE, NoData)

\* A read answers with the block as the caller last wrote it.
Read(b) ==
  /\ WriteBack(stable')
  /\ reply' = Reply("read", b, TRUE, view[b])
  /\ UNCHANGED view

\* One part of one block is rewritten, nothing else.
Patch(b) ==
  /\ \E p \in Part, v \in Value : view' = [view EXCEPT ![b] = [@ EXCEPT ![p] = v]]
  /\ WriteBack(stable')
  /\ reply' = Reply("patch", b, TRUE, NoData)

\* A whole block is replaced; it may already be on the card.
Replace(b) ==
  /\ \E c \in Content : view' = [view EXCEPT ![b] = c]
  /\ stable' \in [LogicalBlock -> Content]
  /\ \A x \in LogicalBlock : \/ stable'[x] \in {stable[x], view[x]}
                             \/ x = b /\ stable'[x] = view'[x]
  /\ reply' = Reply("replace", b, TRUE, NoData)

\* A replacement that failed gives up what was buffered for its block, which
\* then reads as the card has it, old or new.
ReplaceFails(b) ==
  /\ \E c \in Content : stable' = [stable EXCEPT ![b] = c]
  /\ view' = [view EXCEPT ![b] = stable'[b]]
  /\ reply' = Reply("replace", b, FALSE, NoData)

\* Any other call that failed changes nothing a caller can see.
Fail(op, b) ==
  /\ WriteBack(stable')
  /\ reply' = Reply(op, b, FALSE, NoData)
  /\ UNCHANGED view

Sync ==
  /\ stable' = view
  /\ reply' = Reply("sync", NoBlock, TRUE, NoData)
  /\ UNCHANGED view

\* A power loss, or a cacheClear() whose flush failed, falls back to the card.
Forget ==
  /\ WriteBack(stable')
  /\ view' = stable'
  /\ reply' = Reply("boot", NoBlock, TRUE, NoData)

Next ==
  \/ \E b \in LogicalBlock : \/ Read(b) \/ Patch(b) \/ Replace(b) \/ ReplaceFails(b)
                             \/ \E op \in {"read", "patch", "replace"} : Fail(op, b)
  \/ Sync
  \/ Fail("sync", NoBlock)
  \/ Forget

Spec == Init /\ [][Next]_vars

=============================================================================
