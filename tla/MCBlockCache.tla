---------------------------- MODULE MCBlockCache ----------------------------
(***************************************************************************)
(* BlockCache on a freshly erased card.  Every other content of the card   *)
(* is reached by the calls themselves, so nothing is lost but the product  *)
(* of initial states.                                                      *)
(***************************************************************************)
EXTENDS BlockCache

MCInit == Init /\ disk = [b \in Block |-> ZeroBlock]

MCSpec == MCInit /\ [][Next]_vars

=============================================================================
