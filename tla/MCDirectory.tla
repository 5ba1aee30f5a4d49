----------------------------- MODULE MCDirectory -----------------------------
(***************************************************************************)
(* Directory with two names on a small card.                               *)
(***************************************************************************)
EXTENDS Directory, TLC

Symmetry == Permutations(Name) \cup Permutations(Other)

=============================================================================
