----------------------------- MODULE MCFatVolume -----------------------------
(***************************************************************************)
(* FatVolume with two files on a small FAT.                                *)
(***************************************************************************)
EXTENDS FatVolume, TLC

Symmetry == Permutations(File)

=============================================================================
