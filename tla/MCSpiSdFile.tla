---------------------------- MODULE MCSpiSdFile ----------------------------
(* Small instances of SpiSdFile for TLC. *)
EXTENDS SpiSdFile, TLC

\* Clusters are only compared.
Symmetry == Permutations(Cluster)

\* A file opened for reading and writing, with O_APPEND, with O_SYNC.
SomeModes == {{"read", "write"}, {"read", "write", "append"}, {"write", "sync"}}

TwoModes == {{"read", "write"}, {"read", "write", "append", "sync"}}

OneMode == {{"read", "write"}}

=============================================================================
