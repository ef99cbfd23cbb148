---------------------------- MODULE MCPinnedFile ----------------------------
(* PinnedFile for TLC: paths and inode numbers are only compared, so that *)
(* any of them may be exchanged for another.                              *)
EXTENDS PinnedFile, TLC

Interchangeable == Permutations(Paths) \cup Permutations(Inodes)
=============================================================================
