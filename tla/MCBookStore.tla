---------------------------- MODULE MCBookStore ----------------------------
(* Small instances of BookStore for TLC.                                   *)
EXTENDS BookStore, TLC

Symmetry == Permutations(Uploads) \cup Permutations(Deletes) \cup Permutations(Paths)
=============================================================================
