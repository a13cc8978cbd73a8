--------------------------- MODULE MCBookDownload ---------------------------
(* Small instances of BookDownload for TLC.                                *)
EXTENDS BookDownload, TLC

Symmetry == Permutations(Uploads) \cup Permutations(Paths)
=============================================================================
