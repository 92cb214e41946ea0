---------------------------- MODULE MCNoteMover ----------------------------
(* Three sources in batches of two, one patch, one retry.                       *)
EXTENDS NoteMover, TLC

SourceSymmetry == Permutations(Sources)
=============================================================================
