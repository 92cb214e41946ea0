-------------------------- MODULE MCTrashRetention --------------------------
(* Two files that may lie at the note's path, two trash names, three minutes. *)
EXTENDS TrashRetention, TLC

FileSymmetry == Permutations(Files)
=============================================================================
