---------------------------- MODULE MCNoteLive ----------------------------
(* Instances of NoteLive for TLC.                                          *)
EXTENDS NoteLive, TLC

Symmetry == Permutations(Paths) \cup Permutations(Hashes)
===========================================================================
