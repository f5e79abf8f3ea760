---------------------------- MODULE MCNoteSync ----------------------------
(* Instances of NoteSync for TLC.                                          *)
EXTENDS NoteSync, TLC

Symmetry == Permutations(Paths) \cup Permutations(Hashes)
===========================================================================
