---------------------------- MODULE MCFileSync ----------------------------
(* Instances of FileSync for TLC.                                          *)
EXTENDS FileSync, TLC

\* Everything but the empty file takes two chunks.
TwoChunks == [c \in Contents |-> IF c = Empty THEN 0 ELSE 2]
===========================================================================
