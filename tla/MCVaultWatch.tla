---------------------------- MODULE MCVaultWatch ----------------------------
(* An instance of VaultWatch for TLC: one name in two plain directories and *)
(* in one whose name begins with a dot.                                    *)
EXTENDS VaultWatch, TLC

CONSTANTS dotted, A

KindByDir == [p \in Paths |-> IF p[1] = dotted THEN "settings" ELSE "files"]

\* All files are there, or all but the one of a plain directory.
OneEmptyAtMost ==
    { d \in [Paths -> {A, Absent}] :
        /\ \A p \in Paths : p[1] = dotted => d[p] = A
        /\ \A p, q \in Paths : d[p] = Absent /\ d[q] = Absent => p = q }

Symmetry == Permutations(Dirs \ {dotted})
=============================================================================
