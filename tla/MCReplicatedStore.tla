------------------------- MODULE MCReplicatedStore -------------------------
(* Model values, small sets and symmetry for the runs of ReplicatedStore. *)
EXTENDS ReplicatedStore, TLC

CONSTANTS a, b, t, u, v

TwoNodes == {a, b}
OnlyA == {a}
OneTopic == {t}
TwoValues == {u, v}
SameWall == {0}

Symmetric == Permutations(TwoValues)
=============================================================================
