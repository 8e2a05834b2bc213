-------------------------- MODULE MCMeshTransport --------------------------
(* Model values and small sets for the runs of MeshTransport: u is a JSON  *)
(* value, s the bytes that parse to u, none is None, obj an object that    *)
(* json.dumps refuses; ab is a topic of two characters, unpacked as t and u. *)
EXTENDS MeshTransport

CONSTANTS a, b, t, ab, u, s, none, obj

TwoNodes == {a, b}
OnlyB == {b}
OneTopic == {t}
PairAndFirst == {t, ab}
EachKind == {<<a, t, s>>, <<a, t, obj>>, <<a, ab, none>>}
ValueOrNone == {<<a, t, u>>, <<a, t, none>>}
JustNone == {none}
JustObj == {obj}
Values == {u, s, none, obj}
UOrNone == {u, none}
Nothing == {}
NoBytes == [x \in {} |-> u]
BytesOfU == [x \in {s} |-> u]
NoPair == [x \in {} |-> [topic |-> t, value |-> u]]
AbIsTAndU == [x \in {ab} |-> [topic |-> t, value |-> u]]
SameWall == {0}
TwoWalls == {0, 1}
=============================================================================
