--------------------------- MODULE MCQuorumVoting ---------------------------
(* Model values and small sets for the runs of QuorumVoting. *)
EXTENDS QuorumVoting

CONSTANTS a, b, w1, w2

TwoNodes == {a, b}
OnlyA == {a}
Nobody == {}
OneWorker == [n \in Node |-> {w1}]
TwoAtB == [n \in Node |-> IF n = b THEN {w1, w2} ELSE {w1}]

(* A camera that was moved, one whose IR emitter fails, one in order. *)
Stats(tilt, contrast) ==
    [luminance |-> 90, laplacian |-> 100, tilt |-> tilt, jerk |-> NotGiven,
     irActive |-> TRUE, contrast |-> contrast]
Cameras == {Stats(-20, 50), Stats(0, 1), Stats(NotGiven, 50)}
=============================================================================
