----------------------- MODULE MCEventThresholdFilter -----------------------
(* Model values and small sets for the run of EventThresholdFilter. *)
EXTENDS EventThresholdFilter, TLC

CONSTANTS p1, p2

TwoThreads == {p1, p2}
Reading(topic, value) == [topic |-> topic, value |-> value, bare |-> FALSE]
Bare(topic, value) == [topic |-> topic, value |-> value, bare |-> TRUE]
Feeds == p1 :> {Reading("temperature", 1), Reading("temperature", 2), Reading("temperature", 3)}
         @@ p2 :> {Bare("2.0", 2)}
=============================================================================
