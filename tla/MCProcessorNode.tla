--------------------------- MODULE MCProcessorNode ---------------------------
(* AINode registers telemetry/* before a subclass registers                 *)
(* telemetry/metrics/*; telemetry/position is a topic without asterisk.     *)
EXTENDS ProcessorNode

SomeTopics == {"telemetry/metrics/cpu", "telemetry/position"}
SomeWildcards == {"telemetry/*", "telemetry/metrics/*"}
SomeCovers ==
    [p \in SomeWildcards |->
        IF p = "telemetry/*" THEN SomeTopics ELSE {"telemetry/metrics/cpu"}]
BaseFirst == <<"telemetry/*">>
=============================================================================
