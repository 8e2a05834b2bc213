\* A wildcard and a narrower one behind it, a topic of its own, a handler
\* registered on the running node, two starts of one worker each.
SPECIFICATION ProcessorSpec
CONSTANTS
    Topic <- SomeTopics
    Wildcard <- SomeWildcards
    Covers <- SomeCovers
    Registered <- BaseFirst
    Thread = {t1, t2}
    NumWorkers = 1
    MaxQueueSize = 2
    MaxFrames = 2
    MaxRegistrations = 3
INVARIANTS FirstRegisteredRuns EachCopyOnce
PROPERTIES QueueDrains StopQuiesces
CHECK_DEADLOCK FALSE
