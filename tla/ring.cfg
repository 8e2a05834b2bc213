\* Two threads push through a filter into a ring that others fill and empty.
SPECIFICATION FilterSpec
CONSTANTS
    p1 = p1
    p2 = p2
    Thread <- TwoThreads
    Feed <- Feeds
    NoNumber = NoNumber
    MinValue = 0
    MaxValue = 9
    Deadband = 2
    MinInterval = 1
    MaxTime = 2
    MaxResets = 2
    Capacity = 2
    MaxPushed = 3
    MaxBatch = 3
INVARIANTS
    QuietAndSpaced
    ReferenceIsLastPassed
    HoldsNewest
    Conservation
    InOrder
PROPERTY DropsOnlyWhenFull
\* The bounds on pushes and time end every run.
CHECK_DEADLOCK FALSE
