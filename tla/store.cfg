\* Two nodes that write one topic each, every merge order, one of them restarts.
SPECIFICATION HSpec
CONSTANTS
    a = a
    b = b
    t = t
    u = u
    v = v
    NoValue = NoValue
    Node <- TwoNodes
    Topic <- OneTopic
    Value <- TwoValues
    Wall <- SameWall
    MaxClock = 2
    Mortal <- OnlyA
    MaxRestarts = 1
SYMMETRY Symmetric
INVARIANTS
    ClockDominates
    NoInvention
    SameStampSameValue
    HoldsNewestSeen
    StrongConvergence
PROPERTY NeverRegress
CHECK_DEADLOCK FALSE
