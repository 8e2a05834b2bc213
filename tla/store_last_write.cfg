\* A node that restarts under its old node_id: its last write need not win.
SPECIFICATION Spec
CONSTANTS
    a = a
    b = b
    t = t
    u = u
    v = v
    NoValue = NoValue
    Node <- TwoNodes
    Topic <- OneTopic
    Value <- TwoValues
    Wall <- SameWall
    MaxClock = 2
    Mortal <- OnlyA
    MaxRestarts = 1
SYMMETRY Symmetric
INVARIANT LastWriteWins
CHECK_DEADLOCK FALSE
