\* At the proposer a worker and an application that votes, at the other node
\* two workers; expiry.
SPECIFICATION QuorumSpec
CONSTANTS
    NotGiven = NotGiven
    DarkBelow = 12
    BlurredBelow = 20
    TiltedAbove = 12
    ShakenAbove = 15
    FlatBelow = 25
    Diagnostics <- Cameras
    a = a
    b = b
    w1 = w1
    w2 = w2
    Node <- TwoNodes
    Proposer <- OnlyA
    Caster <- OnlyA
    App = App
    Workers <- TwoAtB
    SwarmSize = 2
    Expires = TRUE
INVARIANTS
    VotesAreCast
    AnnouncedAfterCommit
    CommitsOverlap
CHECK_DEADLOCK FALSE
