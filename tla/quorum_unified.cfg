\* Every message arrives and nothing expires.
SPECIFICATION FairQuorumSpec
CONSTANTS
    NotGiven = NotGiven
    DarkBelow = 12
    BlurredBelow = 20
    TiltedAbove = 12
    ShakenAbove = 15
    FlatBelow = 25
    Diagnostics <- Cameras
    a = a
    b = b
    w1 = w1
    w2 = w2
    Node <- TwoNodes
    Proposer <- OnlyA
    Caster <- Nobody
    App = App
    Workers <- OneWorker
    SwarmSize = 2
    Expires = FALSE
PROPERTY UnifiedResponse
CHECK_DEADLOCK FALSE
