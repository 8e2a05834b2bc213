\* One publisher of two values, one of which, None, is never transmitted, and a
\* receiver that restarts under its key: the replicas become equal, whatever the
\* network loses and although a digest may hash a value with the Lamport time of the
\* next one.
SPECIFICATION FairSpec
CONSTANTS
    a = a
    b = b
    t = t
    ab = ab
    u = u
    s = s
    none = none
    obj = obj
    NoValue = NoValue
    Node <- TwoNodes
    Topic <- OneTopic
    Published <- ValueOrNone
    Value <- UOrNone
    Parsed <- NoBytes
    Blob <- Nothing
    Opaque <- Nothing
    Huge <- Nothing
    Null <- JustNone
    Unpacked <- NoPair
    Triple <- Nothing
    LongId <- Nothing
    SameKey <- OnlyB
    Wall <- SameWall
    Capacity = 1
    BatchSize = 1
    DigestCapacity = 2
    ResponseCapacity = 2
    RequestCapacity = 2
    MaxClock = 2
    MaxInFlight = 2
    Mortal <- OnlyB
    MaxRestarts = 1
PROPERTY Convergence
CHECK_DEADLOCK FALSE
