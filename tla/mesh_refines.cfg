\* One publisher, a lossy, duplicating and reordering network: the mesh implements
\* the store. One topic gets the bytes of a JSON text or an object json.dumps refuses;
\* the other has two characters, and gets None.
SPECIFICATION MeshSpec
CONSTANTS
    a = a
    b = b
    t = t
    ab = ab
    u = u
    s = s
    none = none
    obj = obj
    NoValue = NoValue
    Node <- TwoNodes
    Topic <- PairAndFirst
    Published <- EachKind
    Value <- Values
    Parsed <- BytesOfU
    Blob <- Nothing
    Opaque <- JustObj
    Huge <- Nothing
    Null <- JustNone
    Unpacked <- AbIsTAndU
    Triple <- Nothing
    LongId <- Nothing
    SameKey <- Nothing
    Wall <- TwoWalls
    Capacity = 1
    BatchSize = 1
    DigestCapacity = 1
    ResponseCapacity = 1
    RequestCapacity = 1
    MaxClock = 2
    MaxInFlight = 2
    Mortal <- OnlyB
    MaxRestarts = 0
INVARIANTS
    NothingMispaired
    MeshReadYourWrites
PROPERTY ImplementsStore
CHECK_DEADLOCK FALSE
