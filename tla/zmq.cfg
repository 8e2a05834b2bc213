\* One peer with two lives, two ports, two keys or none; the transport is
\* started twice.
SPECIFICATION FairZmqSpec
CONSTANTS
    p = p
    stranger = stranger
    tx = tx
    ae = ae
    k1 = k1
    k2 = k2
    NoKey = NoKey
    Peer <- OnePeer
    LongId <- NoPeer
    Stranger = stranger
    Port <- TwoPorts
    Secret = {k1, k2}
    Thread <- TxAndAe
    TxThread = tx
    MaxLives = 2
    MaxStarts = 2
INVARIANT ConnectedOnce
PROPERTIES
    
    HeardInTheEnd
CHECK_DEADLOCK FALSE
