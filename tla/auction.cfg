\* The host has two workers and bids for its own job; the drone bids by itself,
\* below and above the host.  The host settles up to twice.
SPECIFICATION AuctionSpec
CONSTANTS
    host = host
    drone = drone
    t1 = t1
    t2 = t2
    t3 = t3
    App = App
    Node <- TwoNodes
    Announcer <- OnlyHost
    Settler <- OnlyHost
    AutoBid <- OnlyDrone
    Manual <- OnlyHost
    Workers <- HostHasTwo
    Costs <- HostBetween
    NoBid = 4
    MaxAuctions = 1
    MaxAwards = 2
INVARIANTS HoldsCheapestBids AwardIsBest LaterAwardIsNoDearer KnownWinnersWon
SYMMETRY Alike
CHECK_DEADLOCK FALSE
