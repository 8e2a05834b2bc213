-------------------------- MODULE JobAuctionProofs --------------------------
(***************************************************************************)
(* The auction for any number of nodes, workers, jobs' auctions and bids.  *)
(* None of the four properties is inductive.  That an auction holds the    *)
(* cheapest bids rests on StoresImprove: unless two threads race for one   *)
(* bidder, a thread about to store a bid still stores a cheaper one, so    *)
(* that bids only fall; and then what was awarded, or seen when the job    *)
(* was settled, stays above them (AwardsCovered, SettlesBelow).            *)
(***************************************************************************)
EXTENDS JobAuction, TLAPS

Bid == [bidder : Node, cost : Nat]
AuctionObject == [settled : BOOLEAN, winner : SUBSET Node, bids : [Node -> Nat],
                  taken : SUBSET Bid, raced : SUBSET Node]

Creating == {Task("announce", "create", 0, NoOffer)}
Adding   == [kind : {"submit", "hear"}, pc : {"check", "compare", "store"},
             object : Nat, offer : Bid]
Settling == [kind : {"settle"}, pc : {"settle"}, object : Nat, offer : {NoOffer},
             before : [Node -> Nat]]
Tasks == {Idle} \cup Creating \cup Adding \cup Settling

Message == [kind : {"announce"}, from : Node] \cup [kind : {"bid"}, offer : Bid]
           \cup [kind : {"settle"}, from : Node, winner : Node]
AwardRecord == [at : Node, object : Nat, winner : Node, cost : Nat, before : [Node -> Nat]]

AuctionTypeOK ==
    /\ auctions \in [Node -> Seq(AuctionObject)]
    /\ settledJobs \in [Node -> SUBSET Node]
    /\ DOMAIN work = Node /\ \A n \in Node : work[n] \in [Threads(n) -> Tasks]
    /\ messages \subseteq Message
    /\ made \subseteq Bid
    /\ awards \in Seq(AwardRecord)

Adds(n, w) == work[n][w] \in Adding
Settles(n) == work[n][App] \in Settling

(* A thread's auction object exists. *)
ObjectsExist ==
    \A n \in Node : \A w \in Threads(n) :
        Adds(n, w) \/ work[n][w] \in Settling => work[n][w].object \in DOMAIN auctions[n]

(* No offer is invented, in a thread, a message or an auction; costs stay  *)
(* below NoBid.                                                            *)
OffersMade ==
    /\ \A o \in made : o.cost < NoBid
    /\ \A n \in Node : \A w \in Threads(n) : Adds(n, w) => work[n][w].offer \in made
    /\ \A m \in messages : m.kind = "bid" => m.offer \in made
    /\ \A n \in Node : \A i \in DOMAIN auctions[n] : \A b \in Node :
          /\ auctions[n][i].bids[b] <= NoBid
          /\ auctions[n][i].bids[b] # NoBid => Offer(b, auctions[n][i].bids[b]) \in made

CheapestTaken ==
    \A n \in Node : \A i \in DOMAIN auctions[n] : \A b \in Node \ auctions[n][i].raced :
        \A o \in auctions[n][i].taken : o.bidder = b => auctions[n][i].bids[b] <= o.cost

StoresImprove ==
    \A n \in Node : \A w \in Threads(n) :
        /\ Adds(n, w) /\ work[n][w].pc = "store"
        /\ work[n][w].offer.bidder \notin Object(n, w).raced
        => /\ work[n][w].offer.cost < Object(n, w).bids[work[n][w].offer.bidder]
           /\ Storing(n, work[n][w].object, work[n][w].offer.bidder) = {w}

SettlesBelow ==
    \A n \in Node : Settles(n) =>
        \A b \in Node \ Object(n, App).raced : Object(n, App).bids[b] <= work[n][App].before[b]

BookInv == /\ AuctionTypeOK /\ ObjectsExist /\ OffersMade /\ CheapestTaken
           /\ StoresImprove /\ SettlesBelow

AwardedObject(a) == auctions[a.at][a.object]
AwardsCovered ==
    \A k \in DOMAIN awards :
        /\ awards[k].object \in DOMAIN auctions[awards[k].at]
        /\ Offer(awards[k].winner, awards[k].cost) \in made
        /\ awards[k].winner \notin AwardedObject(awards[k]).raced
              => AwardedObject(awards[k]).bids[awards[k].winner] <= awards[k].cost

AwardWinners == {awards[k].winner : k \in DOMAIN awards}
WinnersAwarded ==
    /\ \A n \in Node : settledJobs[n] \subseteq AwardWinners
    /\ \A m \in messages : m.kind = "settle" => m.winner \in AwardWinners

AwardInv == AwardsCovered /\ AwardIsBest /\ LaterAwardIsNoDearer /\ WinnersAwarded

AuctionInv == BookInv /\ AwardInv

-----------------------------------------------------------------------------
(* What a step does to the auction objects and to the threads' tasks. *)

SameBooks ==
    \A n \in Node : \A i \in DOMAIN auctions[n] :
        /\ i \in DOMAIN auctions'[n]
        /\ auctions'[n][i].bids = auctions[n][i].bids
        /\ auctions'[n][i].taken = auctions[n][i].taken
        /\ auctions'[n][i].raced = auctions[n][i].raced
NewBooks ==
    \A n \in Node : \A i \in DOMAIN auctions'[n] :
        i \notin DOMAIN auctions[n] => auctions'[n][i] = NewAuction

(* Bids only fall, but for those of bidders that threads have raced for. *)
BooksFall ==
    \A n \in Node : \A i \in DOMAIN auctions[n] :
        /\ i \in DOMAIN auctions'[n]
        /\ auctions[n][i].raced \subseteq auctions'[n][i].raced
        /\ \A b \in Node \ auctions'[n][i].raced : auctions'[n][i].bids[b] <= auctions[n][i].bids[b]

LEMMA NewAuctionType == NewAuction \in AuctionObject
BY AuctionAssumption DEF NewAuction, AuctionObject, NoWinner

LEMMA SeqUpdate ==
  ASSUME NEW S, NEW s \in Seq(S), NEW i \in DOMAIN s, NEW x \in S
  PROVE  /\ [s EXCEPT ![i] = x] \in Seq(S)
         /\ DOMAIN [s EXCEPT ![i] = x] = DOMAIN s
         /\ [s EXCEPT ![i] = x][i] = x
         /\ \A j \in DOMAIN s : j # i => [s EXCEPT ![i] = x][j] = s[j]
OBVIOUS

LEMMA ObjectWritten ==
  ASSUME AuctionTypeOK, NEW n \in Node, NEW i \in DOMAIN auctions[n], NEW object \in AuctionObject,
         auctions' = [auctions EXCEPT ![n] = [auctions[n] EXCEPT ![i] = object]]
  PROVE  /\ auctions' \in [Node -> Seq(AuctionObject)]
         /\ \A m \in Node : DOMAIN auctions'[m] = DOMAIN auctions[m]
         /\ auctions'[n][i] = object
         /\ \A m \in Node : \A j \in DOMAIN auctions[m] :
               m # n \/ j # i => auctions'[m][j] = auctions[m][j]
<1>1. auctions[n] \in Seq(AuctionObject) /\ auctions \in [Node -> Seq(AuctionObject)]
  BY DEF AuctionTypeOK
<1> DEFINE book == [auctions[n] EXCEPT ![i] = object]
<1>2. /\ book \in Seq(AuctionObject) /\ DOMAIN book = DOMAIN auctions[n] /\ book[i] = object
      /\ \A j \in DOMAIN auctions[n] : j # i => book[j] = auctions[n][j]
  BY <1>1, SeqUpdate
<1> HIDE DEF book
<1>3. auctions' = [auctions EXCEPT ![n] = book]
  BY DEF book
<1>4. auctions'[n] = book /\ \A m \in Node \ {n} : auctions'[m] = auctions[m]
  BY <1>1, <1>3
<1> QED BY <1>1, <1>2, <1>3, <1>4

LEMMA ObjectAdded ==
  ASSUME AuctionTypeOK, NEW n \in Node,
         auctions' = [auctions EXCEPT ![n] = Append(@, NewAuction)]
  PROVE  /\ auctions' \in [Node -> Seq(AuctionObject)] /\ SameBooks /\ NewBooks
         /\ Len(auctions[n]) + 1 \in DOMAIN auctions'[n]
<1>1. auctions[n] \in Seq(AuctionObject) /\ auctions \in [Node -> Seq(AuctionObject)]
  BY DEF AuctionTypeOK
<1> DEFINE book == Append(auctions[n], NewAuction)
<1>2. /\ book \in Seq(AuctionObject) /\ Len(book) = Len(auctions[n]) + 1
      /\ \A j \in DOMAIN auctions[n] : j \in DOMAIN book /\ book[j] = auctions[n][j]
      /\ \A j \in DOMAIN book : j \notin DOMAIN auctions[n] => book[j] = NewAuction
      /\ Len(auctions[n]) + 1 \in DOMAIN book
  BY <1>1, NewAuctionType
<1> HIDE DEF book
<1>3. auctions'[n] = book /\ \A m \in Node \ {n} : auctions'[m] = auctions[m]
  BY <1>1 DEF book
<1>4. auctions' \in [Node -> Seq(AuctionObject)]
  BY <1>1, <1>2, <1>3 DEF book
<1> QED BY <1>2, <1>3, <1>4 DEF SameBooks, NewBooks

LEMMA TaskSet ==
  ASSUME AuctionTypeOK, NEW n \in Node, NEW w \in Threads(n), NEW task \in Tasks,
         work' = [work EXCEPT ![n][w] = task]
  PROVE  /\ DOMAIN work' = Node /\ \A m \in Node : work'[m] \in [Threads(m) -> Tasks]
         /\ work'[n][w] = task
         /\ \A m \in Node : \A v \in Threads(m) : m # n \/ v # w => work'[m][v] = work[m][v]
BY DEF AuctionTypeOK

LEMMA TaskKinds ==
  /\ \A task \in Adding : task.kind # "idle" /\ task \notin Settling
  /\ \A task \in Tasks : task.kind # "idle" /\ task.pc = "store" => task \in Adding
  /\ Idle \notin Adding /\ Idle \notin Settling
  /\ \A task \in Creating : task \notin Adding /\ task \notin Settling
BY DEF Tasks, Adding, Creating, Settling, Idle, Task

(* A step that stores no bid, writes none of the books' entries, and gives *)
(* one thread a task that is in order.                                     *)
LEMMA QuietStep ==
  ASSUME BookInv, NEW n \in Node, NEW w \in Threads(n), NEW task \in Tasks,
         work' = [work EXCEPT ![n][w] = task] \/ work' = work,
         auctions' \in [Node -> Seq(AuctionObject)], SameBooks, NewBooks,
         settledJobs' \in [Node -> SUBSET Node], messages' \subseteq Message,
         made' \subseteq Bid, awards' \in Seq(AwardRecord),
         made \subseteq made', \A o \in made' : o.cost < NoBid,
         \A m \in messages' : m.kind = "bid" => m.offer \in made',
         task \in Adding => /\ task.object \in DOMAIN auctions'[n]
                            /\ task.offer \in made' /\ task.pc # "store",
         task \in Settling => /\ w = App /\ task.object \in DOMAIN auctions[n]
                              /\ task.before = auctions[n][task.object].bids
  PROVE  BookInv' /\ BooksFall
<1>1. AuctionTypeOK /\ ObjectsExist /\ OffersMade /\ CheapestTaken /\ StoresImprove /\ SettlesBelow
  BY DEF BookInv
<1>2. /\ DOMAIN work' = Node /\ \A m \in Node : work'[m] \in [Threads(m) -> Tasks]
      /\ \A m \in Node : \A v \in Threads(m) :
            work'[m][v] = work[m][v] \/ (m = n /\ v = w /\ work'[m][v] = task)
  BY <1>1, TaskSet DEF AuctionTypeOK
<1>3. AuctionTypeOK'
  BY <1>2 DEF AuctionTypeOK, Threads
<1>4. \A m \in Node : \A i \in DOMAIN auctions[m] : auctions[m][i] \in AuctionObject
  BY <1>1 DEF AuctionTypeOK
<1>5. BooksFall
  <2> SUFFICES ASSUME NEW m \in Node, NEW i \in DOMAIN auctions[m]
               PROVE  /\ i \in DOMAIN auctions'[m]
                      /\ auctions[m][i].raced \subseteq auctions'[m][i].raced
                      /\ \A b \in Node : auctions'[m][i].bids[b] <= auctions[m][i].bids[b]
    BY DEF BooksFall
  <2>1. \A b \in Node : auctions[m][i].bids[b] \in Nat
    BY <1>4 DEF AuctionObject
  <2> QED BY <2>1 DEF SameBooks
<1>6. ObjectsExist'
  <2> SUFFICES ASSUME NEW m \in Node, NEW v \in Threads(m),
                      work'[m][v] \in Adding \/ work'[m][v] \in Settling
               PROVE  work'[m][v].object \in DOMAIN auctions'[m]
    BY DEF ObjectsExist, Adds, Threads
  <2>1. CASE work'[m][v] = work[m][v]
    BY <2>1, <1>1 DEF ObjectsExist, SameBooks, Adds
  <2>2. CASE work'[m][v] # work[m][v]
    BY <2>2, <1>2 DEF SameBooks
  <2> QED BY <2>1, <2>2
<1>7. OffersMade'
  <2>1. ASSUME NEW m \in Node, NEW v \in Threads(m), work'[m][v] \in Adding
        PROVE  work'[m][v].offer \in made'
    BY <2>1, <1>1, <1>2 DEF OffersMade, Adds
  <2>2. ASSUME NEW m \in Node, NEW i \in DOMAIN auctions'[m], NEW b \in Node
        PROVE  /\ auctions'[m][i].bids[b] <= NoBid
               /\ auctions'[m][i].bids[b] # NoBid => Offer(b, auctions'[m][i].bids[b]) \in made'
    <3>1. CASE i \in DOMAIN auctions[m]
      BY <3>1, <1>1 DEF OffersMade, SameBooks
    <3>2. CASE i \notin DOMAIN auctions[m]
      BY <3>2, AuctionAssumption DEF NewBooks, NewAuction
    <3> QED BY <3>1, <3>2
  <2> QED BY <2>1, <2>2 DEF OffersMade, Adds, Threads
<1>8. CheapestTaken'
  <2> SUFFICES ASSUME NEW m \in Node, NEW i \in DOMAIN auctions'[m],
                      NEW b \in Node \ auctions'[m][i].raced, NEW o \in auctions'[m][i].taken,
                      o.bidder = b
               PROVE  auctions'[m][i].bids[b] <= o.cost
    BY DEF CheapestTaken
  <2>1. CASE i \in DOMAIN auctions[m]
    BY <2>1, <1>1 DEF CheapestTaken, SameBooks
  <2>2. CASE i \notin DOMAIN auctions[m]
    BY <2>2 DEF NewBooks, NewAuction
  <2> QED BY <2>1, <2>2
<1>9. StoresImprove'
  <2> SUFFICES ASSUME NEW m \in Node, NEW v \in Threads(m), work'[m][v] \in Adding,
                      work'[m][v].pc = "store",
                      work'[m][v].offer.bidder \notin auctions'[m][work'[m][v].object].raced
               PROVE  /\ work'[m][v].offer.cost
                            < auctions'[m][work'[m][v].object].bids[work'[m][v].offer.bidder]
                      /\ Storing(m, work[m][v].object, work[m][v].offer.bidder)' = {v}
    BY DEF StoresImprove, Adds, Object, Threads
  <2>1. work'[m][v] = work[m][v]
    BY <1>2
  <2>2. work[m][v].object \in DOMAIN auctions[m]
    BY <1>1, <2>1 DEF ObjectsExist, Adds
  <2>3. /\ work[m][v].offer.cost < auctions[m][work[m][v].object].bids[work[m][v].offer.bidder]
        /\ Storing(m, work[m][v].object, work[m][v].offer.bidder) = {v}
    BY <1>1, <2>1, <2>2 DEF StoresImprove, SameBooks, Adds, Object
  <2>4. ASSUME NEW u \in Threads(m), work'[m][u].kind # "idle", work'[m][u].pc = "store"
        PROVE  work'[m][u] = work[m][u]
    BY <2>4, <1>2, TaskKinds
  <2>5. Storing(m, work[m][v].object, work[m][v].offer.bidder)' =
          {u \in Threads(m) : /\ work'[m][u].kind # "idle" /\ work'[m][u].pc = "store"
                              /\ work'[m][u].object = work'[m][v].object
                              /\ work'[m][u].offer.bidder = work'[m][v].offer.bidder}
    BY DEF Storing, Runs, Threads
  <2>6. {u \in Threads(m) : /\ work[m][u].kind # "idle" /\ work[m][u].pc = "store"
                            /\ work[m][u].object = work[m][v].object
                            /\ work[m][u].offer.bidder = work[m][v].offer.bidder} = {v}
    BY <2>3 DEF Storing, Runs
  <2>7. work'[m][v].kind # "idle"
    BY TaskKinds
  <2>8. Storing(m, work[m][v].object, work[m][v].offer.bidder)' = {v}
    BY <2>1, <2>4, <2>5, <2>6, <2>7
  <2> QED BY <2>1, <2>2, <2>3, <2>8 DEF SameBooks
<1>10. SettlesBelow'
  <2> SUFFICES ASSUME NEW m \in Node, work'[m][App] \in Settling,
                      NEW b \in Node \ auctions'[m][work'[m][App].object].raced
               PROVE  auctions'[m][work'[m][App].object].bids[b] <= work'[m][App].before[b]
    BY DEF SettlesBelow, Settles, Object
  <2>0. App \in Threads(m)
    BY DEF Threads
  <2>1. CASE work'[m][App] = work[m][App]
    <3>1. work[m][App].object \in DOMAIN auctions[m]
      BY <1>1, <2>0, <2>1 DEF ObjectsExist
    <3>2. b \in Node \ auctions[m][work[m][App].object].raced
      BY <2>1, <3>1 DEF SameBooks
    <3>3. auctions[m][work[m][App].object].bids[b] <= work[m][App].before[b]
      BY <1>1, <2>1, <3>2 DEF SettlesBelow, Settles, Object
    <3> QED BY <2>1, <3>1, <3>3 DEF SameBooks
  <2>2. CASE work'[m][App] # work[m][App]
    <3>1. m = n /\ w = App /\ work'[m][App] = task /\ task \in Settling
      BY <1>2, <2>0, <2>2
    <3>2. auctions[n][task.object].bids[b] \in Nat
      BY <1>4, <3>1 DEF AuctionObject
    <3> QED BY <3>1, <3>2 DEF SameBooks
  <2> QED BY <2>1, <2>2
<1> QED BY <1>3, <1>5, <1>6, <1>7, <1>8, <1>9, <1>10 DEF BookInv

(* What add_bid does to its auction: all but the order of the bids. *)
LEMMA BidStep ==
  ASSUME BookInv, NEW n \in Node, NEW w \in Threads(n), NEW task \in Tasks,
         work' = [work EXCEPT ![n][w] = task], task \notin Settling,
         NEW i \in DOMAIN auctions[n],
         auctions' \in [Node -> Seq(AuctionObject)],
         \A m \in Node : DOMAIN auctions'[m] = DOMAIN auctions[m],
         \A m \in Node : \A j \in DOMAIN auctions[m] :
            m # n \/ j # i => auctions'[m][j] = auctions[m][j],
         auctions[n][i].raced \subseteq auctions'[n][i].raced,
         \A b \in Node : \/ auctions'[n][i].bids[b] = auctions[n][i].bids[b]
                         \/ Offer(b, auctions'[n][i].bids[b]) \in made,
         \A b \in Node \ auctions'[n][i].raced :
            auctions'[n][i].bids[b] <= auctions[n][i].bids[b],
         task \in Adding => task.object \in DOMAIN auctions[n] /\ task.offer \in made,
         messages' \subseteq Message, \A m \in messages' : m.kind = "bid" => m.offer \in made,
         UNCHANGED <<settledJobs, made, awards>>
  PROVE  /\ AuctionTypeOK' /\ ObjectsExist' /\ OffersMade' /\ SettlesBelow' /\ BooksFall
<1>1. AuctionTypeOK /\ ObjectsExist /\ OffersMade /\ SettlesBelow
  BY DEF BookInv
<1>2. /\ DOMAIN work' = Node /\ \A m \in Node : work'[m] \in [Threads(m) -> Tasks]
      /\ work'[n][w] = task
      /\ \A m \in Node : \A v \in Threads(m) : m # n \/ v # w => work'[m][v] = work[m][v]
  <2>1. AuctionTypeOK
    BY <1>1
  <2> QED BY ONLY <2>1, TaskSet, n \in Node, w \in Threads(n), task \in Tasks,
                  work' = [work EXCEPT ![n][w] = task]
<1>3. AuctionTypeOK'
  BY <1>1, <1>2 DEF AuctionTypeOK, Threads
<1>4. \A m \in Node : \A j \in DOMAIN auctions[m] : auctions[m][j] \in AuctionObject
  BY <1>1 DEF AuctionTypeOK
<1>5. BooksFall
  <2> SUFFICES ASSUME NEW m \in Node, NEW j \in DOMAIN auctions[m]
               PROVE  /\ j \in DOMAIN auctions'[m]
                      /\ auctions[m][j].raced \subseteq auctions'[m][j].raced
                      /\ \A b \in Node \ auctions'[m][j].raced :
                            auctions'[m][j].bids[b] <= auctions[m][j].bids[b]
    BY DEF BooksFall
  <2>1. \A b \in Node : auctions[m][j].bids[b] \in Nat
    BY <1>4 DEF AuctionObject
  <2>2. CASE m = n /\ j = i
    BY <2>2
  <2>3. CASE m # n \/ j # i
    BY <2>1, <2>3
  <2> QED BY <2>2, <2>3
<1>6. ObjectsExist'
  <2> SUFFICES ASSUME NEW m \in Node, NEW v \in Threads(m),
                      work'[m][v] \in Adding \/ work'[m][v] \in Settling
               PROVE  work'[m][v].object \in DOMAIN auctions'[m]
    BY DEF ObjectsExist, Adds, Threads
  <2>1. CASE m = n /\ v = w
    BY <2>1, <1>2
  <2>2. CASE m # n \/ v # w
    BY <2>2, <1>1, <1>2 DEF ObjectsExist, Adds
  <2> QED BY <2>1, <2>2
<1>7. OffersMade'
  <2>1. ASSUME NEW m \in Node, NEW v \in Threads(m), work'[m][v] \in Adding
        PROVE  work'[m][v].offer \in made
    <3>1. CASE m = n /\ v = w
      BY <2>1, <3>1, <1>2
    <3>2. CASE m # n \/ v # w
      BY <2>1, <3>2, <1>1, <1>2 DEF OffersMade, Adds
    <3> QED BY <3>1, <3>2
  <2>2. ASSUME NEW m \in Node, NEW j \in DOMAIN auctions[m], NEW b \in Node
        PROVE  /\ auctions'[m][j].bids[b] <= NoBid
               /\ auctions'[m][j].bids[b] # NoBid => Offer(b, auctions'[m][j].bids[b]) \in made
    <3>1. /\ auctions[m][j].bids[b] <= NoBid
          /\ auctions[m][j].bids[b] # NoBid => Offer(b, auctions[m][j].bids[b]) \in made
      BY <1>1 DEF OffersMade
    <3>2. CASE Offer(b, auctions'[m][j].bids[b]) \in made
      <4>1. auctions'[m][j].bids[b] < NoBid
        BY <3>2, <1>1 DEF OffersMade, Offer
      <4>2. auctions'[m][j].bids[b] \in Nat
        <5>1. auctions'[m] \in Seq(AuctionObject) /\ j \in DOMAIN auctions'[m]
          OBVIOUS
        <5>2. auctions'[m][j] \in AuctionObject
          BY <5>1
        <5> QED BY <5>2 DEF AuctionObject
      <4> QED BY <3>2, <4>1, <4>2, AuctionAssumption
    <3>3. CASE auctions'[m][j].bids[b] = auctions[m][j].bids[b]
      BY <3>1, <3>3
    <3> QED BY <3>2, <3>3
  <2>3. \A o \in made : o.cost < NoBid
    BY <1>1 DEF OffersMade
  <2> QED BY <2>1, <2>2, <2>3 DEF OffersMade, Adds, Threads
<1>8. SettlesBelow'
  <2> SUFFICES ASSUME NEW m \in Node, work'[m][App] \in Settling,
                      NEW b \in Node \ auctions'[m][work'[m][App].object].raced
               PROVE  auctions'[m][work'[m][App].object].bids[b] <= work'[m][App].before[b]
    BY DEF SettlesBelow, Settles, Object
  <2> DEFINE old == auctions[m][work[m][App].object]
             new == auctions'[m][work[m][App].object]
  <2>1. App \in Threads(m)
    BY DEF Threads
  <2>2. work'[m][App] = work[m][App]
    BY <1>2, <2>1
  <2>3. work[m][App].object \in DOMAIN auctions[m]
    BY <1>1, <2>1, <2>2 DEF ObjectsExist
  <2>4. old.raced \subseteq new.raced /\ new.bids[b] <= old.bids[b]
    BY <1>5, <2>2, <2>3 DEF BooksFall
  <2>5. old.bids[b] <= work[m][App].before[b]
    BY <1>1, <2>2, <2>4 DEF SettlesBelow, Settles, Object
  <2>6. new.bids[b] \in Nat /\ old.bids[b] \in Nat /\ work[m][App].before[b] \in Nat
    <3>1. old \in AuctionObject
      BY <1>4, <2>3
    <3>2. new \in AuctionObject
      BY <2>3
    <3> QED BY <2>2, <3>1, <3>2 DEF AuctionObject, Settling
  <2> HIDE DEF old, new
  <2>7. new.bids[b] <= work[m][App].before[b]
    BY <2>4, <2>5, <2>6
  <2> QED BY <2>2, <2>7 DEF new
<1> QED BY <1>3, <1>5, <1>6, <1>7, <1>8

LEMMA AddingTask ==
  ASSUME AuctionTypeOK, NEW n \in Node, NEW w \in Threads(n), NEW pc, Runs(n, w, pc),
         pc \in {"check", "compare", "store"}
  PROVE  /\ work[n][w] \in Adding /\ work[n][w].pc = pc
         /\ \A to \in {"compare", "store"} : [work[n][w] EXCEPT !.pc = to] \in Adding
<1>1. work[n][w] \in Tasks /\ work[n][w].kind # "idle" /\ work[n][w].pc = pc
  BY DEF AuctionTypeOK, Runs
<1>2. work[n][w] # Idle /\ work[n][w] \notin Creating /\ work[n][w] \notin Settling
  BY <1>1 DEF Idle, Creating, Settling, Task
<1>3. work[n][w] \in Adding
  BY <1>1, <1>2 DEF Tasks
<1>4. ASSUME NEW task \in Adding, NEW to \in {"compare", "store"}
      PROVE  [task EXCEPT !.pc = to] \in Adding
  BY <1>4 DEF Adding
<1> QED BY <1>1, <1>3, <1>4

(* A bid of its own is published when add_bid returns. *)
LEMMA ReturnedMessages ==
  ASSUME BookInv, NEW n \in Node, NEW w \in Threads(n), work[n][w] \in Adding, Return(n, w)
  PROVE  /\ messages' \subseteq Message /\ messages \subseteq messages'
         /\ \A m \in messages' : m.kind = "bid" => m.offer \in made
         /\ \A m \in messages' : m.kind = "settle" => m \in messages
         /\ work' = [work EXCEPT ![n][w] = Idle]
<1>1. work[n][w].offer \in made /\ work[n][w].offer \in Bid
  BY DEF BookInv, OffersMade, AuctionTypeOK, Adds
<1>2. BidMessage(work[n][w].offer) \in Message /\ BidMessage(work[n][w].offer).kind = "bid"
      /\ BidMessage(work[n][w].offer).offer = work[n][w].offer
  BY <1>1 DEF BidMessage, Message
<1>3. messages \subseteq Message /\ \A m \in messages : m.kind = "bid" => m.offer \in made
  BY DEF BookInv, OffersMade, AuctionTypeOK
<1>4. messages' \subseteq messages \cup {BidMessage(work[n][w].offer)} /\ messages \subseteq messages'
      /\ work' = [work EXCEPT ![n][w] = Idle]
  BY DEF Return
<1> QED BY <1>1, <1>2, <1>3, <1>4

(* The threads about to store a bid, when only the task of w changes and   *)
(* is about something else afterwards.                                     *)
LEMMA OtherStores ==
  ASSUME NEW n \in Node, NEW w \in Threads(n), NEW m \in Node, NEW i, NEW b,
         \A u \in Node : \A v \in Threads(u) : u # n \/ v # w => work'[u][v] = work[u][v]
  PROVE  /\ \A v \in Threads(m) : m # n \/ v # w =>
               (v \in Storing(m, i, b)' <=> v \in Storing(m, i, b))
         /\ Storing(m, i, b)' \subseteq Threads(m) /\ Storing(m, i, b) \subseteq Threads(m)
BY DEF Storing, Runs, Threads

LEMMA StoringIsAdding ==
  ASSUME AuctionTypeOK, NEW n \in Node, NEW i, NEW b, NEW w
  PROVE  w \in Storing(n, i, b) <=> /\ w \in Threads(n) /\ work[n][w] \in Adding
                                    /\ work[n][w].pc = "store" /\ work[n][w].object = i
                                    /\ work[n][w].offer.bidder = b
<1>1. \A v \in Threads(n) : work[n][v] \in Tasks
  BY DEF AuctionTypeOK
<1> QED BY <1>1, TaskKinds DEF Storing, Runs

LEMMA CompareStep ==
  ASSUME BookInv, NEW n \in Node, NEW w \in Threads(n), Compare(n, w)
  PROVE  BookInv' /\ BooksFall
<1> DEFINE t == work[n][w]
           i == t.object
           b == t.offer.bidder
           a == auctions[n][i]
           cheaper == t.offer.cost < a.bids[b]
           raced == [a EXCEPT !.raced = @ \cup {b}]
           taken == [a EXCEPT !.taken = @ \cup {t.offer}]
<1>1. AuctionTypeOK /\ ObjectsExist /\ OffersMade /\ CheapestTaken /\ StoresImprove /\ SettlesBelow
  BY DEF BookInv
<1>2. t \in Adding /\ t.pc = "compare" /\ [t EXCEPT !.pc = "store"] \in Adding
  BY <1>1, AddingTask DEF Compare
<1>3. i \in DOMAIN auctions[n] /\ a \in AuctionObject /\ t.offer \in made /\ t.offer \in Bid
      /\ b \in Node
  <2>1. i \in DOMAIN auctions[n]
    BY <1>1, <1>2 DEF ObjectsExist, Adds
  <2>2. a \in AuctionObject
    BY <1>1, <2>1 DEF AuctionTypeOK
  <2>3. t.offer \in made
    BY <1>1, <1>2 DEF OffersMade, Adds
  <2>4. t.offer \in Bid /\ b \in Node
    BY <1>2 DEF Adding, Bid
  <2> QED BY <2>1, <2>2, <2>3, <2>4
<1>4. /\ a.bids \in [Node -> Nat] /\ a.raced \subseteq Node /\ a.taken \subseteq Bid
      /\ raced \in AuctionObject /\ raced.bids = a.bids /\ raced.taken = a.taken
      /\ raced.raced = a.raced \cup {b}
      /\ taken \in AuctionObject /\ taken.bids = a.bids /\ taken.raced = a.raced
      /\ taken.taken = a.taken \cup {t.offer}
  BY <1>3 DEF AuctionObject
<1>5. /\ UNCHANGED <<settledJobs, made, awards>>
      /\ cheaper => /\ work' = [work EXCEPT ![n][w] = [t EXCEPT !.pc = "store"]]
                    /\ messages' = messages
                    /\ auctions' = IF Storing(n, i, b) = {} THEN auctions
                                   ELSE [auctions EXCEPT ![n] = [auctions[n] EXCEPT ![i] = raced]]
      /\ ~cheaper => /\ Return(n, w)
                     /\ auctions' = [auctions EXCEPT ![n] = [auctions[n] EXCEPT ![i] = taken]]
  BY DEF Compare, Object
<1> HIDE DEF cheaper, raced, taken
<1>6. \A j \in Node : a.bids[j] \in Nat
  BY <1>4
<1>7. CASE cheaper
  <2> DEFINE task == [t EXCEPT !.pc = "store"]
  <2>1. task \in Adding /\ task.pc = "store" /\ task.object = i /\ task.offer = t.offer
    BY <1>2 DEF Adding
  <2>2. work' = [work EXCEPT ![n][w] = task] /\ task \in Tasks /\ task \notin Settling
    BY <1>5, <1>7, <2>1, TaskKinds DEF Tasks
  <2>3. /\ auctions' \in [Node -> Seq(AuctionObject)]
        /\ \A m \in Node : DOMAIN auctions'[m] = DOMAIN auctions[m]
        /\ \A m \in Node : \A j \in DOMAIN auctions[m] :
              m # n \/ j # i => auctions'[m][j] = auctions[m][j]
        /\ auctions'[n][i].bids = a.bids /\ auctions'[n][i].taken = a.taken
        /\ a.raced \subseteq auctions'[n][i].raced
        /\ Storing(n, i, b) = {} \/ b \in auctions'[n][i].raced
    <3>1. CASE Storing(n, i, b) = {}
      BY <3>1, <1>1, <1>5, <1>7 DEF AuctionTypeOK
    <3>2. CASE Storing(n, i, b) # {}
      <4>1. auctions' = [auctions EXCEPT ![n] = [auctions[n] EXCEPT ![i] = raced]]
        BY <3>2, <1>5, <1>7
      <4>2. /\ auctions' \in [Node -> Seq(AuctionObject)]
            /\ \A m \in Node : DOMAIN auctions'[m] = DOMAIN auctions[m]
            /\ auctions'[n][i] = raced
            /\ \A m \in Node : \A j \in DOMAIN auctions[m] :
                  m # n \/ j # i => auctions'[m][j] = auctions[m][j]
        BY ONLY <4>1, <1>1, <1>3, <1>4, ObjectWritten, n \in Node
      <4> QED BY <4>2, <1>4
    <3> QED BY <3>1, <3>2
  <2> HIDE DEF task
  <2>4. /\ work'[n][w] = task
        /\ \A m \in Node : \A v \in Threads(m) : m # n \/ v # w => work'[m][v] = work[m][v]
    BY ONLY <1>1, <2>2, TaskSet, n \in Node, w \in Threads(n)
  <2>5. messages' \subseteq Message /\ \A m \in messages' : m.kind = "bid" => m.offer \in made
    BY <1>1, <1>5, <1>7 DEF OffersMade, AuctionTypeOK
  <2>6. AuctionTypeOK' /\ ObjectsExist' /\ OffersMade' /\ SettlesBelow' /\ BooksFall
    <3>1. \A c \in Node : \/ auctions'[n][i].bids[c] = auctions[n][i].bids[c]
                           \/ Offer(c, auctions'[n][i].bids[c]) \in made
      BY <2>3
    <3>2. \A c \in Node \ auctions'[n][i].raced :
             auctions'[n][i].bids[c] <= auctions[n][i].bids[c]
      BY <1>6, <2>3
    <3>3. task.object \in DOMAIN auctions[n] /\ task.offer \in made
      BY <1>3, <2>1
    <3>4. UNCHANGED <<settledJobs, made, awards>>
      BY <1>5
    <3> QED BY ONLY BookInv, n \in Node, w \in Threads(n), <1>3, <2>2, <2>3, <2>5,
                    <3>1, <3>2, <3>3, <3>4, BidStep
  <2>7. CheapestTaken'
    <3> SUFFICES ASSUME NEW m \in Node, NEW j \in DOMAIN auctions[m],
                        NEW c \in Node \ auctions'[m][j].raced, NEW o \in auctions'[m][j].taken,
                        o.bidder = c
                 PROVE  auctions'[m][j].bids[c] <= o.cost
      BY <2>3 DEF CheapestTaken
    <3> QED BY <1>1, <2>3 DEF CheapestTaken
  <2>8. StoresImprove'
    <3> SUFFICES ASSUME NEW m \in Node, NEW v \in Threads(m), work'[m][v] \in Adding,
                        work'[m][v].pc = "store",
                        work'[m][v].offer.bidder \notin auctions'[m][work'[m][v].object].raced
                 PROVE  /\ work'[m][v].offer.cost
                              < auctions'[m][work'[m][v].object].bids[work'[m][v].offer.bidder]
                        /\ Storing(m, work[m][v].object, work[m][v].offer.bidder)' = {v}
      BY DEF StoresImprove, Adds, Object, Threads
    <3>1. ASSUME NEW j, NEW c PROVE w \notin Storing(n, j, c)
      BY <1>1, <1>2, StoringIsAdding
    <3>2. ASSUME NEW j, NEW c, NEW u
          PROVE  u \in Storing(m, j, c)' <=>
                    \/ u \in Storing(m, j, c)
                    \/ m = n /\ u = w /\ j = i /\ c = b
      <4>1. CASE m = n /\ u = w
        BY <4>1, <2>1, <2>4, <3>1, TaskKinds DEF Storing, Runs, Threads
      <4>2. CASE m # n \/ u # w
        BY <4>2, <2>4, OtherStores
      <4> QED BY <4>1, <4>2
    <3>3. CASE m = n /\ v = w
      <4>1. work'[m][v].object = i /\ work'[m][v].offer = t.offer
        BY <3>3, <2>1, <2>4
      <4>2. Storing(n, i, b) = {}
        BY <2>3, <3>3, <4>1
      <4>3. Storing(m, work[m][v].object, work[m][v].offer.bidder)' = {v}
        BY <3>2, <3>3, <4>1, <4>2
      <4>4. t.offer.cost < auctions'[n][i].bids[b]
        BY <1>7, <2>3 DEF cheaper
      <4> QED BY <3>3, <4>1, <4>3, <4>4
    <3>4. CASE m # n \/ v # w
      <4>1. work'[m][v] = work[m][v] /\ work[m][v] \in Adding
        BY <2>4, <3>4
      <4>2. work[m][v].object \in DOMAIN auctions[m]
        BY <1>1, <4>1 DEF ObjectsExist, Adds
      <4>3. /\ work[m][v].offer.cost < auctions[m][work[m][v].object].bids[work[m][v].offer.bidder]
            /\ Storing(m, work[m][v].object, work[m][v].offer.bidder) = {v}
        <5>1. work[m][v].offer.bidder \notin auctions[m][work[m][v].object].raced
          BY <2>3, <4>1, <4>2
        <5> QED BY <1>1, <4>1, <5>1 DEF StoresImprove, Adds, Object
      <4>4. ~(m = n /\ work[m][v].object = i /\ work[m][v].offer.bidder = b)
        BY <2>3, <4>1, <4>3
      <4>5. Storing(m, work[m][v].object, work[m][v].offer.bidder)' = {v}
        BY <3>2, <4>1, <4>3, <4>4
      <4>6. auctions'[m][work[m][v].object].bids = auctions[m][work[m][v].object].bids
        BY <2>3, <4>2
      <4> QED BY <4>1, <4>3, <4>5, <4>6
    <3> QED BY <3>3, <3>4
  <2> QED BY <2>6, <2>7, <2>8 DEF BookInv
<1>8. CASE ~cheaper
  <2>1. auctions' = [auctions EXCEPT ![n] = [auctions[n] EXCEPT ![i] = taken]] /\ Return(n, w)
    BY <1>5, <1>8
  <2>2. /\ messages' \subseteq Message /\ \A m \in messages' : m.kind = "bid" => m.offer \in made
        /\ work' = [work EXCEPT ![n][w] = Idle]
    BY ONLY <1>2, <2>1, BookInv, n \in Node, w \in Threads(n), ReturnedMessages
  <2>3. /\ auctions' \in [Node -> Seq(AuctionObject)]
        /\ \A m \in Node : DOMAIN auctions'[m] = DOMAIN auctions[m]
        /\ auctions'[n][i] = taken
        /\ \A m \in Node : \A j \in DOMAIN auctions[m] :
              m # n \/ j # i => auctions'[m][j] = auctions[m][j]
    BY ONLY <2>1, <1>1, <1>3, <1>4, ObjectWritten, n \in Node
  <2>4. /\ Idle \in Tasks /\ Idle \notin Settling /\ Idle \notin Adding
    BY TaskKinds DEF Tasks
  <2>5. /\ work'[n][w] = Idle
        /\ \A m \in Node : \A v \in Threads(m) : m # n \/ v # w => work'[m][v] = work[m][v]
    BY ONLY <1>1, <2>2, <2>4, TaskSet, n \in Node, w \in Threads(n)
  <2>6. AuctionTypeOK' /\ ObjectsExist' /\ OffersMade' /\ SettlesBelow' /\ BooksFall
    <3>1. \A c \in Node : \/ auctions'[n][i].bids[c] = auctions[n][i].bids[c]
                           \/ Offer(c, auctions'[n][i].bids[c]) \in made
      BY <1>4, <2>3
    <3>2. \A c \in Node \ auctions'[n][i].raced :
             auctions'[n][i].bids[c] <= auctions[n][i].bids[c]
      BY <1>4, <1>6, <2>3
    <3>3. a.raced \subseteq auctions'[n][i].raced
      BY <1>4, <2>3
    <3>4. UNCHANGED <<settledJobs, made, awards>>
      BY <1>5
    <3> DEFINE task == Idle
    <3>5. /\ task \in Tasks /\ task \notin Settling /\ work' = [work EXCEPT ![n][w] = task]
          /\ task \in Adding => task.object \in DOMAIN auctions[n] /\ task.offer \in made
      BY <2>2, <2>4
    <3> HIDE DEF task
    <3>6. /\ i \in DOMAIN auctions[n] /\ auctions' \in [Node -> Seq(AuctionObject)]
          /\ \A m \in Node : DOMAIN auctions'[m] = DOMAIN auctions[m]
          /\ \A m \in Node : \A j \in DOMAIN auctions[m] :
                m # n \/ j # i => auctions'[m][j] = auctions[m][j]
      BY <1>3, <2>3
    <3>7. messages' \subseteq Message /\ \A m \in messages' : m.kind = "bid" => m.offer \in made
      BY <2>2
    <3> QED BY ONLY BookInv, n \in Node, w \in Threads(n),
                    <1>3, <1>4, <2>3, <3>1, <3>2, <3>3, <3>4, <3>5, <3>6, <3>7, BidStep
  <2>7. CheapestTaken'
    <3> SUFFICES ASSUME NEW m \in Node, NEW j \in DOMAIN auctions[m],
                        NEW c \in Node \ auctions'[m][j].raced, NEW o \in auctions'[m][j].taken,
                        o.bidder = c
                 PROVE  auctions'[m][j].bids[c] <= o.cost
      BY <2>3 DEF CheapestTaken
    <3>1. CASE m = n /\ j = i /\ o = t.offer
      <4>1. t.offer.cost \in Nat /\ a.bids[b] \in Nat
        BY <1>3, <1>6 DEF Bid
      <4>2. auctions'[m][j].bids[c] = a.bids[b] /\ o.cost = t.offer.cost
        BY <3>1, <1>4, <2>3
      <4>3. a.bids[b] <= t.offer.cost
        BY <4>1, <1>8 DEF cheaper
      <4> QED BY ONLY <4>2, <4>3
    <3>2. CASE m = n /\ j = i /\ o # t.offer
      BY <3>2, <1>1, <1>4, <2>3 DEF CheapestTaken
    <3>3. CASE m # n \/ j # i
      BY <3>3, <1>1, <2>3 DEF CheapestTaken
    <3> QED BY <3>1, <3>2, <3>3
  <2>8. StoresImprove'
    <3> SUFFICES ASSUME NEW m \in Node, NEW v \in Threads(m), work'[m][v] \in Adding,
                        work'[m][v].pc = "store",
                        work'[m][v].offer.bidder \notin auctions'[m][work'[m][v].object].raced
                 PROVE  /\ work'[m][v].offer.cost
                              < auctions'[m][work'[m][v].object].bids[work'[m][v].offer.bidder]
                        /\ Storing(m, work[m][v].object, work[m][v].offer.bidder)' = {v}
      BY DEF StoresImprove, Adds, Object, Threads
    <3>1. ASSUME NEW j, NEW c PROVE w \notin Storing(n, j, c)
      BY <1>1, <1>2, StoringIsAdding
    <3>2. ASSUME NEW j, NEW c, NEW u
          PROVE  u \in Storing(m, j, c)' <=> u \in Storing(m, j, c)
      <4>1. CASE m = n /\ u = w
        <5>1. w \notin Storing(m, j, c)'
          BY <4>1, <2>5 DEF Storing, Runs, Idle
        <5> QED BY <4>1, <5>1, <3>1
      <4>2. CASE m # n \/ u # w
        BY <4>2, <2>5, OtherStores
      <4> QED BY <4>1, <4>2
    <3>3. m # n \/ v # w
      BY <2>4, <2>5
    <3>4. work'[m][v] = work[m][v] /\ work[m][v] \in Adding
      BY <2>5, <3>3
    <3>5. work[m][v].object \in DOMAIN auctions[m]
      BY <1>1, <3>4 DEF ObjectsExist, Adds
    <3>6. /\ auctions'[m][work[m][v].object].bids = auctions[m][work[m][v].object].bids
          /\ auctions'[m][work[m][v].object].raced = auctions[m][work[m][v].object].raced
      BY <1>4, <2>3, <3>5
    <3>7. /\ work[m][v].offer.cost < auctions[m][work[m][v].object].bids[work[m][v].offer.bidder]
          /\ Storing(m, work[m][v].object, work[m][v].offer.bidder) = {v}
      BY <1>1, <3>4, <3>6 DEF StoresImprove, Adds, Object
    <3>8. Storing(m, work[m][v].object, work[m][v].offer.bidder)' = {v}
      BY <3>2, <3>4, <3>7
    <3> QED BY <3>4, <3>6, <3>7, <3>8
  <2> QED BY <2>6, <2>7, <2>8 DEF BookInv
<1> QED BY <1>7, <1>8

(* A thread stores a bid below what the auction holds, unless raced, and   *)
(* then no other thread is about to store one of the same bidder.          *)
LEMMA StoreStep ==
  ASSUME BookInv, NEW n \in Node, NEW w \in Threads(n), Store(n, w)
  PROVE  BookInv' /\ BooksFall
<1> DEFINE t == work[n][w]
           i == t.object
           b == t.offer.bidder
           a == auctions[n][i]
           new == [a EXCEPT !.bids = [a.bids EXCEPT ![b] = t.offer.cost],
                            !.taken = a.taken \cup {t.offer}]
<1>1. AuctionTypeOK /\ ObjectsExist /\ OffersMade /\ CheapestTaken /\ StoresImprove /\ SettlesBelow
  BY DEF BookInv
<1>2. t \in Adding /\ t.pc = "store"
  BY <1>1, AddingTask DEF Store
<1>3. i \in DOMAIN auctions[n] /\ a \in AuctionObject /\ t.offer \in made /\ t.offer \in Bid
      /\ b \in Node
  <2>1. i \in DOMAIN auctions[n]
    BY <1>1, <1>2 DEF ObjectsExist, Adds
  <2>2. a \in AuctionObject
    BY <1>1, <2>1 DEF AuctionTypeOK
  <2>3. t.offer \in made
    BY <1>1, <1>2 DEF OffersMade, Adds
  <2>4. t.offer \in Bid /\ b \in Node
    BY <1>2 DEF Adding, Bid
  <2> QED BY <2>1, <2>2, <2>3, <2>4
<1>4. /\ a.bids \in [Node -> Nat] /\ a.raced \subseteq Node /\ a.taken \subseteq Bid
      /\ t.offer.cost \in Nat /\ t.offer = Offer(b, t.offer.cost)
      /\ new \in AuctionObject /\ new.raced = a.raced /\ new.taken = a.taken \cup {t.offer}
      /\ new.bids[b] = t.offer.cost /\ \A c \in Node \ {b} : new.bids[c] = a.bids[c]
  BY <1>3 DEF AuctionObject, Bid, Offer
<1>5. /\ UNCHANGED <<settledJobs, made, awards>>
      /\ Return(n, w)
      /\ auctions' = [auctions EXCEPT ![n] = [auctions[n] EXCEPT ![i] = new]]
  BY <1>1, <1>3 DEF Store, AuctionTypeOK
<1> HIDE DEF new
<1>6. \A j \in Node : a.bids[j] \in Nat
  BY <1>4
<1>7. b \notin a.raced => t.offer.cost < a.bids[b] /\ Storing(n, i, b) = {w}
  BY <1>1, <1>2 DEF StoresImprove, Adds, Object
<1>8. /\ messages' \subseteq Message /\ \A m \in messages' : m.kind = "bid" => m.offer \in made
      /\ work' = [work EXCEPT ![n][w] = Idle]
  BY ONLY <1>2, <1>5, BookInv, n \in Node, w \in Threads(n), ReturnedMessages
<1>9. /\ auctions' \in [Node -> Seq(AuctionObject)]
      /\ \A m \in Node : DOMAIN auctions'[m] = DOMAIN auctions[m]
      /\ auctions'[n][i] = new
      /\ \A m \in Node : \A j \in DOMAIN auctions[m] :
            m # n \/ j # i => auctions'[m][j] = auctions[m][j]
  BY ONLY <1>5, <1>1, <1>3, <1>4, ObjectWritten, n \in Node
<1>10. Idle \in Tasks /\ Idle \notin Settling /\ Idle \notin Adding
  BY TaskKinds DEF Tasks
<1>11. /\ work'[n][w] = Idle
       /\ \A m \in Node : \A v \in Threads(m) : m # n \/ v # w => work'[m][v] = work[m][v]
  BY ONLY <1>1, <1>8, <1>10, TaskSet, n \in Node, w \in Threads(n)
<1>12. AuctionTypeOK' /\ ObjectsExist' /\ OffersMade' /\ SettlesBelow' /\ BooksFall
  <2>1. \A c \in Node : \/ auctions'[n][i].bids[c] = auctions[n][i].bids[c]
                         \/ Offer(c, auctions'[n][i].bids[c]) \in made
    BY <1>3, <1>4, <1>9
  <2>2. \A c \in Node \ auctions'[n][i].raced :
           auctions'[n][i].bids[c] <= auctions[n][i].bids[c]
    BY <1>4, <1>6, <1>7, <1>9
  <2>3. a.raced \subseteq auctions'[n][i].raced
    BY <1>4, <1>9
  <2> DEFINE task == Idle
  <2>4. /\ task \in Tasks /\ task \notin Settling /\ work' = [work EXCEPT ![n][w] = task]
        /\ task \in Adding => task.object \in DOMAIN auctions[n] /\ task.offer \in made
    BY <1>8, <1>10
  <2> HIDE DEF task
  <2>5. /\ i \in DOMAIN auctions[n] /\ auctions' \in [Node -> Seq(AuctionObject)]
        /\ \A m \in Node : DOMAIN auctions'[m] = DOMAIN auctions[m]
        /\ \A m \in Node : \A j \in DOMAIN auctions[m] :
              m # n \/ j # i => auctions'[m][j] = auctions[m][j]
    BY <1>3, <1>9
  <2>6. /\ messages' \subseteq Message /\ \A m \in messages' : m.kind = "bid" => m.offer \in made
        /\ UNCHANGED <<settledJobs, made, awards>>
    BY <1>5, <1>8
  <2> QED BY ONLY BookInv, n \in Node, w \in Threads(n), <1>3, <1>4, <1>9,
                  <2>1, <2>2, <2>3, <2>4, <2>5, <2>6, BidStep
<1>13. CheapestTaken'
  <2> SUFFICES ASSUME NEW m \in Node, NEW j \in DOMAIN auctions[m],
                      NEW c \in Node \ auctions'[m][j].raced, NEW o \in auctions'[m][j].taken,
                      o.bidder = c
               PROVE  auctions'[m][j].bids[c] <= o.cost
    BY <1>9 DEF CheapestTaken
  <2>1. CASE m = n /\ j = i /\ c = b /\ o = t.offer
    <3>1. auctions'[m][j].bids[c] = t.offer.cost /\ o.cost = t.offer.cost
      BY <2>1, <1>4, <1>9
    <3> QED BY <3>1, <1>4
  <2>2. CASE m = n /\ j = i /\ c = b /\ o # t.offer
    <3>1. o \in a.taken /\ b \notin a.raced /\ auctions'[m][j].bids[c] = t.offer.cost
      BY <2>2, <1>4, <1>9
    <3>2. a.bids[b] <= o.cost /\ o.cost \in Nat
      BY <2>2, <3>1, <1>1, <1>3, <1>4 DEF CheapestTaken, Bid
    <3>3. t.offer.cost < a.bids[b] /\ t.offer.cost \in Nat /\ a.bids[b] \in Nat
      BY <3>1, <1>3, <1>4, <1>6, <1>7
    <3> QED BY ONLY <3>1, <3>2, <3>3
  <2>3. CASE m = n /\ j = i /\ c # b
    <3>1. o \in a.taken /\ c \notin a.raced /\ auctions'[m][j].bids[c] = a.bids[c]
      BY <2>3, <1>4, <1>9
    <3> QED BY <2>3, <3>1, <1>1, <1>3 DEF CheapestTaken
  <2>4. CASE m # n \/ j # i
    BY <2>4, <1>1, <1>9 DEF CheapestTaken
  <2>5. m = n /\ j = i /\ o = t.offer => c = b
    OBVIOUS
  <2> QED BY <2>1, <2>2, <2>3, <2>4, <2>5
<1>14. StoresImprove'
  <2> SUFFICES ASSUME NEW m \in Node, NEW v \in Threads(m), work'[m][v] \in Adding,
                      work'[m][v].pc = "store",
                      work'[m][v].offer.bidder \notin auctions'[m][work'[m][v].object].raced
               PROVE  /\ work'[m][v].offer.cost
                            < auctions'[m][work'[m][v].object].bids[work'[m][v].offer.bidder]
                      /\ Storing(m, work[m][v].object, work[m][v].offer.bidder)' = {v}
    BY DEF StoresImprove, Adds, Object, Threads
  <2>1. m # n \/ v # w
    BY <1>10, <1>11
  <2>2. work'[m][v] = work[m][v] /\ work[m][v] \in Adding
    BY <1>11, <2>1
  <2>3. work[m][v].object \in DOMAIN auctions[m] /\ work[m][v].offer.bidder \in Node
    BY <1>1, <2>2 DEF ObjectsExist, Adds, Adding, Bid
  <2>4. auctions'[m][work[m][v].object].raced = auctions[m][work[m][v].object].raced
    BY <1>4, <1>9, <2>3
  <2>5. /\ work[m][v].offer.cost < auctions[m][work[m][v].object].bids[work[m][v].offer.bidder]
        /\ Storing(m, work[m][v].object, work[m][v].offer.bidder) = {v}
    BY <1>1, <2>2, <2>4 DEF StoresImprove, Adds, Object
  <2>6. w \in Storing(n, i, b)
    BY <1>1, <1>2, StoringIsAdding
  <2>7. ~(m = n /\ work[m][v].object = i /\ work[m][v].offer.bidder = b)
    BY <2>1, <2>5, <2>6
  <2>8. auctions'[m][work[m][v].object].bids[work[m][v].offer.bidder]
          = auctions[m][work[m][v].object].bids[work[m][v].offer.bidder]
    BY <1>4, <1>9, <2>3, <2>7
  <2>9. Storing(m, work[m][v].object, work[m][v].offer.bidder)' = {v}
    <3>1. ASSUME NEW j, NEW c, NEW u, m # n \/ u # w
          PROVE  u \in Storing(m, j, c)' <=> u \in Storing(m, j, c)
      BY <3>1, <1>11, OtherStores
    <3>2. ASSUME NEW j, NEW c, m = n
          PROVE  w \notin Storing(m, j, c)'
      BY <3>2, <1>11 DEF Storing, Runs, Idle
    <3>3. m = n => w \notin Storing(m, work[m][v].object, work[m][v].offer.bidder)
      BY <2>1, <2>5
    <3> QED BY <2>2, <2>5, <3>1, <3>2, <3>3
  <2> QED BY <2>2, <2>5, <2>8, <2>9
<1> QED BY <1>12, <1>13, <1>14 DEF BookInv

-----------------------------------------------------------------------------
(* An award's object goes on existing, its bids only fall. *)
LEMMA AwardedFalls ==
  ASSUME AuctionInv, BookInv', BooksFall, NEW k \in DOMAIN awards
  PROVE  /\ awards[k] \in AwardRecord
         /\ awards[k].object \in DOMAIN auctions'[awards[k].at]
         /\ auctions[awards[k].at][awards[k].object].raced
              \subseteq auctions'[awards[k].at][awards[k].object].raced
         /\ \A b \in Node \ auctions'[awards[k].at][awards[k].object].raced :
              auctions'[awards[k].at][awards[k].object].bids[b]
                <= auctions[awards[k].at][awards[k].object].bids[b]
         /\ \A b \in Node : /\ auctions'[awards[k].at][awards[k].object].bids[b] \in Nat
                            /\ auctions[awards[k].at][awards[k].object].bids[b] \in Nat
<1>1. awards[k] \in AwardRecord
  BY DEF AuctionInv, BookInv, AuctionTypeOK
<1>2. awards[k].at \in Node /\ awards[k].object \in DOMAIN auctions[awards[k].at]
  BY <1>1 DEF AuctionInv, AwardInv, AwardRecord, AwardsCovered
<1>3. awards[k].object \in DOMAIN auctions'[awards[k].at]
  BY <1>2 DEF BooksFall
<1>4. auctions \in [Node -> Seq(AuctionObject)] /\ auctions' \in [Node -> Seq(AuctionObject)]
  BY DEF AuctionInv, BookInv, AuctionTypeOK
<1>5. /\ auctions[awards[k].at][awards[k].object] \in AuctionObject
      /\ auctions'[awards[k].at][awards[k].object] \in AuctionObject
  BY <1>2, <1>3, <1>4
<1> QED BY <1>1, <1>2, <1>3, <1>5 DEF BooksFall, AuctionObject

(* The awards so far, whatever the step. *)
LEMMA AwardsStay ==
  ASSUME AuctionInv, BookInv', BooksFall, NEW k \in DOMAIN awards, made \subseteq made'
  PROVE  /\ Offer(awards[k].winner, awards[k].cost) \in made'
         /\ awards[k].winner \notin auctions'[awards[k].at][awards[k].object].raced
              => auctions'[awards[k].at][awards[k].object].bids[awards[k].winner] <= awards[k].cost
         /\ \A b \in Node \ auctions'[awards[k].at][awards[k].object].raced :
              awards[k].cost <= awards[k].before[b]
         /\ \A l \in DOMAIN awards :
              /\ k < l /\ awards[k].at = awards[l].at /\ awards[k].object = awards[l].object
              /\ auctions'[awards[k].at][awards[k].object].raced = {}
              => awards[l].cost <= awards[k].cost
<1> DEFINE old == auctions[awards[k].at][awards[k].object]
           new == auctions'[awards[k].at][awards[k].object]
<1>1. AwardsCovered /\ AwardIsBest /\ LaterAwardIsNoDearer
  BY DEF AuctionInv, AwardInv
<1>2. /\ awards[k] \in AwardRecord /\ awards[k].winner \in Node /\ awards[k].cost \in Nat
      /\ old.raced \subseteq new.raced
      /\ \A b \in Node \ new.raced : new.bids[b] <= old.bids[b]
      /\ \A b \in Node : new.bids[b] \in Nat /\ old.bids[b] \in Nat
  BY AwardedFalls DEF AwardRecord
<1>3. /\ Offer(awards[k].winner, awards[k].cost) \in made
      /\ awards[k].winner \notin old.raced => old.bids[awards[k].winner] <= awards[k].cost
  BY <1>1 DEF AwardsCovered, AwardedObject
<1>4. \A b \in Node : b \notin old.raced => awards[k].cost <= awards[k].before[b]
  BY <1>1 DEF AwardIsBest
<1>5. \A l \in DOMAIN awards :
        /\ k < l /\ awards[k].at = awards[l].at /\ awards[k].object = awards[l].object
        /\ old.raced = {}
        => awards[l].cost <= awards[k].cost
  BY <1>1 DEF LaterAwardIsNoDearer
<1> HIDE DEF old, new
<1>6. /\ awards[k].winner \notin new.raced => new.bids[awards[k].winner] <= awards[k].cost
      /\ \A b \in Node \ new.raced : awards[k].cost <= awards[k].before[b]
      /\ new.raced = {} => old.raced = {}
  BY <1>2, <1>3, <1>4
<1> QED BY <1>3, <1>5, <1>6 DEF new

LEMMA AwardsKept ==
  ASSUME AuctionInv, BookInv', BooksFall, awards' = awards, made \subseteq made',
         \A n \in Node : settledJobs'[n] \subseteq AwardWinners,
         \A m \in messages' : m.kind = "settle" => m.winner \in AwardWinners
  PROVE  AuctionInv'
<1>1. AwardsCovered'
  BY AwardedFalls, AwardsStay DEF AwardsCovered, AwardedObject
<1>2. AwardIsBest'
  BY AwardsStay DEF AwardIsBest
<1>3. LaterAwardIsNoDearer'
  BY AwardsStay DEF LaterAwardIsNoDearer
<1>4. WinnersAwarded'
  BY DEF WinnersAwarded, AwardWinners
<1> QED BY <1>1, <1>2, <1>3, <1>4 DEF AuctionInv, AwardInv

LEMMA CompareKeeps ==
  ASSUME AuctionInv, NEW n \in Node, NEW w \in Threads(n), Compare(n, w)
  PROVE  AuctionInv'
<1>1. BookInv /\ BookInv' /\ BooksFall
  BY CompareStep DEF AuctionInv
<1>2. \A m \in messages' : m.kind = "settle" => m \in messages
  BY DEF Compare, Return, BidMessage
<1> QED BY <1>1, <1>2, AwardsKept DEF Compare, AuctionInv, AwardInv, WinnersAwarded

LEMMA StoreKeeps ==
  ASSUME AuctionInv, NEW n \in Node, NEW w \in Threads(n), Store(n, w)
  PROVE  AuctionInv'
<1>1. BookInv /\ BookInv' /\ BooksFall
  BY StoreStep DEF AuctionInv
<1>2. \A m \in messages' : m.kind = "settle" => m \in messages
  <2>1. Return(n, w)
    BY DEF Store
  <2> QED BY <2>1 DEF Return, BidMessage
<1> QED BY <1>1, <1>2, AwardsKept DEF Store, AuctionInv, AwardInv, WinnersAwarded

LEMMA CheckSettledKeeps ==
  ASSUME AuctionInv, NEW n \in Node, NEW w \in Threads(n), CheckSettled(n, w)
  PROVE  AuctionInv'
<1>1. BookInv /\ AuctionTypeOK /\ ObjectsExist /\ OffersMade
  BY DEF AuctionInv, BookInv
<1>2. /\ work[n][w] \in Adding /\ work[n][w].pc = "check"
      /\ [work[n][w] EXCEPT !.pc = "compare"] \in Adding
  BY <1>1, AddingTask DEF CheckSettled
<1>3. work[n][w].object \in DOMAIN auctions[n] /\ work[n][w].offer \in made
  BY <1>1, <1>2 DEF ObjectsExist, OffersMade, Adds
<1>4. SameBooks /\ NewBooks
  BY DEF CheckSettled, SameBooks, NewBooks
<1>5. PICK task \in Tasks :
        /\ work' = [work EXCEPT ![n][w] = task]
        /\ task \notin Settling
        /\ task \in Adding => /\ task.object = work[n][w].object /\ task.offer = work[n][w].offer
                              /\ task.pc = "compare"
  <2>1. CASE Object(n, w).settled
    BY <2>1, TaskKinds DEF CheckSettled, Return, Tasks
  <2>2. CASE ~Object(n, w).settled
    <3>1. work' = [work EXCEPT ![n][w] = [work[n][w] EXCEPT !.pc = "compare"]]
      BY <2>2 DEF CheckSettled
    <3>2. /\ [work[n][w] EXCEPT !.pc = "compare"].pc = "compare"
          /\ [work[n][w] EXCEPT !.pc = "compare"].object = work[n][w].object
          /\ [work[n][w] EXCEPT !.pc = "compare"].offer = work[n][w].offer
      BY <1>2 DEF Adding
    <3> QED BY <1>2, <3>1, <3>2, TaskKinds DEF Tasks
  <2> QED BY <2>1, <2>2
<1>6. /\ messages' \subseteq Message /\ \A m \in messages' : m.kind = "bid" => m.offer \in made
      /\ \A m \in messages' : m.kind = "settle" => m \in messages
  <2>1. CASE Object(n, w).settled
    BY <2>1, <1>1, <1>2, ReturnedMessages DEF CheckSettled
  <2>2. CASE ~Object(n, w).settled
    BY <2>2, <1>1 DEF CheckSettled, OffersMade, AuctionTypeOK
  <2> QED BY <2>1, <2>2
<1>7. UNCHANGED <<auctions, settledJobs, made, awards>>
  BY DEF CheckSettled
<1>8. BookInv' /\ BooksFall
  BY <1>1, <1>3, <1>4, <1>5, <1>6, <1>7, QuietStep DEF AuctionTypeOK, OffersMade
<1> QED BY <1>6, <1>7, <1>8, AwardsKept DEF AuctionInv, AwardInv, WinnersAwarded

(* A bid that is submitted is recorded in a thread, or published at once. *)
LEMMA SubmitTask ==
  ASSUME BookInv, NEW n \in Node, NEW w \in Threads(n), NEW cost \in Costs[n],
         NEW table \in Seq(AuctionObject), Submit(n, w, cost, table)
  PROVE  /\ \E task \in Tasks :
               /\ work' = [work EXCEPT ![n][w] = task]
               /\ task \notin Settling
               /\ task \in Adding => /\ table # <<>> /\ task.object = Len(table)
                                     /\ task.offer \in made' /\ task.pc # "store"
         /\ messages' \subseteq Message /\ made' \subseteq Bid /\ made \subseteq made'
         /\ \A o \in made' : o.cost < NoBid
         /\ \A m \in messages' : m.kind = "bid" => m.offer \in made'
         /\ \A m \in messages' : m.kind = "settle" => m \in messages
<1> DEFINE offer == Offer(n, cost)
           task == Task("submit", "check", Len(table), offer)
<1>1. cost \in Nat /\ cost < NoBid
  BY AuctionAssumption
<1>2. offer \in Bid /\ offer.cost = cost
  BY <1>1 DEF Offer, Bid
<1>3. /\ BidMessage(offer) \in Message /\ BidMessage(offer).kind = "bid"
      /\ BidMessage(offer).offer = offer
  BY <1>2 DEF BidMessage, Message
<1>4. /\ task \in Adding /\ task.object = Len(table) /\ task.offer = offer /\ task.pc = "check"
  BY <1>2 DEF Task, Adding
<1>5. /\ messages \subseteq Message /\ made \subseteq Bid /\ \A o \in made : o.cost < NoBid
      /\ \A m \in messages : m.kind = "bid" => m.offer \in made
  BY DEF BookInv, AuctionTypeOK, OffersMade
<1>6. made' = made \cup {offer} /\ messages' \subseteq messages \cup {BidMessage(offer)}
  BY DEF Submit
<1>7. \/ table # <<>> /\ work' = [work EXCEPT ![n][w] = task]
      \/ work' = [work EXCEPT ![n][w] = Idle]
  BY DEF Submit
<1> HIDE DEF offer, task
<1>8. Idle \in Tasks /\ Idle \notin Settling /\ Idle \notin Adding
      /\ task \in Tasks /\ task \notin Settling
  BY <1>4, TaskKinds DEF Tasks
<1>9. \E some \in Tasks :
        /\ work' = [work EXCEPT ![n][w] = some]
        /\ some \notin Settling
        /\ some \in Adding => /\ table # <<>> /\ some.object = Len(table)
                              /\ some.offer \in made' /\ some.pc # "store"
  BY <1>4, <1>6, <1>7, <1>8
<1>10. messages' \subseteq Message /\ made' \subseteq Bid /\ made \subseteq made'
       /\ \A o \in made' : o.cost < NoBid
  BY <1>1, <1>2, <1>3, <1>5, <1>6
<1>11. \A m \in messages' : /\ m.kind = "bid" => m.offer \in made'
                            /\ m.kind = "settle" => m \in messages
  BY <1>3, <1>5, <1>6
<1> QED BY <1>9, <1>10, <1>11

(* What a quiet step must satisfy for all of the invariant to be kept. *)
LEMMA QuietKeeps ==
  ASSUME AuctionInv, NEW n \in Node, NEW w \in Threads(n), NEW task \in Tasks,
         work' = [work EXCEPT ![n][w] = task] \/ work' = work,
         auctions' \in [Node -> Seq(AuctionObject)], SameBooks, NewBooks,
         settledJobs' \in [Node -> SUBSET Node],
         \A m \in Node : settledJobs'[m] \subseteq AwardWinners,
         messages' \subseteq Message, made' \subseteq Bid, awards' = awards,
         made \subseteq made', \A o \in made' : o.cost < NoBid,
         \A m \in messages' : m.kind = "bid" => m.offer \in made',
         \A m \in messages' : m.kind = "settle" => m \in messages,
         task \in Adding => /\ task.object \in DOMAIN auctions'[n]
                            /\ task.offer \in made' /\ task.pc # "store",
         task \in Settling => /\ w = App /\ task.object \in DOMAIN auctions[n]
                              /\ task.before = auctions[n][task.object].bids
  PROVE  AuctionInv'
<1>1. BookInv /\ awards' \in Seq(AwardRecord)
  BY DEF AuctionInv, BookInv, AuctionTypeOK
<1>2. BookInv' /\ BooksFall
  BY <1>1, QuietStep
<1>3. \A m \in messages' : m.kind = "settle" => m.winner \in AwardWinners
  BY DEF AuctionInv, AwardInv, WinnersAwarded
<1> QED BY <1>2, <1>3, AwardsKept

LEMMA UnchangedFacts ==
  ASSUME AuctionInv
  PROVE  /\ BookInv /\ AuctionTypeOK
         /\ auctions \in [Node -> Seq(AuctionObject)]
         /\ settledJobs \in [Node -> SUBSET Node]
         /\ \A m \in Node : settledJobs[m] \subseteq AwardWinners
         /\ messages \subseteq Message /\ made \subseteq Bid
         /\ \A o \in made : o.cost < NoBid
         /\ \A m \in messages : m.kind = "bid" => m.offer \in made
         /\ Idle \in Tasks /\ Idle \notin Settling /\ Idle \notin Adding
         /\ \A task \in Adding \cup Creating : task \in Tasks /\ task \notin Settling
         /\ \A task \in Creating : task \notin Adding
         /\ \A m \in Node : App \in Threads(m) /\ Workers[m] \subseteq Threads(m)
         /\ \A m \in Node : auctions[m] # <<>> =>
               Len(auctions[m]) \in DOMAIN auctions[m] /\ Len(auctions[m]) \in Nat
         /\ auctions' = auctions => SameBooks /\ NewBooks
<1>1. /\ auctions \in [Node -> Seq(AuctionObject)]
      /\ settledJobs \in [Node -> SUBSET Node]
      /\ \A m \in Node : settledJobs[m] \subseteq AwardWinners
      /\ messages \subseteq Message /\ made \subseteq Bid
      /\ \A o \in made : o.cost < NoBid
      /\ \A m \in messages : m.kind = "bid" => m.offer \in made
  BY DEF AuctionInv, BookInv, AwardInv, WinnersAwarded, OffersMade, AuctionTypeOK
<1>2. /\ Idle \in Tasks /\ Idle \notin Settling /\ Idle \notin Adding
      /\ \A task \in Adding \cup Creating : task \in Tasks /\ task \notin Settling
      /\ \A task \in Creating : task \notin Adding
  BY TaskKinds DEF Tasks
<1>3. \A m \in Node : auctions[m] # <<>> =>
         Len(auctions[m]) \in DOMAIN auctions[m] /\ Len(auctions[m]) \in Nat
  BY <1>1
<1>4. auctions' = auctions => SameBooks /\ NewBooks
  BY DEF SameBooks, NewBooks
<1> QED BY <1>1, <1>2, <1>3, <1>4 DEF Threads, AuctionInv, BookInv

LEMMA AnnounceJobKeeps ==
  ASSUME AuctionInv, NEW n \in Node, AnnounceJob(n)
  PROVE  AuctionInv'
<1>1. auctions' \in [Node -> Seq(AuctionObject)] /\ SameBooks /\ NewBooks
  BY UnchangedFacts, ObjectAdded DEF AnnounceJob
<1>2. UNCHANGED <<settledJobs, work, made, awards>>
  BY DEF AnnounceJob
<1>3. /\ messages' \subseteq Message
      /\ \A m \in messages' : m.kind = "bid" => m.offer \in made'
      /\ \A m \in messages' : m.kind = "settle" => m \in messages
  BY <1>2, UnchangedFacts DEF AnnounceJob, Message
<1> DEFINE task == Idle
<1>4. /\ task \in Tasks /\ task \notin Adding /\ task \notin Settling /\ App \in Threads(n)
      /\ work' = [work EXCEPT ![n][App] = task] \/ work' = work
  BY <1>2, UnchangedFacts
<1> HIDE DEF task
<1>5. /\ settledJobs' \in [Node -> SUBSET Node]
      /\ \A m \in Node : settledJobs'[m] \subseteq AwardWinners
      /\ made' \subseteq Bid /\ made \subseteq made' /\ \A o \in made' : o.cost < NoBid
  BY <1>2, UnchangedFacts
<1> QED BY <1>1, <1>2, <1>3, <1>4, <1>5, QuietKeeps

LEMMA CallSubmitBidKeeps ==
  ASSUME AuctionInv, NEW n \in Node, NEW cost \in Costs[n], CallSubmitBid(n, cost)
  PROVE  AuctionInv'
<1>1. BookInv /\ App \in Threads(n) /\ auctions[n] \in Seq(AuctionObject)
  BY UnchangedFacts
<1>2. Submit(n, App, cost, auctions[n]) /\ UNCHANGED <<auctions, settledJobs, awards>>
  BY DEF CallSubmitBid
<1>3. PICK task \in Tasks :
        /\ work' = [work EXCEPT ![n][App] = task]
        /\ task \notin Settling
        /\ task \in Adding => /\ auctions[n] # <<>> /\ task.object = Len(auctions[n])
                              /\ task.offer \in made' /\ task.pc # "store"
  BY ONLY <1>1, <1>2, n \in Node, cost \in Costs[n], SubmitTask
<1>4. /\ messages' \subseteq Message /\ made' \subseteq Bid /\ made \subseteq made'
      /\ \A o \in made' : o.cost < NoBid
      /\ \A m \in messages' : m.kind = "bid" => m.offer \in made'
      /\ \A m \in messages' : m.kind = "settle" => m \in messages
  BY ONLY <1>1, <1>2, n \in Node, cost \in Costs[n], SubmitTask
<1> QED BY <1>1, <1>2, <1>3, <1>4, UnchangedFacts, QuietKeeps

LEMMA HearAnnounceKeeps ==
  ASSUME AuctionInv, NEW n \in Node, NEW w \in Workers[n], HearAnnounce(n, w)
  PROVE  AuctionInv'
<1>1. BookInv /\ w \in Threads(n) /\ auctions[n] \in Seq(AuctionObject)
  BY UnchangedFacts
<1>2. UNCHANGED <<auctions, settledJobs, awards>>
  BY DEF HearAnnounce
<1>3. CASE auctions[n] = <<>> /\ Begin(n, w, Task("announce", "create", 0, NoOffer))
           /\ UNCHANGED <<messages, made>>
  <2> DEFINE task == Task("announce", "create", 0, NoOffer)
  <2>1. task \in Tasks /\ task \notin Adding /\ task \notin Settling
    BY UnchangedFacts DEF Creating
  <2>2. work' = [work EXCEPT ![n][w] = task]
    BY <1>3 DEF Begin
  <2> HIDE DEF task
  <2> QED BY <1>1, <1>2, <1>3, <2>1, <2>2, UnchangedFacts, QuietKeeps
<1>4. CASE auctions[n] # <<>> /\ \E cost \in Costs[n] : Submit(n, w, cost, auctions[n])
  <2>1. PICK cost \in Costs[n] : Submit(n, w, cost, auctions[n])
    BY <1>4
  <2>2. PICK task \in Tasks :
          /\ work' = [work EXCEPT ![n][w] = task]
          /\ task \notin Settling
          /\ task \in Adding => /\ auctions[n] # <<>> /\ task.object = Len(auctions[n])
                                /\ task.offer \in made' /\ task.pc # "store"
    BY ONLY <1>1, <2>1, n \in Node, cost \in Costs[n], SubmitTask
  <2>3. /\ messages' \subseteq Message /\ made' \subseteq Bid /\ made \subseteq made'
        /\ \A o \in made' : o.cost < NoBid
        /\ \A m \in messages' : m.kind = "bid" => m.offer \in made'
        /\ \A m \in messages' : m.kind = "settle" => m \in messages
    BY ONLY <1>1, <2>1, n \in Node, cost \in Costs[n], SubmitTask
  <2> QED BY <1>1, <1>2, <2>2, <2>3, UnchangedFacts, QuietKeeps
<1> QED BY <1>3, <1>4 DEF HearAnnounce

LEMMA CreateKeeps ==
  ASSUME AuctionInv, NEW n \in Node, NEW w \in Threads(n), Create(n, w)
  PROVE  AuctionInv'
<1> DEFINE table == Append(auctions[n], NewAuction)
<1>1. /\ BookInv /\ auctions[n] \in Seq(AuctionObject) /\ table \in Seq(AuctionObject)
      /\ Len(table) = Len(auctions[n]) + 1
  BY UnchangedFacts, NewAuctionType
<1>2. /\ auctions' \in [Node -> Seq(AuctionObject)] /\ SameBooks /\ NewBooks
      /\ Len(table) \in DOMAIN auctions'[n]
  BY <1>1, UnchangedFacts, ObjectAdded DEF Create
<1>3. UNCHANGED <<settledJobs, awards>>
  BY DEF Create
<1>4. CASE n \in AutoBid
  <2>1. PICK cost \in Costs[n] : Submit(n, w, cost, table)
    BY <1>4 DEF Create
  <2> HIDE DEF table
  <2>2. PICK task \in Tasks :
          /\ work' = [work EXCEPT ![n][w] = task]
          /\ task \notin Settling
          /\ task \in Adding => /\ table # <<>> /\ task.object = Len(table)
                                /\ task.offer \in made' /\ task.pc # "store"
    BY ONLY <1>1, <2>1, n \in Node, w \in Threads(n), cost \in Costs[n], SubmitTask
  <2>3. /\ messages' \subseteq Message /\ made' \subseteq Bid /\ made \subseteq made'
        /\ \A o \in made' : o.cost < NoBid
        /\ \A m \in messages' : m.kind = "bid" => m.offer \in made'
        /\ \A m \in messages' : m.kind = "settle" => m \in messages
    BY ONLY <1>1, <2>1, n \in Node, w \in Threads(n), cost \in Costs[n], SubmitTask
  <2> QED BY <1>2, <1>3, <2>2, <2>3, UnchangedFacts, QuietKeeps
<1>5. CASE n \notin AutoBid
  <2> DEFINE task == Idle
  <2>1. work' = [work EXCEPT ![n][w] = task] /\ UNCHANGED <<messages, made>>
    BY <1>5 DEF Create
  <2>2. task \in Tasks /\ task \notin Adding /\ task \notin Settling
    BY UnchangedFacts
  <2> HIDE DEF task
  <2> QED BY <1>2, <1>3, <2>1, <2>2, UnchangedFacts, QuietKeeps
<1> QED BY <1>4, <1>5

LEMMA HearBidKeeps ==
  ASSUME AuctionInv, NEW n \in Node, NEW w \in Workers[n], HearBid(n, w)
  PROVE  AuctionInv'
<1>1. PICK m \in messages :
        /\ m.kind = "bid" /\ Begin(n, w, Task("hear", "check", Len(auctions[n]), m.offer))
  BY DEF HearBid
<1> DEFINE task == Task("hear", "check", Len(auctions[n]), m.offer)
<1>2. auctions[n] # <<>> /\ UNCHANGED <<auctions, settledJobs, messages, made, awards>>
  BY DEF HearBid
<1>3. w \in Threads(n) /\ m.offer \in made /\ m.offer \in Bid
      /\ Len(auctions[n]) \in DOMAIN auctions[n] /\ Len(auctions[n]) \in Nat
  BY <1>1, <1>2, UnchangedFacts
<1>4. /\ task \in Adding /\ task.object = Len(auctions[n]) /\ task.offer = m.offer
      /\ task.pc = "check"
  BY <1>3 DEF Task, Adding
<1>5. work' = [work EXCEPT ![n][w] = task]
  BY <1>1 DEF Begin
<1> HIDE DEF task
<1>6. task \in Tasks /\ task \notin Settling
  BY <1>4, UnchangedFacts
<1> QED BY <1>2, <1>3, <1>4, <1>5, <1>6, UnchangedFacts, QuietKeeps

LEMMA HearSettleKeeps ==
  ASSUME AuctionInv, NEW n \in Node, NEW w \in Workers[n], HearSettle(n, w)
  PROVE  AuctionInv'
<1>1. PICK m \in messages :
        /\ m.kind = "settle"
        /\ settledJobs' = [settledJobs EXCEPT ![n] = {m.winner}]
        /\ auctions' = IF auctions[n] = <<>> THEN auctions
                       ELSE [auctions EXCEPT ![n][Len(auctions[n])].settled = TRUE,
                                             ![n][Len(auctions[n])].winner = {m.winner}]
  BY DEF HearSettle
<1>2. UNCHANGED <<work, messages, made, awards>>
  BY DEF HearSettle
<1>3. m.winner \in Node /\ m.winner \in AwardWinners /\ w \in Threads(n)
  <2>1. m.winner \in Node
    BY <1>1, UnchangedFacts DEF Message
  <2> QED BY <1>1, <2>1, UnchangedFacts DEF AuctionInv, AwardInv, WinnersAwarded
<1>4. /\ settledJobs' \in [Node -> SUBSET Node]
      /\ \A k \in Node : settledJobs'[k] \subseteq AwardWinners
  BY <1>1, <1>3, UnchangedFacts
<1>5. auctions' \in [Node -> Seq(AuctionObject)] /\ SameBooks /\ NewBooks
  <2>1. CASE auctions[n] = <<>>
    BY <1>1, <2>1, UnchangedFacts
  <2>2. CASE auctions[n] # <<>>
    <3> DEFINE i == Len(auctions[n])
               a == auctions[n][i]
               new == [a EXCEPT !.settled = TRUE, !.winner = {m.winner}]
    <3>1. i \in DOMAIN auctions[n] /\ a \in AuctionObject
      BY <2>2, UnchangedFacts
    <3>2. /\ new \in AuctionObject /\ new.bids = a.bids /\ new.taken = a.taken
          /\ new.raced = a.raced
      BY <1>3, <3>1 DEF AuctionObject
    <3>3. auctions' = [auctions EXCEPT ![n] = [auctions[n] EXCEPT ![i] = new]]
      BY <1>1, <2>2, <3>1, UnchangedFacts
    <3> HIDE DEF new
    <3>4. AuctionTypeOK
      BY UnchangedFacts
    <3> QED BY <3>1, <3>2, <3>3, <3>4, ObjectWritten DEF SameBooks, NewBooks
  <2> QED BY <2>1, <2>2
<1> DEFINE task == Idle
<1>6. /\ task \in Tasks /\ task \notin Adding /\ task \notin Settling
      /\ work' = [work EXCEPT ![n][w] = task] \/ work' = work
  BY <1>2, UnchangedFacts
<1> HIDE DEF task
<1> QED BY <1>2, <1>3, <1>4, <1>5, <1>6, UnchangedFacts, QuietKeeps

LEMMA SettleAuctionKeeps ==
  ASSUME AuctionInv, NEW n \in Node, SettleAuction(n)
  PROVE  AuctionInv'
<1> DEFINE i == Len(auctions[n])
           a == auctions[n][i]
           new == [a EXCEPT !.settled = TRUE]
           task == SettleTask(i, a.bids)
<1>1. /\ auctions[n] # <<>> /\ UNCHANGED <<settledJobs, messages, made, awards>>
      /\ work' = [work EXCEPT ![n][App] = task]
      /\ auctions' = [auctions EXCEPT ![n][i].settled = TRUE]
  BY DEF SettleAuction, Begin
<1>2. /\ i \in DOMAIN auctions[n] /\ i \in Nat /\ a \in AuctionObject /\ AuctionTypeOK
      /\ App \in Threads(n)
  BY <1>1, UnchangedFacts
<1>3. /\ new \in AuctionObject /\ new.bids = a.bids /\ new.taken = a.taken
      /\ new.raced = a.raced
  BY <1>2 DEF AuctionObject
<1>4. auctions' = [auctions EXCEPT ![n] = [auctions[n] EXCEPT ![i] = new]]
  BY <1>1, <1>2, UnchangedFacts
<1>5. /\ task \in Settling /\ task.object = i /\ task.before = a.bids
  BY <1>2 DEF SettleTask, Settling, AuctionObject
<1> HIDE DEF new, task
<1>6. auctions' \in [Node -> Seq(AuctionObject)] /\ SameBooks /\ NewBooks
  BY <1>2, <1>3, <1>4, ObjectWritten DEF SameBooks, NewBooks
<1>7. task \in Tasks /\ task \notin Adding
  BY <1>5, TaskKinds DEF Tasks
<1> QED BY <1>1, <1>2, <1>5, <1>6, <1>7, UnchangedFacts, QuietKeeps

-----------------------------------------------------------------------------
(* The award: the cheapest of the bids there are, none of them dearer than *)
(* when the job was settled, and none than what was awarded before.        *)
LEMMA AwardKeeps ==
  ASSUME AuctionInv, NEW n \in Node, Award(n)
  PROVE  AuctionInv'
<1> DEFINE t == work[n][App]
           i == t.object
           a == auctions[n][i]
           idle == Idle
<1>1. BookInv /\ AuctionTypeOK /\ ObjectsExist /\ OffersMade /\ SettlesBelow /\ App \in Threads(n)
  BY UnchangedFacts DEF BookInv
<1>2. t \in Settling
  <2>1. t \in Tasks /\ t.kind # "idle" /\ t.pc = "settle"
    BY <1>1 DEF Award, Runs, AuctionTypeOK
  <2> QED BY <2>1 DEF Tasks, Idle, Creating, Task, Adding
<1>3. /\ i \in DOMAIN auctions[n] /\ i \in Nat /\ a \in AuctionObject /\ a.bids \in [Node -> Nat]
      /\ a.raced \subseteq Node /\ t.before \in [Node -> Nat]
  <2>1. i \in DOMAIN auctions[n] /\ i \in Nat /\ t.before \in [Node -> Nat]
    BY <1>1, <1>2 DEF ObjectsExist, Settling
  <2>2. a \in AuctionObject
    BY <1>1, <2>1 DEF AuctionTypeOK
  <2> QED BY <2>1, <2>2 DEF AuctionObject
<1>4. /\ work' = [work EXCEPT ![n][App] = idle] /\ made' = made
      /\ idle \in Tasks /\ idle \notin Adding /\ idle \notin Settling
  BY UnchangedFacts DEF Award
<1> HIDE DEF idle
<1>5. CASE UNCHANGED <<auctions, settledJobs, messages, awards>>
  BY <1>1, <1>4, <1>5, UnchangedFacts, QuietKeeps
<1>6. ASSUME NEW b \in Cheapest(a.bids),
             auctions' = [auctions EXCEPT ![n][i].winner = {b}],
             settledJobs' = [settledJobs EXCEPT ![n] = {b}],
             messages' = messages \cup {[kind |-> "settle", from |-> n, winner |-> b]},
             awards' = Append(awards, [at |-> n, object |-> i, winner |-> b,
                                       cost |-> a.bids[b], before |-> t.before])
      PROVE  AuctionInv'
  <2> DEFINE r == [at |-> n, object |-> i, winner |-> b, cost |-> a.bids[b], before |-> t.before]
             notice == [kind |-> "settle", from |-> n, winner |-> b]
             new == [a EXCEPT !.winner = {b}]
  <2>1. b \in Node /\ a.bids[b] # NoBid /\ \A o \in Node : a.bids[b] <= a.bids[o]
    BY DEF Cheapest
  <2>2. r \in AwardRecord
    BY <1>3, <2>1 DEF AwardRecord
  <2>3. notice \in Message /\ notice.kind = "settle" /\ notice.winner = b
    BY <2>1 DEF Message
  <2>4. /\ new \in AuctionObject /\ new.bids = a.bids /\ new.taken = a.taken
        /\ new.raced = a.raced
    BY <1>3, <2>1 DEF AuctionObject
  <2>5. auctions' = [auctions EXCEPT ![n] = [auctions[n] EXCEPT ![i] = new]]
    BY <1>1, <1>3, <1>6 DEF AuctionTypeOK
  <2>6. /\ r.at = n /\ r.object = i /\ r.winner = b /\ r.cost = a.bids[b] /\ r.before = t.before
    OBVIOUS
  <2>7. messages' = messages \cup {notice} /\ awards' = Append(awards, r)
    BY <1>6
  <2> HIDE DEF new, r, notice
  <2>8. /\ auctions' \in [Node -> Seq(AuctionObject)] /\ SameBooks /\ NewBooks
        /\ auctions'[n][i] = new
    BY ONLY <1>1, <1>3, <2>4, <2>5, ObjectWritten, n \in Node DEF SameBooks, NewBooks
  <2>9. /\ awards \in Seq(AwardRecord) /\ awards' \in Seq(AwardRecord)
        /\ DOMAIN awards = 1..Len(awards) /\ Len(awards) \in Nat
        /\ DOMAIN awards' = 1..Len(awards) + 1
        /\ awards'[Len(awards) + 1] = r
        /\ \A k \in DOMAIN awards : awards'[k] = awards[k]
    BY <1>1, <2>2, <2>7 DEF AuctionTypeOK
  <2>10. BookInv' /\ BooksFall
    <3>1. /\ settledJobs' \in [Node -> SUBSET Node] /\ messages' \subseteq Message
          /\ made' \subseteq Bid /\ made \subseteq made' /\ \A o \in made' : o.cost < NoBid
          /\ \A m \in messages' : m.kind = "bid" => m.offer \in made'
      BY <1>4, <1>6, <2>1, <2>3, <2>7, UnchangedFacts
    <3> QED BY <1>1, <1>4, <2>8, <2>9, <3>1, QuietStep
  <2>11. /\ Offer(r.winner, r.cost) \in made
         /\ auctions'[r.at][r.object].raced = a.raced
         /\ auctions'[r.at][r.object].bids = a.bids
         /\ r.object \in DOMAIN auctions'[r.at]
    <3>1. Offer(b, a.bids[b]) \in made
      BY <1>1, <1>3, <2>1 DEF OffersMade
    <3>2. i \in DOMAIN auctions'[n]
      BY <1>3, <2>8 DEF SameBooks
    <3> QED BY <2>4, <2>6, <2>8, <3>1, <3>2
  <2>12. AwardsCovered'
    <3> SUFFICES ASSUME NEW k \in DOMAIN awards'
                 PROVE  /\ awards'[k].object \in DOMAIN auctions'[awards'[k].at]
                        /\ Offer(awards'[k].winner, awards'[k].cost) \in made
                        /\ awards'[k].winner \notin auctions'[awards'[k].at][awards'[k].object].raced
                             => auctions'[awards'[k].at][awards'[k].object].bids[awards'[k].winner]
                                  <= awards'[k].cost
      BY <1>4 DEF AwardsCovered, AwardedObject
    <3>1. CASE k \in DOMAIN awards
      BY <3>1, <1>4, <2>9, <2>10, AwardedFalls, AwardsStay
    <3>2. CASE k = Len(awards) + 1
      <4>1. r.cost \in Nat /\ a.bids[r.winner] = r.cost
        BY <1>3, <2>1, <2>6
      <4> QED BY <3>2, <2>9, <2>11, <4>1
    <3> QED BY <3>1, <3>2, <2>9
  <2>13. AwardIsBest'
    <3> SUFFICES ASSUME NEW k \in DOMAIN awards', NEW c \in Node,
                        c \notin auctions'[awards'[k].at][awards'[k].object].raced
                 PROVE  awards'[k].cost <= awards'[k].before[c]
      BY DEF AwardIsBest
    <3>1. CASE k \in DOMAIN awards
      BY <3>1, <1>4, <2>9, <2>10, AwardsStay
    <3>2. CASE k = Len(awards) + 1
      <4>1. c \notin a.raced
        BY <3>2, <2>9, <2>11
      <4>2. a.bids[c] <= t.before[c]
        BY <1>1, <1>2, <4>1 DEF SettlesBelow, Settles, Object
      <4>3. a.bids[b] <= a.bids[c] /\ a.bids[b] \in Nat /\ a.bids[c] \in Nat /\ t.before[c] \in Nat
        BY <1>3, <2>1
      <4> HIDE DEF a, t
      <4>4. a.bids[b] <= t.before[c]
        BY <4>2, <4>3
      <4> QED BY <3>2, <2>6, <2>9, <4>4
    <3> QED BY <3>1, <3>2, <2>9
  <2>14. LaterAwardIsNoDearer'
    <3> SUFFICES ASSUME NEW k \in DOMAIN awards', NEW l \in DOMAIN awards', k < l,
                        awards'[k].at = awards'[l].at, awards'[k].object = awards'[l].object,
                        auctions'[awards'[k].at][awards'[k].object].raced = {}
                 PROVE  awards'[l].cost <= awards'[k].cost
      BY DEF LaterAwardIsNoDearer
    <3>1. k \in DOMAIN awards /\ awards'[k] = awards[k]
      BY <2>9
    <3>2. CASE l \in DOMAIN awards
      BY <3>1, <3>2, <1>4, <2>9, <2>10, AwardsStay
    <3>3. CASE l = Len(awards) + 1
      <4>1. awards'[l] = r
        BY <3>3, <2>9
      <4>2. awards[k].winner \in Node /\ awards[k].cost \in Nat
        <5>1. awards[k] \in AwardRecord
          BY ONLY <3>1, <2>9
        <5> QED BY <5>1 DEF AwardRecord
      <4>3. a.bids[awards[k].winner] <= awards[k].cost
        BY <3>1, <4>1, <4>2, <1>4, <2>10, <2>11, AwardsStay
      <4>4. /\ a.bids[b] <= a.bids[awards[k].winner] /\ a.bids[b] \in Nat
            /\ a.bids[awards[k].winner] \in Nat
        BY <1>3, <2>1, <4>2
      <4> HIDE DEF a
      <4>5. a.bids[b] <= awards[k].cost
        BY <4>2, <4>3, <4>4
      <4> QED BY <2>6, <3>1, <4>1, <4>5
    <3> QED BY <3>2, <3>3, <2>9
  <2>15. WinnersAwarded'
    <3>1. AwardWinners \subseteq AwardWinners' /\ b \in AwardWinners'
      BY <2>6, <2>9 DEF AwardWinners
    <3>2. \A m \in Node : settledJobs'[m] \subseteq AwardWinners'
      BY <1>6, <3>1, UnchangedFacts
    <3>3. \A m \in messages' : m.kind = "settle" => m.winner \in AwardWinners'
      BY <2>3, <2>7, <3>1 DEF AuctionInv, AwardInv, WinnersAwarded
    <3> QED BY <3>2, <3>3 DEF WinnersAwarded
  <2> QED BY <2>10, <2>12, <2>13, <2>14, <2>15 DEF AuctionInv, AwardInv
<1> QED BY <1>5, <1>6 DEF Award, Object

-----------------------------------------------------------------------------
LEMMA AuctionInitInv == AuctionInit => AuctionInv
<1> SUFFICES ASSUME AuctionInit PROVE AuctionInv
  OBVIOUS
<1>1. AuctionTypeOK
  BY DEF AuctionInit, AuctionTypeOK, NoWinner, Threads, Tasks
<1>2. \A n \in Node : \A w \in Threads(n) : work[n][w] = Idle
  BY DEF AuctionInit, Threads
<1>3. \A n \in Node : DOMAIN auctions[n] = {}
  BY DEF AuctionInit
<1>4. \A n \in Node : App \in Threads(n)
  BY DEF Threads
<1>5. BookInv
  BY <1>1, <1>2, <1>3, <1>4, TaskKinds
     DEF BookInv, ObjectsExist, OffersMade, CheapestTaken, StoresImprove, SettlesBelow, Adds,
         Settles, AuctionInit
<1>6. AwardInv
  BY DEF AuctionInit, AwardInv, AwardsCovered, AwardIsBest, LaterAwardIsNoDearer, WinnersAwarded,
         NoWinner
<1> QED BY <1>5, <1>6 DEF AuctionInv

LEMMA AuctionStepInv == AuctionInv /\ [AuctionNext]_auctionVars => AuctionInv'
<1> SUFFICES ASSUME AuctionInv, [AuctionNext]_auctionVars PROVE AuctionInv'
  OBVIOUS
<1>1. CASE AuctionNext
  <2>1. PICK n \in Node :
          \/ AnnounceJob(n) \/ SettleAuction(n) \/ Award(n)
          \/ \E cost \in Costs[n] : CallSubmitBid(n, cost)
          \/ \E w \in Workers[n] : HearAnnounce(n, w) \/ HearBid(n, w) \/ HearSettle(n, w)
          \/ \E w \in Threads(n) : ThreadStep(n, w)
    BY <1>1 DEF AuctionNext
  <2>2. CASE AnnounceJob(n)
    BY <2>2, AnnounceJobKeeps
  <2>3. CASE SettleAuction(n)
    BY <2>3, SettleAuctionKeeps
  <2>4. CASE Award(n)
    BY <2>4, AwardKeeps
  <2>5. ASSUME NEW cost \in Costs[n], CallSubmitBid(n, cost) PROVE AuctionInv'
    BY <2>5, CallSubmitBidKeeps
  <2>6. ASSUME NEW w \in Workers[n], HearAnnounce(n, w) PROVE AuctionInv'
    BY <2>6, HearAnnounceKeeps
  <2>7. ASSUME NEW w \in Workers[n], HearBid(n, w) PROVE AuctionInv'
    BY <2>7, HearBidKeeps
  <2>8. ASSUME NEW w \in Workers[n], HearSettle(n, w) PROVE AuctionInv'
    BY <2>8, HearSettleKeeps
  <2>9. ASSUME NEW w \in Threads(n), ThreadStep(n, w) PROVE AuctionInv'
    BY <2>9, CreateKeeps, CheckSettledKeeps, CompareKeeps, StoreKeeps DEF ThreadStep
  <2> QED BY <2>1, <2>2, <2>3, <2>4, <2>5, <2>6, <2>7, <2>8, <2>9
<1>2. CASE UNCHANGED auctionVars
  <2>1. UNCHANGED <<auctions, settledJobs, work, messages, made, awards>>
    BY <1>2 DEF auctionVars
  <2>2. AuctionTypeOK'
    BY <2>1 DEF AuctionInv, BookInv, AuctionTypeOK, Threads
  <2>3. ObjectsExist' /\ OffersMade' /\ CheapestTaken' /\ SettlesBelow'
    BY <2>1 DEF AuctionInv, BookInv, ObjectsExist, OffersMade, CheapestTaken, SettlesBelow,
                Adds, Settles, Object, Threads
  <2>4. StoresImprove'
    BY <2>1 DEF AuctionInv, BookInv, StoresImprove, Adds, Object, Storing, Runs, Threads
  <2>5. AwardInv'
    BY <2>1 DEF AuctionInv, AwardInv, AwardsCovered, AwardedObject, AwardIsBest,
                LaterAwardIsNoDearer, WinnersAwarded, AwardWinners
  <2> QED BY <2>2, <2>3, <2>4, <2>5 DEF AuctionInv, BookInv
<1> QED BY <1>1, <1>2

(* The invariant of the auction: every offer genuine, every thread about   *)
(* to store a bid cheaper than the one it replaces, every award covered.   *)
THEOREM AuctionInvariant == AuctionSpec => []AuctionInv
BY AuctionInitInv, AuctionStepInv, PTL DEF AuctionSpec

(* add_bid keeps the cheapest bid of each bidder, in whatever order the    *)
(* bids come, unless two threads store bids of that bidder at once.        *)
THEOREM HoldsCheapestBidsHolds == AuctionSpec => []HoldsCheapestBids
<1>1. AuctionInv => HoldsCheapestBids
  BY DEF AuctionInv, BookInv, OffersMade, CheapestTaken, HoldsCheapestBids
<1> QED BY <1>1, AuctionInvariant, PTL

(* settle awards the cheapest of the bids held when it closed the auction, *)
(* or a cheaper one.                                                       *)
THEOREM AwardIsBestHolds == AuctionSpec => []AwardIsBest
<1>1. AuctionInv => AwardIsBest
  BY DEF AuctionInv, AwardInv
<1> QED BY <1>1, AuctionInvariant, PTL

(* Settling a job twice never makes it dearer. *)
THEOREM LaterAwardIsNoDearerHolds == AuctionSpec => []LaterAwardIsNoDearer
<1>1. AuctionInv => LaterAwardIsNoDearer
  BY DEF AuctionInv, AwardInv
<1> QED BY <1>1, AuctionInvariant, PTL

(* Whoever a node believes to have won was awarded the job somewhere, with *)
(* a bid of its own.                                                       *)
THEOREM KnownWinnersWonHolds == AuctionSpec => []KnownWinnersWon
<1>1. AuctionInv => KnownWinnersWon
  BY DEF AuctionInv, AwardInv, WinnersAwarded, AwardWinners, AwardsCovered, KnownWinnersWon
<1> QED BY <1>1, AuctionInvariant, PTL
=============================================================================
