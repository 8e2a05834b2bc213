----------------------------- MODULE JobAuction -----------------------------
(***************************************************************************)
(* The auction of one job: Auction of ai/auction.py in every               *)
(* AIAssignmentNode, and the announcements, bids and awards between them.  *)
(*                                                                         *)
(* Bids are recorded by the worker threads of a node and by its            *)
(* application thread, the job is settled by the latter, and an auction    *)
(* has no lock, so add_bid and settle are several steps here.  A thread    *)
(* keeps the auction object it looked up when another one replaces it:     *)
(* auctions[n] holds all of them, the last is in active_auctions.          *)
(*                                                                         *)
(* A bid is its cost.  The cost is that of the bidder's position, battery  *)
(* and health at the time, so each bid of a node may have another one.     *)
(* A message is heard at any time, any number of times, or never.          *)
(***************************************************************************)
EXTENDS Integers, Sequences, FiniteSets, SequencesExt

CONSTANTS Node,
          Announcer,    \* the nodes that call announce_job
          Settler,      \* the nodes that call settle_auction
          AutoBid,      \* the nodes with auto_bid
          Manual,       \* the nodes whose application calls submit_bid
          Workers,      \* Workers[n]: the worker threads of n
          App,          \* the application's thread, the same name at every node
          Costs,        \* Costs[n]: the costs that n may compute for a bid
          NoBid,        \* a number above them: the node has not bid
          MaxAuctions,  \* bound: auction objects per node
          MaxAwards     \* bound: awards in all

ASSUME AuctionAssumption ==
    /\ Announcer \cup Settler \cup AutoBid \cup Manual \subseteq Node
    /\ \A n \in Node : App \notin Workers[n]
    /\ Costs \in [Node -> SUBSET Nat]
    /\ NoBid \in Nat /\ \A n \in Node : \A c \in Costs[n] : c < NoBid
    /\ MaxAuctions \in Nat /\ MaxAwards \in Nat

VARIABLES auctions,     \* auctions[n]: the auction objects of n
          settledJobs,  \* settledJobs[n]: the winner that n knows of, if any
          work,         \* work[n][w]: what thread w of node n is doing
          messages,     \* published so far
          made,         \* history: the bids that were made
          awards        \* history: the results of settle, in order

auctionVars == <<auctions, settledJobs, work, messages, made, awards>>

Idle == [kind |-> "idle"]
NoWinner == {}

(* Besides what the code keeps, an auction has two histories: the bids     *)
(* that add_bid said to have taken, and the bidders of whom two threads    *)
(* were about to store a bid at the same time.                             *)
NewAuction ==
    [settled |-> FALSE, winner |-> NoWinner, bids |-> [b \in Node |-> NoBid],
     taken |-> {}, raced |-> {}]

AuctionInit ==
    /\ auctions = [n \in Node |-> <<>>]
    /\ settledJobs = [n \in Node |-> NoWinner]
    /\ work = [n \in Node |-> [w \in Workers[n] \cup {App} |-> Idle]]
    /\ messages = {}
    /\ made = {}
    /\ awards = <<>>

Offer(b, c) == [bidder |-> b, cost |-> c]
BidMessage(offer) == [kind |-> "bid", offer |-> offer]

Threads(n) == Workers[n] \cup {App}
Runs(n, w, pc) == work[n][w].kind # "idle" /\ work[n][w].pc = pc
Begin(n, w, task) == work[n][w] = Idle /\ work' = [work EXCEPT ![n][w] = task]
Task(kind, pc, object, offer) == [kind |-> kind, pc |-> pc, object |-> object, offer |-> offer]
NoOffer == Offer("", NoBid)
SettleTask(object, bids) == [kind |-> "settle", pc |-> "settle", object |-> object,
                             offer |-> NoOffer, before |-> bids]

-----------------------------------------------------------------------------
(* announce_job replaces whatever auction the node had of that job.        *)
AnnounceJob(n) ==
    /\ n \in Announcer /\ work[n][App] = Idle /\ Len(auctions[n]) < MaxAuctions
    /\ auctions' = [auctions EXCEPT ![n] = Append(@, NewAuction)]
    /\ messages' = messages \cup {[kind |-> "announce", from |-> n]}
    /\ UNCHANGED <<settledJobs, work, made, awards>>

(* submit_bid up to the lookup of the auction: a bid is made; without an   *)
(* auction to record it in it is only published.                           *)
Submit(n, w, cost, table) ==
    /\ made' = made \cup {Offer(n, cost)}
    /\ IF table = <<>>
       THEN /\ work' = [work EXCEPT ![n][w] = Idle]
            /\ messages' = messages \cup {BidMessage(Offer(n, cost))}
       ELSE /\ work' = [work EXCEPT ![n][w] =
                              Task("submit", "check", Len(table), Offer(n, cost))]
            /\ UNCHANGED messages

CallSubmitBid(n, cost) ==
    /\ n \in Manual /\ work[n][App] = Idle
    /\ Submit(n, App, cost, auctions[n])
    /\ UNCHANGED <<auctions, settledJobs, awards>>

(* on_auction_announce: without an auction of the job, one is created; the *)
(* lookup and the creation are apart, so that two workers may each do it.  *)
HearAnnounce(n, w) ==
    /\ work[n][w] = Idle
    /\ \E m \in messages : m.kind = "announce" /\ m.from # n
    /\ \/ /\ auctions[n] = <<>>
          /\ Begin(n, w, Task("announce", "create", 0, NoOffer))
          /\ UNCHANGED <<messages, made>>
       \/ /\ auctions[n] # <<>> /\ n \in AutoBid
          /\ \E cost \in Costs[n] : Submit(n, w, cost, auctions[n])
    /\ UNCHANGED <<auctions, settledJobs, awards>>

Create(n, w) ==
    /\ Runs(n, w, "create") /\ Len(auctions[n]) < MaxAuctions
    /\ auctions' = [auctions EXCEPT ![n] = Append(@, NewAuction)]
    /\ IF n \in AutoBid
       THEN \E cost \in Costs[n] : Submit(n, w, cost, Append(auctions[n], NewAuction))
       ELSE /\ work' = [work EXCEPT ![n][w] = Idle]
            /\ UNCHANGED <<messages, made>>
    /\ UNCHANGED <<settledJobs, awards>>

(* on_auction_bid *)
HearBid(n, w) ==
    /\ auctions[n] # <<>>
    /\ \E m \in messages :
          /\ m.kind = "bid" /\ m.offer.bidder # n
          /\ Begin(n, w, Task("hear", "check", Len(auctions[n]), m.offer))
    /\ UNCHANGED <<auctions, settledJobs, messages, made, awards>>

-----------------------------------------------------------------------------
(* add_bid, in three steps, on the auction object of the thread.           *)
Object(n, w) == auctions[n][work[n][w].object]

(* What the caller of add_bid does next: a bid of its own is published,    *)
(* taken or not.                                                           *)
Return(n, w) ==
    /\ work' = [work EXCEPT ![n][w] = Idle]
    /\ messages' = IF work[n][w].kind = "hear" THEN messages
                   ELSE messages \cup {BidMessage(work[n][w].offer)}

CheckSettled(n, w) ==
    /\ Runs(n, w, "check")
    /\ IF Object(n, w).settled THEN Return(n, w)
       ELSE /\ work' = [work EXCEPT ![n][w].pc = "compare"]
            /\ UNCHANGED messages
    /\ UNCHANGED <<auctions, settledJobs, made, awards>>

Storing(n, object, b) ==
    {w \in Threads(n) : Runs(n, w, "store") /\ work[n][w].object = object
                        /\ work[n][w].offer.bidder = b}

(* Mutant of Compare: the newer bid replaces the older one. *)
CompareNot(n, w) ==
    /\ Runs(n, w, "compare")
    /\ work' = [work EXCEPT ![n][w].pc = "store"]
    /\ LET t == work[n][w]
       IN  auctions' = IF Storing(n, t.object, t.offer.bidder) = {} THEN auctions
                       ELSE [auctions EXCEPT ![n][t.object].raced = @ \cup {t.offer.bidder}]
    /\ UNCHANGED <<settledJobs, messages, made, awards>>

Compare(n, w) ==
    /\ Runs(n, w, "compare")
    /\ LET t == work[n][w]
       IN  IF t.offer.cost < Object(n, w).bids[t.offer.bidder]
           THEN /\ work' = [work EXCEPT ![n][w].pc = "store"]
                /\ auctions' = IF Storing(n, t.object, t.offer.bidder) = {} THEN auctions
                               ELSE [auctions EXCEPT ![n][t.object].raced = @ \cup {t.offer.bidder}]
                /\ UNCHANGED messages
           ELSE /\ auctions' = [auctions EXCEPT ![n][t.object].taken = @ \cup {t.offer}]
                /\ Return(n, w)
    /\ UNCHANGED <<settledJobs, made, awards>>

Store(n, w) ==
    /\ Runs(n, w, "store")
    /\ LET t == work[n][w]
       IN  auctions' = [auctions EXCEPT ![n][t.object].bids[t.offer.bidder] = t.offer.cost,
                                        ![n][t.object].taken = @ \cup {t.offer}]
    /\ Return(n, w)
    /\ UNCHANGED <<settledJobs, made, awards>>

-----------------------------------------------------------------------------
(* settle_auction: settle closes the auction, then sorts the bids.         *)
SettleAuction(n) ==
    /\ n \in Settler /\ auctions[n] # <<>> /\ Len(awards) < MaxAwards
    /\ LET i == Len(auctions[n])
       IN  /\ Begin(n, App, SettleTask(i, auctions[n][i].bids))
           /\ auctions' = [auctions EXCEPT ![n][i].settled = TRUE]
    /\ UNCHANGED <<settledJobs, messages, made, awards>>

(* Mutants of Cheapest: sorted in reverse; any bid. *)
Dearest(bids) ==
    {b \in Node : bids[b] # NoBid /\ \A o \in Node : bids[o] # NoBid => bids[o] <= bids[b]}
AnyBid(bids) == {b \in Node : bids[b] # NoBid}

Cheapest(bids) ==
    {b \in Node : bids[b] # NoBid /\ \A o \in Node : bids[b] <= bids[o]}

(* Among equal bids the first in the dict wins: any of them here.          *)
Award(n) ==
    /\ Runs(n, App, "settle")
    /\ LET bids == Object(n, App).bids
       IN  \/ /\ Cheapest(bids) = {}
              /\ UNCHANGED <<auctions, settledJobs, messages, awards>>
           \/ \E b \in Cheapest(bids) :
              /\ auctions' = [auctions EXCEPT ![n][work[n][App].object].winner = {b}]
              /\ settledJobs' = [settledJobs EXCEPT ![n] = {b}]
              /\ messages' = messages \cup {[kind |-> "settle", from |-> n, winner |-> b]}
              /\ awards' = Append(awards, [at |-> n, object |-> work[n][App].object, winner |-> b,
                                           cost |-> bids[b], before |-> work[n][App].before])
    /\ work' = [work EXCEPT ![n][App] = Idle]
    /\ UNCHANGED made

(* Mutant of HearSettle: the sender of the notice is the winner. *)
HearSettleOfSender(n, w) ==
    /\ work[n][w] = Idle
    /\ \E m \in messages :
          /\ m.kind = "settle" /\ m.from # n
          /\ settledJobs' = [settledJobs EXCEPT ![n] = {m.from}]
    /\ UNCHANGED <<auctions, work, messages, made, awards>>

(* on_auction_settle *)
HearSettle(n, w) ==
    /\ work[n][w] = Idle
    /\ \E m \in messages :
          /\ m.kind = "settle" /\ m.from # n
          /\ settledJobs' = [settledJobs EXCEPT ![n] = {m.winner}]
          /\ auctions' = IF auctions[n] = <<>> THEN auctions
                         ELSE [auctions EXCEPT ![n][Len(auctions[n])].settled = TRUE,
                                               ![n][Len(auctions[n])].winner = {m.winner}]
    /\ UNCHANGED <<work, messages, made, awards>>

ThreadStep(n, w) == Create(n, w) \/ CheckSettled(n, w) \/ Compare(n, w) \/ Store(n, w)

AuctionNext ==
    \E n \in Node :
        \/ AnnounceJob(n) \/ SettleAuction(n) \/ Award(n)
        \/ \E cost \in Costs[n] : CallSubmitBid(n, cost)
        \/ \E w \in Workers[n] : HearAnnounce(n, w) \/ HearBid(n, w) \/ HearSettle(n, w)
        \/ \E w \in Threads(n) : ThreadStep(n, w)

AuctionSpec == AuctionInit /\ [][AuctionNext]_auctionVars

-----------------------------------------------------------------------------
(* "If node already bid, replace only if cheaper": an auction holds of     *)
(* each bidder the cheapest of the bids it has taken, a genuine one, in    *)
(* whatever order they came, unless two threads were storing bids of that  *)
(* bidder at the same time.                                                *)
HoldsCheapestBids ==
    \A n \in Node : \A i \in DOMAIN auctions[n] : \A b \in Node :
        LET a == auctions[n][i]
        IN  /\ a.bids[b] # NoBid => Offer(b, a.bids[b]) \in made
            /\ b \notin a.raced => \A o \in a.taken : o.bidder = b => a.bids[b] <= o.cost

(* "The lowest operational cost wins": no bid that an auction held when it *)
(* was settled is cheaper than the award, with the same exception.         *)
AwardIsBest ==
    \A k \in DOMAIN awards :
        LET a == awards[k]
        IN  \A b \in Node :
               b \notin auctions[a.at][a.object].raced => a.cost <= a.before[b]

(* A job that is settled twice never gets dearer: bids that slipped in     *)
(* after the first settlement only improve on it.                          *)
LaterAwardIsNoDearer ==
    \A k, l \in DOMAIN awards :
        /\ k < l /\ awards[k].at = awards[l].at /\ awards[k].object = awards[l].object
        /\ auctions[awards[k].at][awards[k].object].raced = {}
        => awards[l].cost <= awards[k].cost

(* Whoever a node takes for the winner was awarded the job with a bid of   *)
(* its own, although nothing says which auction of the job an award ended. *)
KnownWinnersWon ==
    \A n \in Node : \A b \in settledJobs[n] :
        \E k \in DOMAIN awards :
            awards[k].winner = b /\ Offer(b, awards[k].cost) \in made
=============================================================================
