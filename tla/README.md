# UniTelem in TLA+

UniTelem (`src/python`) is a peer-to-peer telemetry mesh: every node keeps a
replica of a table of topics, publishes its own topics over UDP, repairs its
replica from its peers, and runs handlers on what it hears. This directory
models its core, checks the models with TLC and proves the main results with
TLAPS. Paths below are relative to `src/python`.

## 1. Inventory

| part | code | state | operations |
|---|---|---|---|
| CRDT store | `state_crdt.py` | registers by owner and topic, one Lamport clock | `update_local`, `merge_remote`, `merge_batch`, reads; one lock |
| Egress ring | `ring_buffer.py` | bounded deque, drop counter | `push`, `push_batch`, `pop`, `pop_batch`, `clear`; one lock |
| Node | `Nodes/node.py` | store, ring, ledger, transport | `publish`, `subscribe`, reads, `start`, `stop` |
| Mesh transport | `network/transport.py` | sockets, peers, keys, callbacks, Merkle tree; threads TX, RX, AE | batches from the ring, frames in, digest, request and response of anti-entropy |
| Merkle tree | `crypto/merkle_tree.py` | leaf hashes, root | `update_from_state`, `get_divergent_keys`, `get_summary` |
| Ledger | `crypto/hash_chain.py` | sequence number, last digest and the last entries; per peer the last number and digest | `append`, `record_incoming`, `verify_local_integrity` |
| Frame codec | `protocol/ccsds.py`, `crc16.py` | none | `pack`, `unpack`, CRC |
| Signatures | `crypto/ed25519.py` | key pair | `sign`, `verify` |
| Discovery | `network/discovery.py` | peers with time last seen and key | beacon out, beacon in, 15 s timeout |
| ZMQ transport | `network/zmq_transport.py` | as the mesh transport, over PUB/SUB; the endpoints it is connected to, the direct peers | `start`, `stop`, `add_direct_peer`, the same three workers |
| Threshold filter | `EventThresholdFilter.py` | last value and last time per topic, in two dicts | `should_pass`, `push`, `reset_state` |
| Processor node | `Nodes/processorNode.py` | handler table, task queue, workers, running flag | `register_handler`, `start`, `stop`, enqueue, worker loop |
| AI node and runner | `Nodes/AI/AINode.py`, `ai/runner.py` | a model | default handlers `telemetry/*`, `alerts/*` |
| Anomaly node | `Nodes/AI/AIAnomalyNode.py`, `ai/anomaly.py` | detectors, proposals with votes | detect, propose, vote, commit |
| Assignment node | `Nodes/AI/AIAssignmentNode.py`, `ai/auction.py`, `ai/spatial.py` | auctions, winners, positions | announce, bid, settle, territories |
| Safety supervisor | `Nodes/AI/AISafetySupervisorNode.py`, `ai/simplex.py` | a state dict per unit, counters, veto history | update a state, evaluate an action, veto, fallback |
| Rest | `__init__.py`, `node.py`, `AIVisionNode.py`, CI | none | re-exports, a docstring, a workflow |

**How they interact.** `Node.publish` writes the store and pushes to the ring.
The TX thread takes batches from the ring, has the ledger number and hash them,
signs, packs and sends. The RX thread checks the CRC, the signature and the
ledger, merges into the store, then calls the subscribers; a `ProcessorNode`
subscribes a function that puts the message into a queue, from which its
workers run handlers, which may publish. The AE thread sends a digest of the
Merkle leaves; the peer answers with its own records and asks for the sender's.
Records that come by repair are merged and never dispatched.

**What is hard here.** UDP loses, repeats and reorders. Nothing is persisted,
so a restart under the same `node_id` begins with an empty store, clock 0,
ledger number 1 and, unless one is passed in, a new key. `publish` takes two locks one after the other and reads a
shared register between them. Handlers run in four workers and most of what
they touch (handler table, proposals, auctions, sensor states, counters) has no
lock; neither have the filter's dicts and the ledger's history. Two threads
write the trust store, three connect to peers. The ring and the queue drop
silently. A sequence number and a node id may be wider than their header
fields. Ring items are told apart by their length, and payloads by whether they
happen to be JSON. An exception ends
some threads and is swallowed in others.

**What makes each part correct.** Store: the newest write wins in any order,
the clock is ahead of every stamp, replicas with the same writes agree. Ring:
the newest items in order, each drop counted. Transport: what circulates is
genuine, everything arrives some time, replicas become equal. Ledger: no false
fork, no missed and no false gap. Quorum: only votes that were cast count, commits
overlap, a commit is announced only after it was reached. Processor: the first
matching handler runs, no message is handled twice per subscription or left
behind, a stopped node comes to rest. Auction: the cheapest bid is kept and wins.
Discovery and ZMQ: a trusted key is not replaced, an endpoint is connected to
once, a reachable peer is heard in the end. Filter: what passes is a deadband and
an interval apart, and only what passed is the reference. Supervisor: no actuator
without a hardware trigger, a fallback within the envelope, one command for each
proposal that can be judged, no reason older than the veto it is given for.
The complete list of hazards, each at its line, is in `PROJECT.json`.

## 2. Modules

    LWWRegister --- SwarmState --- ReplicatedStore --- StoreHistory
                        |                |  (abstract specification)
                        |                |
         Deque -------- MeshTransport ---+  implements (INSTANCE ... WITH)
           |
     FastRingBuffer --- EventThresholdFilter

     LedgerLink --- LedgerHistory           PeerDiscovery --- ZmqTransport
     TamperDetector --- QuorumVoting        SimplexArbiter --- SafetySupervisor
     ProcessorNode                          JobAuction

Modules `XProofs` hold the theorems about `X`: ReplicatedStoreProofs those of all
the store's modules, EventThresholdFilterProofs those of the filter and of the ring
behind it, ReceiverProofs those of the ledger, of discovery and of the ZMQ
transport. Modules `MCX` hold the model values, small sets and symmetry of the
runs. In each module the definitions named
`... Mutant of ...` in a comment are not used by any specification: each is a
faulty form of the definition that follows, kept to show that a property
notices.

**LWWRegister, SwarmState.** A register is a value under a stamp (Lamport time,
wall time), compared as Python compares tuples. An absent key is `Unwritten`,
below every stamp. Every store method holds the lock for its whole body and is
one operator. `update_local` overwrites without comparing; `merge_remote` and
`merge_batch` move the clock for each record, also for a rejected one.

**ReplicatedStore** is the abstract specification: no network; a replica may
merge any selection of the writes ever issued, in any order, any number of
times. A record keeps the Lamport time of its write, but its wall time is that
of whichever frame brought it (the TX thread restamps); and once its owner has
restarted, value and Lamport time may be of two writes of one key, because
`publish` pairs them after it has released the store's lock (`Paired`). `written`,
`fresh` and `restarts` are histories. Only nodes in `Mortal` restart. **StoreHistory** adds what each replica has seen, to
state strong eventual consistency.

**MeshTransport** is the detailed specification, and
`Store == INSTANCE ReplicatedStore WITH ...` its mapping to the abstract one. `pending`
is `publish` between its two locks; `ring`, `batch` and `txAlive` are the egress
side; `snap` is the AE thread between its two snapshots; `net` the datagrams.
`PopBatch` fixes the peers of a batch, or throws it away when there are none.
`publish(topic, None)` puts the bare topic into the ring (`Bare`), and the TX
thread tells items by `len`: of a topic of two characters it makes a topic and a
value under Lamport time 0 (`Sent`), one of three ends the thread, and any other
is skipped (`SkipItem`). `TransmitFails` is each exception that nothing catches:
`json.dumps` of an object, `struct.pack` of a character, a frame too long. A value
and its JSON text are one in the model; `bytes` are sent as they are, and those
that happen to be JSON text arrive as the value they parse to (`Settled`).
`trust` is the key each node pinned for each other one: discovery brings address
and key together, and a frame under another key is refused (`Accepted`), as is
every frame of a node whose id the header cuts (`LongId`). A restart makes a new
key except for the nodes in `SameKey`, which are started with `private_key_hex`.
A frame that the RX thread refuses (CRC, key, signature, fork) is a `Lose`. `Carry`
bounds the network by losing datagrams, which UDP may always do. The mapping to
the store leaves out the records under time 0 and takes values as JSON returns
them (`AsStored`). The handler of
a digest reads the store in one step, which the comment there justifies. Only
nodes in `Mortal` restart.

**Deque, FastRingBuffer.** The append of a bounded `collections.deque`, and the
buffer whose items are their push numbers.

**EventThresholdFilter** puts a filter in front of the ring. A push is one step
per access to a dict: deadband, clock, interval, the two assignments, the push.
A bare push keeps its value under `__default__` and its time under the number.
`Others` are publishers that push past the filter and the thread that pops.

**LedgerLink, LedgerHistory.** One sender, one receiver. `Digest(e, i, s)` stands
for SHA-256: equal only for equal arguments. The sender hashes the whole number,
the receiver the truncated one. The code's check for a corrupted digest compares
what the transport has just computed with itself and is left out.
LedgerHistory adds the sender's list of entries, which the transmit thread
appends to and pops from (two steps) while the application verifies it, one
position per step. It implements LedgerLink.

**TamperDetector, QuorumVoting.** TamperDetector turns a camera's statistics into
reports; the worst decides whether a vote is called. QuorumVoting is one
incident. A handler is several steps (look up, create, check, record, tally,
decide, return), since proposals have no lock; it keeps the object it looked up
when another replaces it. `Decide` writes the verdict, also "expired", over
whatever another handler has set since the check, and `Return` reads the status
again. A vote message carries the voter and the choice of its payload, which is
what the handler counts. Votes and proposals are delivered any number of times
or never.

**ProcessorNode.** One node. `table` is the handler dict in its order of
insertion. A worker's turn is: read the flag, get a task, look the topic up or
walk the table entry by entry, run the handler. A table that grew during the
walk raises, outside the `try`, and ends the worker. `phase` is where `start`
and `stop` are: the transport opens before the running flag is set and closes
after it is cleared, so that tasks come in while no worker looks. `start` after
`stop` makes
new workers next to old ones that have not seen the flag yet. `Copies` is what
the transport's dispatch makes of one message: a copy for each of the
`Subscriptions` that match, all run by the same first handler.

**JobAuction.** One job, one `Auction` object per node at a time, the earlier
ones kept for threads that still hold them. `add_bid` is check, compare, store;
`settle` is close, then sort. A bid is its cost. `taken` and `raced` are
histories.

**PeerDiscovery, ZmqTransport.** PeerDiscovery is one listening node, its table of
peers and its transport's trust store; peers start, move to another port and
come back with the same or another key, and their beacons are lost, repeated and
overtaken. The listener calls `on_peer_found` after it has released its lock, and
the receiver looks up, asks discovery and stores in three steps. A signature
verifies under the key that made it and under no other. A frame of a peer in
`LongId` comes under the first 16 bytes of its id, `Stranger`, which nobody is
called. ZmqTransport adds the
SUB socket, which hears only what it was connected to: the transmit and the
anti-entropy thread each take the table (`SyncBegin`) and connect to it one by
one (`Connect`). `start` with a direct peer takes its own lock twice: phase
`stuck`, which nothing leaves. Application calls come in the order of `Node.start`
and `Node.stop`; the threads are taken to see the flag within the second that
`stop` waits for them.

**SimplexArbiter, SafetySupervisor.** SimplexArbiter is the four checks and three
fallbacks of `simplex.py`, as functions of the action and of what was read.
SafetySupervisor is the workers around it: a payload that is no dict is ignored
(`IgnoreProposal`), any other is judged in one step per read of a state dict,
counters loaded and stored apart, the veto history appended to in one step and
its last entry reported in another. The four interlock triggers are two here, the
two temperatures one, the two horizontal coordinates one. A dict is created
and replaced as in `on_kinematics_update`; since AINode's `telemetry/*` comes
first in the table, that handler is only reached for the units in `ExactTopic`.
`on` is a history: the triggers that were on while a worker judged.

## 3. Runs

| run | what it checks | bounds | why they are enough |
|---|---|---|---|
| `store` | 5 invariants and `NeverRegress` of the store | 2 nodes, 1 topic, 2 values (symmetric), clock 2, 1 restart of one node | two owners, two writes each, every order of merging, stale and mispaired writes of an earlier life; the proofs cover the rest |
| `store_last_write` | `LastWriteWins`, violated | same | see 5 |
| `ring` | filter: `QuietAndSpaced`, `ReferenceIsLastPassed`; ring: 3 invariants, `DropsOnlyWhenFull` | 2 threads through one filter, one with payloads of one topic and one that pushes bare numbers, 2 resets, time 2; capacity 2, batches up to 3, 3 pushes | deadband and interval each hold something back, a reset falls between any two accesses, batches below and beyond the capacity |
| `ledger` | `NoFalseFork`, `GapsDetected`, `NoFalseGap`, `IntactChainVerifies` | modulus 5, 5 frames a run, 2 runs, 1 receiver restart, history of 2 | wraps once; a gap; a tracker from before a restart; a verification that appends and drops overtake |
| `quorum` | `VotesAreCast`, `AnnouncedAfterCommit`, `CommitsOverlap` | 2 nodes, one with 2 workers, one with 1 and an application that votes, expiry, cameras below and above the severity | two handlers race at each node, on two proposal objects, with expiry between the check and the verdict |
| `quorum_unified` | `UnifiedResponse`, violated | 2 nodes, 1 worker, nothing lost, no expiry | see 5 |
| `mesh_refines` | `NothingMispaired`, `MeshReadYourWrites`, `ImplementsStore` | 2 nodes, 1 publisher of 2 topics: one gets bytes that are JSON text or an object `json.dumps` refuses, the other has two characters and gets `None`; 2 wall times, ring and batch 1, 2 datagrams, 1 leaf, record or key per repair frame, clock 2 | ring overflow, restamping, own writes returned by repair and changed by JSON, a record nobody wrote beside genuine ones of the same key, a dead TX thread, digests, requests and responses too long for a frame |
| `mesh_converges` | `Convergence` (liveness) | 1 publisher, 2 writes of a JSON value or `None` (never transmitted), a receiver that restarts once under its key, frames that hold the store | loss of all telemetry; digest, request and response in any interleaving with publish and restart; leaves that mix two writes; a replica that begins again |
| `processor` | `FirstRegisteredRuns`, `EachCopyOnce`, `QueueDrains`, `StopQuiesces` | 2 threads from 2 starts, queue 2, 2 messages, 2 topics, 2 nested wildcards, 3 registrations | a worker of the old start beside one of the new; overflow; a table that grows under a worker |
| `auction` | `HoldsCheapestBids`, `AwardIsBest`, `LaterAwardIsNoDearer`, `KnownWinnersWon` | a host with 2 workers and its application, a bidder with 1, costs below and above the host's, 1 auction each, 2 awards | bids racing in two threads and with `settle`, a second settlement, notices out of order |
| `zmq` | `ConnectedOnce`, `KeyPinned`, `HeardInTheEnd` (liveness) | 1 peer with 2 lives, 2 ports, 2 keys or none; 2 threads that connect; 2 starts | a peer that moves, changes or loses its key; beacons of the first life after those of the second; tables of different age |
| `safety` | `InterlockHolds`, `FallbackWithinEnvelope`, `ReasonIsRecent`, `OneCommandEach`, `StatsNeverOvercount` | 2 workers, 2 units, 6 actions (two with values that are no number), 2 proposals or ignored payloads, 3 updates with low battery, `NaN` and values that are no number | each read may fall before or after each update; two evaluations count at once; a raise at each comparison |

Deadlock checking is off throughout: each bound ends a behaviour, and an idle
mesh, a stopped node or a settled auction really is at rest. The runs take from
a few seconds to three minutes each; `safety` has 7.4 million states, `processor`
2.1 million. Type
invariants are proved where there are proofs (6.) and take no part in the runs.

**Bounds that hide something.** `mesh_refines` has no restart, for
which it would take too many states; `ImplementsStore` and `NothingMispaired`
are proved with restarts of all nodes (6.), and with topics of two characters. What `NothingMispaired` promises ends with the
restart of an owner: a repair response can bring a node its own older write under
a higher time between `update_local` and the read of `reg.lamport_time`, so that
the frame carries the new value under the old one's time. ReplicatedStore
allows exactly that (`Paired`). Nor does it except records under Lamport time 0
made of a bare topic (`Stray`): they are older than any write. `Convergence`
has the premise `Reconciles`: digests, responses and requests that
hold the store fit a frame, no id is cut, and a node that restarts keeps its key;
and it promises nothing once a replica holds a value that no response carries
(`Blocked`). In each of these cases anti-entropy stops by the code as it is (5.).
It speaks of what each owner wrote last: an earlier value may never be seen by a
peer. `MaxAuctions = 1` and the bidder's single worker keep the
creation of two auction objects of one job out of the run.
`HoldsCheapestBids`, `AwardIsBest` and `LaterAwardIsNoDearer` except bidders of
whom two threads were about to store a bid at the same moment (`raced`); without
the exception they fail, since `add_bid` compares and stores without a lock.
`NoFalseFork` and its like speak of frames before the wrap (5.).
`IntactChainVerifies` speaks of verifications during which nothing was dropped,
`QuietAndSpaced` of topics that one thread feeds and that are not named `__default__`, `KeyPinned` of steps that are
not the receiver's own caching of the same peer's key, and `HeardInTheEnd` of
running transports and peers that kept their key, have an id of at most 16 bytes
and an endpoint that no earlier socket was connected to: outside of these each fails by the code as it
is (5.). `FallbackWithinEnvelope` speaks of units that are inside the fence, of envelopes
in which a unit can hover (`Habitable`) and, for the return to base, which has
the base inside (`BaseFits`): in any other the fallback breaches the fence, by the
code as it is (5.). `OneCommandEach`
counts as unanswered what was ignored or raised. `ReasonIsRecent` allows the
reason of another worker's later veto, which the code can report.

## 4. Fairness

`MeshSpec`, `HSpec`, `FilterSpec`, `LedgerSpec`, `QuorumSpec`, `AuctionSpec` and
`SupervisorSpec` assume none. `FairSpec` assumes
that the anti-entropy thread takes its next step some time (weak fairness: a
daemon thread in a loop with a timeout that swallows every exception), that
a first beacon of each peer is heard some time, and that of the digests and
responses that keep being sent from n to m, and that m accepts, not every one is
lost (strong fairness). A digest or response that m refuses because of its key is
never handled, so that fairness promises nothing about it, and without the
premise on keys `Convergence` fails. It assumes nothing of
the TX thread, which may be dead, nor of telemetry and requests, which may all be
lost; anti-entropy repeats digests for ever, which is why that is enough. `ProcessorSpec` assumes weak fairness of each
worker (a thread in a loop whose `get` waits at most 0.2 s; handlers are taken to return) and
of the receiver while it dispatches. Nothing is assumed of the application's calls.
`QueueDrains` is about a node that in the end stays started and whose table
never grows under a live worker. `FairZmqSpec` assumes that the listener, its
callback, the receiver and the anti-entropy thread take their next steps, that
of the beacons and frames a peer goes on sending not all are lost, that no datagram
lives for ever, and that a thread looks at the table some time while a peer counts
as active (it does so every few seconds, an entry counts for 15 s). Of the
transmit thread it assumes nothing, since an object that JSON refuses ends it; nor
does it assume that a lock is released that `start` holds for ever.
`FairQuorumSpec` assumes the best network, to show
that `UnifiedResponse` fails even then.

## 5. Findings

- *A restarted node loses its last write* (`store_last_write`,
  `state_crdt.py:61`): its clock is back at 0, a peer returns the old write
  under a higher time.
- *No unified response* (`quorum_unified`, `AIAnomalyNode.py:345`): the
  proposer's own approval counts at the proposer only, and nobody handles
  `anomaly/quorum_committed`.

Seen while modelling, and kept out of the properties by a premise that names it
or not covered by any:

- *false fork after the 14-bit number wraps* (`transport.py:338`, `ccsds.py:98`):
  sender and receiver hash different numbers, so the next frame looks forged;
- `verify_local_integrity` calls an intact chain broken if the transmit thread
  pops an entry in front of the loop meanwhile (`hash_chain.py:91`);
- after an owner's restart a frame may carry the new value under the old one's
  time (`node.py:160`);
- `_connected_endpoints` outlives the SUB socket: after a stop and a start the
  transport hears no endpoint it was connected to before
  (`zmq_transport.py:107`); a direct peer added to a running transport is not
  connected to before the next start;
- a restarted node has a new key unless the old one is passed in (`node.py:58`),
  and its peers have pinned the old one (`transport.py:318`): they refuse its frames,
  digests and responses for ever, so that what it missed never reaches it;
- a node id of more than 16 bytes is cut in the header (`ccsds.py:100`), and keys are
  found under the whole id: a peer that was discovered and connected to is never
  heard, over UDP or ZMQ;
- `publish(b"1")` is the integer 1 at every peer, under the same Lamport time
  (`transport.py:352`), and a repair response with a newer wall time puts the
  integer in the publisher's own replica; `MeshReadYourWrites` therefore speaks of
  values as JSON returns them;
- the return to base is to at least 15 m at the origin whatever the envelope
  (`simplex.py:224`), so that under a lower ceiling the fallback breaches the fence
  it enforces;
- a bare topic of two characters is sent as a record nobody wrote, under time 0,
  and one of three ends the TX thread (`transport.py:255`);
- a proposal that is no dict is dropped in silence
  (`AISafetySupervisorNode.py:136`), and a supervisor without its arbiter approves
  everything (`:97`);
- the receiver that asks discovery after the
  callback has stored a key may still replace it by that of a later beacon;
- `min_z` and `max_yaw_rate_dps` are part of the envelope and never checked;
  `NaN` in a state passes every check, `None` or a string makes the evaluation
  raise, and then there is neither a veto nor a fallback; an action given as a
  flat `{"action": "..."}` is an invalid command
  (`AISafetySupervisorNode.py:138`);
- `reset_state(topic)` does not reach what bare pushes keep under `__default__`, which
  an event of a topic of that name would overwrite;
- one `bytes` value among the divergent records makes `json.dumps` raise and
  ends the repair of all of them (`transport.py:413`); a digest, response or request
  that exceeds a frame is never sent (`ccsds.py:119`); an object that JSON refuses ends the TX
  thread (`transport.py:269`);
- `AINode` registers `telemetry/*` first (`AINode.py:56`), so that
  `AIAnomalyNode`'s handler of `telemetry/metrics/*` (`:105`) and the
  supervisor's of `telemetry/kinematics/*` (`AISafetySupervisorNode.py:82`)
  never run; `FirstRegisteredRuns` is the general statement. A message that
  matches k subscriptions is handled k times by that one handler;
- constructors of subclasses register handlers after `auto_start`, so a
  message may meet a growing table and cost a worker (`processorNode.py:109`);
- two workers in `add_bid` may replace a cheaper bid by a dearer one
  (`auction.py:101`, against the comment at `:99`);
- ZMQ `start` takes its lock twice when there are direct peers
  (`zmq_transport.py:135` and `:109`); `Node` ignores
  `transport_backend` (`node.py:39` and `:81`) and imports a dashboard that is not in the repository
  (`node.py:131`).

## 6. Proofs

All theorems hold for every value of the constants that their `ASSUME`s allow.

- **ReplicatedStoreProofs.** Merging is idempotent and associative; commutative
  unless two different values carry one stamp, and then the first stays. Then the
  invariants of `store`, and `NeverRegress`. `ReadYourWrites`, `OwnerAhead` and
  `SameStampSameValue` are not inductive: a merge may bring *any* write, so
  `StoreInv` adds that a running owner's clock and register are ahead of all its
  writes (`OwnerCoversWrites`) and that no two of its writes share a time
  (`OneWritePerStamp`). With the histories, a replica holds the newest it has seen
  (`HoldsNewestSeen`), and with `OneWritePerStamp` strong convergence follows.
  `HeldInv` is the part that speaks of replicas and writes alone, which the
  mesh needs.
- **MeshTransportProofs.** `MeshSpec => Store!Spec`, for any swarm, buffer sizes,
  keys and restarts, bytes that are JSON text and topics of two characters
  included. The mapping takes values as JSON returns them and leaves out records
  under time 0, so the proof shows that such records are all there is that nobody
  wrote and that merging them never touches a write. A merge is a step of the store only if its record is one that
  circulates, so `MeshInv` follows a write through the code: what a half-done
  `publish` still holds is its owner's last write (`PendingIsFresh`), what ring
  and batch hold was issued (`QueuesIssued`), so every datagram is sound
  (`NetSound`), repair responses through the replica they were read from
  (`HeldInv`). A batch is merged record after record by a recursive function; that
  it comes to one merge per key is proved by induction on the number of records
  (`InductionUpTo`, over a set of numbers, since the library's induction theorem
  takes an operator). `MeshReadYourWrites` is the store's theorem, carried over.
- **EventThresholdFilterProofs.** The ring: `InOrder` says nothing while the
  buffer is empty; `LastBehind` (what was handed out lies behind what is held)
  closes the gap. `FilterSpec => Spec` carries the ring's theorems behind
  the filter. `FilterInv` says, for each topic with one feeder and for every
  place between check and commit, what the two dicts hold: the value and the time
  of the last event that passed (`ValueReference`, `TimeReference`), which are there
  unless a reset removed them since (`ValuePresent`, `TimePresent`), and that what
  the feeder has checked is still true although others reset (`ValueApart`,
  `TimeApart`). A reset between two events is why `Spaced` only speaks of
  undisturbed neighbours. The proof showed that a topic named `__default__` has to
  be excepted: bare events keep their value under that name, so that it has more
  feeders than push to it.
- **ReceiverProofs.** The ledger: `LinkInv` describes the chain of the first run
  before the wrap (`Chained`) and the tracker as standing at one of its frames
  with everything passed accounted for (`Tracked`). `LedgerImplementsLink` carries
  these theorems over to the ledger with its history. `HistoryInv` says that the
  history is the end of the chain (`EndOfChain`) and that a verification that was
  not disturbed stands where the chain is (`OnTrack`), from which
  `IntactChainVerifies` follows for every length. The connections: an endpoint
  with a link is in the set that `_connect_to_peer` looks at. The keys: while the
  callback of a first beacon is under way, the listener hears no other, so that
  the table, the trust store and a receiver that has asked meanwhile all agree
  with the callback (`CallbackAgrees`); of a peer that is not in the table nobody
  has a key (`KnownInTable`), which needs that no beacon is empty (`BeaconsTell`).
  Hence the callback replaces no key by another (`KeyPinned`).
- **QuorumVotingProofs.** Each recorded set of approvers is a supermajority in
  every interleaving; two such sets overlap, by counting. `VotingInv` says of
  each handler what it has checked so far and of each counted vote where it came
  from; `VotesAreCast` and `AnnouncedAfterCommit` follow for any numbers of nodes
  and workers.
- **JobAuctionProofs.** None of the four properties is inductive. `StoresImprove`:
  unless two threads race for one bidder, a thread about to store a bid still
  stores a cheaper one, so that bids only fall; then what was awarded, or seen when
  `settle` began, stays above them (`AwardsCovered`, `SettlesBelow`), and
  `HoldsCheapestBids`, `AwardIsBest` and `LaterAwardIsNoDearer` follow, with
  `KnownWinnersWon` from where notices come from (`WinnersAwarded`).
- **SafetySupervisorProofs.** `SupervisorInv` says what a worker may rely on
  although others write the dict it reads: the triggers it has seen on, and those
  that are on now, were on since it began (`Witness`, `Progress`); what it has
  read is a beginning of the list of reads; its entry is in the history. Then
  `InterlockHolds`, `FallbackWithinEnvelope` (a case for each fallback; of the
  envelope only that its bounds are numbers is assumed, and what else a fallback
  needs, `Habitable` and `BaseFits`, is in the property) and `ReasonIsRecent`. `OneCommandEach` follows from
  `CommandInv`: a proposal is in one worker's hands, answered, or unanswered because
  it was ignored or raised, and never two of these. `StatsNeverOvercount` needs that no worker has *loaded* more than
  there was to count (`StatsInv`), since it will store that plus one after others
  have counted; the sets behind the counters are counted step by step.
- **ProcessorNodeProofs.** `FirstRegisteredRuns`, since a place in the table is
  never given to another pattern, so that what a worker has passed over it has
  passed over for good. `EachCopyOnce`: every step takes a copy from one
  place to another; `CopyInv` adds that what is counted are numbers, for
  which the subscriptions to one pattern must be bounded in every state.

Assumed are only the `ASSUME`s on constants, which TLC evaluates in the runs:
finite sets of nodes, topics, patterns and threads, a swarm size not below the
number of nodes, a quorum formula in whole numbers, payloads whose triggers are
Booleans, an envelope whose bounds are numbers, bytes that do not parse to bytes,
`None` as a value of its own, peers none of which is called what the header keeps
of a longer id. The type invariants are
parts of the inductive ones.

Every invariant and every action property that a run checks is proved. Only
model-checked is liveness (`Convergence`, `QueueDrains`,
`StopQuiesces`, `HeardInTheEnd`), which TLAPS cannot do under fairness. The two
properties that fail (5.) are counterexamples of TLC and have no theorem.

## 7. Not modelled

- Ed25519, SHA-256 and CRC arithmetic: taken as perfect. Curve arithmetic is out
  of TLC's reach.
- `DriftDetector`, `ai/spatial.py` and the cost formula: floating-point statistics
  and geometry without interaction; what they decide is an input.
- The bytes of a frame and its CRC: packing matters here for what it does to the
  sequence number (14 bits) and to the node id (16 bytes), and for frames that are
  too long or lost. Two ids that share their first 16 bytes are not modelled, nor
  are ids with a `:`, at which repair splits a key.
- `enable_crypto=False`, under which nothing is signed and any frame is accepted.
- What JSON does to values other than bytes, such as tuples that return as lists:
  a value and its JSON text are one.
- In the mesh, a peer that is silent for 15 s: what would be sent to it is lost,
  which the network may do as well.
- A supervisor without its arbiter.
- The inner nodes of the Merkle tree: equal roots are taken to mean equal leaves.
- `ai/runner.py` and `AINode`: loading and calling a model; the handlers that
  `AINode` registers are inputs of `ProcessorNode`.
- `check_expirations` (never called), peers and keys added by hand, sockets that
  cannot be bound, status messages and territories.
- Start and stop of the UDP transport's threads (`transport.py:144`).
- The composition of subscribers with the mesh: values that arrive by repair are
  merged and never dispatched.

## 8. Plan

Done, in this order: store and its proofs; ring; mesh and its refinement;
ledger; quorum; processor; auction; supervisor and its proofs; filter; discovery
and ZMQ; the ledger's history and its proofs; the detector in front of the vote;
proofs of the auction, the mesh, the filter, the supervisor's books, the copies of
a message, the connections and the keys.

What is worth adding next:

1. What the mesh's refinement gives for free: the rest of the store's theorems
   stated of `MeshSpec`, and the safety part of convergence (replicas with equal
   leaves hold equal values).
2. The detector: that a worse camera never has a lesser report, for all
   thresholds.
3. Subscribers on top of `MeshTransport`: what is dispatched against what is
   stored (late frames are dispatched, repaired values are not).
4. The threads of the UDP transport across a stop and a start.

New modules are to be composed with existing ones and to share their runs where
the questions allow.
