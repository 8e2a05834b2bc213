--------------------------- MODULE MeshTransport ---------------------------
(***************************************************************************)
(* The data plane of a UniTelem node: Node.publish, the egress ring, and   *)
(* the three threads of network/transport.py (transmit, receive, anti-     *)
(* entropy), over UDP, which loses, duplicates and reorders datagrams.     *)
(*                                                                         *)
(* Atomicity.  Store methods hold the store's lock and ring methods the    *)
(* ring's, so each is atomic; a method that makes two such calls is two    *)
(* steps.  publish writes the store and later reads the Lamport time back  *)
(* and pushes (PublishWrite, PublishPush); the anti-entropy thread takes   *)
(* the values and later the clocks (DigestBegin, DigestSend).              *)
(***************************************************************************)
EXTENDS SwarmState, Deque, FiniteSets

CONSTANTS Published,        \* who publishes what under which topic
          Wall,             \* wall times a register or a frame can get
          Parsed,           \* what json.loads makes of bytes that are JSON text
          Blob,             \* bytes that are not JSON text
          Opaque,           \* objects that json.dumps refuses
          Huge,             \* values too long for a frame, alone or in a record
          Null,             \* None, which push cannot tell from no payload
          Unpacked,         \* what the transmit worker makes of a topic of two characters
          Triple,           \* topics of three characters
          LongId,           \* nodes whose id has more than the 16 bytes a header keeps
          SameKey,          \* nodes that are given the same private key at every start
          DigestCapacity, ResponseCapacity, RequestCapacity,
                            \* leaves, records and keys that fit a frame (65536 bytes)
          BatchSize,        \* items the transmit worker takes at once (128)
          MaxInFlight,      \* bound: datagrams the network holds
          Mortal,           \* the nodes that restart
          MaxRestarts       \* bound: restarts of each

Text == DOMAIN Parsed
Pair == DOMAIN Unpacked

(* A value and its JSON text are one: a tuple is the list it arrives as.   *)
ASSUME MeshAssumption ==
    /\ IsFiniteSet(Node) /\ IsFiniteSet(Topic)
    /\ Published \subseteq Node \X Topic \X Value /\ Mortal \subseteq Node
    /\ Wall \subseteq Nat
    /\ UNION {Text, Blob, Opaque, Huge, Null} \subseteq Value
    /\ Null \cap UNION {Text, Blob, Opaque, Huge} = {}
    /\ Parsed \in [Text -> Value \ UNION {Text, Blob, Opaque}]
    /\ Pair \cup Triple \subseteq Topic /\ Pair \cap Triple = {}
    /\ Unpacked \in [Pair -> [topic : Topic,
                              value : Value \ UNION {Text, Blob, Opaque, Huge, Null}]]
    /\ DigestCapacity \in Nat /\ BatchSize \in Nat \ {0}
    /\ ResponseCapacity \in Nat /\ RequestCapacity \in Nat
    /\ MaxInFlight \in Nat /\ MaxRestarts \in Nat

VARIABLES pending,    \* pending[n]: publish's item between the store and the ring
          ring,       \* ring[n]: the egress ring buffer
          batch,      \* batch[n]: items popped and not yet transmitted, and for whom
          txAlive,    \* txAlive[n]: the transmit thread has not died
          trust,      \* trust[n][m]: the key n pinned for m, NoKey before it heard of m
          snap,       \* snap[n]: state snapshot of a digest under construction
          net,        \* datagrams in flight
          written, fresh, restarts    \* the histories of ReplicatedStore

egressVars  == <<pending, ring, batch, txAlive>>
historyVars == <<written, fresh, restarts>>
meshVars    == <<regs, clock, egressVars, trust, snap, net, historyVars>>

NoSnap == <<>>
NoKey  == -1

(* A start without private_key_hex makes a new key. *)
KeyOf(n) == IF n \in SameKey THEN 0 ELSE restarts[n]

(* Address and key of a peer come with its first beacon. *)
Peers(n) == {m \in Node : trust[n][m] # NoKey}

(* sendto never waits.  When the network is full, some of what is in       *)
(* flight is lost to make room.                                            *)
Carry(inFlight, datagrams) ==
    \E lost \in SUBSET (inFlight \ datagrams) :
        LET carried == (inFlight \ lost) \cup datagrams
        IN  /\ Cardinality(carried) <= MaxInFlight
            /\ lost # {} => Cardinality(carried) = MaxInFlight
            /\ net' = carried

ValuesIn(records) == {records[i].reg.value : i \in DOMAIN records}

(* Values that no repair response carries. *)
Unsendable == UNION {Text, Blob, Opaque, Huge}

(* json.dumps of a list of records fails if one value is no JSON value,    *)
(* and packing the frame fails if the list is too long.                    *)
Encodable(records) == /\ ValuesIn(records) \cap Unsendable = {}
                      /\ Len(records) <= ResponseCapacity

MeshInit ==
    /\ StoreInit
    /\ pending = [n \in Node |-> <<>>]
    /\ ring = [n \in Node |-> <<>>]
    /\ batch = [n \in Node |-> <<>>]
    /\ txAlive = [n \in Node |-> TRUE]
    /\ trust = [n \in Node |-> [m \in Node |-> NoKey]]
    /\ snap = [n \in Node |-> NoSnap]
    /\ net = {}
    /\ written = {}
    /\ fresh = [k \in Key |-> NoValue]
    /\ restarts = [n \in Node |-> 0]

-----------------------------------------------------------------------------
(* Node.publish, by one application thread. *)

PublishWrite(n, t, v, w) ==
    /\ <<n, t, v>> \in Published
    /\ pending[n] = <<>>
    /\ UpdateLocal(n, t, v, w)
    /\ pending' = [pending EXCEPT ![n] = <<[topic |-> t, value |-> v]>>]
    /\ written' = written \cup {[key |-> <<n, t>>, value |-> v, lamport |-> clock[n] + 1]}
    /\ fresh' = [fresh EXCEPT ![<<n, t>>] = v]
    /\ UNCHANGED <<ring, batch, txAlive, trust, snap, net, restarts>>

(* Mutant of PublishPush: the item gets the clock's time of the moment. *)
PublishPushClock(n) ==
    /\ pending[n] # <<>>
    /\ LET p    == Head(pending[n])
           item == [topic |-> p.topic, value |-> p.value, lamport |-> clock[n]]
       IN  ring' = [ring EXCEPT ![n] = Extended(@, <<item>>)]
    /\ pending' = [pending EXCEPT ![n] = <<>>]
    /\ UNCHANGED <<regs, clock, batch, txAlive, trust, snap, net, historyVars>>

(* reg.lamport_time is read after update_local released the lock, from the *)
(* register object in the store, which a merge may have changed in place.  *)
PublishPush(n) ==
    /\ pending[n] # <<>>
    /\ LET p    == Head(pending[n])
           item == [topic |-> p.topic, value |-> p.value,
                    lamport |-> regs[n][<<n, p.topic>>].lamport]
       IN  ring' = [ring EXCEPT ![n] = Extended(@, <<item>>)]
    /\ pending' = [pending EXCEPT ![n] = <<>>]
    /\ UNCHANGED <<regs, clock, batch, txAlive, trust, snap, net, historyVars>>

-----------------------------------------------------------------------------
(* _tx_worker *)

(* The peers known now get the whole batch; with none it is gone. *)
PopBatch(n) ==
    /\ txAlive[n] /\ batch[n] = <<>> /\ ring[n] # <<>>
    /\ LET count == IF Len(ring[n]) < BatchSize THEN Len(ring[n]) ELSE BatchSize
       IN  /\ ring' = [ring EXCEPT ![n] = SubSeq(@, count + 1, Len(@))]
           /\ batch' = [batch EXCEPT ![n] =
                  IF Peers(n) = {} THEN <<>>
                  ELSE [i \in 1..count |-> [item |-> ring[n][i], to |-> Peers(n)]]]
    /\ UNCHANGED <<regs, clock, pending, txAlive, trust, snap, net, historyVars>>

(* push(topic, None) appends the bare topic. *)
Bare(item) == item.value \in Null

(* Mutant of Sent: the two characters go under the Lamport time of None.   *)
SentTimed(item) ==
    IF Bare(item) THEN [topic   |-> Unpacked[item.topic].topic,
                        value   |-> Unpacked[item.topic].value,
                        lamport |-> item.lamport]
    ELSE item

(* The worker tells items by their length: a string of two characters is   *)
(* unpacked as a topic and a value, under Lamport time 0.                  *)
Sent(item) ==
    IF Bare(item) THEN [topic   |-> Unpacked[item.topic].topic,
                        value   |-> Unpacked[item.topic].value,
                        lamport |-> 0]
    ELSE item

(* One item of the batch.  The frame gets a new wall time, ts_ns. *)
Transmit(n, w) ==
    /\ txAlive[n] /\ batch[n] # <<>>
    /\ LET item == Head(batch[n]).item
           sent == Sent(item)
           r    == [value |-> sent.value, lamport |-> sent.lamport, wall |-> w]
           frame(m) == [kind |-> "telemetry", from |-> n, to |-> m, signer |-> KeyOf(n),
                        key |-> <<n, sent.topic>>, reg |-> r]
       IN  /\ IF Bare(item) THEN item.topic \in Pair ELSE item.value \notin Opaque \cup Huge
           /\ Carry(net, {frame(m) : m \in Head(batch[n]).to})
    /\ batch' = [batch EXCEPT ![n] = Tail(@)]
    /\ UNCHANGED <<regs, clock, pending, ring, txAlive, trust, snap, historyVars>>

SkipItem(n) ==
    /\ txAlive[n] /\ batch[n] # <<>>
    /\ Bare(Head(batch[n]).item)
    /\ Head(batch[n]).item.topic \notin Pair \cup Triple
    /\ batch' = [batch EXCEPT ![n] = Tail(@)]
    /\ UNCHANGED <<regs, clock, pending, ring, txAlive, trust, snap, net, historyVars>>

(* Nothing in the thread catches what json.dumps (TypeError), struct.pack  *)
(* (a character for the Lamport time) and frame.pack (ValueError) raise:   *)
(* the rest of the batch is lost and nobody empties the ring any more.     *)
TransmitFails(n) ==
    /\ txAlive[n] /\ batch[n] # <<>>
    /\ LET item == Head(batch[n]).item
       IN  IF Bare(item) THEN item.topic \in Triple ELSE item.value \in Opaque \cup Huge
    /\ txAlive' = [txAlive EXCEPT ![n] = FALSE]
    /\ batch' = [batch EXCEPT ![n] = <<>>]
    /\ UNCHANGED <<regs, clock, pending, ring, trust, snap, net, historyVars>>

-----------------------------------------------------------------------------
(* _ae_worker and _broadcast_anti_entropy_digest *)

(* state_store.snapshot() *)
DigestBegin(n) ==
    /\ Peers(n) # {}
    /\ snap[n] = NoSnap
    /\ snap' = [snap EXCEPT ![n] = [k \in Key |-> regs[n][k].value]]
    /\ UNCHANGED <<regs, clock, egressVars, trust, net, historyVars>>

(* Mutant of Leaves: the hash leaves out the Lamport time. *)
LeavesOfValues(values, n) ==
    [k \in Key |-> <<values[k], IF values[k] = NoValue THEN -1 ELSE 0>>]

(* update_from_state: a leaf hashes a value of the first snapshot with the *)
(* Lamport time of the second; keys the first lacks have no leaf.          *)
Leaves(values, n) ==
    [k \in Key |-> IF values[k] = NoValue THEN <<NoValue, -1>>
                   ELSE <<values[k], regs[n][k].lamport>>]

LeafKeys(leaves) == {k \in Key : leaves[k] # <<NoValue, -1>>}

Hashable(values) == \A k \in Key : values[k] \notin Opaque

(* get_clocks_snapshot(), the tree and the digest frames.  A value that    *)
(* json.dumps refuses, or a summary too long for a frame, raises; the      *)
(* worker swallows the exception and tries again at the next interval.     *)
DigestSend(n) ==
    /\ snap[n] # NoSnap
    /\ snap' = [snap EXCEPT ![n] = NoSnap]
    /\ LET leaves == Leaves(snap[n], n)
           fits   == Hashable(snap[n]) /\ Cardinality(LeafKeys(leaves)) <= DigestCapacity
           frames == {[kind |-> "digest", from |-> n, to |-> m, signer |-> KeyOf(n),
                       leaves |-> leaves] : m \in Peers(n)}
       IN  Carry(net, IF fits THEN frames ELSE {})
    /\ UNCHANGED <<regs, clock, egressVars, trust, historyVars>>

-----------------------------------------------------------------------------
(* _rx_worker.  d is consumed or, duplicated by the network, stays.        *)

Arrived(d, stays, frames) ==
    Carry(IF stays THEN net ELSE net \ {d}, frames)

(* Frames are signed, and the receiver looks the key up under the id of    *)
(* the header: none is known under the first 16 bytes of a longer id.      *)
Accepted(d) == d.from \notin LongId /\ trust[d.to][d.from] = d.signer

(* bytes are sent as they are, everything else as JSON text, and whatever  *)
(* is JSON text is parsed at the other end.                                *)
Settled(value) == IF value \in Text THEN Parsed[value] ELSE value

ReceiveTelemetry(d, stays) ==
    /\ d.kind = "telemetry"
    /\ MergeRemote(d.to, d.key, [d.reg EXCEPT !.value = Settled(@)])
    /\ Arrived(d, stays, {})
    /\ UNCHANGED <<egressVars, trust, snap, historyVars>>

(* get_divergent_keys *)
Divergent(local, remote) == {k \in Key : local[k] # remote[k]}

(* _handle_ae_digest: equal roots or no divergent key end it; otherwise    *)
(* the local records go to the sender and the sender's are asked for.  An  *)
(* exception ends it at once: what cannot be hashed, or a response that    *)
(* does not fit, takes the request with it.  Its reads of the store are    *)
(* one step here: the only other thread that writes the store is the       *)
(* publisher's, and a write between two of the reads changes which genuine *)
(* records the reply holds, as the next digest would.                      *)
DigestReply(m, d) ==
    LET values    == [k \in Key |-> regs[m][k].value]
        local     == Leaves(values, m)
        divergent == Divergent(local, d.leaves)
        records   == RegistersForKeys(m, divergent)
        missing   == divergent \cap LeafKeys(d.leaves)
        response  == [kind |-> "response", from |-> m, to |-> d.from, signer |-> KeyOf(m),
                      records |-> records]
        request   == [kind |-> "request", from |-> m, to |-> d.from, signer |-> KeyOf(m),
                      keys |-> missing]
        asks      == missing # {} /\ Cardinality(missing) <= RequestCapacity
    IN  IF ~ Hashable(values) \/ ~ Encodable(records) THEN {}
        ELSE (IF records = <<>> THEN {} ELSE {response}) \cup (IF asks THEN {request} ELSE {})

HandleDigest(d, stays) ==
    /\ d.kind = "digest"
    /\ Arrived(d, stays, DigestReply(d.to, d))
    /\ UNCHANGED <<regs, clock, egressVars, trust, snap, historyVars>>

(* _handle_ae_request *)
HandleRequest(d, stays) ==
    /\ d.kind = "request"
    /\ LET records  == RegistersForKeys(d.to, d.keys)
           response == [kind |-> "response", from |-> d.to, to |-> d.from,
                        signer |-> KeyOf(d.to), records |-> records]
       IN  Arrived(d, stays, IF records = <<>> \/ ~ Encodable(records) THEN {} ELSE {response})
    /\ UNCHANGED <<regs, clock, egressVars, trust, snap, historyVars>>

(* _handle_ae_response *)
HandleResponse(d, stays) ==
    /\ d.kind = "response"
    /\ MergeBatch(d.to, d.records)
    /\ Arrived(d, stays, {})
    /\ UNCHANGED <<egressVars, trust, snap, historyVars>>

(* A datagram is lost, or refused: a bad CRC, a key other than the pinned  *)
(* one or none, or a telemetry frame the peer's ledger takes for a fork.   *)
Lose(d) ==
    /\ net' = net \ {d}
    /\ UNCHANGED <<regs, clock, egressVars, trust, snap, historyVars>>

-----------------------------------------------------------------------------
(* Discovery hears a first beacon, of this or of an earlier run of m, and  *)
(* pins the key in it.  Later beacons bring no callback.                   *)
PeerFound(n, m) ==
    /\ m # n /\ trust[n][m] = NoKey
    /\ \E key \in (IF m \in SameKey THEN {0} ELSE 0..restarts[m]) :
          trust' = [trust EXCEPT ![n][m] = key]
    /\ UNCHANGED <<regs, clock, egressVars, snap, net, historyVars>>

(* The process ends and starts again under its node_id.  Nothing persists. *)
RestartNode(n) ==
    /\ n \in Mortal /\ restarts[n] < MaxRestarts
    /\ restarts' = [restarts EXCEPT ![n] = @ + 1]
    /\ Forget(n)
    /\ pending' = [pending EXCEPT ![n] = <<>>]
    /\ ring' = [ring EXCEPT ![n] = <<>>]
    /\ batch' = [batch EXCEPT ![n] = <<>>]
    /\ txAlive' = [txAlive EXCEPT ![n] = TRUE]
    /\ trust' = [trust EXCEPT ![n] = [m \in Node |-> NoKey]]
    /\ snap' = [snap EXCEPT ![n] = NoSnap]
    /\ fresh' = [k \in Key |-> IF Owner(k) = n THEN NoValue ELSE fresh[k]]
    /\ UNCHANGED <<net, written>>

Receive(d, stays) ==
    /\ Accepted(d)
    /\ \/ ReceiveTelemetry(d, stays)
       \/ HandleDigest(d, stays)
       \/ HandleRequest(d, stays)
       \/ HandleResponse(d, stays)

TxStep(n) ==
    \/ PopBatch(n)
    \/ \E w \in Wall : Transmit(n, w)
    \/ SkipItem(n)
    \/ TransmitFails(n)

AeStep(n) == DigestBegin(n) \/ DigestSend(n)

MeshNext ==
    \/ \E n \in Node :
          \/ \E t \in Topic, v \in Value, w \in Wall : PublishWrite(n, t, v, w)
          \/ PublishPush(n)
          \/ TxStep(n)
          \/ AeStep(n)
          \/ RestartNode(n)
          \/ \E m \in Node : PeerFound(n, m)
    \/ \E d \in net : \E stays \in BOOLEAN : Receive(d, stays)
    \/ \E d \in net : Lose(d)

MeshSpec == MeshInit /\ [][MeshNext]_meshVars

(* The receive thread of m takes a datagram of this kind from n. *)
Handles(kind, n, m) ==
    \E d \in net : /\ d.kind = kind /\ d.from = n /\ d.to = m
                  /\ Receive(d, FALSE)

(* The anti-entropy thread runs and discovery hears beacons.  The network  *)
(* may lose any datagram; but if n keeps sending digests to m, or          *)
(* responses, it does not lose every one of them.  Nothing of the kind is  *)
(* assumed of the transmit thread, of telemetry frames and of requests.    *)
Fairness ==
    \A n \in Node :
       /\ WF_meshVars(AeStep(n))
       /\ WF_meshVars(\E m \in Node : PeerFound(n, m))
       /\ \A m \in Node \ {n} :
             /\ SF_meshVars(Handles("digest", n, m))
             /\ SF_meshVars(Handles("response", n, m))

FairSpec == MeshSpec /\ Fairness

-----------------------------------------------------------------------------
Records(d) == CASE d.kind = "telemetry" -> {[key |-> d.key, reg |-> d.reg]}
                [] d.kind = "response"  -> Range(d.records)
                [] OTHER -> {}

(* A record nobody wrote: what two characters of a bare topic are taken for. *)
Stray(key, reg) ==
    /\ reg.lamport = 0
    /\ \E t \in Pair :
          /\ Unpacked[t].topic = key[2] /\ Unpacked[t].value = reg.value
          /\ \E x \in written : x.key = <<Owner(key), t>> /\ x.value \in Null

(* A value under the Lamport time that update_local gave that very value,  *)
(* or the bytes that are its JSON text.  (Once the owner has restarted, a  *)
(* repair may raise the time between the write and the push.)              *)
Genuine(key, value, lamport) ==
    restarts[Owner(key)] = 0 =>
        \E x \in written : /\ x.key = key /\ x.lamport = lamport
                           /\ Settled(x.value) = Settled(value)

(* Every value on its way to a peer, in the ring, the transmit batch, a    *)
(* telemetry frame or a repair response, is under its own Lamport time:    *)
(* publish pairs the two after the store's lock is released, and relays    *)
(* copy them from registers that merges change in place.  The exception    *)
(* are the strays, which all are under time 0, older than any write.       *)
NothingMispaired ==
    /\ \A n \in Node : \A item \in Range(ring[n]) \cup {p.item : p \in Range(batch[n])} :
          Genuine(<<n, item.topic>>, item.value, item.lamport)
    /\ \A d \in net : \A rec \in Records(d) :
          Genuine(rec.key, rec.reg.value, rec.reg.lamport) \/ Stray(rec.key, rec.reg)

(* The replicas as ReplicatedStore sees them: without the strays, and with *)
(* values as they are after a trip through JSON.                           *)
AsStored(r)  == IF r.lamport = 0 THEN Unwritten ELSE [r EXCEPT !.value = Settled(@)]
StoredRegs   == [n \in Node |-> [k \in Key |-> AsStored(regs[n][k])]]
StoredWrites == {[x EXCEPT !.value = Settled(@)] : x \in written}
StoredFresh  == [k \in Key |-> Settled(fresh[k])]

Store == INSTANCE ReplicatedStore
             WITH regs <- StoredRegs, clock <- clock, written <- StoredWrites,
                  fresh <- StoredFresh, restarts <- restarts

(* Everything the mesh does to the replicas is a step of ReplicatedStore:  *)
(* whatever the threads, the ring and the network do, a node only writes   *)
(* its own keys with its next Lamport time, or merges genuine records.     *)
ImplementsStore == Store!Spec

(* A publisher reads its own last publish, or what JSON makes of it,       *)
(* although repair responses bring its earlier writes back to it, with     *)
(* newer wall times.                                                       *)
MeshReadYourWrites == Store!ReadYourWrites

(* Frames hold the whole store, every id fits its header, and a node that  *)
(* restarts keeps its key: without the last two a peer hears nothing of it. *)
Reconciles ==
    /\ \A size \in {DigestCapacity, ResponseCapacity, RequestCapacity} : Cardinality(Key) <= size
    /\ LongId = {} /\ Mortal \subseteq SameKey

(* A value that no response carries keeps all that diverges from being sent. *)
Blocked == \E n \in Node, k \in Key : regs[n][k].value \in Unsendable

Agreement == \A m, n \in Node, k \in Key :
    regs[m][k].value = regs[n][k].value /\ regs[m][k].lamport = regs[n][k].lamport

(* Once the publishers are done the replicas become equal and stay so:     *)
(* whatever an owner wrote last reaches every replica, through the ring    *)
(* and a telemetry frame or, those lost, the transmit thread dead or the   *)
(* receiver started later, by anti-entropy.                                *)
Convergence == Reconciles => <>[](Agreement \/ Blocked)
=============================================================================
