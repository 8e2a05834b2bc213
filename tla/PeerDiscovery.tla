--------------------------- MODULE PeerDiscovery ---------------------------
(***************************************************************************)
(* Who a node knows and whom it believes: the multicast discovery daemon   *)
(* of network/discovery.py, seen by one listening node, and the trust      *)
(* store of its transport, which the receive threads of transport.py and   *)
(* zmq_transport.py share.  Peers start, move to another port and come     *)
(* back with the same or another key; their beacons are lost, repeated     *)
(* and overtaken.                                                          *)
(*                                                                         *)
(* Two threads write the trust store: the listener, in the callback        *)
(* on_peer_found after it released discovery's lock, and the receiver,     *)
(* which asks discovery for a key it lacks and stores the answer later.    *)
(***************************************************************************)
EXTENDS Naturals, FiniteSets

CONSTANTS Peer,         \* the other nodes of the swarm
          Port,         \* ports a peer may listen on
          Secret,       \* key pairs a peer may have
          NoKey,        \* a peer without enable_crypto, and an unknown key
          LongId,       \* peers whose node_id is longer than the header's 16 bytes
          Stranger,     \* the first 16 bytes of such an id: the id of no node
          MaxLives      \* bound: lives of a peer

ASSUME DiscoveryAssumption ==
    /\ NoKey \notin Secret
    /\ LongId \subseteq Peer /\ Stranger \notin Peer
    /\ MaxLives \in Nat

VARIABLES peer,       \* peer[p]: where it publishes, and under which key
          used,       \* used[p]: the keys it has had
          lives,      \* lives[p]: how often it has started
          beacons,    \* beacons on their way to this node
          listening,  \* the discovery daemon of this node runs
          table,      \* active_peers: what each peer's last beacon said; never shrinks
          stale,      \* the entries not renewed for 15 s
          found,      \* the listener's call of on_peer_found, not yet made
          trust,      \* trust_store
          lookup,     \* the receiver's frame, and the key discovery gave for it
          heard       \* heard[p]: a frame of p's present life was accepted

peerVars      == <<peer, used, lives, beacons>>
listenVars    == <<listening, table, stale, found>>
discoveryVars == <<peerVars, listenVars, trust, lookup, heard>>

Idle == <<>>
Absent == [port |-> 0, key |-> NoKey]

DiscoveryInit ==
    /\ peer = [p \in Peer |-> Absent]
    /\ used = [p \in Peer |-> {}]
    /\ lives = [p \in Peer |-> 0]
    /\ beacons = {}
    /\ listening = FALSE
    /\ table = [p \in Peer |-> Absent]
    /\ stale = {}
    /\ found = Idle
    /\ trust = [p \in Peer |-> NoKey]
    /\ lookup = Idle
    /\ heard = [p \in Peer |-> FALSE]

-----------------------------------------------------------------------------
(* The other nodes. *)

(* The process starts, for the first time or again: a key is generated at  *)
(* every start unless private_key_hex is given.                            *)
PeerStarts(p, port, key) ==
    /\ lives[p] < MaxLives
    /\ peer' = [peer EXCEPT ![p] = [port |-> port, key |-> key]]
    /\ used' = [used EXCEPT ![p] = @ \cup ({key} \ {NoKey})]
    /\ lives' = [lives EXCEPT ![p] = @ + 1]
    /\ heard' = [heard EXCEPT ![p] = FALSE]
    /\ UNCHANGED <<beacons, listenVars, trust, lookup>>

BeaconOf(p) == [from |-> p, port |-> peer[p].port, key |-> peer[p].key]

(* _beacon_loop of the peer, every 1.5 s *)
Announce(p) ==
    /\ peer[p] # Absent
    /\ beacons' = beacons \cup {BeaconOf(p)}
    /\ UNCHANGED <<peer, used, lives, listenVars, trust, lookup, heard>>

LoseBeacon(b) ==
    /\ beacons' = beacons \ {b}
    /\ UNCHANGED <<peer, used, lives, listenVars, trust, lookup, heard>>

-----------------------------------------------------------------------------
(* The discovery daemon of this node. *)

StartListening ==
    /\ ~ listening
    /\ listening' = TRUE
    /\ UNCHANGED <<peerVars, table, stale, found, trust, lookup, heard>>

(* stop joins the listener, which first ends the call it is in. *)
StopListening ==
    /\ listening /\ found = Idle
    /\ listening' = FALSE
    /\ UNCHANGED <<peerVars, table, stale, found, trust, lookup, heard>>

(* Mutant of Listen: every beacon is a new peer. *)
ListenAlwaysNew(b, again) ==
    /\ listening /\ found = Idle
    /\ beacons' = IF again THEN beacons ELSE beacons \ {b}
    /\ table' = [table EXCEPT ![b.from] = [port |-> b.port, key |-> b.key]]
    /\ stale' = stale \ {b.from}
    /\ found' = <<b.from, b.key>>
    /\ UNCHANGED <<peer, used, lives, listening, trust, lookup, heard>>

(* Mutant of Listen: a peer that is in the table is only marked as alive. *)
ListenKeepsFirst(b, again) ==
    /\ listening /\ found = Idle
    /\ beacons' = IF again THEN beacons ELSE beacons \ {b}
    /\ table' = IF table[b.from] # Absent THEN table
                ELSE [table EXCEPT ![b.from] = [port |-> b.port, key |-> b.key]]
    /\ stale' = stale \ {b.from}
    /\ found' = IF table[b.from] = Absent THEN <<b.from, b.key>> ELSE Idle
    /\ UNCHANGED <<peer, used, lives, listening, trust, lookup, heard>>

(* _listen_loop.  The table takes the beacon under the lock; only for a    *)
(* peer that was not in it the callback follows, without the lock.  A      *)
(* beacon may be heard again: each is sent twice.                          *)
Listen(b, again) ==
    /\ listening /\ found = Idle
    /\ beacons' = IF again THEN beacons ELSE beacons \ {b}
    /\ table' = [table EXCEPT ![b.from] = [port |-> b.port, key |-> b.key]]
    /\ stale' = stale \ {b.from}
    /\ found' = IF table[b.from] = Absent THEN <<b.from, b.key>> ELSE Idle
    /\ UNCHANGED <<peer, used, lives, listening, trust, lookup, heard>>

(* _on_peer_found and register_peer_key, with the transport's lock; an     *)
(* empty key registers nothing.                                            *)
PeerFound ==
    /\ found # Idle
    /\ trust' = IF found[2] = NoKey THEN trust ELSE [trust EXCEPT ![found[1]] = found[2]]
    /\ found' = Idle
    /\ UNCHANGED <<peerVars, listening, table, stale, lookup, heard>>

(* 15 s without a beacon. *)
Silence(p) ==
    /\ table[p] # Absent /\ p \notin stale
    /\ stale' = stale \cup {p}
    /\ UNCHANGED <<peerVars, listening, table, found, trust, lookup, heard>>

(* get_active_peers *)
Active == {p \in Peer : table[p] # Absent /\ p \notin stale}

-----------------------------------------------------------------------------
(* The receive thread: the key of a frame that has arrived. *)

(* The header takes 16 bytes of the node_id, a beacon all of it. *)
FrameOf(p) == [from |-> IF p \in LongId THEN Stranger ELSE p,
               signed |-> peer[p].key, life |-> lives[p], known |-> NoKey]

(* verify: only a frame of the peer's present life counts as hearing it. *)
Verified(f, key) ==
    heard' = [heard EXCEPT ![f.from] = @ \/ (key = f.signed /\ f.life = lives[f.from])]

(* trust_store.get, with the lock.  A known key decides at once. *)
TakeFrame(p) ==
    /\ lookup = Idle
    /\ IF p \in LongId \/ trust[p] = NoKey
       THEN lookup' = FrameOf(p) /\ UNCHANGED heard
       ELSE Verified(FrameOf(p), trust[p]) /\ UNCHANGED lookup
    /\ UNCHANGED <<peerVars, listenVars, trust>>

(* get_peer_key, with discovery's lock.  No key, no frame. *)
AskDiscovery ==
    /\ lookup # Idle /\ lookup.known = NoKey
    /\ LET key == IF lookup.from = Stranger THEN NoKey ELSE table[lookup.from].key
       IN  lookup' = IF key = NoKey THEN Idle ELSE [lookup EXCEPT !.known = key]
    /\ UNCHANGED <<peerVars, listenVars, trust, heard>>

(* The answer goes into the trust store, with the lock again. *)
CacheKey ==
    /\ lookup # Idle /\ lookup.known # NoKey
    /\ trust' = [trust EXCEPT ![lookup.from] = lookup.known]
    /\ Verified(lookup, lookup.known)
    /\ lookup' = Idle
    /\ UNCHANGED <<peerVars, listenVars>>

-----------------------------------------------------------------------------
(* A key that is once trusted stays trusted: neither a later beacon nor    *)
(* the listener's late callback puts another in its place.  One race is    *)
(* left in the code: a receiver that found no key before the callback came *)
(* asks discovery after it, and stores what a later beacon said.           *)
KeyPinned ==
    [][\A p \in Peer :
          trust[p] # NoKey /\ (lookup = Idle \/ lookup.from # p) => trust'[p] = trust[p]]_trust
=============================================================================
