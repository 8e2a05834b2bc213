--------------------------- MODULE ZmqTransport ----------------------------
(***************************************************************************)
(* Whom the ZeroMQ transport of network/zmq_transport.py listens to.  Its  *)
(* SUB socket hears only the endpoints it was connected to; the transmit   *)
(* thread and the anti-entropy thread both take discovery's table and then *)
(* connect to the endpoints one by one, while the listener, the receiver   *)
(* and the application's start and stop go on.                             *)
(*                                                                         *)
(* start takes the transport's lock, which is not reentrant, and calls     *)
(* _connect_to_peer, which takes it again: with a direct peer registered   *)
(* it never returns, and whoever needs the lock waits for ever (Stuck).    *)
(* What a frame does to the store, once accepted, is MeshTransport's.      *)
(***************************************************************************)
EXTENDS PeerDiscovery

CONSTANTS Thread,       \* the threads that call _sync_discovered_peers
          TxThread,     \* the one of them that transmits
          MaxStarts     \* bound: starts of the transport

ASSUME ZmqAssumption == TxThread \in Thread /\ MaxStarts \in Nat

VARIABLES phase,        \* "stopped", "opening", "running" or "stuck"
          starts,
          direct,       \* direct_peers
          connected,    \* _connected_endpoints
          links,        \* links[e]: how often the present SUB socket connected to e
          earlier,      \* endpoints that an earlier SUB socket was connected to
          todo          \* todo[th]: endpoints th has taken from discovery

socketVars == <<connected, links, earlier, todo>>
zmqVars    == <<discoveryVars, phase, starts, direct, socketVars>>

Endpoint == Peer \X Port

(* The socket is connected to where p publishes now. *)
ConnectedTo(p) == peer[p] # Absent /\ links[<<p, peer[p].port>>] > 0

LockFree == phase # "stuck"

ZmqInit ==
    /\ DiscoveryInit
    /\ phase = "stopped" /\ starts = 0
    /\ direct = {}
    /\ connected = {}
    /\ links = [e \in Endpoint |-> 0]
    /\ earlier = {}
    /\ todo = [th \in Thread |-> {}]

-----------------------------------------------------------------------------
(* The application's thread; it is inside start while that has not returned. *)

AppFree == phase \in {"stopped", "running"}

(* Only start reads direct_peers: a peer added to a running transport is   *)
(* not connected to before the next one.                                   *)
AddDirectPeer(p) ==
    /\ AppFree
    /\ direct' = direct \cup {p}
    /\ UNCHANGED <<discoveryVars, phase, starts, socketVars>>

(* New sockets; _connected_endpoints is the old set.  The application     *)
(* starts and stops as Node does: discovery first, then the transport.    *)
StartOpens ==
    /\ phase = "stopped" /\ starts < MaxStarts /\ listening
    /\ phase' = "opening"
    /\ starts' = starts + 1
    /\ UNCHANGED <<discoveryVars, direct, socketVars>>

(* The direct peers, with the lock held, and then the threads. *)
StartConnects ==
    /\ phase = "opening"
    /\ phase' = IF direct = {} THEN "running" ELSE "stuck"
    /\ UNCHANGED <<discoveryVars, starts, direct, socketVars>>

(* The sockets are closed and the threads joined, which takes them less    *)
(* than the second that stop waits.                                        *)
Stop ==
    /\ phase = "running" /\ ~ listening
    /\ phase' = "stopped"
    /\ links' = [e \in Endpoint |-> 0]
    /\ earlier' = earlier \cup {e \in Endpoint : links[e] > 0}
    /\ todo' = [th \in Thread |-> {}]
    /\ lookup' = Idle
    /\ heard' = [p \in Peer |-> FALSE]
    /\ UNCHANGED <<peerVars, listenVars, trust, starts, direct, connected>>

(* discovery.start and discovery.stop *)
Daemon ==
    /\ \/ phase = "stopped" /\ starts < MaxStarts /\ StartListening
       \/ phase = "running" /\ StopListening
    /\ UNCHANGED <<phase, starts, direct, socketVars>>

-----------------------------------------------------------------------------
(* The threads of the transport. *)

(* _sync_discovered_peers: get_active_peers *)
SyncBegin(th) ==
    /\ phase = "running" /\ todo[th] = {}
    /\ todo' = [todo EXCEPT ![th] = {<<p, table[p].port>> : p \in Active}]
    /\ UNCHANGED <<discoveryVars, phase, starts, direct, connected, links, earlier>>

(* Mutant of Connect: it looks before it takes the lock. *)
ConnectBlindly(th, e) ==
    /\ phase = "running" /\ e \in todo[th]
    /\ todo' = [todo EXCEPT ![th] = @ \ {e}]
    /\ connected' = connected \cup {e}
    /\ links' = [links EXCEPT ![e] = @ + 1]
    /\ UNCHANGED <<discoveryVars, phase, starts, direct, earlier>>

(* _connect_to_peer, with the lock *)
Connect(th, e) ==
    /\ phase = "running" /\ e \in todo[th]
    /\ todo' = [todo EXCEPT ![th] = @ \ {e}]
    /\ IF e \in connected
       THEN UNCHANGED <<connected, links>>
       ELSE /\ connected' = connected \cup {e}
            /\ links' = [links EXCEPT ![e] = @ + 1]
    /\ UNCHANGED <<discoveryVars, phase, starts, direct, earlier>>

(* _rx_worker: a frame comes only from where the socket is connected to. *)
Receives ==
    /\ phase = "running"
    /\ \/ \E p \in Peer : ConnectedTo(p) /\ TakeFrame(p)
       \/ AskDiscovery
       \/ CacheKey
    /\ UNCHANGED <<phase, starts, direct, socketVars>>

(* The discovery daemon; its callback needs the transport's lock. *)
Discovers ==
    /\ \/ \E b \in beacons : \E again \in BOOLEAN : Listen(b, again)
       \/ LockFree /\ PeerFound
       \/ \E p \in Peer : Silence(p)
    /\ UNCHANGED <<phase, starts, direct, socketVars>>

Swarm ==
    /\ \/ \E p \in Peer, port \in Port, key \in Secret \cup {NoKey} : PeerStarts(p, port, key)
       \/ \E p \in Peer : Announce(p)
       \/ \E b \in beacons : LoseBeacon(b)
    /\ UNCHANGED <<phase, starts, direct, socketVars>>

ZmqNext ==
    \/ \E p \in Peer : AddDirectPeer(p)
    \/ StartOpens \/ StartConnects \/ Stop \/ Daemon
    \/ \E th \in Thread : SyncBegin(th) \/ \E e \in todo[th] : Connect(th, e)
    \/ Receives \/ Discovers \/ Swarm

ZmqSpec == ZmqInit /\ [][ZmqNext]_zmqVars

-----------------------------------------------------------------------------
TransportStep(step) == step /\ UNCHANGED <<phase, starts, direct, socketVars>>

HearsBeacon(p) == TransportStep(BeaconOf(p) \in beacons /\ Listen(BeaconOf(p), FALSE))
HearsFrame(p)  == phase = "running" /\ ConnectedTo(p) /\ TransportStep(TakeFrame(p))
SyncsWith(th, p) == p \in Active /\ SyncBegin(th)

(* Threads that run take their next step.  Of the beacons a peer goes on   *)
(* sending, and of its frames, not all are lost; a datagram does not live  *)
(* for ever.  A thread looks at the table many times in the 15 s that an   *)
(* entry counts as active.  Of the transmit thread nothing is assumed: a   *)
(* value that json.dumps refuses ends it.                                  *)
ZmqFairness ==
    /\ \A p \in Peer :
          /\ WF_zmqVars(TransportStep(Announce(p)))
          /\ SF_zmqVars(HearsBeacon(p))
          /\ SF_zmqVars(HearsFrame(p))
    /\ WF_zmqVars(TransportStep(\E b \in beacons : b # BeaconOf(b.from) /\ LoseBeacon(b)))
    /\ WF_zmqVars(TransportStep(LockFree /\ PeerFound))
    /\ WF_zmqVars(TransportStep(phase = "running" /\ (AskDiscovery \/ CacheKey)))
    /\ \A th \in Thread \ {TxThread} :
          /\ WF_zmqVars(\E e \in todo[th] : Connect(th, e))
          /\ \A p \in Peer : SF_zmqVars(SyncsWith(th, p))

FairZmqSpec == ZmqSpec /\ ZmqFairness

-----------------------------------------------------------------------------
(* The transmit thread, the anti-entropy thread and an application that    *)
(* triggers a repair race to connect to what discovery found, each with an *)
(* older or newer copy of the table.  No socket is connected to the same   *)
(* endpoint twice, which would bring every frame twice.                    *)
ConnectedOnce == \A e \in Endpoint : links[e] <= 1

(* p runs, with the only key it ever had, and has not got an endpoint that *)
(* an earlier socket of this transport was connected to: those stay in     *)
(* _connected_endpoints, and the present socket never connects to them.    *)
Discoverable(p) ==
    /\ phase = "running" /\ listening
    /\ used[p] = {peer[p].key}
    /\ <<p, peer[p].port>> \notin earlier

(* Its node_id fits into a header: the key of a frame is looked up by what *)
(* the header kept of the id.                                              *)
Reachable(p) == Discoverable(p) /\ p \notin LongId

(* A reachable peer is heard: it may have been silent, moved, or run       *)
(* without a key before, its first beacons may be lost or overtaken, and   *)
(* the transmit thread may have died; its frames are accepted in the end.  *)
HeardInTheEnd == \A p \in Peer : Reachable(p) ~> (heard[p] \/ ~ Reachable(p))
=============================================================================
