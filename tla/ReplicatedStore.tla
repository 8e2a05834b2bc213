-------------------------- MODULE ReplicatedStore --------------------------
(***************************************************************************)
(* What the CRDT store promises, without a network.                        *)
(*                                                                         *)
(* Every node keeps a replica of all keys <<owner, topic>>.  Only its owner *)
(* writes a key (SwarmState.update_local).  A replica may at any time merge *)
(* any selection of the writes ever issued, in any order, any number of    *)
(* times, or never: that is all a lossy, duplicating and reordering mesh   *)
(* can do.  A record carries the key, a value and a Lamport time its owner *)
(* gave it, but its wall time is that of whichever frame carried it: the   *)
(* transmit worker restamps every frame (transport.py, ts_ns).             *)
(*                                                                         *)
(* Neither the registers nor the clock are persisted, so a node that       *)
(* restarts under its old node_id comes back empty, with clock 0.          *)
(***************************************************************************)
EXTENDS SwarmState

CONSTANTS Wall,         \* the wall times that occur
          Mortal,       \* the nodes that restart
          MaxRestarts   \* bound: restarts of each

ASSUME StoreAssumption == /\ Wall \subseteq Nat
                          /\ Mortal \subseteq Node
                          /\ MaxRestarts \in Nat

VARIABLES written,   \* history: every write ever issued by an owner
          fresh,     \* history: the owner's last write to k since its start
          restarts   \* how often n has restarted

storeVars == <<regs, clock, written, fresh, restarts>>

Write == [key : Key, value : Value, lamport : 1..MaxClock]

WriteOf(k, r) == [key |-> k, value |-> r.value, lamport |-> r.lamport]

(* The writes to k that a value and its Lamport time are of.  publish      *)
(* pairs the two after the store's lock is released: while the owner keeps *)
(* running they are of one write, but once it has restarted, a repair may  *)
(* bring an older record under a later time in between.                    *)
Paired(k) ==
    {p \in {x \in written : x.key = k} \X {x \in written : x.key = k} :
        restarts[Owner(k)] = 0 => p[1] = p[2]}

Issued(k, value, lamport) ==
    \E p \in Paired(k) : p[1].value = value /\ p[2].lamport = lamport

(* The records of key k that can reach a replica. *)
Circulating(k) ==
    {Unwritten} \cup
    {[value |-> p[1].value, lamport |-> p[2].lamport, wall |-> w] : p \in Paired(k), w \in Wall}

Init ==
    /\ StoreInit
    /\ written = {}
    /\ fresh = [k \in Key |-> NoValue]
    /\ restarts = [n \in Node |-> 0]

(* An owner writes one of its topics. *)
Publish(n, t, v, w) ==
    /\ UpdateLocal(n, t, v, w)
    /\ written' = written \cup {[key |-> <<n, t>>, value |-> v, lamport |-> clock[n] + 1]}
    /\ fresh' = [fresh EXCEPT ![<<n, t>>] = v]
    /\ UNCHANGED restarts

(* Mutant of Absorb: the clock ignores what it hears. *)
AbsorbDeaf(n, batch, c) ==
    /\ \A k \in Key : batch[k] \in Circulating(k)
    /\ c = clock[n]
    /\ regs' = [regs EXCEPT ![n] = [k \in Key |-> Merge(@[k], batch[k])]]
    /\ UNCHANGED <<clock, written, fresh, restarts>>

(* merge_remote and merge_batch: one record per key at most, Unwritten for *)
(* the keys the batch does not hold.  The clock moves past all of them; by *)
(* how much depends on their order.                                        *)
Absorb(n, batch, c) ==
    /\ c >= clock[n] /\ \A k \in Key : c >= batch[k].lamport
    /\ clock' = [clock EXCEPT ![n] = c]
    /\ regs' = [regs EXCEPT ![n] = [k \in Key |-> Merge(@[k], batch[k])]]
    /\ \A k \in Key : batch[k] \in Circulating(k)
    /\ UNCHANGED <<written, fresh, restarts>>

Restart(n) ==
    /\ n \in Mortal /\ restarts[n] < MaxRestarts
    /\ restarts' = [restarts EXCEPT ![n] = @ + 1]
    /\ Forget(n)
    /\ fresh' = [k \in Key |-> IF Owner(k) = n THEN NoValue ELSE fresh[k]]
    /\ UNCHANGED written

(* The batches a merge can get: nothing of a key that was never written. *)
WrittenKeys == {x.key : x \in written}
Batches ==
    {[k \in Key |-> IF k \in WrittenKeys THEN batch[k] ELSE Unwritten] :
        batch \in [WrittenKeys -> UNION {Circulating(k) : k \in WrittenKeys}]}

Next ==
    \E n \in Node :
        \/ \E t \in Topic, v \in Value, w \in Wall : Publish(n, t, v, w)
        \/ \E batch \in Batches, c \in 0..MaxClock : Absorb(n, batch, c)
        \/ Restart(n)

Spec == Init /\ [][Next]_storeVars

-----------------------------------------------------------------------------
(* The clock is a Lamport clock: it never trails a stamp its replica holds. *)
(* update_local overwrites without comparing, and relies on exactly this.  *)
ClockDominates == \A n \in Node, k \in Key : regs[n][k].lamport <= clock[n]

(* No replica ever holds a value under a Lamport time its owner did not    *)
(* give it, however often merge_remote and merge_batch relayed it; nor,    *)
(* once the owner has restarted, a value or a time that is not its own.    *)
NoInvention ==
    \A n \in Node, k \in Key :
        regs[n][k] = Unwritten \/ Issued(k, regs[n][k].value, regs[n][k].lamport)

(* Type correctness, with the parts that make it useful to the proofs. *)
StoreTypeOK ==
    /\ regs \in [Node -> [Key -> Slot]]
    /\ clock \in [Node -> 0..MaxClock]
    /\ written \subseteq Write
    /\ fresh \in [Key -> Value \cup {NoValue}]
    /\ restarts \in [Node -> Nat]

(* While its owner keeps running, a key has one value per Lamport time, so *)
(* replicas with equal stamps hold equal values.  The Merkle leaves hash   *)
(* the Lamport time but not the wall time, and LWW ties keep what is there: *)
(* both are sound only because of this.                                    *)
SameStampSameValue ==
    \A m, n \in Node, k \in Key :
        /\ restarts[Owner(k)] = 0
        /\ regs[m][k].lamport = regs[n][k].lamport
        => regs[m][k].value = regs[n][k].value

(* No replica is ever ahead of a running owner about the owner's own key.  *)
OwnerAhead ==
    \A n \in Node, k \in Key :
        restarts[Owner(k)] = 0 => regs[n][k].lamport <= regs[Owner(k)][k].lamport

(* A node that never restarted reads its own last publish, whatever repair *)
(* responses return to it of its earlier writes.                           *)
ReadYourWrites ==
    \A k \in Key :
        restarts[Owner(k)] = 0 /\ fresh[k] # NoValue
            => regs[Owner(k)][k].value = fresh[k]

(* The same without the restriction to nodes that never restarted: what    *)
(* "last write wins" says of a node and its own last write.                *)
LastWriteWins ==
    \A k \in Key : fresh[k] # NoValue => regs[Owner(k)][k].value = fresh[k]

(* A replica never goes back to an older stamp, except by restarting.  For *)
(* update_local this is the Lamport clock's doing, not a comparison's.     *)
NeverRegress ==
    [][\A n \in Node : restarts'[n] = restarts[n] =>
          \A k \in Key : ~ Newer(regs[n][k], regs'[n][k])]_storeVars
=============================================================================
