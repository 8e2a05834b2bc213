---------------------------- MODULE StoreHistory ---------------------------
(***************************************************************************)
(* ReplicatedStore with one more history variable: the writes each replica *)
(* has come across since it started.  It lets the promise in the header of *)
(* state_crdt.py, "mathematical eventual consistency", be stated as strong *)
(* eventual consistency: what a replica holds is a function of the set of  *)
(* writes it has seen, not of their order, their grouping into frames and  *)
(* repair batches, their wall times or how often each came.                *)
(***************************************************************************)
EXTENDS ReplicatedStore

VARIABLE seen   \* seen[n]: the writes n issued or merged since its start

historyVars == <<storeVars, seen>>

WritesIn(batch) == {WriteOf(k, batch[k]) : k \in {j \in Key : batch[j] # Unwritten}}

HInit == Init /\ seen = [n \in Node |-> {}]

HPublish(n, t, v, w) ==
    /\ Publish(n, t, v, w)
    /\ seen' = [seen EXCEPT ![n] =
                  @ \cup {[key |-> <<n, t>>, value |-> v, lamport |-> clock[n] + 1]}]

HAbsorb(n, batch, c) ==
    /\ Absorb(n, batch, c)
    /\ seen' = [seen EXCEPT ![n] = @ \cup WritesIn(batch)]

HRestart(n) ==
    /\ Restart(n)
    /\ seen' = [seen EXCEPT ![n] = {}]

HNext ==
    \E n \in Node :
        \/ \E t \in Topic, v \in Value, w \in Wall : HPublish(n, t, v, w)
        \/ \E batch \in Batches, c \in 0..MaxClock : HAbsorb(n, batch, c)
        \/ HRestart(n)

HSpec == HInit /\ [][HNext]_historyVars

SeenOf(n, k) == {x \in seen[n] : x.key = k}

(* A replica holds the newest write it has seen of every key, and nothing  *)
(* it has not seen: no merge order loses a newer write.                    *)
HoldsNewestSeen ==
    \A n \in Node, k \in Key :
        /\ \A x \in SeenOf(n, k) : x.lamport <= regs[n][k].lamport
        /\ regs[n][k] = Unwritten \/ WriteOf(k, regs[n][k]) \in seen[n]

(* Strong eventual consistency: two replicas that have seen the same       *)
(* writes to a key of a running owner hold the same value under the same   *)
(* Lamport time.                                                           *)
StrongConvergence ==
    \A m, n \in Node, k \in Key :
        /\ restarts[Owner(k)] = 0
        /\ SeenOf(m, k) = SeenOf(n, k)
        => /\ regs[m][k].lamport = regs[n][k].lamport
           /\ regs[m][k].value = regs[n][k].value
=============================================================================
