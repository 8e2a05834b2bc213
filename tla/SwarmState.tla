----------------------------- MODULE SwarmState ----------------------------
(***************************************************************************)
(* The store of state_crdt.py: one replica of every key <<owner, topic>>   *)
(* per node, and a Lamport clock per node.  Every method takes the store's *)
(* lock for its whole body, so each is one action here.  The modules that  *)
(* use the store conjoin these actions with their own.                     *)
(***************************************************************************)
EXTENDS LWWRegister, Sequences, SequencesExt

CONSTANTS Node, Topic,
          MaxClock      \* bound: the clocks saturate here

ASSUME MaxClockAssumption == MaxClock \in Nat

VARIABLES regs,    \* regs[n][k]: the register of key k in n's replica
          clock    \* clock[n]: n's Lamport clock

Key      == Node \X Topic
Owner(k) == k[1]
Empty    == [k \in Key |-> Unwritten]

(* What is held in n's replica. *)
HeldKeys(n) == {k \in Key : regs[n][k] # Unwritten}

(* A merge moves the clock past both times.  A node whose clock reached the *)
(* bound no longer writes, so that every stamp stays below it.             *)
Tick(now, heard) ==
    LET latest == IF heard > now THEN heard ELSE now
    IN  IF latest < MaxClock THEN latest + 1 ELSE MaxClock

(* SwarmState.__init__, and what is left of a store after a process restart *)
StoreInit ==
    /\ regs = [n \in Node |-> Empty]
    /\ clock = [n \in Node |-> 0]

Forget(n) ==
    /\ regs' = [regs EXCEPT ![n] = Empty]
    /\ clock' = [clock EXCEPT ![n] = 0]

(* Mutant of UpdateLocal: the clock is not incremented. *)
UpdateLocalNoTick(n, t, v, w) ==
    /\ clock[n] < MaxClock
    /\ LET r == [value |-> v, lamport |-> clock[n] + 1, wall |-> w]
       IN  regs' = [regs EXCEPT ![n] = [regs[n] EXCEPT ![<<n, t>>] = r]]
    /\ clock' = clock

(* update_local replaces the register without comparing stamps. *)
UpdateLocal(n, t, v, w) ==
    /\ clock[n] < MaxClock
    /\ clock' = [clock EXCEPT ![n] = clock[n] + 1]
    /\ LET r == [value |-> v, lamport |-> clock[n] + 1, wall |-> w]
       IN  regs' = [regs EXCEPT ![n] = [regs[n] EXCEPT ![<<n, t>>] = r]]

(* merge_remote: the clock moves even when the record is rejected. *)
MergeRemote(n, k, r) ==
    /\ regs' = [regs EXCEPT ![n] = [regs[n] EXCEPT ![k] = Merge(regs[n][k], r)]]
    /\ clock' = [clock EXCEPT ![n] = Tick(clock[n], r.lamport)]

(* The replica held and the clock now after each of the records, in order. *)
Replayed(held, now, records) ==
    LET after[i \in 0..Len(records)] ==
            IF i = 0 THEN [regs |-> held, clock |-> now]
            ELSE LET rec == records[i]
                 IN  [regs  |-> [after[i - 1].regs EXCEPT ![rec.key] = Merge(@, rec.reg)],
                      clock |-> Tick(after[i - 1].clock, rec.reg.lamport)]
    IN  after

(* Mutant of MergeBatch: the clock stays. *)
MergeBatchNoTick(n, records) ==
    /\ regs' = [regs EXCEPT ![n] = Replayed(regs[n], clock[n], records)[Len(records)].regs]
    /\ clock' = clock

(* merge_batch: the records of a repair response, one after the other, all *)
(* under one acquisition of the lock.                                      *)
MergeBatch(n, records) ==
    LET after == Replayed(regs[n], clock[n], records)[Len(records)]
    IN  /\ regs' = [regs EXCEPT ![n] = after.regs]
        /\ clock' = [clock EXCEPT ![n] = after.clock]

(* get_registers_for_keys: one record per requested key that is held. *)
RegistersForKeys(n, keys) ==
    LET held == SetToSeq(keys \cap HeldKeys(n))
    IN  [i \in DOMAIN held |-> [key |-> held[i], reg |-> regs[n][held[i]]]]
=============================================================================
