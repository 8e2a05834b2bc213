------------------------ MODULE MeshTransportProofs ------------------------
(***************************************************************************)
(* The mesh data plane for every swarm, every size of the ring, the batch  *)
(* and the network, restarts of publishers included: whatever the threads  *)
(* and the datagrams do is a step of ReplicatedStore, and no queue, frame  *)
(* or repair response carries a value under a time that is not its own.    *)
(*                                                                         *)
(* Neither holds by itself.  A merge is a step of the store only if the    *)
(* record it merges is one that circulates, or a stray, so the network     *)
(* must be known to carry nothing else (NetSound); what it carries comes   *)
(* from the rings (QueuesIssued), and what enters a ring from a publish    *)
(* that is half done (PendingIsFresh) and from the register it reads the   *)
(* time back from.  AsStored, which forgets strays and parses values,      *)
(* commutes with Merge (AsStoredMerge): that carries the store's theorems  *)
(* over to the mesh.                                                       *)
(***************************************************************************)
EXTENDS MeshTransport, FiniteSetTheorems, WellFoundedInduction, NaturalsInduction, TLAPS

(* Induction up to n, over a set of numbers. *)
LEMMA InductionUpTo ==
  ASSUME NEW n \in Nat, NEW S, 0 \in S, \A i \in 0..(n - 1) : i \in S => i + 1 \in S
  PROVE  \A i \in 0..n : i \in S
<1> DEFINE T == {i \in 0..n : i \notin S}
<1> SUFFICES ASSUME T # {} PROVE FALSE
  OBVIOUS
<1>0. T \in SUBSET Nat
  OBVIOUS
<1>1. PICK m \in T : \A y \in T : ~ (<<y, m>> \in OpToRel(<, Nat))
  BY <1>0, NatLessThanWellFounded, WFMin
<1>2. \A y \in T : ~ (y < m)
  BY <1>0, <1>1 DEF OpToRel
<1>3. m \in 0..n /\ m \notin S /\ m # 0
  OBVIOUS
<1>4. m - 1 \in 0..(n - 1) /\ (m - 1) + 1 = m
  BY <1>3
<1>5. m - 1 \notin S
  BY <1>3, <1>4
<1>6. m - 1 \in T /\ m - 1 < m
  BY <1>3, <1>4, <1>5
<1> QED BY <1>2, <1>6

StoreState == [regs : [Key -> Slot], clock : 0..MaxClock]

Applied(s, rec) ==
    [regs  |-> [s.regs EXCEPT ![rec.key] = Merge(@, rec.reg)],
     clock |-> Tick(s.clock, rec.reg.lamport)]

Fitting(rec) == rec.key \in Key /\ rec.reg \in Slot /\ rec.reg.lamport <= MaxClock

LEMMA AppliedIsStore ==
  ASSUME NEW s \in StoreState, NEW rec, Fitting(rec)
  PROVE  Applied(s, rec) \in StoreState
<1>1. s.regs \in [Key -> Slot] /\ s.clock \in 0..MaxClock
  BY DEF StoreState
<1>2. rec.reg.lamport \in Int /\ rec.reg.lamport <= MaxClock
  BY DEF Fitting, Slot, Register, Unwritten
<1>3. Tick(s.clock, rec.reg.lamport) \in 0..MaxClock
  BY <1>1, <1>2, MaxClockAssumption DEF Tick
<1>4. [s.regs EXCEPT ![rec.key] = Merge(@, rec.reg)] \in [Key -> Slot]
  BY <1>1 DEF Fitting, Merge
<1> QED BY <1>3, <1>4 DEF StoreState, Applied

(* The recursive function of Replayed exists and takes the records one by one. *)
LEMMA ReplayedOneByOne ==
  ASSUME NEW held \in [Key -> Slot], NEW now \in 0..MaxClock,
         NEW records, Len(records) \in Nat, \A i \in 1..Len(records) : Fitting(records[i])
  PROVE  LET after == Replayed(held, now, records)
         IN  /\ after \in [0..Len(records) -> StoreState]
             /\ after[0] = [regs |-> held, clock |-> now]
             /\ \A i \in 1..Len(records) : after[i] = Applied(after[i - 1], records[i])
<1> DEFINE n == Len(records)
           start == [regs |-> held, clock |-> now]
           Prefix(i, f) == /\ f[0] = start
                           /\ \A j \in 1..i : f[j] = Applied(f[j - 1], records[j])
           Runs(i) == {f \in [0..i -> StoreState] : Prefix(i, f)}
           S == {i \in 0..n : Runs(i) # {}}
<1>1. start \in StoreState
  BY DEF StoreState
<1>2. 0 \in S
  <2>1. [j \in 0..0 |-> start] \in Runs(0)
    BY <1>1
  <2> QED BY <2>1
<1>3. ASSUME NEW i \in 0..(n - 1), i \in S
      PROVE  i + 1 \in S
  <2>1. PICK f \in Runs(i) : TRUE
    BY <1>3
  <2> DEFINE g == [j \in 0..(i + 1) |-> IF j = i + 1 THEN Applied(f[i], records[j]) ELSE f[j]]
  <2>2. f \in [0..i -> StoreState] /\ Prefix(i, f) /\ i \in Nat
    BY <2>1
  <2>3. Applied(f[i], records[i + 1]) \in StoreState
    BY <2>2, AppliedIsStore
  <2>4. g \in [0..(i + 1) -> StoreState]
    BY <2>2, <2>3
  <2>5. g[0] = start /\ \A j \in 1..(i + 1) : g[j] = Applied(g[j - 1], records[j])
    BY <2>2
  <2> QED BY <2>4, <2>5
<1>4. n \in S
  <2> HIDE DEF S
  <2>1. \A i \in 0..n : i \in S
    BY <1>2, <1>3, InductionUpTo
  <2> QED BY <2>1
<1>5. PICK f \in [0..n -> StoreState] : Prefix(n, f)
  BY <1>4
<1> DEFINE Body(g) == [i \in 0..n |->
              IF i = 0 THEN start
              ELSE LET rec == records[i]
                   IN  [regs  |-> [g[i - 1].regs EXCEPT ![rec.key] = Merge(@, rec.reg)],
                        clock |-> Tick(g[i - 1].clock, rec.reg.lamport)]]
           after == Replayed(held, now, records)
<1>6. f = Body(f)
  <2>1. ASSUME NEW i \in 0..n PROVE f[i] = Body(f)[i]
    <3>1. CASE i = 0
      BY <1>5, <3>1
    <3>2. CASE i # 0
      <4>1. i \in 1..n
        BY <3>2
      <4>2. f[i] = Applied(f[i - 1], records[i])
        BY <1>5, <4>1
      <4>3. Body(f)[i] = Applied(f[i - 1], records[i])
        BY <3>2 DEF Applied
      <4> QED BY <4>2, <4>3
    <3> QED BY <3>1, <3>2
  <2> QED BY <1>5, <2>1
<1>7. after = CHOOSE g : g = Body(g)
  BY DEF Replayed
<1> HIDE DEF Body, after
<1>8. after = Body(after)
  BY <1>6, <1>7
<1> USE DEF Body
<1>9. ASSUME NEW i \in 1..n PROVE after[i] = Applied(after[i - 1], records[i])
  <2>1. Body(after)[i] = Applied(after[i - 1], records[i])
    BY DEF Applied
  <2> QED BY <1>8, <2>1
<1>10. after[0] = start /\ after = [i \in 0..n |-> after[i]]
  BY <1>8
<1> DEFINE U == {i \in 0..n : after[i] \in StoreState}
<1>11. ASSUME NEW i \in 0..(n - 1), i \in U
       PROVE  i + 1 \in U
  <2>1. after[i + 1] = Applied(after[i], records[i + 1]) /\ Fitting(records[i + 1])
    BY <1>9
  <2> QED BY <1>11, <2>1, AppliedIsStore
<1>12. \A i \in 0..n : i \in U
  <2>1. 0 \in U
    BY <1>1, <1>10
  <2> HIDE DEF U
  <2> QED BY <2>1, <1>11, InductionUpTo
<1> QED BY <1>9, <1>10, <1>12 DEF after

P == INSTANCE ReplicatedStoreProofs
         WITH regs <- StoredRegs, clock <- clock, written <- StoredWrites,
              fresh <- StoredFresh, restarts <- restarts, seen <- StoredWrites

LEMMA SameAssumptions ==
  P!StoreAssumption /\ P!MaxClockAssumption /\ P!NoValueAssumption
BY MeshAssumption, MaxClockAssumption, NoValueAssumption
   DEF P!StoreAssumption, P!MaxClockAssumption, P!NoValueAssumption

LEMMA SameOperators ==
  /\ P!Key = Key /\ P!Unwritten = Unwritten /\ P!Slot = Slot /\ P!Empty = Empty
  /\ \A k : P!Owner(k) = Owner(k)
  /\ \A r, s : P!Merge(r, s) = Merge(r, s)
BY DEF P!Key, Key, P!Unwritten, Unwritten, P!Slot, Slot, P!Register, Register, P!Empty, Empty,
       P!Owner, Owner, P!Merge, Merge, P!Newer, Newer

LEMMA SlotStamp == \A r \in Slot : r.lamport \in Int
BY DEF Slot, Register, Unwritten

LEMMA RegroupedMerge ==
  ASSUME NEW r \in Slot, NEW s \in Slot, NEW u \in Slot
  PROVE  Merge(Merge(r, s), u) = Merge(r, Merge(s, u))
BY SameAssumptions, SameOperators, P!MergeAssociative

(* A batch of records acts on the replica as one record per key, and moves *)
(* the clock past them all.                                                *)
LEMMA ReplayedIsMerge ==
  ASSUME NEW held \in [Key -> Slot], NEW now \in 0..MaxClock,
         NEW C, \A k \in Key : /\ Unwritten \in C[k]
                               /\ \A r \in C[k] : r \in Slot /\ r.lamport <= MaxClock,
         NEW records, Len(records) \in Nat,
         \A i \in 1..Len(records) : /\ records[i].key \in Key
                                    /\ records[i].reg \in C[records[i].key]
  PROVE  LET after == Replayed(held, now, records)[Len(records)]
         IN  /\ after.clock \in now..MaxClock
             /\ \E b \in [Key -> Slot] :
                   /\ after.regs = [k \in Key |-> Merge(held[k], b[k])]
                   /\ \A k \in Key : b[k] \in C[k] /\ b[k].lamport <= after.clock
<1> DEFINE n == Len(records)
           after == Replayed(held, now, records)
           Stands(i, b) == /\ after[i].regs = [k \in Key |-> Merge(held[k], b[k])]
                           /\ \A k \in Key : b[k] \in C[k] /\ b[k].lamport <= after[i].clock
           Done(i) == {b \in [Key -> Slot] : Stands(i, b)}
           S == {i \in 0..n : after[i].clock \in now..MaxClock /\ Done(i) # {}}
<1>1. \A i \in 1..n : Fitting(records[i])
  BY DEF Fitting
<1>2. /\ after \in [0..n -> StoreState]
      /\ after[0] = [regs |-> held, clock |-> now]
      /\ \A i \in 1..n : after[i] = Applied(after[i - 1], records[i])
  BY <1>1, ReplayedOneByOne
<1> HIDE DEF after
<1>3. 0 \in S
  <2> DEFINE b == [k \in Key |-> Unwritten]
  <2>1. b \in [Key -> Slot] /\ Unwritten \in Slot
    BY DEF Slot
  <2>2. \A k \in Key : held[k] = Merge(held[k], b[k])
    BY DEF Merge, Newer, Slot, Register, Unwritten
  <2>3. after[0].regs = [k \in Key |-> Merge(held[k], b[k])]
    BY <1>2, <2>2
  <2>4. \A k \in Key : b[k] \in C[k] /\ b[k].lamport <= after[0].clock
    BY <1>2 DEF Unwritten
  <2>5. b \in Done(0)
    BY <2>1, <2>3, <2>4
  <2>6. after[0].clock \in now..MaxClock /\ 0 \in 0..n
    BY <1>2, MaxClockAssumption
  <2> HIDE DEF Done
  <2> QED BY <2>5, <2>6
<1>4. ASSUME NEW i \in 0..(n - 1), i \in S
      PROVE  i + 1 \in S
  <2>1. PICK b \in Done(i) : TRUE
    BY <1>4
  <2>2. b \in [Key -> Slot] /\ Stands(i, b) /\ after[i].clock \in now..MaxClock
    BY <1>4, <2>1
  <2> DEFINE rec == records[i + 1]
             d == [b EXCEPT ![rec.key] = Merge(@, rec.reg)]
  <2>3. rec.key \in Key /\ rec.reg \in C[rec.key] /\ rec.reg \in Slot /\ rec.reg.lamport <= MaxClock
    OBVIOUS
  <2>4. after[i + 1] = Applied(after[i], rec)
    BY <1>2
  <2>5. /\ after[i + 1].clock >= after[i].clock
        /\ after[i + 1].clock >= rec.reg.lamport
        /\ after[i + 1].clock \in now..MaxClock
    <3>1. rec.reg.lamport \in Int
      BY <2>3, SlotStamp
    <3>2. after[i + 1].clock = Tick(after[i].clock, rec.reg.lamport)
      BY <2>4 DEF Applied
    <3> HIDE DEF rec
    <3> QED BY <2>2, <2>3, <3>1, <3>2, MaxClockAssumption DEF Tick
  <2>6. d \in [Key -> Slot] /\ \A k \in Key : d[k] \in C[k]
    BY <2>2, <2>3 DEF Merge
  <2>7. ASSUME NEW k \in Key PROVE d[k].lamport <= after[i + 1].clock
    <3>1. d[k] \in {b[k], rec.reg} /\ (d[k] = rec.reg => TRUE)
      BY <2>2, <2>3 DEF Merge
    <3>2. b[k].lamport \in Int /\ b[k].lamport <= after[i].clock /\ after[i].clock \in Int
      BY <2>2, SlotStamp
    <3>3. rec.reg.lamport \in Int /\ after[i + 1].clock \in Int
      BY <2>3, <2>5, SlotStamp
    <3> QED BY <2>5, <3>1, <3>2, <3>3
  <2>8. after[i + 1].regs = [k \in Key |-> Merge(held[k], d[k])]
    <3>1. after[i + 1].regs = [after[i].regs EXCEPT ![rec.key] = Merge(@, rec.reg)]
      BY <2>4 DEF Applied
    <3>2. after[i].regs = [k \in Key |-> Merge(held[k], b[k])]
      BY <2>2
    <3>3. Merge(Merge(held[rec.key], b[rec.key]), rec.reg) = Merge(held[rec.key], d[rec.key])
      <4>1. d[rec.key] = Merge(b[rec.key], rec.reg)
        BY <2>2, <2>3
      <4>2. held[rec.key] \in Slot /\ b[rec.key] \in Slot /\ rec.reg \in Slot
        BY <2>2, <2>3
      <4> HIDE DEF d, rec
      <4>3. Merge(Merge(held[rec.key], b[rec.key]), rec.reg)
               = Merge(held[rec.key], Merge(b[rec.key], rec.reg))
        BY <4>2, RegroupedMerge
      <4> QED BY <4>1, <4>3
    <3>4. \A k \in Key : k # rec.key => d[k] = b[k]
      BY <2>2, <2>3
    <3> HIDE DEF d, rec
    <3>5. \A k \in Key : after[i + 1].regs[k] = Merge(held[k], d[k])
      BY <2>3, <3>1, <3>2, <3>3, <3>4
    <3> QED BY <2>3, <3>1, <3>2, <3>5
  <2>9. d \in Done(i + 1)
    <3> HIDE DEF d
    <3> QED BY <2>6, <2>7, <2>8
  <2>10. i + 1 \in 0..n
    OBVIOUS
  <2> HIDE DEF Done
  <2> QED BY <2>5, <2>9, <2>10
<1>5. n \in S
  <2> HIDE DEF S
  <2>1. \A i \in 0..n : i \in S
    BY <1>3, <1>4, InductionUpTo
  <2> QED BY <2>1
<1>6. PICK b \in [Key -> Slot] : Stands(n, b)
  BY <1>5
<1> QED BY <1>5, <1>6 DEF after

-----------------------------------------------------------------------------
(* Settled and AsStored. *)

LEMMA SettledFacts ==
  /\ Settled(NoValue) = NoValue
  /\ \A v \in Value : Settled(v) \in Value /\ Settled(Settled(v)) = Settled(v)
<1>1. Text \subseteq Value /\ \A v \in Text : Parsed[v] \in Value \ Text
  BY MeshAssumption DEF Text
<1> HIDE DEF Text
<1> QED BY <1>1, NoValueAssumption DEF Settled

LEMMA AsStoredFacts ==
  ASSUME NEW r \in Slot
  PROVE  /\ AsStored(r) \in Slot
         /\ r.lamport \in {0, -1} => AsStored(r) = Unwritten
         /\ r.lamport \notin {0, -1} =>
               /\ AsStored(r) # Unwritten
               /\ AsStored(r) = [value |-> Settled(r.value), lamport |-> r.lamport, wall |-> r.wall]
               /\ r.lamport \in Nat \ {0}
<1>1. CASE r = Unwritten
  BY <1>1, SettledFacts DEF AsStored, Slot, Unwritten
<1>2. CASE r \in Register
  <2>1. Settled(r.value) \in Value
    BY <1>2, SettledFacts DEF Register
  <2>2. [r EXCEPT !.value = Settled(@)]
           = [value |-> Settled(r.value), lamport |-> r.lamport, wall |-> r.wall]
    BY <1>2 DEF Register
  <2>3. r.lamport \in Nat /\ r.wall \in Nat
    BY <1>2 DEF Register
  <2> QED BY <2>1, <2>2, <2>3 DEF AsStored, Slot, Register, Unwritten
<1> QED BY <1>1, <1>2 DEF Slot

LEMMA AsStoredMerge ==
  ASSUME NEW r \in Slot, NEW s \in Slot
  PROVE  AsStored(Merge(r, s)) = Merge(AsStored(r), AsStored(s))
<1>1. /\ r.lamport \in Int /\ r.wall \in Int /\ s.lamport \in Int /\ s.wall \in Int
      /\ r.lamport >= -1 /\ s.lamport >= -1
      /\ r.lamport = -1 => r = Unwritten
      /\ s.lamport = -1 => s = Unwritten
  BY DEF Slot, Register, Unwritten
<1>2. /\ AsStored(r) = IF r.lamport \in {0, -1} THEN Unwritten
                       ELSE [value |-> Settled(r.value), lamport |-> r.lamport, wall |-> r.wall]
      /\ AsStored(s) = IF s.lamport \in {0, -1} THEN Unwritten
                       ELSE [value |-> Settled(s.value), lamport |-> s.lamport, wall |-> s.wall]
  BY AsStoredFacts
<1>3. CASE r.lamport \in {0, -1} /\ s.lamport \in {0, -1}
  BY <1>2, <1>3 DEF Merge
<1>4. CASE r.lamport \in {0, -1} /\ s.lamport \notin {0, -1}
  BY <1>1, <1>2, <1>4 DEF Merge, Newer, Unwritten
<1>5. CASE r.lamport \notin {0, -1} /\ s.lamport \in {0, -1}
  BY <1>1, <1>2, <1>5 DEF Merge, Newer, Unwritten
<1>6. CASE r.lamport \notin {0, -1} /\ s.lamport \notin {0, -1}
  BY <1>1, <1>2, <1>6 DEF Merge, Newer
<1> QED BY <1>3, <1>4, <1>5, <1>6

-----------------------------------------------------------------------------
(* The inductive invariant. *)

Item   == [topic : Topic, value : Value, lamport : 1..MaxClock]
Job    == [item : Item, to : SUBSET Node]
Record == [key : Key, reg : Slot]

StateTypeOK ==
    /\ regs \in [Node -> [Key -> Slot]]
    /\ fresh \in [Key -> Value \cup {NoValue}]
    /\ written \subseteq [key : Key, value : Value, lamport : Nat]

(* What stands under time 0 are strays. *)
StraysOnly == \A n \in Node, k \in Key : regs[n][k].lamport = 0 => Stray(k, regs[n][k])

QueuesTypeOK ==
    /\ pending \in [Node -> {<<>>} \cup {<<p>> : p \in [topic : Topic, value : Value]}]
    /\ ring \in [Node -> Seq(Item)]
    /\ batch \in [Node -> Seq(Job)]

WasWritten(key, value) == \E x \in written : x.key = key /\ x.value = value

(* Between the two halves of publish the item is the application's last write. *)
PendingIsFresh ==
    \A n \in Node : pending[n] # <<>> =>
        LET p == Head(pending[n])
        IN  fresh[<<n, p.topic>>] = p.value /\ WasWritten(<<n, p.topic>>, p.value)

ItemIssued(n, item) ==
    /\ P!Issued(<<n, item.topic>>, Settled(item.value), item.lamport)
    /\ WasWritten(<<n, item.topic>>, item.value)

Queued(n) == {ring[n][i] : i \in 1..Len(ring[n])} \cup
             {batch[n][i].item : i \in 1..Len(batch[n])}

QueuesIssued == \A n \in Node : \A item \in Queued(n) : ItemIssued(n, item)

(* A record of a write, as it circulates, or a stray. *)
Sound(key, reg) ==
    /\ key \in Key /\ reg \in Slot /\ reg.lamport \in 0..MaxClock
    /\ IF reg.lamport = 0 THEN Stray(key, reg)
       ELSE /\ AsStored(reg) \in P!Circulating(key)
            /\ P!Issued(key, Settled(reg.value), reg.lamport)

DatagramSound(d) ==
    /\ d.to \in Node /\ d.from \in Node
    /\ d.kind = "telemetry" => Sound(d.key, d.reg)
    /\ d.kind = "response" =>
          /\ d.records \in Seq(Record)
          /\ \A i \in 1..Len(d.records) : Sound(d.records[i].key, d.records[i].reg)

NetSound == \A d \in net : DatagramSound(d)

MeshInv ==
    /\ P!HeldInv
    /\ StateTypeOK
    /\ StraysOnly
    /\ QueuesTypeOK
    /\ PendingIsFresh
    /\ QueuesIssued
    /\ NetSound

-----------------------------------------------------------------------------
(* What the store's invariant says, in the terms of the mesh. *)

LEMMA StoredAt ==
  /\ \A n \in Node, k \in Key : StoredRegs[n][k] = AsStored(regs[n][k])
  /\ \A k \in Key : StoredFresh[k] = Settled(fresh[k])
BY DEF StoredRegs, StoredFresh

LEMMA HeldFacts ==
  ASSUME P!HeldInv
  PROVE  /\ clock \in [Node -> 0..MaxClock]
         /\ restarts \in [Node -> Nat]
         /\ P!StoreTypeOK
         /\ \A n \in Node, k \in Key :
               LET r == AsStored(regs[n][k])
               IN  /\ r \in P!Circulating(k)
                   /\ r.lamport <= clock[n]
                   /\ r = Unwritten \/ P!Issued(k, r.value, r.lamport)
         /\ \A k \in Key : Settled(fresh[k]) # NoValue =>
               /\ AsStored(regs[Owner(k)][k]) # Unwritten
               /\ \E x \in StoredWrites : x.key = k /\ x.value = Settled(fresh[k])
               /\ restarts[Owner(k)] = 0 => AsStored(regs[Owner(k)][k]).value = Settled(fresh[k])
<1>1. /\ clock \in [Node -> 0..MaxClock]
      /\ restarts \in [Node -> Nat]
      /\ P!StoreTypeOK
  BY DEF P!HeldInv, P!StoreInv, P!StoreTypeOK
<1>2. ASSUME NEW n \in Node, NEW k \in Key
      PROVE  /\ StoredRegs[n][k] \in P!Circulating(k)
             /\ StoredRegs[n][k].lamport <= clock[n]
             /\ \/ StoredRegs[n][k] = Unwritten
                \/ P!Issued(k, StoredRegs[n][k].value, StoredRegs[n][k].lamport)
  BY SameOperators DEF P!HeldInv, P!StoreInv, P!RegsCirculate, P!ClockDominates, P!NoInvention
<1>3. ASSUME NEW k \in Key, StoredFresh[k] # NoValue
      PROVE  /\ StoredRegs[Owner(k)][k] # Unwritten
             /\ \E x \in StoredWrites : x.key = k /\ x.value = StoredFresh[k]
             /\ restarts[Owner(k)] = 0 => StoredRegs[Owner(k)][k].value = StoredFresh[k]
  BY <1>3, SameOperators DEF P!HeldInv, P!StoreInv, P!FreshIsWritten, P!ReadYourWrites
<1>4. \A k \in Key : Owner(k) \in Node
  BY DEF Key, Owner
<1> QED BY <1>1, <1>2, <1>3, <1>4, StoredAt

LEMMA UnwrittenCirculates ==
  ASSUME NEW k \in Key
  PROVE  Unwritten \in P!Circulating(k)
BY SameOperators DEF P!Circulating

(* get_registers_for_keys returns records of what is held. *)
LEMMA RecordsOfHeld ==
  ASSUME NEW n \in Node, NEW keys, regs \in [Node -> [Key -> Slot]]
  PROVE  LET records == RegistersForKeys(n, keys)
         IN  /\ records \in Seq(Record)
             /\ \A i \in 1..Len(records) : /\ records[i].key \in HeldKeys(n)
                                           /\ records[i].reg = regs[n][records[i].key]
<1> DEFINE S == keys \cap HeldKeys(n)
           held == SetToSeq(S)
           size == Cardinality(S)
<1>1. IsFiniteSet(Key)
  BY MeshAssumption, FS_Product DEF Key
<1>2. S \in SUBSET Key
  BY DEF HeldKeys
<1>3. IsFiniteSet(S)
  BY <1>1, <1>2, FS_Subset
<1>4. size \in Nat /\ ExistsBijection(1..size, S)
  BY <1>3, FS_CardinalityType
<1>5. \E f \in [1..size -> S] : IsInjective(f)
  BY <1>4 DEF ExistsBijection, Bijection, Injection, IsInjective
<1>6. held \in [1..size -> S]
  BY <1>5 DEF SetToSeq
<1> HIDE DEF held, size
<1>7. DOMAIN held = 1..size /\ \A i \in 1..size : held[i] \in Key /\ held[i] \in HeldKeys(n)
  BY <1>2, <1>6
<1> DEFINE records == [i \in 1..size |-> [key |-> held[i], reg |-> regs[n][held[i]]]]
<1>8. RegistersForKeys(n, keys) = records
  BY <1>7 DEF RegistersForKeys, held
<1>9. \A i \in 1..size : records[i] \in Record
  BY <1>7 DEF Record
<1>10. records \in Seq(Record) /\ Len(records) = size
  BY <1>4, <1>9
<1>11. \A i \in 1..size : /\ records[i].key \in HeldKeys(n)
                          /\ records[i].reg = regs[n][records[i].key]
  BY <1>7
<1> HIDE DEF records
<1> QED BY <1>8, <1>10, <1>11

LEMMA HeldIsSound ==
  ASSUME P!HeldInv, StateTypeOK, StraysOnly, NEW n \in Node, NEW k \in HeldKeys(n)
  PROVE  Sound(k, regs[n][k])
<1> DEFINE r == regs[n][k]
<1>1. k \in Key /\ r # Unwritten /\ r \in Slot
  BY DEF HeldKeys, StateTypeOK
<1>2. r \in Register
  BY <1>1 DEF Slot
<1>3. CASE r.lamport = 0
  BY <1>1, <1>3, MaxClockAssumption DEF Sound, StraysOnly
<1>4. CASE r.lamport # 0
  <2>1. r.lamport \notin {0, -1}
    BY <1>2, <1>4 DEF Register
  <2>2. /\ AsStored(r) # Unwritten
        /\ AsStored(r) = [value |-> Settled(r.value), lamport |-> r.lamport, wall |-> r.wall]
        /\ r.lamport \in Nat
    BY <1>1, <2>1, AsStoredFacts
  <2>3. /\ AsStored(r) \in P!Circulating(k)
        /\ AsStored(r).lamport <= clock[n]
        /\ P!Issued(k, AsStored(r).value, AsStored(r).lamport)
        /\ clock[n] \in 0..MaxClock
    BY <1>1, <2>2, HeldFacts
  <2> HIDE DEF r
  <2>4. r.lamport \in 0..MaxClock /\ P!Issued(k, Settled(r.value), r.lamport)
    BY <2>2, <2>3, MaxClockAssumption
  <2> QED BY <1>1, <1>4, <2>3, <2>4 DEF Sound, r
<1> QED BY <1>3, <1>4

(* A stray is no JSON text: it arrives as it was sent. *)
LEMMA SettledIsSound ==
  ASSUME NEW key, NEW reg, Sound(key, reg)
  PROVE  Sound(key, [reg EXCEPT !.value = Settled(@)])
<1> DEFINE s == [value |-> Settled(reg.value), lamport |-> reg.lamport, wall |-> reg.wall]
<1>1. reg \in Register
  BY DEF Sound, Slot, Unwritten
<1>2. [reg EXCEPT !.value = Settled(@)] = s
  BY <1>1 DEF Register
<1>3. reg.value \in Value /\ Settled(reg.value) \in Value /\ Settled(Settled(reg.value)) = Settled(reg.value)
  BY <1>1, SettledFacts DEF Register
<1>4. s \in Register
  BY <1>1, <1>3 DEF Register
<1>5. CASE reg.lamport = 0
  <2>1. Stray(key, reg)
    BY <1>5 DEF Sound
  <2>2. PICK t \in Pair : Unpacked[t].value = reg.value
    BY <2>1 DEF Stray
  <2>3. reg.value \notin Text
    BY <2>2, MeshAssumption
  <2>4. s = reg
    BY <1>1, <2>3 DEF Settled, Register
  <2> HIDE DEF s
  <2> QED BY <1>2, <2>4
<1>6. CASE reg.lamport # 0
  <2>1. reg.lamport \notin {0, -1}
    BY <1>1, <1>6 DEF Register
  <2>2. AsStored(reg) = s
    BY <1>1, <2>1, AsStoredFacts DEF Slot
  <2>3. AsStored(s) = s
    <3>1. s \in Slot /\ s.lamport \notin {0, -1}
      BY <1>4, <2>1 DEF Slot
    <3>2. AsStored(s) = [value |-> Settled(s.value), lamport |-> s.lamport, wall |-> s.wall]
      <4> HIDE DEF s
      <4> QED BY <3>1, AsStoredFacts
    <3> QED BY <1>3, <3>2
  <2> QED BY <1>2, <1>3, <1>4, <1>6, <2>2, <2>3 DEF Sound, Slot
<1> QED BY <1>5, <1>6

(* What is appended to the ring leaves nothing else in it. *)
LEMMA ExtendedByOne ==
  ASSUME NEW S, NEW s \in Seq(S), NEW x \in S
  PROVE  Extended(s, <<x>>) \in Seq(S)
<1> DEFINE whole == s \o <<x>>
<1>1. whole \in Seq(S) /\ Len(whole) \in Nat
  OBVIOUS
<1> HIDE DEF whole
<1>2. CASE Len(whole) > Capacity
  <2>1. Len(whole) - Capacity + 1 \in 1..Len(whole)
    BY <1>1, <1>2, CapacityAssumption
  <2>2. SubSeq(whole, Len(whole) - Capacity + 1, Len(whole)) \in Seq(S)
    BY <1>1, <2>1
  <2> QED BY <1>2, <2>2 DEF Extended, Newest, whole
<1>3. CASE ~ (Len(whole) > Capacity)
  BY <1>1, <1>3 DEF Extended, Newest, whole
<1> QED BY <1>2, <1>3

-----------------------------------------------------------------------------
(* Every step of the mesh is a step of the store, or leaves it alone. *)

(* A merge of sound records, at most one per key, that moves the clock past *)
(* them all.                                                               *)
LEMMA MergeIsAbsorb ==
  ASSUME MeshInv, NEW n \in Node, NEW b \in [Key -> Slot], NEW c \in 0..MaxClock,
         \A k \in Key : b[k] = Unwritten \/ Sound(k, b[k]),
         c >= clock[n], \A k \in Key : b[k].lamport <= c,
         regs' = [regs EXCEPT ![n] = [k \in Key |-> Merge(regs[n][k], b[k])]],
         clock' = [clock EXCEPT ![n] = c],
         UNCHANGED <<written, fresh, restarts>>
  PROVE  P!Next /\ StateTypeOK' /\ StraysOnly'
<1>1. regs \in [Node -> [Key -> Slot]]
  BY DEF MeshInv, StateTypeOK
<1>2. \A m \in Node, k \in Key :
         regs'[m][k] = IF m = n THEN Merge(regs[m][k], b[k]) ELSE regs[m][k]
  BY <1>1
<1>3. \A k \in Key : regs[n][k] \in Slot /\ b[k] \in Slot /\ Merge(regs[n][k], b[k]) \in {regs[n][k], b[k]}
  BY <1>1 DEF Merge
<1>4. StateTypeOK'
  <2>1. [k \in Key |-> Merge(regs[n][k], b[k])] \in [Key -> Slot]
    BY <1>3
  <2> QED BY <1>1, <2>1 DEF MeshInv, StateTypeOK
<1>5. StraysOnly'
  <2> SUFFICES ASSUME NEW m \in Node, NEW k \in Key, regs'[m][k].lamport = 0
               PROVE  Stray(k, regs[m][k])'
    BY DEF StraysOnly
  <2>1. CASE regs'[m][k] = regs[m][k]
    <3>1. Stray(k, regs[m][k])
      BY <2>1 DEF MeshInv, StraysOnly
    <3> QED BY <2>1, <3>1 DEF Stray
  <2>2. CASE regs'[m][k] = b[k]
    <3>1. Stray(k, b[k])
      BY <2>2 DEF Sound, Unwritten
    <3> QED BY <2>2, <3>1 DEF Stray
  <2> QED BY <1>2, <1>3, <2>1, <2>2
<1> DEFINE s == [k \in Key |-> AsStored(b[k])]
<1>6. \A k \in Key : s[k] \in P!Circulating(k) /\ s[k].lamport <= c
  <2> SUFFICES ASSUME NEW k \in Key
               PROVE  AsStored(b[k]) \in P!Circulating(k) /\ AsStored(b[k]).lamport <= c
    OBVIOUS
  <2>1. CASE b[k].lamport \in {0, -1}
    BY <1>3, <2>1, AsStoredFacts, UnwrittenCirculates DEF Unwritten
  <2>2. CASE b[k].lamport \notin {0, -1}
    <3>1. Sound(k, b[k])
      BY <2>2 DEF Unwritten
    <3>2. AsStored(b[k]).lamport = b[k].lamport
      BY <1>3, <2>2, AsStoredFacts
    <3> QED BY <2>2, <3>1, <3>2 DEF Sound
  <2> QED BY <2>1, <2>2
<1>7. StoredRegs' = [StoredRegs EXCEPT ![n] = [k \in Key |-> Merge(StoredRegs[n][k], s[k])]]
  <2>1. \A k \in Key : AsStored(Merge(regs[n][k], b[k])) = Merge(StoredRegs[n][k], s[k])
    BY <1>3, AsStoredMerge, StoredAt
  <2>2. StoredRegs' = [m \in Node |-> [k \in Key |-> AsStored(regs'[m][k])]]
    BY DEF StoredRegs
  <2>3. StoredRegs = [m \in Node |-> [k \in Key |-> AsStored(regs[m][k])]]
    BY DEF StoredRegs
  <2> HIDE DEF s
  <2>4. \A m \in Node : m # n => StoredRegs'[m] = StoredRegs[m]
    BY <1>2, <2>2, <2>3
  <2>5. StoredRegs'[n] = [k \in Key |-> Merge(StoredRegs[n][k], s[k])]
    BY <1>2, <2>1, <2>2
  <2> QED BY <2>2, <2>3, <2>4, <2>5
<1>8. UNCHANGED <<StoredWrites, StoredFresh, restarts>>
  BY DEF StoredWrites, StoredFresh
<1> HIDE DEF s
<1>9. s \in P!Batches
  <2> DEFINE some == UNION {P!Circulating(k) : k \in P!WrittenKeys}
             some_of_s == [k \in P!WrittenKeys |-> s[k]]
  <2>1. s = [k \in Key |-> s[k]]
    BY DEF s
  <2>2. P!WrittenKeys \subseteq Key
    BY DEF P!WrittenKeys, StoredWrites, MeshInv, StateTypeOK
  <2>3. \A k \in Key \ P!WrittenKeys : s[k] = P!Unwritten
    BY <1>6 DEF P!Circulating, P!Paired, P!WrittenKeys
  <2>4. some_of_s \in [P!WrittenKeys -> some]
    BY <1>6, <2>2
  <2>5. s = [k \in Key |-> IF k \in P!WrittenKeys THEN some_of_s[k] ELSE P!Unwritten]
    BY <2>1, <2>2, <2>3
  <2> HIDE DEF some, some_of_s
  <2> QED BY <2>4, <2>5, SameOperators DEF P!Batches, some
<1>10. \A k \in Key : c >= s[k].lamport
  <2>1. \A k \in Key : s[k].lamport \in Int
    BY <1>3, AsStoredFacts, SlotStamp DEF s
  <2> QED BY <1>6, <2>1
<1>11. P!Absorb(n, s, c)
  BY <1>6, <1>7, <1>8, <1>10, SameOperators DEF P!Absorb
<1> QED BY <1>4, <1>5, <1>9, <1>11 DEF P!Next

LEMMA TelemetryIsMerge ==
  ASSUME MeshInv, NEW d \in net, NEW stays \in BOOLEAN, ReceiveTelemetry(d, stays)
  PROVE  P!Next /\ StateTypeOK' /\ StraysOnly'
<1> DEFINE n == d.to
           r == [d.reg EXCEPT !.value = Settled(@)]
           b == [k \in Key |-> IF k = d.key THEN r ELSE Unwritten]
           c == Tick(clock[n], r.lamport)
<1>1. n \in Node /\ Sound(d.key, d.reg)
  BY DEF MeshInv, NetSound, DatagramSound, ReceiveTelemetry
<1>2. Sound(d.key, r)
  BY <1>1, SettledIsSound
<1>3. /\ regs' = [regs EXCEPT ![n] = [regs[n] EXCEPT ![d.key] = Merge(regs[n][d.key], r)]]
      /\ clock' = [clock EXCEPT ![n] = c]
      /\ UNCHANGED <<written, fresh, restarts>>
  BY DEF ReceiveTelemetry, MergeRemote, historyVars
<1> HIDE DEF r
<1>4. d.key \in Key /\ r \in Slot /\ r.lamport \in 0..MaxClock
  BY <1>2 DEF Sound
<1>5. regs[n] \in [Key -> Slot] /\ clock[n] \in 0..MaxClock
  BY <1>1, HeldFacts DEF MeshInv, StateTypeOK
<1>6. c \in 0..MaxClock /\ c >= clock[n] /\ c >= r.lamport
  BY <1>4, <1>5, MaxClockAssumption DEF Tick
<1>7. /\ b \in [Key -> Slot]
      /\ \A k \in Key : b[k] = Unwritten \/ Sound(k, b[k])
  BY <1>2, <1>4 DEF Slot
<1>8. \A k \in Key : b[k].lamport <= c
  <2> HIDE DEF c
  <2> QED BY <1>6, <1>4 DEF Unwritten
<1>9. [regs[n] EXCEPT ![d.key] = Merge(regs[n][d.key], r)]
         = [k \in Key |-> Merge(regs[n][k], b[k])]
  <2>1. \A u \in Slot : Merge(u, Unwritten) = u
    BY DEF Merge, Newer, Slot, Register, Unwritten
  <2> QED BY <1>4, <1>5, <2>1
<1> HIDE DEF b, c, n
<1> QED BY <1>1, <1>3, <1>6, <1>7, <1>8, <1>9, MergeIsAbsorb

LEMMA ResponseIsMerge ==
  ASSUME MeshInv, NEW d \in net, NEW stays \in BOOLEAN, HandleResponse(d, stays)
  PROVE  P!Next /\ StateTypeOK' /\ StraysOnly'
<1> DEFINE n == d.to
           C == [k \in Key |-> {r \in Slot : r = Unwritten \/ Sound(k, r)}]
           after == Replayed(regs[n], clock[n], d.records)[Len(d.records)]
<1>1. /\ n \in Node /\ Len(d.records) \in Nat
      /\ \A i \in 1..Len(d.records) : Sound(d.records[i].key, d.records[i].reg)
  BY DEF MeshInv, NetSound, DatagramSound, HandleResponse
<1>2. \A k \in Key : /\ Unwritten \in C[k]
                     /\ \A r \in C[k] : r \in Slot /\ r.lamport <= MaxClock
  BY MaxClockAssumption DEF Sound, Unwritten, Slot
<1>3. \A i \in 1..Len(d.records) : /\ d.records[i].key \in Key
                                   /\ d.records[i].reg \in C[d.records[i].key]
  BY <1>1 DEF Sound
<1>4. regs[n] \in [Key -> Slot] /\ clock[n] \in 0..MaxClock
  BY <1>1, HeldFacts DEF MeshInv, StateTypeOK
<1>5. /\ after.clock \in clock[n]..MaxClock
      /\ \E b \in [Key -> Slot] :
            /\ after.regs = [k \in Key |-> Merge(regs[n][k], b[k])]
            /\ \A k \in Key : b[k] \in C[k] /\ b[k].lamport <= after.clock
  <2> HIDE DEF n, C
  <2> QED BY <1>1, <1>2, <1>3, <1>4, ReplayedIsMerge
<1>6. /\ regs' = [regs EXCEPT ![n] = after.regs]
      /\ clock' = [clock EXCEPT ![n] = after.clock]
      /\ UNCHANGED <<written, fresh, restarts>>
  BY DEF HandleResponse, MergeBatch, historyVars
<1> HIDE DEF after
<1>7. PICK b \in [Key -> Slot] :
            /\ after.regs = [k \in Key |-> Merge(regs[n][k], b[k])]
            /\ \A k \in Key : (b[k] = Unwritten \/ Sound(k, b[k])) /\ b[k].lamport <= after.clock
  BY <1>5
<1>8. after.clock \in 0..MaxClock /\ after.clock >= clock[n]
  BY <1>4, <1>5, MaxClockAssumption
<1> HIDE DEF n
<1> QED BY <1>1, <1>6, <1>7, <1>8, MergeIsAbsorb

LEMMA WriteIsPublish ==
  ASSUME MeshInv, NEW n \in Node, NEW t \in Topic, NEW v \in Value, NEW w \in Wall,
         PublishWrite(n, t, v, w)
  PROVE  P!Next /\ StateTypeOK' /\ StraysOnly'
<1> DEFINE K == <<n, t>>
           R == [value |-> v, lamport |-> clock[n] + 1, wall |-> w]
           X == [key |-> K, value |-> v, lamport |-> clock[n] + 1]
           V == Settled(v)
<1>1. /\ clock[n] < MaxClock
      /\ regs' = [regs EXCEPT ![n] = [regs[n] EXCEPT ![K] = R]]
      /\ clock' = [clock EXCEPT ![n] = clock[n] + 1]
      /\ written' = written \cup {X}
      /\ fresh' = [fresh EXCEPT ![K] = v]
      /\ restarts' = restarts
  BY DEF PublishWrite, UpdateLocal
<1>2. /\ StateTypeOK /\ StraysOnly /\ K \in Key /\ V \in Value
      /\ clock[n] \in 0..MaxClock /\ w \in Nat
  BY HeldFacts, SettledFacts, MeshAssumption DEF MeshInv, Key
<1>3. R \in Slot /\ R.lamport \notin {0, -1} /\ X \in [key : Key, value : Value, lamport : Nat]
  BY <1>2 DEF Slot, Register
<1>4. AsStored(R) = [value |-> V, lamport |-> clock[n] + 1, wall |-> w]
  <2>1. AsStored(R) = [value |-> Settled(R.value), lamport |-> R.lamport, wall |-> R.wall]
    <3> HIDE DEF R
    <3> QED BY <1>3, AsStoredFacts
  <2> QED BY <2>1
<1> HIDE DEF R, X
<1>5. StateTypeOK'
  BY <1>1, <1>2, <1>3 DEF StateTypeOK
<1>6. \A m \in Node, k \in Key :
         regs'[m][k] = IF m = n /\ k = K THEN R ELSE regs[m][k]
  BY <1>1, <1>2 DEF StateTypeOK
<1>7. StraysOnly'
  <2> SUFFICES ASSUME NEW m \in Node, NEW k \in Key, regs'[m][k].lamport = 0
               PROVE  Stray(k, regs[m][k])'
    BY DEF StraysOnly
  <2>1. regs'[m][k] = regs[m][k]
    BY <1>3, <1>6
  <2>2. Stray(k, regs[m][k])
    BY <1>2, <2>1 DEF StraysOnly
  <2> QED BY <1>1, <2>1, <2>2 DEF Stray
<1>8. StoredRegs' = [StoredRegs EXCEPT ![n] = [StoredRegs[n] EXCEPT ![K] = AsStored(R)]]
  <2>1. StoredRegs' = [m \in Node |-> [k \in Key |-> AsStored(regs'[m][k])]]
    BY DEF StoredRegs
  <2>2. StoredRegs = [m \in Node |-> [k \in Key |-> AsStored(regs[m][k])]]
    BY DEF StoredRegs
  <2> HIDE DEF K
  <2>3. \A m \in Node : m # n => StoredRegs'[m] = StoredRegs[m]
    BY <1>6, <2>1, <2>2
  <2>4. StoredRegs'[n] = [StoredRegs[n] EXCEPT ![K] = AsStored(R)]
    BY <1>2, <1>6, <2>1, <2>2
  <2> QED BY <2>1, <2>2, <2>3, <2>4
<1>9. StoredWrites' = StoredWrites \cup {[key |-> K, value |-> V, lamport |-> clock[n] + 1]}
  <2>1. [X EXCEPT !.value = Settled(@)] = [key |-> K, value |-> V, lamport |-> clock[n] + 1]
    BY DEF X
  <2>2. StoredWrites' = {[x EXCEPT !.value = Settled(@)] : x \in written \cup {X}}
    BY <1>1 DEF StoredWrites
  <2>3. StoredWrites = {[x EXCEPT !.value = Settled(@)] : x \in written}
    BY DEF StoredWrites
  <2> QED BY <2>1, <2>2, <2>3
<1>10. StoredFresh' = [StoredFresh EXCEPT ![K] = V]
  <2>1. \A k \in Key : fresh'[k] = IF k = K THEN v ELSE fresh[k]
    BY <1>1, <1>2 DEF StateTypeOK
  <2>2. StoredFresh' = [k \in Key |-> Settled(fresh'[k])]
    BY DEF StoredFresh
  <2>3. StoredFresh = [k \in Key |-> Settled(fresh[k])]
    BY DEF StoredFresh
  <2> HIDE DEF K
  <2> QED BY <1>2, <2>1, <2>2, <2>3
<1>11. P!Publish(n, t, V, w)
  BY <1>1, <1>4, <1>8, <1>9, <1>10 DEF P!Publish, P!UpdateLocal
<1> QED BY <1>2, <1>5, <1>7, <1>11 DEF P!Next

LEMMA NodeRestartIsRestart ==
  ASSUME MeshInv, NEW n \in Node, RestartNode(n)
  PROVE  P!Next /\ StateTypeOK' /\ StraysOnly'
<1>1. /\ n \in Mortal /\ restarts[n] < MaxRestarts
      /\ restarts' = [restarts EXCEPT ![n] = @ + 1]
      /\ regs' = [regs EXCEPT ![n] = Empty]
      /\ clock' = [clock EXCEPT ![n] = 0]
      /\ fresh' = [k \in Key |-> IF Owner(k) = n THEN NoValue ELSE fresh[k]]
      /\ written' = written
  BY DEF RestartNode, Forget
<1>2. StateTypeOK /\ StraysOnly
  BY DEF MeshInv
<1>3. Empty \in [Key -> Slot] /\ \A k \in Key : Empty[k] = Unwritten
  BY DEF Empty, Slot
<1>4. StateTypeOK'
  BY <1>1, <1>2, <1>3 DEF StateTypeOK
<1>5. \A m \in Node, k \in Key : regs'[m][k] = IF m = n THEN Unwritten ELSE regs[m][k]
  BY <1>1, <1>2, <1>3 DEF StateTypeOK
<1>6. StraysOnly'
  <2> SUFFICES ASSUME NEW m \in Node, NEW k \in Key, regs'[m][k].lamport = 0
               PROVE  Stray(k, regs[m][k])'
    BY DEF StraysOnly
  <2>1. regs'[m][k] = regs[m][k]
    BY <1>5 DEF Unwritten
  <2>2. Stray(k, regs[m][k])
    BY <1>2, <2>1 DEF StraysOnly
  <2> QED BY <1>1, <2>1, <2>2 DEF Stray
<1>7. AsStored(Unwritten) = Unwritten
  BY AsStoredFacts DEF Slot, Unwritten
<1>8. StoredRegs' = [StoredRegs EXCEPT ![n] = Empty]
  <2>1. StoredRegs' = [m \in Node |-> [k \in Key |-> AsStored(regs'[m][k])]]
    BY DEF StoredRegs
  <2>2. StoredRegs = [m \in Node |-> [k \in Key |-> AsStored(regs[m][k])]]
    BY DEF StoredRegs
  <2>3. \A m \in Node : m # n => StoredRegs'[m] = StoredRegs[m]
    BY <1>5, <2>1, <2>2
  <2>4. StoredRegs'[n] = Empty
    BY <1>5, <1>7, <2>1 DEF Empty
  <2> QED BY <2>1, <2>2, <2>3, <2>4
<1>9. StoredFresh' = [k \in Key |-> IF Owner(k) = n THEN NoValue ELSE StoredFresh[k]]
  <2>1. StoredFresh' = [k \in Key |-> Settled(fresh'[k])]
    BY DEF StoredFresh
  <2>2. \A k \in Key : fresh'[k] = IF Owner(k) = n THEN NoValue ELSE fresh[k]
    BY <1>1
  <2> QED BY <2>1, <2>2, SettledFacts, StoredAt
<1>10. StoredWrites' = StoredWrites
  BY <1>1 DEF StoredWrites
<1>11. P!Restart(n)
  BY <1>1, <1>8, <1>9, <1>10, SameOperators DEF P!Restart, P!Forget
<1> QED BY <1>4, <1>6, <1>11 DEF P!Next

LEMMA StoreUntouched ==
  ASSUME MeshInv, UNCHANGED <<regs, clock, historyVars>>
  PROVE  UNCHANGED P!storeVars /\ StateTypeOK' /\ StraysOnly'
<1>1. UNCHANGED P!storeVars
  BY DEF historyVars, P!storeVars, StoredRegs, StoredWrites, StoredFresh
<1>2. StateTypeOK'
  BY DEF historyVars, MeshInv, StateTypeOK
<1>3. StraysOnly'
  BY DEF historyVars, MeshInv, StraysOnly, Stray
<1> QED BY <1>1, <1>2, <1>3

LEMMA StoreStep ==
  ASSUME MeshInv, [MeshNext]_meshVars
  PROVE  [P!Next]_(P!storeVars) /\ StateTypeOK' /\ StraysOnly'
<1> DEFINE Quiet == UNCHANGED <<regs, clock, historyVars>>
<1>1. CASE UNCHANGED meshVars
  <2>1. Quiet
    BY <1>1 DEF meshVars
  <2> QED BY <2>1, StoreUntouched
<1>2. ASSUME NEW n \in Node, NEW t \in Topic, NEW v \in Value, NEW w \in Wall,
             PublishWrite(n, t, v, w)
      PROVE  P!Next /\ StateTypeOK' /\ StraysOnly'
  BY <1>2, WriteIsPublish
<1>3. ASSUME NEW n \in Node, PublishPush(n) \/ TxStep(n) \/ AeStep(n)
      PROVE  Quiet
  BY <1>3 DEF PublishPush, TxStep, PopBatch, Transmit, SkipItem, TransmitFails, AeStep,
              DigestBegin, DigestSend
<1>4. ASSUME NEW n \in Node, RestartNode(n)
      PROVE  P!Next /\ StateTypeOK' /\ StraysOnly'
  BY <1>4, NodeRestartIsRestart
<1>5. ASSUME NEW n \in Node, NEW m \in Node, PeerFound(n, m)
      PROVE  Quiet
  BY <1>5 DEF PeerFound
<1>6. ASSUME NEW d \in net, NEW stays \in BOOLEAN, Receive(d, stays)
      PROVE  Quiet \/ (P!Next /\ StateTypeOK' /\ StraysOnly')
  <2>1. CASE ReceiveTelemetry(d, stays)
    BY <2>1, TelemetryIsMerge
  <2>2. CASE HandleResponse(d, stays)
    BY <2>2, ResponseIsMerge
  <2>3. CASE HandleDigest(d, stays) \/ HandleRequest(d, stays)
    BY <2>3 DEF HandleDigest, HandleRequest
  <2> QED BY <1>6, <2>1, <2>2, <2>3 DEF Receive
<1>7. ASSUME NEW d \in net, Lose(d)
      PROVE  Quiet
  BY <1>7 DEF Lose
<1>8. Quiet \/ (P!Next /\ StateTypeOK' /\ StraysOnly') \/ UNCHANGED meshVars
  BY <1>2, <1>3, <1>4, <1>5, <1>6, <1>7 DEF MeshNext
<1> QED BY <1>1, <1>8, StoreUntouched

(* What was issued, or circulates, goes on doing so. *)
Stays ==
    /\ \A k \in Key : \A v, l : P!Issued(k, v, l) => P!Issued(k, v, l)'
    /\ \A k \in Key : \A r : r \in P!Circulating(k) => r \in P!Circulating(k)'
    /\ written \subseteq written'

LEMMA StoreStays ==
  ASSUME MeshInv, [MeshNext]_meshVars
  PROVE  P!HeldInv' /\ StateTypeOK' /\ StraysOnly' /\ Stays
<1>1. [P!Next]_(P!storeVars) /\ P!HeldInv /\ P!StoreTypeOK /\ StateTypeOK' /\ StraysOnly'
  BY StoreStep, HeldFacts DEF MeshInv
<1>2. P!HeldInv'
  BY <1>1, SameAssumptions, P!HeldStep
<1>3. StoredWrites \subseteq StoredWrites' /\ \A n \in Node : restarts'[n] = 0 => restarts[n] = 0
  BY <1>1, SameAssumptions, P!HistoryGrows
<1>4. \A k \in Key : /\ k \in P!Key
                     /\ restarts'[P!Owner(k)] = 0 => restarts[P!Owner(k)] = 0
  BY <1>3, SameOperators DEF Key, Owner
<1>5. ASSUME NEW k \in Key, NEW v, NEW l, P!Issued(k, v, l)
      PROVE  P!Issued(k, v, l)'
  BY <1>3, <1>4, <1>5, SameAssumptions, P!IssuedStays
<1>6. ASSUME NEW k \in Key, NEW r, r \in P!Circulating(k)
      PROVE  r \in P!Circulating(k)'
  BY <1>3, <1>4, <1>6, SameAssumptions, P!CirculatingStays
<1>7. written \subseteq written'
  BY DEF MeshNext, PublishWrite, PublishPush, TxStep, PopBatch, Transmit, SkipItem,
         TransmitFails, AeStep, DigestBegin, DigestSend, RestartNode, PeerFound, Receive,
         ReceiveTelemetry, HandleDigest, HandleRequest, HandleResponse, Lose, meshVars,
         historyVars
<1> QED BY <1>1, <1>2, <1>5, <1>6, <1>7 DEF Stays

-----------------------------------------------------------------------------
(* The queues and the network carry only what was issued. *)

QueuesInv == QueuesTypeOK /\ PendingIsFresh /\ QueuesIssued

LEMMA SoundStays ==
  ASSUME Stays, NEW key, NEW reg, Sound(key, reg)
  PROVE  Sound(key, reg)'
<1>1. CASE reg.lamport = 0
  <2>1. Stray(key, reg)'
    BY <1>1 DEF Stays, Sound, Stray
  <2> QED BY <1>1, <2>1 DEF Sound
<1>2. CASE reg.lamport # 0
  <2>1. (AsStored(reg) \in P!Circulating(key))'
    BY <1>2 DEF Stays, Sound
  <2>2. P!Issued(key, Settled(reg.value), reg.lamport)'
    BY <1>2 DEF Stays, Sound
  <2> QED BY <1>2, <2>1, <2>2 DEF Sound
<1> QED BY <1>1, <1>2

LEMMA ItemStays ==
  ASSUME Stays, NEW n \in Node, NEW item \in Item, ItemIssued(n, item)
  PROVE  ItemIssued(n, item)'
<1>1. <<n, item.topic>> \in Key
  BY DEF Item, Key
<1>2. P!Issued(<<n, item.topic>>, Settled(item.value), item.lamport)'
  BY <1>1 DEF Stays, ItemIssued
<1> QED BY <1>2 DEF Stays, ItemIssued, WasWritten

LEMMA DatagramStays ==
  ASSUME Stays, NEW d, DatagramSound(d)
  PROVE  DatagramSound(d)'
BY SoundStays DEF DatagramSound

(* What is sent on top of what is in flight or a part of it. *)
LEMMA CarryKeepsSound ==
  ASSUME NetSound, Stays, NEW inFlight \in SUBSET net, NEW frames,
         \A d \in frames : DatagramSound(d), Carry(inFlight, frames)
  PROVE  NetSound'
<1> SUFFICES ASSUME NEW d \in net' PROVE DatagramSound(d)'
  BY DEF NetSound
<1>1. d \in net \/ d \in frames
  BY DEF Carry
<1>2. DatagramSound(d)
  BY <1>1 DEF NetSound
<1> QED BY <1>2, DatagramStays

LEMMA QueuedAreItems ==
  ASSUME QueuesTypeOK, NEW n \in Node, NEW item \in Queued(n)
  PROVE  item \in Item
<1>1. ring[n] \in Seq(Item) /\ batch[n] \in Seq(Job)
  BY DEF QueuesTypeOK
<1>2. (\A i \in 1..Len(ring[n]) : ring[n][i] \in Item) /\ \A i \in 1..Len(batch[n]) : batch[n][i] \in Job
  BY <1>1
<1>3. \A job \in Job : job.item \in Item
  BY DEF Job
<1> QED BY <1>2, <1>3 DEF Queued

(* A step that leaves the queues and the last writes alone. *)
LEMMA QueuesStay ==
  ASSUME QueuesInv, Stays, UNCHANGED <<pending, ring, batch, fresh>>
  PROVE  QueuesInv'
<1>1. QueuesTypeOK' /\ PendingIsFresh'
  BY DEF QueuesInv, QueuesTypeOK, PendingIsFresh, WasWritten, Stays
<1>2. QueuesIssued'
  <2> SUFFICES ASSUME NEW n \in Node, NEW item \in Queued(n)'
               PROVE  ItemIssued(n, item)'
    BY DEF QueuesIssued
  <2>1. item \in Queued(n)
    BY DEF Queued
  <2> QED BY <2>1, QueuedAreItems, ItemStays DEF QueuesInv, QueuesIssued
<1> QED BY <1>1, <1>2 DEF QueuesInv

(* The queues of one node change: its ring keeps issued items, and so does *)
(* its transmit batch.                                                     *)
LEMMA QueuesOfOneNode ==
  ASSUME QueuesInv, Stays, NEW n \in Node, NEW newRing \in Seq(Item), NEW newBatch \in Seq(Job),
         \A i \in 1..Len(newRing) : ItemIssued(n, newRing[i]),
         \A i \in 1..Len(newBatch) : ItemIssued(n, newBatch[i].item),
         ring' = [ring EXCEPT ![n] = newRing], batch' = [batch EXCEPT ![n] = newBatch]
  PROVE  QueuesIssued' /\ ring' \in [Node -> Seq(Item)] /\ batch' \in [Node -> Seq(Job)]
<1>1. ring \in [Node -> Seq(Item)] /\ batch \in [Node -> Seq(Job)]
  BY DEF QueuesInv, QueuesTypeOK
<1>2. ring' \in [Node -> Seq(Item)] /\ batch' \in [Node -> Seq(Job)]
  BY <1>1
<1>3. ASSUME NEW m \in Node, NEW item \in Queued(m)'
      PROVE  ItemIssued(m, item)'
  <2>1. CASE m = n
    <3>1. ring'[m] = newRing /\ batch'[m] = newBatch
      BY <1>1, <2>1
    <3>2. item \in {newRing[i] : i \in 1..Len(newRing)} \cup {newBatch[i].item : i \in 1..Len(newBatch)}
      BY <3>1 DEF Queued
    <3>3. ItemIssued(m, item)
      BY <2>1, <3>2
    <3>4. \A i \in 1..Len(newRing) : newRing[i] \in Item
      OBVIOUS
    <3>5. \A i \in 1..Len(newBatch) : newBatch[i] \in Job
      OBVIOUS
    <3>6. \A job \in Job : job.item \in Item
      BY DEF Job
    <3>7. item \in Item
      BY <3>2, <3>4, <3>5, <3>6
    <3> QED BY <3>3, <3>7, ItemStays
  <2>2. CASE m # n
    <3>1. ring'[m] = ring[m] /\ batch'[m] = batch[m]
      BY <1>1, <2>2
    <3>2. item \in Queued(m)
      BY <3>1 DEF Queued
    <3> QED BY <3>2, QueuedAreItems, ItemStays DEF QueuesInv, QueuesIssued
  <2> QED BY <2>1, <2>2
<1> QED BY <1>2, <1>3 DEF QueuesIssued

(* The item of a publish is paired with the time read back from the store: *)
(* both were issued, and while the process runs they are of one write.     *)
LEMMA PendingIsIssued ==
  ASSUME P!HeldInv, StateTypeOK, NEW k \in Key, fresh[k] # NoValue
  PROVE  /\ P!Issued(k, Settled(fresh[k]), regs[Owner(k)][k].lamport)
         /\ regs[Owner(k)][k].lamport \in 1..MaxClock
<1> DEFINE r == AsStored(regs[Owner(k)][k])
           v == Settled(fresh[k])
<1>1. Owner(k) \in Node
  BY DEF Key, Owner
<1>2. v # NoValue /\ regs[Owner(k)][k] \in Slot
  BY <1>1, SettledFacts, NoValueAssumption DEF StateTypeOK
<1>3. /\ r # Unwritten /\ r.lamport <= clock[Owner(k)] /\ clock[Owner(k)] \in 0..MaxClock
      /\ P!Issued(k, r.value, r.lamport)
      /\ restarts[Owner(k)] = 0 => r.value = v
  BY <1>1, <1>2, HeldFacts
<1>4. PICK x \in StoredWrites : x.key = k /\ x.value = v
  BY <1>2, HeldFacts
<1>5. regs[Owner(k)][k].lamport = r.lamport /\ r.lamport \in Nat \ {0}
  BY <1>2, <1>3, AsStoredFacts
<1> HIDE DEF r, v
<1>6. PICK p \in P!Paired(k) : p[1].value = r.value /\ p[2].lamport = r.lamport
  BY <1>3 DEF P!Issued
<1>7. r.lamport \in 1..MaxClock
  BY <1>3, <1>5, MaxClockAssumption
<1>8. P!Issued(k, v, r.lamport)
  <2>1. CASE restarts[Owner(k)] = 0
    BY <1>3, <2>1
  <2>2. CASE restarts[Owner(k)] # 0
    <3>1. p[2] \in StoredWrites /\ p[2].key = k
      BY <1>6 DEF P!Paired
    <3>2. <<x, p[2]>> \in P!Paired(k) /\ <<x, p[2]>>[1] = x /\ <<x, p[2]>>[2] = p[2]
      BY <1>4, <2>2, <3>1, SameOperators DEF P!Paired
    <3> QED BY <1>4, <1>6, <3>2 DEF P!Issued
  <2> QED BY <2>1, <2>2
<1> QED BY <1>5, <1>7, <1>8 DEF v

LEMMA PublishWriteKeeps ==
  ASSUME MeshInv, Stays, NEW n \in Node, NEW t \in Topic, NEW v \in Value, NEW w \in Wall,
         PublishWrite(n, t, v, w)
  PROVE  QueuesInv' /\ NetSound'
<1>1. /\ pending' = [pending EXCEPT ![n] = <<[topic |-> t, value |-> v]>>]
      /\ fresh' = [fresh EXCEPT ![<<n, t>>] = v]
      /\ [key |-> <<n, t>>, value |-> v, lamport |-> clock[n] + 1] \in written'
      /\ UNCHANGED <<ring, batch, net>>
  BY DEF PublishWrite
<1>2. QueuesInv /\ QueuesTypeOK /\ PendingIsFresh /\ NetSound
  BY DEF MeshInv, QueuesInv
<1>3. QueuesTypeOK'
  BY <1>1, <1>2 DEF QueuesTypeOK
<1>4. fresh \in [Key -> Value \cup {NoValue}]
  BY DEF MeshInv, StateTypeOK
<1>5. PendingIsFresh'
  <2> SUFFICES ASSUME NEW m \in Node, pending'[m] # <<>>
               PROVE  LET p == Head(pending'[m])
                      IN  /\ fresh'[<<m, p.topic>>] = p.value
                          /\ \E x \in written' : x.key = <<m, p.topic>> /\ x.value = p.value
    BY DEF PendingIsFresh, WasWritten
  <2>1. CASE m = n
    <3>1. pending'[m] = <<[topic |-> t, value |-> v]>>
      BY <1>1, <1>2, <2>1 DEF QueuesTypeOK
    <3>2. Head(pending'[m]) = [topic |-> t, value |-> v]
      BY <3>1
    <3>3. WasWritten(<<n, t>>, v)'
      BY <1>1 DEF WasWritten
    <3> QED BY <1>1, <1>4, <2>1, <3>2, <3>3 DEF Key
  <2>2. CASE m # n
    <3>1. pending'[m] = pending[m]
      BY <1>1, <1>2, <2>2 DEF QueuesTypeOK
    <3> DEFINE key == <<m, Head(pending[m]).topic>>
    <3>2. key # <<n, t>>
      BY <2>2
    <3>3. fresh'[key] = fresh[key]
      BY <1>1, <1>4, <3>2
    <3>4. fresh[key] = Head(pending[m]).value /\ WasWritten(key, Head(pending[m]).value)
      BY <1>2, <3>1 DEF PendingIsFresh
    <3> QED BY <3>1, <3>3, <3>4 DEF WasWritten, Stays
  <2> QED BY <2>1, <2>2
<1>6. QueuesIssued'
  <2> SUFFICES ASSUME NEW m \in Node, NEW item \in Queued(m)'
               PROVE  ItemIssued(m, item)'
    BY DEF QueuesIssued
  <2>1. item \in Queued(m)
    BY <1>1 DEF Queued
  <2> QED BY <2>1, <1>2, QueuedAreItems, ItemStays DEF QueuesInv, QueuesIssued
<1>7. NetSound'
  BY <1>1, <1>2, DatagramStays DEF NetSound
<1> QED BY <1>3, <1>5, <1>6, <1>7 DEF QueuesInv

LEMMA PublishPushKeeps ==
  ASSUME MeshInv, Stays, NEW n \in Node, PublishPush(n)
  PROVE  QueuesInv' /\ NetSound'
<1> DEFINE p == Head(pending[n])
           item == [topic |-> p.topic, value |-> p.value,
                    lamport |-> regs[n][<<n, p.topic>>].lamport]
<1>1. /\ pending[n] # <<>>
      /\ ring' = [ring EXCEPT ![n] = Extended(ring[n], <<item>>)]
      /\ pending' = [pending EXCEPT ![n] = <<>>]
      /\ UNCHANGED <<fresh, batch, net>>
  <2>1. QueuesTypeOK
    BY DEF MeshInv
  <2> QED BY <2>1 DEF PublishPush, QueuesTypeOK, historyVars
<1>2. QueuesInv /\ QueuesTypeOK /\ PendingIsFresh /\ NetSound /\ P!HeldInv /\ StateTypeOK
  BY DEF MeshInv, QueuesInv
<1>3. p.topic \in Topic /\ p.value \in Value
  BY <1>1, <1>2 DEF QueuesTypeOK
<1>4. <<n, p.topic>> \in Key /\ Owner(<<n, p.topic>>) = n
  BY <1>3 DEF Key, Owner
<1>5. /\ fresh[<<n, p.topic>>] = p.value /\ p.value # NoValue
      /\ WasWritten(<<n, p.topic>>, p.value)
  BY <1>1, <1>2, <1>3, NoValueAssumption DEF PendingIsFresh
<1> HIDE DEF p
<1>6. /\ P!Issued(<<n, p.topic>>, Settled(p.value), regs[n][<<n, p.topic>>].lamport)
      /\ regs[n][<<n, p.topic>>].lamport \in 1..MaxClock
  BY <1>2, <1>4, <1>5, PendingIsIssued
<1>7. item \in Item /\ ItemIssued(n, item)
  BY <1>3, <1>5, <1>6 DEF Item, ItemIssued
<1> HIDE DEF item
<1>8. /\ Extended(ring[n], <<item>>) \in Seq(Item)
      /\ \A i \in 1..Len(Extended(ring[n], <<item>>)) :
            ItemIssued(n, Extended(ring[n], <<item>>)[i])
  <2> DEFINE G == {it \in Item : ItemIssued(n, it)}
  <2>1. ring[n] \in Seq(Item) /\ \A j \in 1..Len(ring[n]) : ItemIssued(n, ring[n][j])
    BY <1>2 DEF QueuesTypeOK, QueuesInv, QueuesIssued, Queued
  <2>2. \A j \in 1..Len(ring[n]) : ring[n][j] \in G
    BY <2>1
  <2>3. item \in G /\ G \subseteq Item
    BY <1>7
  <2>4. \A it \in G : ItemIssued(n, it)
    OBVIOUS
  <2> HIDE DEF G
  <2>5. ring[n] \in Seq(G)
    BY <2>1, <2>2
  <2>6. Extended(ring[n], <<item>>) \in Seq(G)
    BY <2>3, <2>5, ExtendedByOne, Zenon
  <2> DEFINE extended == Extended(ring[n], <<item>>)
  <2> HIDE DEF extended
  <2>7. extended \in Seq(G)
    BY <2>6 DEF extended
  <2>8. extended \in Seq(Item) /\ \A i \in 1..Len(extended) : ItemIssued(n, extended[i])
    BY <2>3, <2>4, <2>7
  <2> QED BY <2>8 DEF extended
<1>9. /\ batch[n] \in Seq(Job) /\ \A i \in 1..Len(batch[n]) : ItemIssued(n, batch[n][i].item)
      /\ batch' = [batch EXCEPT ![n] = batch[n]]
  BY <1>1, <1>2 DEF QueuesTypeOK, QueuesInv, QueuesIssued, Queued
<1>10. QueuesIssued' /\ ring' \in [Node -> Seq(Item)] /\ batch' \in [Node -> Seq(Job)]
  BY <1>1, <1>2, <1>8, <1>9, QueuesOfOneNode
<1>11. QueuesTypeOK' /\ PendingIsFresh'
  BY <1>1, <1>2, <1>10 DEF QueuesTypeOK, PendingIsFresh, WasWritten, Stays
<1>12. NetSound'
  BY <1>1, <1>2, DatagramStays DEF NetSound
<1> QED BY <1>10, <1>11, <1>12 DEF QueuesInv

LEMMA PopBatchKeeps ==
  ASSUME MeshInv, Stays, NEW n \in Node, PopBatch(n)
  PROVE  QueuesInv' /\ NetSound'
<1> DEFINE count == IF Len(ring[n]) < BatchSize THEN Len(ring[n]) ELSE BatchSize
           rest == SubSeq(ring[n], count + 1, Len(ring[n]))
           jobs == IF Peers(n) = {} THEN <<>>
                   ELSE [i \in 1..count |-> [item |-> ring[n][i], to |-> Peers(n)]]
<1>1. QueuesInv /\ QueuesTypeOK /\ PendingIsFresh /\ NetSound
  BY DEF MeshInv, QueuesInv
<1>2. /\ ring' = [ring EXCEPT ![n] = rest]
      /\ batch' = [batch EXCEPT ![n] = jobs]
      /\ UNCHANGED <<pending, fresh, net>>
  BY <1>1 DEF PopBatch, QueuesTypeOK, historyVars
<1>3. /\ ring[n] \in Seq(Item) /\ Len(ring[n]) \in Nat /\ Peers(n) \in SUBSET Node
      /\ \A i \in 1..Len(ring[n]) : ring[n][i] \in Item /\ ItemIssued(n, ring[n][i])
  BY <1>1 DEF QueuesTypeOK, QueuesInv, QueuesIssued, Queued, Peers
<1>4. count \in Nat /\ count <= Len(ring[n])
  BY <1>3, MeshAssumption
<1> HIDE DEF count
<1>5. /\ rest \in Seq(Item)
      /\ \A i \in 1..Len(rest) : count + i \in 1..Len(ring[n]) /\ rest[i] = ring[n][count + i]
  BY <1>3, <1>4
<1>6. \A i \in 1..Len(rest) : ItemIssued(n, rest[i])
  BY <1>3, <1>5
<1>7. jobs \in Seq(Job) /\ \A i \in 1..Len(jobs) : ItemIssued(n, jobs[i].item)
  <2>1. CASE Peers(n) = {}
    BY <2>1
  <2>2. CASE Peers(n) # {}
    <3> DEFINE all == [i \in 1..count |-> [item |-> ring[n][i], to |-> Peers(n)]]
    <3>1. \A i \in 1..count : all[i] \in Job /\ ItemIssued(n, all[i].item)
      BY <1>3, <1>4 DEF Job
    <3>2. all \in Seq(Job) /\ Len(all) = count
      BY <1>4, <3>1
    <3>3. jobs = all
      BY <2>2
    <3> HIDE DEF jobs, all
    <3> QED BY <3>1, <3>2, <3>3
  <2> QED BY <2>1, <2>2
<1> HIDE DEF rest, jobs
<1>8. QueuesIssued' /\ ring' \in [Node -> Seq(Item)] /\ batch' \in [Node -> Seq(Job)]
  BY <1>1, <1>2, <1>5, <1>6, <1>7, QueuesOfOneNode
<1>9. QueuesTypeOK' /\ PendingIsFresh'
  BY <1>1, <1>2, <1>8 DEF QueuesTypeOK, PendingIsFresh, WasWritten, Stays
<1>10. NetSound'
  BY <1>1, <1>2, DatagramStays DEF NetSound
<1> QED BY <1>8, <1>9, <1>10 DEF QueuesInv

(* The transmit batch of n gets shorter. *)
LEMMA BatchShrinks ==
  ASSUME MeshInv, Stays, NEW n \in Node, batch[n] # <<>>,
         \/ batch' = [batch EXCEPT ![n] = Tail(@)]
         \/ batch' = [batch EXCEPT ![n] = <<>>],
         UNCHANGED <<pending, ring, fresh>>
  PROVE  QueuesInv'
<1>1. QueuesInv /\ QueuesTypeOK /\ PendingIsFresh
  BY DEF MeshInv, QueuesInv
<1>2. /\ ring[n] \in Seq(Item) /\ batch[n] \in Seq(Job)
      /\ \A i \in 1..Len(ring[n]) : ItemIssued(n, ring[n][i])
      /\ \A i \in 1..Len(batch[n]) : ItemIssued(n, batch[n][i].item)
      /\ ring' = [ring EXCEPT ![n] = ring[n]]
  BY <1>1 DEF QueuesTypeOK, QueuesInv, QueuesIssued, Queued
<1>3. PICK jobs \in {Tail(batch[n]), <<>>} : batch' = [batch EXCEPT ![n] = jobs]
  BY <1>1 DEF QueuesTypeOK
<1>4. jobs \in Seq(Job) /\ \A i \in 1..Len(jobs) : ItemIssued(n, jobs[i].item)
  <2>1. CASE jobs = <<>>
    BY <2>1
  <2>2. CASE jobs = Tail(batch[n])
    <3>1. /\ Tail(batch[n]) \in Seq(Job)
          /\ \A i \in 1..Len(Tail(batch[n])) :
                i + 1 \in 1..Len(batch[n]) /\ Tail(batch[n])[i] = batch[n][i + 1]
      BY <1>2
    <3> QED BY <1>2, <2>2, <3>1
  <2> QED BY <2>1, <2>2
<1>5. QueuesIssued' /\ ring' \in [Node -> Seq(Item)] /\ batch' \in [Node -> Seq(Job)]
  BY <1>1, <1>2, <1>3, <1>4, QueuesOfOneNode
<1>6. QueuesTypeOK' /\ PendingIsFresh'
  BY <1>1, <1>5 DEF QueuesTypeOK, PendingIsFresh, WasWritten, Stays
<1> QED BY <1>5, <1>6 DEF QueuesInv

(* What is sent for an item: a record of its write, or a stray. *)
LEMMA SentIsSound ==
  ASSUME NEW n \in Node, NEW w \in Wall, NEW item \in Item, ItemIssued(n, item),
         Bare(item) => item.topic \in Pair
  PROVE  Sound(<<n, Sent(item).topic>>,
               [value |-> Sent(item).value, lamport |-> Sent(item).lamport, wall |-> w])
<1>1. w \in Nat
  BY MeshAssumption
<1>2. CASE Bare(item)
  <2> DEFINE u == Unpacked[item.topic]
             r == [value |-> u.value, lamport |-> 0, wall |-> w]
  <2>1. item.topic \in Pair /\ u.topic \in Topic /\ u.value \in Value
    BY <1>2, MeshAssumption
  <2>2. <<n, u.topic>> \in Key /\ r \in Slot
    BY <1>1, <2>1 DEF Key, Slot, Register
  <2>3. \E x \in written : x.key = <<n, item.topic>> /\ x.value \in Null
    BY <1>2 DEF Bare, ItemIssued, WasWritten
  <2>4. Stray(<<n, u.topic>>, r)
    BY <2>1, <2>3 DEF Stray, Owner
  <2>5. Sound(<<n, u.topic>>, r)
    BY <2>2, <2>4, MaxClockAssumption DEF Sound
  <2>6. Sent(item) = [topic |-> u.topic, value |-> u.value, lamport |-> 0]
    BY <1>2 DEF Sent
  <2> HIDE DEF u
  <2> QED BY <2>5, <2>6
<1>3. CASE ~ Bare(item)
  <2> DEFINE k == <<n, item.topic>>
             r == [value |-> item.value, lamport |-> item.lamport, wall |-> w]
  <2>1. k \in Key /\ r \in Slot /\ item.lamport \in 1..MaxClock
    BY <1>1, MaxClockAssumption DEF Key, Item, Slot, Register
  <2>2. P!Issued(k, Settled(item.value), item.lamport)
    BY DEF ItemIssued
  <2> DEFINE stored == [value |-> Settled(item.value), lamport |-> item.lamport, wall |-> w]
  <2>3. AsStored(r) = stored
    <3>1. r.lamport \notin {0, -1}
      BY <2>1
    <3>2. AsStored(r) = [value |-> Settled(r.value), lamport |-> r.lamport, wall |-> r.wall]
      <4> HIDE DEF r
      <4> QED BY <2>1, <3>1, AsStoredFacts
    <3> QED BY <3>2
  <2>4. stored \in P!Circulating(k)
    BY <2>2, SameAssumptions, P!IssuedCirculates
  <2>5. Sound(k, r)
    BY <2>1, <2>2, <2>3, <2>4 DEF Sound
  <2>6. Sent(item) = item
    BY <1>3 DEF Sent
  <2> QED BY <2>5, <2>6
<1> QED BY <1>2, <1>3

LEMMA TransmitKeeps ==
  ASSUME MeshInv, Stays, NEW n \in Node, NEW w \in Wall, Transmit(n, w)
  PROVE  QueuesInv' /\ NetSound'
<1> DEFINE job == Head(batch[n])
           sent == Sent(job.item)
           r == [value |-> sent.value, lamport |-> sent.lamport, wall |-> w]
           frame(m) == [kind |-> "telemetry", from |-> n, to |-> m, signer |-> KeyOf(n),
                        key |-> <<n, sent.topic>>, reg |-> r]
           frames == {frame(m) : m \in job.to}
<1>1. /\ batch[n] # <<>>
      /\ Carry(net, frames)
      /\ batch' = [batch EXCEPT ![n] = Tail(@)]
      /\ UNCHANGED <<pending, ring, fresh>>
      /\ Bare(job.item) => job.item.topic \in Pair
  BY DEF Transmit, historyVars
<1>2. QueuesTypeOK /\ QueuesIssued /\ NetSound
  BY DEF MeshInv
<1>3. batch[n] \in Seq(Job) /\ \A i \in 1..Len(batch[n]) : ItemIssued(n, batch[n][i].item)
  BY <1>2 DEF QueuesTypeOK, QueuesIssued, Queued
<1>4. job \in Job /\ ItemIssued(n, job.item)
  BY <1>1, <1>3
<1> HIDE DEF job
<1>5. job.item \in Item /\ job.to \subseteq Node
  BY <1>4 DEF Job
<1>6. Sound(<<n, sent.topic>>, r)
  BY <1>1, <1>4, <1>5, SentIsSound
<1> HIDE DEF sent
<1>7. \A d \in frames : DatagramSound(d)
  <2> SUFFICES ASSUME NEW m \in job.to PROVE DatagramSound(frame(m))
    OBVIOUS
  <2> HIDE DEF r
  <2> QED BY <1>5, <1>6 DEF DatagramSound
<1> HIDE DEF frames
<1>8. NetSound'
  BY <1>1, <1>2, <1>7, CarryKeepsSound
<1>9. QueuesInv'
  BY <1>1, BatchShrinks
<1> QED BY <1>8, <1>9

LEMMA SkipKeeps ==
  ASSUME MeshInv, Stays, NEW n \in Node, SkipItem(n) \/ TransmitFails(n)
  PROVE  QueuesInv' /\ NetSound'
<1>1. /\ batch[n] # <<>>
      /\ \/ batch' = [batch EXCEPT ![n] = Tail(@)]
         \/ batch' = [batch EXCEPT ![n] = <<>>]
      /\ UNCHANGED <<pending, ring, fresh, net>>
  BY DEF SkipItem, TransmitFails, historyVars
<1>2. QueuesInv'
  BY <1>1, BatchShrinks
<1>3. NetSound'
  BY <1>1, DatagramStays DEF NetSound, MeshInv
<1> QED BY <1>2, <1>3

(* A step of the anti-entropy or the receive thread: frames go out on top  *)
(* of what stays in flight, and the queues are left alone.                 *)
LEMMA SendingKeeps ==
  ASSUME MeshInv, Stays, NEW inFlight \in SUBSET net, NEW frames,
         \A d \in frames : DatagramSound(d), Carry(inFlight, frames),
         UNCHANGED <<pending, ring, batch, fresh>>
  PROVE  QueuesInv' /\ NetSound'
<1>1. QueuesInv /\ NetSound
  BY DEF MeshInv, QueuesInv
<1> QED BY <1>1, QueuesStay, CarryKeepsSound

LEMMA DigestSendKeeps ==
  ASSUME MeshInv, Stays, NEW n \in Node, DigestSend(n)
  PROVE  QueuesInv' /\ NetSound'
<1> DEFINE leaves == Leaves(snap[n], n)
           frames == {[kind |-> "digest", from |-> n, to |-> m, signer |-> KeyOf(n),
                      leaves |-> leaves] : m \in Peers(n)}
<1>1. Peers(n) \subseteq Node
  BY DEF Peers
<1>2. \A d \in frames : DatagramSound(d)
  <2> HIDE DEF leaves
  <2> QED BY <1>1 DEF DatagramSound
<1>3. PICK sent \in {frames, {}} : Carry(net, sent)
  BY DEF DigestSend
<1>4. UNCHANGED <<pending, ring, batch, fresh>>
  BY DEF DigestSend, egressVars, historyVars
<1> HIDE DEF frames
<1> QED BY <1>2, <1>3, <1>4, SendingKeeps

(* The answers to a digest and to a request hold what the replica holds. *)
LEMMA ResponseIsSound ==
  ASSUME P!HeldInv, StateTypeOK, StraysOnly, NEW n \in Node, NEW m \in Node, NEW keys, NEW key
  PROVE  DatagramSound([kind |-> "response", from |-> n, to |-> m, signer |-> key,
                        records |-> RegistersForKeys(n, keys)])
<1> DEFINE records == RegistersForKeys(n, keys)
<1>1. regs \in [Node -> [Key -> Slot]]
  BY DEF StateTypeOK
<1>2. /\ records \in Seq(Record)
      /\ \A i \in 1..Len(records) : /\ records[i].key \in HeldKeys(n)
                                    /\ records[i].reg = regs[n][records[i].key]
  BY <1>1, RecordsOfHeld
<1> HIDE DEF records
<1>3. \A i \in 1..Len(records) : Sound(records[i].key, records[i].reg)
  BY <1>2, HeldIsSound
<1> QED BY <1>2, <1>3 DEF DatagramSound, records

LEMMA ReceiveKeeps ==
  ASSUME MeshInv, Stays, NEW d \in net, NEW stays \in BOOLEAN, Receive(d, stays)
  PROVE  QueuesInv' /\ NetSound'
<1>1. /\ d.to \in Node /\ d.from \in Node /\ P!HeldInv /\ StateTypeOK /\ StraysOnly
  BY DEF MeshInv, NetSound, DatagramSound
<1>2. UNCHANGED <<pending, ring, batch, fresh>>
  BY DEF Receive, ReceiveTelemetry, HandleDigest, HandleRequest, HandleResponse,
         egressVars, historyVars
<1>3. (IF stays THEN net ELSE net \ {d}) \in SUBSET net
  OBVIOUS
<1>4. CASE Arrived(d, stays, {})
  BY <1>2, <1>3, <1>4, SendingKeeps DEF Arrived
<1>5. CASE HandleDigest(d, stays)
  <2>1. \A answer \in DigestReply(d.to, d) : DatagramSound(answer)
    <3> DEFINE divergent == Divergent(Leaves([k \in Key |-> regs[d.to][k].value], d.to), d.leaves)
               missing == divergent \cap LeafKeys(d.leaves)
               response == [kind |-> "response", from |-> d.to, to |-> d.from,
                            signer |-> KeyOf(d.to), records |-> RegistersForKeys(d.to, divergent)]
               request == [kind |-> "request", from |-> d.to, to |-> d.from,
                           signer |-> KeyOf(d.to), keys |-> missing]
    <3>1. DigestReply(d.to, d) \subseteq {response, request}
      BY DEF DigestReply
    <3>2. DatagramSound(response)
      <4> HIDE DEF divergent
      <4> QED BY <1>1, ResponseIsSound
    <3>3. DatagramSound(request)
      <4> HIDE DEF missing
      <4> QED BY <1>1 DEF DatagramSound
    <3> HIDE DEF response, request
    <3> QED BY <3>1, <3>2, <3>3
  <2>2. Arrived(d, stays, DigestReply(d.to, d))
    BY <1>5 DEF HandleDigest
  <2> QED BY <1>2, <1>3, <2>1, <2>2, SendingKeeps DEF Arrived
<1>6. CASE HandleRequest(d, stays)
  <2> DEFINE response == [kind |-> "response", from |-> d.to, to |-> d.from,
                          signer |-> KeyOf(d.to), records |-> RegistersForKeys(d.to, d.keys)]
  <2>1. DatagramSound(response)
    BY <1>1, ResponseIsSound
  <2>2. PICK frames \in {{}, {response}} : Arrived(d, stays, frames)
    BY <1>6 DEF HandleRequest
  <2>3. \A answer \in frames : DatagramSound(answer)
    BY <2>1
  <2> QED BY <1>2, <1>3, <2>2, <2>3, SendingKeeps DEF Arrived
<1>7. CASE ReceiveTelemetry(d, stays) \/ HandleResponse(d, stays)
  BY <1>4, <1>7 DEF ReceiveTelemetry, HandleResponse
<1> QED BY <1>5, <1>6, <1>7 DEF Receive

LEMMA RestartKeeps ==
  ASSUME MeshInv, Stays, NEW n \in Node, RestartNode(n)
  PROVE  QueuesInv' /\ NetSound'
<1>1. QueuesInv /\ QueuesTypeOK /\ PendingIsFresh /\ NetSound
  BY DEF MeshInv, QueuesInv
<1>2. /\ pending' = [pending EXCEPT ![n] = <<>>]
      /\ ring' = [ring EXCEPT ![n] = <<>>]
      /\ batch' = [batch EXCEPT ![n] = <<>>]
      /\ fresh' = [k \in Key |-> IF Owner(k) = n THEN NoValue ELSE fresh[k]]
      /\ net' = net
  BY DEF RestartNode
<1>3. /\ <<>> \in Seq(Item) /\ <<>> \in Seq(Job)
      /\ \A i \in 1..Len(<<>>) : ItemIssued(n, <<>>[i])
      /\ \A i \in 1..Len(<<>>) : ItemIssued(n, <<>>[i].item)
  OBVIOUS
<1>4. QueuesIssued' /\ ring' \in [Node -> Seq(Item)] /\ batch' \in [Node -> Seq(Job)]
  BY <1>1, <1>2, <1>3, QueuesOfOneNode
<1>5. QueuesTypeOK'
  BY <1>1, <1>2, <1>4 DEF QueuesTypeOK
<1>6. PendingIsFresh'
  <2> SUFFICES ASSUME NEW m \in Node, pending'[m] # <<>>
               PROVE  LET p == Head(pending'[m])
                      IN  /\ fresh'[<<m, p.topic>>] = p.value
                          /\ \E x \in written' : x.key = <<m, p.topic>> /\ x.value = p.value
    BY DEF PendingIsFresh, WasWritten
  <2>1. m # n /\ pending'[m] = pending[m]
    BY <1>1, <1>2 DEF QueuesTypeOK
  <2>2. <<m, Head(pending[m]).topic>> \in Key
    BY <1>1, <2>1 DEF QueuesTypeOK, Key
  <2>3. fresh'[<<m, Head(pending[m]).topic>>] = fresh[<<m, Head(pending[m]).topic>>]
    BY <1>2, <2>1, <2>2 DEF Owner
  <2> QED BY <1>1, <2>1, <2>3 DEF PendingIsFresh, WasWritten, Stays
<1>7. NetSound'
  BY <1>1, <1>2, DatagramStays DEF NetSound
<1> QED BY <1>4, <1>5, <1>6, <1>7 DEF QueuesInv

LEMMA QuietStepKeeps ==
  ASSUME MeshInv, Stays, UNCHANGED <<pending, ring, batch, fresh>>, net' \subseteq net
  PROVE  QueuesInv' /\ NetSound'
<1>1. QueuesInv /\ NetSound
  BY DEF MeshInv, QueuesInv
<1>2. NetSound'
  BY <1>1, DatagramStays DEF NetSound
<1> QED BY <1>1, <1>2, QueuesStay

LEMMA MeshStep == MeshInv /\ [MeshNext]_meshVars => MeshInv'
<1> SUFFICES ASSUME MeshInv, [MeshNext]_meshVars PROVE MeshInv'
  OBVIOUS
<1>1. P!HeldInv' /\ StateTypeOK' /\ StraysOnly' /\ Stays
  BY StoreStays
<1>2. CASE UNCHANGED meshVars
  BY <1>1, <1>2, QuietStepKeeps DEF meshVars, egressVars, historyVars, QueuesInv, MeshInv
<1>3. ASSUME NEW n \in Node, NEW t \in Topic, NEW v \in Value, NEW w \in Wall,
             PublishWrite(n, t, v, w)
      PROVE  MeshInv'
  BY <1>1, <1>3, PublishWriteKeeps DEF QueuesInv, MeshInv
<1>4. ASSUME NEW n \in Node, PublishPush(n)
      PROVE  MeshInv'
  BY <1>1, <1>4, PublishPushKeeps DEF QueuesInv, MeshInv
<1>5. ASSUME NEW n \in Node, TxStep(n)
      PROVE  MeshInv'
  <2>1. CASE PopBatch(n)
    BY <1>1, <2>1, PopBatchKeeps DEF QueuesInv, MeshInv
  <2>2. ASSUME NEW w \in Wall, Transmit(n, w) PROVE MeshInv'
    BY <1>1, <2>2, TransmitKeeps DEF QueuesInv, MeshInv
  <2>3. CASE SkipItem(n) \/ TransmitFails(n)
    BY <1>1, <2>3, SkipKeeps DEF QueuesInv, MeshInv
  <2> QED BY <1>5, <2>1, <2>2, <2>3 DEF TxStep
<1>6. ASSUME NEW n \in Node, AeStep(n)
      PROVE  MeshInv'
  <2>1. CASE DigestBegin(n)
    <3>1. UNCHANGED <<pending, ring, batch, fresh>> /\ net' \subseteq net
      BY <2>1 DEF DigestBegin, egressVars, historyVars
    <3> QED BY <1>1, <3>1, QuietStepKeeps DEF QueuesInv, MeshInv
  <2>2. CASE DigestSend(n)
    BY <1>1, <2>2, DigestSendKeeps DEF QueuesInv, MeshInv
  <2> QED BY <1>6, <2>1, <2>2 DEF AeStep
<1>7. ASSUME NEW n \in Node, RestartNode(n)
      PROVE  MeshInv'
  BY <1>1, <1>7, RestartKeeps DEF QueuesInv, MeshInv
<1>8. ASSUME NEW n \in Node, NEW m \in Node, PeerFound(n, m)
      PROVE  MeshInv'
  <2>1. UNCHANGED <<pending, ring, batch, fresh>> /\ net' \subseteq net
    BY <1>8 DEF PeerFound, egressVars, historyVars
  <2> QED BY <1>1, <2>1, QuietStepKeeps DEF QueuesInv, MeshInv
<1>9. ASSUME NEW d \in net, NEW stays \in BOOLEAN, Receive(d, stays)
      PROVE  MeshInv'
  BY <1>1, <1>9, ReceiveKeeps DEF QueuesInv, MeshInv
<1>10. ASSUME NEW d \in net, Lose(d)
       PROVE  MeshInv'
  <2>1. UNCHANGED <<pending, ring, batch, fresh>> /\ net' \subseteq net
    BY <1>10 DEF Lose, egressVars, historyVars
  <2> QED BY <1>1, <2>1, QuietStepKeeps DEF QueuesInv, MeshInv
<1> QED BY <1>2, <1>3, <1>4, <1>5, <1>6, <1>7, <1>8, <1>9, <1>10 DEF MeshNext

LEMMA MeshStart == MeshInit => P!Init /\ MeshInv
<1> SUFFICES ASSUME MeshInit PROVE P!Init /\ MeshInv
  OBVIOUS
<1>1. P!Init
  <2>1. AsStored(Unwritten) = Unwritten
    BY AsStoredFacts DEF Slot, Unwritten
  <2>2. /\ regs = [n \in Node |-> Empty] /\ clock = [n \in Node |-> 0]
        /\ written = {} /\ fresh = [k \in Key |-> NoValue] /\ restarts = [n \in Node |-> 0]
    BY DEF MeshInit, StoreInit
  <2>3. StoredRegs = [n \in Node |-> Empty]
    BY <2>1, <2>2 DEF StoredRegs, Empty
  <2>4. StoredWrites = {} /\ StoredFresh = [k \in Key |-> NoValue]
    BY <2>2, SettledFacts DEF StoredWrites, StoredFresh
  <2> QED BY <2>2, <2>3, <2>4, SameOperators DEF P!Init, P!StoreInit
<1>2. P!HeldInv
  BY <1>1, SameAssumptions, P!HeldInit
<1>3. QueuesTypeOK /\ PendingIsFresh
  BY DEF MeshInit, QueuesTypeOK, PendingIsFresh
<1>4. QueuesIssued
  BY DEF MeshInit, QueuesIssued, Queued
<1>5. NetSound
  BY DEF MeshInit, NetSound
<1>6. StateTypeOK /\ StraysOnly
  BY DEF MeshInit, StoreInit, StateTypeOK, StraysOnly, Empty, Slot, Unwritten
<1> QED BY <1>1, <1>2, <1>3, <1>4, <1>5, <1>6 DEF MeshInv

-----------------------------------------------------------------------------
(* The inductive invariant of the data plane: queues, frames and replicas  *)
(* hold only writes that their owners issued, or strays under time 0.      *)
THEOREM MeshInvariant == MeshSpec => []MeshInv
<1>1. MeshInv /\ [MeshNext]_meshVars => MeshInv'
  BY MeshStep
<1> QED BY <1>1, MeshStart, PTL DEF MeshSpec

(* The data plane implements the CRDT store: through the ring, the threads *)
(* and a lossy, duplicating and reordering network, restarts included, a   *)
(* node only writes its own keys or merges records that circulate; what    *)
(* bare topics are taken for never outlives a write.                       *)
THEOREM ImplementsStoreHolds == MeshSpec => ImplementsStore
<1>1. P!Init => Store!Init
  BY DEF P!Init, P!StoreInit, Store!Init, Store!StoreInit, P!Key, Store!Key, P!Empty,
         Store!Empty, P!Unwritten, Store!Unwritten
<1>2. P!Next => Store!Next
  <2>1. /\ Store!Key = Key /\ Store!Empty = Empty
        /\ \A r, s : Store!Merge(r, s) = Merge(r, s)
    BY DEF Key, Store!Key, Empty, Store!Empty, Unwritten, Store!Unwritten, Merge, Store!Merge,
           Newer, Store!Newer
  <2>2. \A k : P!Circulating(k) = Store!Circulating(k)
    BY DEF P!Circulating, Store!Circulating, P!Paired, Store!Paired, P!Owner, Store!Owner,
           P!Unwritten, Store!Unwritten
  <2>3. P!Batches = Store!Batches
    <3>1. P!WrittenKeys = Store!WrittenKeys /\ P!Unwritten = Store!Unwritten /\ P!Key = Store!Key
      BY <2>1, SameOperators DEF P!WrittenKeys, Store!WrittenKeys, P!Unwritten, Store!Unwritten
    <3>2. UNION {P!Circulating(k) : k \in P!WrittenKeys} = UNION {Store!Circulating(k) : k \in P!WrittenKeys}
      BY <2>2
    <3> DEFINE Spread(K, U, W, R) == {[k \in K |-> IF k \in W THEN f[k] ELSE U] : f \in [W -> R]}
    <3>3. P!Batches = Spread(P!Key, P!Unwritten, P!WrittenKeys,
                             UNION {P!Circulating(k) : k \in P!WrittenKeys})
      BY DEF P!Batches
    <3>4. Store!Batches = Spread(Store!Key, Store!Unwritten, Store!WrittenKeys,
                                 UNION {Store!Circulating(k) : k \in Store!WrittenKeys})
      BY DEF Store!Batches
    <3> HIDE DEF Spread
    <3> QED BY <3>1, <3>2, <3>3, <3>4
  <2>4. ASSUME NEW n \in Node, NEW t \in Topic, NEW v \in Value, NEW w \in Wall,
               P!Publish(n, t, v, w)
        PROVE  Store!Publish(n, t, v, w)
    BY <2>4 DEF P!Publish, P!UpdateLocal, Store!Publish, Store!UpdateLocal
  <2>5. ASSUME NEW n \in Node, NEW b, NEW c, P!Absorb(n, b, c)
        PROVE  Store!Absorb(n, b, c)
    BY <2>1, <2>2, <2>5, SameOperators DEF P!Absorb, Store!Absorb
  <2>6. ASSUME NEW n \in Node, P!Restart(n)
        PROVE  Store!Restart(n)
    BY <2>1, <2>6, SameOperators
       DEF P!Restart, P!Forget, Store!Restart, Store!Forget, Owner, Store!Owner
  <2> QED BY <2>3, <2>4, <2>5, <2>6 DEF P!Next, Store!Next
<1>3. MeshInv /\ [MeshNext]_meshVars => [Store!Next]_(Store!storeVars)
  BY <1>2, StoreStep DEF P!storeVars, Store!storeVars
<1>4. MeshInit => Store!Init
  BY <1>1, MeshStart
<1> QED BY <1>3, <1>4, MeshInvariant, PTL DEF MeshSpec, ImplementsStore, Store!Spec

(* What waits in a ring or a transmit batch, and what flies in a telemetry *)
(* frame or a repair response, is under the time update_local gave it, or  *)
(* is a stray, under time 0.                                               *)
THEOREM NothingMispairedHolds == MeshSpec => []NothingMispaired
<1>1. MeshInv => NothingMispaired
  <2> SUFFICES ASSUME MeshInv PROVE NothingMispaired
    OBVIOUS
  <2>1. P!StoreTypeOK /\ StateTypeOK
    BY HeldFacts DEF MeshInv
  <2>2. ASSUME NEW k \in Key, NEW v, NEW l, P!Issued(k, Settled(v), l)
        PROVE  Genuine(k, v, l)
    <3> SUFFICES ASSUME restarts[Owner(k)] = 0
                 PROVE  \E x \in written : /\ x.key = k /\ x.lamport = l
                                           /\ Settled(x.value) = Settled(v)
      BY DEF Genuine
    <3> DEFINE r == [value |-> Settled(v), lamport |-> l]
    <3>1. P!Issued(k, r.value, r.lamport) /\ restarts[P!Owner(k)] = 0
      BY <2>2, SameOperators
    <3> HIDE DEF r
    <3>2. P!WriteOf(k, r) \in StoredWrites
      BY <2>1, <3>1, SameAssumptions, P!IssuedWrite
    <3>3. PICK x \in written : P!WriteOf(k, r) = [x EXCEPT !.value = Settled(@)]
      BY <3>2 DEF StoredWrites
    <3>4. x \in [key : Key, value : Value, lamport : Nat]
      BY <2>1 DEF StateTypeOK
    <3>5. P!WriteOf(k, r).key = x.key /\ P!WriteOf(k, r).lamport = x.lamport
          /\ P!WriteOf(k, r).value = Settled(x.value)
      BY <3>3, <3>4
    <3> QED BY <3>5 DEF P!WriteOf, r
  <2>3. ASSUME NEW n \in Node, NEW item \in Queued(n)
        PROVE  Genuine(<<n, item.topic>>, item.value, item.lamport)
    <3>1. item \in Item /\ ItemIssued(n, item)
      BY <2>3, QueuedAreItems DEF MeshInv, QueuesIssued
    <3>2. <<n, item.topic>> \in Key
      BY <3>1 DEF Item, Key
    <3> QED BY <2>2, <3>1, <3>2 DEF ItemIssued
  <2>4. ASSUME NEW n \in Node, NEW item \in Range(ring[n]) \cup {p.item : p \in Range(batch[n])}
        PROVE  item \in Queued(n)
    <3>1. ring[n] \in Seq(Item) /\ batch[n] \in Seq(Job)
      BY DEF MeshInv, QueuesTypeOK
    <3> QED BY <3>1 DEF Range, Queued
  <2>5. ASSUME NEW key, NEW reg, Sound(key, reg)
        PROVE  Genuine(key, reg.value, reg.lamport) \/ Stray(key, reg)
    BY <2>2, <2>5 DEF Sound
  <2>6. ASSUME NEW d \in net, NEW rec \in Records(d)
        PROVE  Sound(rec.key, rec.reg)
    <3>1. DatagramSound(d)
      BY DEF MeshInv, NetSound
    <3>2. CASE d.kind = "telemetry"
      <4>1. rec = [key |-> d.key, reg |-> d.reg]
        BY <3>2 DEF Records
      <4>2. Sound(d.key, d.reg)
        BY <3>1, <3>2 DEF DatagramSound
      <4> QED BY <4>1, <4>2
    <3>3. CASE d.kind = "response"
      <4>1. rec \in Range(d.records)
        BY <3>3 DEF Records
      <4>2. d.records \in Seq(Record)
        BY <3>1, <3>3 DEF DatagramSound
      <4>3. PICK i \in 1..Len(d.records) : rec = d.records[i]
        BY <4>1, <4>2 DEF Range
      <4> QED BY <3>1, <3>3, <4>3 DEF DatagramSound
    <3>4. CASE d.kind # "telemetry" /\ d.kind # "response"
      BY <3>4 DEF Records
    <3> QED BY <3>2, <3>3, <3>4
  <2> QED BY <2>3, <2>4, <2>5, <2>6 DEF NothingMispaired
<1> QED BY <1>1, MeshInvariant, PTL

(* A publisher that never restarted reads its own last publish, or what    *)
(* JSON makes of it.                                                       *)
THEOREM MeshReadYourWritesHolds == MeshSpec => []MeshReadYourWrites
<1>1. MeshInv => MeshReadYourWrites
  <2> SUFFICES ASSUME MeshInv, NEW k \in Key, restarts[Owner(k)] = 0, StoredFresh[k] # NoValue
               PROVE  StoredRegs[Owner(k)][k].value = StoredFresh[k]
    BY DEF MeshReadYourWrites, Store!ReadYourWrites, Store!Key, Store!Owner, Key, Owner
  <2>1. Owner(k) \in Node
    BY DEF Key, Owner
  <2> QED BY <2>1, HeldFacts, StoredAt DEF MeshInv
<1> QED BY <1>1, MeshInvariant, PTL
=============================================================================
