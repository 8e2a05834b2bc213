----------------------- MODULE ReplicatedStoreProofs -----------------------
(***************************************************************************)
(* The CRDT store for every set of nodes, topics and values, every set of  *)
(* wall times and every bound: the algebra of Merge, the safety properties *)
(* of ReplicatedStore, and the strong eventual consistency of StoreHistory. *)
(*                                                                         *)
(* None of SameStampSameValue, OwnerAhead and ReadYourWrites is inductive: *)
(* a merge may bring any write ever issued, so one has to know of all      *)
(* writes, held or not, that a running owner's clock and register are      *)
(* ahead of them (OwnerCoversWrites) and that no two of them share a       *)
(* Lamport time (OneWritePerStamp).                                        *)
(***************************************************************************)
EXTENDS StoreHistory, TLAPS

(* The stamp order is a strict total order on stamps. *)
LEMMA NewerIsStrictTotal ==
  ASSUME NEW r \in Slot, NEW s \in Slot, NEW u \in Slot
  PROVE  /\ ~ Newer(r, r)
         /\ Newer(r, s) => ~ Newer(s, r)
         /\ Newer(r, s) /\ Newer(s, u) => Newer(r, u)
         /\ Newer(r, s) \/ Newer(s, r) \/ SameStamp(r, s)
BY DEF Slot, Register, Unwritten, Newer, SameStamp

(* A merge returns one of its arguments, and neither is newer than it. *)
LEMMA MergeIsUpperBound ==
  ASSUME NEW r \in Slot, NEW s \in Slot
  PROVE  /\ Merge(r, s) \in {r, s}
         /\ Merge(r, s) \in Slot
         /\ ~ Newer(r, Merge(r, s))
         /\ ~ Newer(s, Merge(r, s))
         /\ Merge(r, s).lamport >= r.lamport
         /\ Merge(r, s).lamport >= s.lamport
BY DEF Slot, Register, Unwritten, Newer, Merge

(* A key that is not held takes whatever arrives, as merge_remote's        *)
(* "topic not in node_topics" branch does, and never overwrites a register. *)
LEMMA UnwrittenIsBottom ==
  ASSUME NEW r \in Slot
  PROVE  Merge(Unwritten, r) = r /\ Merge(r, Unwritten) = r
BY DEF Slot, Register, Unwritten, Newer, Merge

(* Merging a register that was merged before changes nothing: a duplicated *)
(* telemetry frame or repair response is harmless to the register.         *)
THEOREM MergeIdempotent ==
  ASSUME NEW r \in Slot, NEW s \in Slot
  PROVE  Merge(Merge(r, s), s) = Merge(r, s)
BY DEF Slot, Register, Unwritten, Newer, Merge

(* The grouping of merges is irrelevant: a register relayed by a third     *)
(* replica, merged there first, has the effect of a direct delivery.       *)
THEOREM MergeAssociative ==
  ASSUME NEW r \in Slot, NEW s \in Slot, NEW u \in Slot
  PROVE  Merge(Merge(r, s), u) = Merge(r, Merge(s, u))
<1>1. CASE Newer(s, r)
  <2>1. CASE Newer(u, s)
    BY <1>1, <2>1, NewerIsStrictTotal DEF Merge
  <2>2. CASE ~ Newer(u, s)
    BY <1>1, <2>2 DEF Merge
  <2> QED BY <2>1, <2>2
<1>2. CASE ~ Newer(s, r)
  <2>1. CASE Newer(u, s)
    BY <1>2, <2>1 DEF Merge
  <2>2. CASE ~ Newer(u, s)
    <3>1. ~ Newer(u, r)
      BY <1>2, <2>2 DEF Slot, Register, Unwritten, Newer
    <3> QED BY <1>2, <2>2, <3>1 DEF Merge
  <2> QED BY <2>1, <2>2
<1> QED BY <1>1, <1>2

(* The order of two merges is irrelevant to the value unless two different *)
(* values carry one stamp; then the register that arrived first stays, and *)
(* replicas that met them in different orders disagree for good.           *)
THEOREM MergeCommutative ==
  ASSUME NEW r \in Slot, NEW s \in Slot,
         SameStamp(r, s) => r.value = s.value
  PROVE  Merge(r, s) = Merge(s, r)
<1>1. CASE SameStamp(r, s)
  <2>1. r = s
    BY <1>1 DEF Slot, Register, Unwritten, SameStamp
  <2> QED BY <2>1
<1>2. CASE ~ SameStamp(r, s)
  BY <1>2, NewerIsStrictTotal DEF Merge
<1> QED BY <1>1, <1>2

(* The converse: under one stamp the merge keeps what it holds. *)
THEOREM TiesKeepTheFirst ==
  ASSUME NEW r \in Slot, NEW s \in Slot, SameStamp(r, s)
  PROVE  Merge(r, s) = r /\ Merge(s, r) = s
BY NewerIsStrictTotal DEF Merge, SameStamp, Newer, Slot, Register, Unwritten

-----------------------------------------------------------------------------
OwnerCoversWrites ==
    \A x \in written : restarts[Owner(x.key)] = 0 =>
        /\ x.lamport <= clock[Owner(x.key)]
        /\ x.lamport <= regs[Owner(x.key)][x.key].lamport

OneWritePerStamp ==
    \A x, y \in written :
        /\ restarts[Owner(x.key)] = 0
        /\ x.key = y.key
        /\ x.lamport = y.lamport
        => x = y

StoreInv ==
    /\ StoreTypeOK
    /\ ClockDominates
    /\ NoInvention
    /\ OwnerCoversWrites
    /\ OneWritePerStamp
    /\ ReadYourWrites

LEMMA PairedWrites ==
  ASSUME NEW k, NEW p
  PROVE  p \in Paired(k) <=> /\ p \in written \X written /\ p[1].key = k /\ p[2].key = k
                             /\ restarts[Owner(k)] = 0 => p[1] = p[2]
BY DEF Paired

(* Every write is issued, and what is issued stays so. *)
LEMMA WriteIsIssued ==
  ASSUME NEW x \in written
  PROVE  Issued(x.key, x.value, x.lamport)
<1>1. <<x, x>> \in Paired(x.key) /\ <<x, x>>[1] = x /\ <<x, x>>[2] = x
  BY PairedWrites
<1> QED BY <1>1 DEF Issued

LEMMA IssuedStays ==
  ASSUME NEW k \in Key, NEW v, NEW l, Issued(k, v, l), written \subseteq written',
         restarts'[Owner(k)] = 0 => restarts[Owner(k)] = 0
  PROVE  Issued(k, v, l)'
<1>1. PICK p \in Paired(k) : p[1].value = v /\ p[2].lamport = l
  BY DEF Issued
<1>2. p \in Paired(k)'
  BY <1>1 DEF Paired, Owner
<1> QED BY <1>1, <1>2 DEF Issued

(* While the owner keeps running, a record is one of its writes. *)
LEMMA IssuedWrite ==
  ASSUME StoreTypeOK, NEW k, NEW r, Issued(k, r.value, r.lamport), restarts[Owner(k)] = 0
  PROVE  WriteOf(k, r) \in written
<1>1. PICK p \in Paired(k) : p[1].value = r.value /\ p[2].lamport = r.lamport
  BY DEF Issued
<1>2. p[1] \in written /\ p[2] = p[1] /\ p[1].key = k
  BY <1>1, PairedWrites
<1>3. p[1] \in Write
  BY <1>2 DEF StoreTypeOK
<1>4. p[1] = WriteOf(k, r)
  BY <1>1, <1>2, <1>3 DEF Write, WriteOf
<1> QED BY <1>2, <1>4

(* A record that circulates is the absent one, or one that was issued. *)
LEMMA CirculatingIsSlot ==
  ASSUME StoreTypeOK, NEW k \in Key, NEW r \in Circulating(k)
  PROVE  /\ r \in Slot
         /\ r = Unwritten \/ (Issued(k, r.value, r.lamport) /\ WriteOf(k, r) \in Write)
<1>1. CASE r = Unwritten
  BY <1>1 DEF Slot
<1>2. CASE r # Unwritten
  <2>1. PICK p \in Paired(k), w \in Wall :
           r = [value |-> p[1].value, lamport |-> p[2].lamport, wall |-> w]
    BY <1>2 DEF Circulating
  <2>2. p[1] \in Write /\ p[2] \in Write /\ w \in Nat
    BY <2>1, PairedWrites, StoreAssumption DEF StoreTypeOK
  <2>3. r \in Register /\ r.value = p[1].value /\ r.lamport = p[2].lamport
    BY <2>1, <2>2, MaxClockAssumption DEF Register, Write
  <2>4. WriteOf(k, r) \in Write
    BY <2>2, <2>3 DEF WriteOf, Write
  <2> QED BY <2>1, <2>3, <2>4 DEF Slot, Issued
<1> QED BY <1>1, <1>2

LEMMA SlotLamport == \A r \in Slot : r.lamport \in Int
BY DEF Slot, Register, Unwritten

LEMMA KeyHasOwner == \A k \in Key : Owner(k) \in Node
BY DEF Key, Owner

LEMMA EmptyIsEmpty == Empty \in [Key -> Slot] /\ \A k \in Key : Empty[k] = Unwritten
BY DEF Empty, Slot

LEMMA InitStoreInv == Init => StoreInv
<1> SUFFICES ASSUME Init PROVE StoreInv
  OBVIOUS
<1>1. StoreTypeOK
  BY EmptyIsEmpty, StoreAssumption, MaxClockAssumption DEF Init, StoreInit, StoreTypeOK
<1>2. ClockDominates
  BY EmptyIsEmpty DEF Init, StoreInit, ClockDominates, Unwritten
<1>3. NoInvention
  BY EmptyIsEmpty DEF Init, StoreInit, NoInvention
<1>4. OwnerCoversWrites /\ OneWritePerStamp
  BY DEF Init, StoreInit, OwnerCoversWrites, OneWritePerStamp
<1>5. ReadYourWrites
  BY KeyHasOwner DEF Init, StoreInit, ReadYourWrites
<1> QED BY <1>1, <1>2, <1>3, <1>4, <1>5 DEF StoreInv

(* A local write: the clock it takes is above every stamp in sight. *)
LEMMA PublishKeepsInv ==
  ASSUME StoreInv, NEW n \in Node, NEW t \in Topic, NEW v \in Value, NEW w \in Wall,
         Publish(n, t, v, w)
  PROVE  StoreInv'
<1> DEFINE K == <<n, t>>
           R == [value |-> v, lamport |-> clock[n] + 1, wall |-> w]
           X == WriteOf(K, R)
<1> USE StoreAssumption, MaxClockAssumption
<1>1. K \in Key /\ Owner(K) = n
  BY DEF Key, Owner
<1>2. clock[n] \in 0..MaxClock /\ clock[n] + 1 \in 0..MaxClock
  BY DEF StoreInv, StoreTypeOK, Publish, UpdateLocal
<1>3. R \in Register /\ R \in Slot
  BY <1>2 DEF Register, Slot
<1>4. X \in Write /\ X.key = K /\ X.lamport = clock[n] + 1 /\ X.value = v
  BY <1>1, <1>2 DEF Write, WriteOf
<1>5. /\ regs' = [regs EXCEPT ![n] = [regs[n] EXCEPT ![K] = R]]
      /\ clock' = [clock EXCEPT ![n] = clock[n] + 1]
      /\ written' = written \cup {X}
      /\ fresh' = [fresh EXCEPT ![K] = v]
      /\ restarts' = restarts
  BY DEF Publish, UpdateLocal, WriteOf
<1>6. regs[n] \in [Key -> Slot]
  BY DEF StoreInv, StoreTypeOK
<1>7. regs'[n][K] = R /\ \A m \in Node, k \in Key : ~(m = n /\ k = K) => regs'[m][k] = regs[m][k]
  BY <1>1, <1>5, <1>6 DEF StoreInv, StoreTypeOK
<1>8. clock'[n] = clock[n] + 1 /\ \A m \in Node \ {n} : clock'[m] = clock[m]
  BY <1>5 DEF StoreInv, StoreTypeOK
<1> HIDE DEF K, R, X
<1>9. StoreTypeOK'
  BY <1>1, <1>2, <1>3, <1>4, <1>5, <1>6 DEF StoreInv, StoreTypeOK
<1>10. R.lamport = clock[n] + 1 /\ R.value = v
  BY DEF R
<1>11. ClockDominates'
  <2> SUFFICES ASSUME NEW m \in Node, NEW k \in Key
               PROVE  regs'[m][k].lamport <= clock'[m]
    BY DEF ClockDominates
  <2>1. regs[m][k].lamport <= clock[m]
    BY DEF StoreInv, ClockDominates
  <2>2. clock[m] \in Int /\ regs[m][k] \in Slot /\ regs[m][k].lamport \in Int
    BY DEF StoreInv, StoreTypeOK, Slot, Register, Unwritten
  <2> QED BY <2>1, <2>2, <1>7, <1>8, <1>10
<1>12. NoInvention'
  <2> SUFFICES ASSUME NEW m \in Node, NEW k \in Key
               PROVE  regs'[m][k] = Unwritten
                      \/ Issued(k, regs[m][k].value, regs[m][k].lamport)'
    BY DEF NoInvention
  <2>1. CASE m = n /\ k = K
    <3>1. X \in written' /\ regs'[m][k].value = X.value /\ regs'[m][k].lamport = X.lamport
      BY <2>1, <1>4, <1>5, <1>7, <1>10
    <3>2. \A x \in written' : <<x, x>> \in written' \X written' /\ <<x, x>>[1] = x /\ <<x, x>>[2] = x
      OBVIOUS
    <3> QED BY <2>1, <3>1, <3>2, <1>4 DEF Issued, Paired
  <2>2. CASE ~(m = n /\ k = K)
    <3>1. regs'[m][k] = regs[m][k] /\ written \subseteq written' /\ restarts' = restarts
      BY <2>2, <1>5, <1>7
    <3>2. regs[m][k] = Unwritten \/ Issued(k, regs[m][k].value, regs[m][k].lamport)
      BY DEF StoreInv, NoInvention
    <3> QED BY <3>1, <3>2, IssuedStays
  <2> QED BY <2>1, <2>2
<1>13. \A x \in written : restarts[Owner(x.key)] = 0 => x.lamport <= clock[Owner(x.key)]
  BY DEF StoreInv, OwnerCoversWrites
<1>14. OwnerCoversWrites'
  <2> SUFFICES ASSUME NEW x \in written', restarts[Owner(x.key)] = 0
               PROVE  /\ x.lamport <= clock'[Owner(x.key)]
                      /\ x.lamport <= regs'[Owner(x.key)][x.key].lamport
    BY <1>5 DEF OwnerCoversWrites
  <2>1. CASE x = X
    BY <2>1, <1>1, <1>2, <1>4, <1>7, <1>8, <1>10
  <2>2. CASE x \in written
    <3>1. x.key \in Key /\ Owner(x.key) \in Node /\ x.lamport \in Nat
      BY <2>2, KeyHasOwner DEF StoreInv, StoreTypeOK, Write
    <3>2. /\ x.lamport <= clock[Owner(x.key)]
          /\ x.lamport <= regs[Owner(x.key)][x.key].lamport
      BY <2>2 DEF StoreInv, OwnerCoversWrites
    <3>3. clock[Owner(x.key)] \in Int
      BY <3>1 DEF StoreInv, StoreTypeOK
    <3>4. x.lamport <= clock'[Owner(x.key)]
      BY <3>1, <3>2, <3>3, <1>8
    <3>5. CASE x.key = K
      BY <3>1, <3>2, <3>5, <1>1, <1>2, <1>7, <1>8, <1>10
    <3>6. CASE x.key # K
      BY <3>1, <3>2, <3>4, <3>6, <1>7
    <3> QED BY <3>4, <3>5, <3>6
  <2> QED BY <2>1, <2>2, <1>5
<1>15. OneWritePerStamp'
  <2> SUFFICES ASSUME NEW x \in written', NEW y \in written',
                      restarts[Owner(x.key)] = 0, x.key = y.key, x.lamport = y.lamport
               PROVE  x = y
    BY <1>5 DEF OneWritePerStamp
  <2>1. \A z \in written : z.key = K /\ restarts[n] = 0 => z.lamport # X.lamport
    BY <1>1, <1>2, <1>4, <1>13 DEF StoreInv, StoreTypeOK, Write
  <2>2. CASE x \in written /\ y \in written
    BY <2>2 DEF StoreInv, OneWritePerStamp
  <2>3. CASE x = X \/ y = X
    BY <2>1, <2>3, <1>1, <1>4, <1>5
  <2> QED BY <2>2, <2>3, <1>5
<1>16. ReadYourWrites'
  <2> SUFFICES ASSUME NEW k \in Key, restarts[Owner(k)] = 0, fresh'[k] # NoValue
               PROVE  regs'[Owner(k)][k].value = fresh'[k]
    BY <1>5 DEF ReadYourWrites
  <2>1. CASE k = K
    <3>1. fresh'[K] = v
      BY <1>1, <1>5 DEF StoreInv, StoreTypeOK
    <3> QED BY <2>1, <3>1, <1>1, <1>7, <1>10
  <2>2. CASE k # K
    <3>1. fresh'[k] = fresh[k]
      BY <2>2, <1>5 DEF StoreInv, StoreTypeOK
    <3>2. regs'[Owner(k)][k] = regs[Owner(k)][k]
      BY <2>2, <1>7, KeyHasOwner
    <3> QED BY <3>1, <3>2 DEF StoreInv, ReadYourWrites
  <2> QED BY <2>1, <2>2
<1> QED BY <1>9, <1>11, <1>12, <1>14, <1>15, <1>16 DEF StoreInv

(* A merge of any genuine records, at whatever moment and however often. *)
LEMMA AbsorbKeepsInv ==
  ASSUME StoreInv, NEW n \in Node, NEW batch, NEW c \in 0..MaxClock, Absorb(n, batch, c)
  PROVE  StoreInv'
<1> USE StoreAssumption, MaxClockAssumption
<1>1. StoreTypeOK
  BY DEF StoreInv
<1>2. /\ regs' = [regs EXCEPT ![n] = [k \in Key |-> Merge(regs[n][k], batch[k])]]
      /\ clock' = [clock EXCEPT ![n] = c]
      /\ written' = written /\ fresh' = fresh /\ restarts' = restarts
  BY DEF Absorb
<1>3. /\ c >= clock[n]
      /\ \A k \in Key : c >= batch[k].lamport
  BY DEF Absorb
<1>4. \A k \in Key : /\ batch[k] \in Slot
                     /\ batch[k] = Unwritten \/ Issued(k, batch[k].value, batch[k].lamport)
  BY <1>1, CirculatingIsSlot DEF Absorb
<1>5. \A m \in Node, k \in Key : regs[m][k] \in Slot
  BY <1>1 DEF StoreTypeOK
<1>6. \A k \in Key : regs'[n][k] = Merge(regs[n][k], batch[k])
  BY <1>1, <1>2 DEF StoreTypeOK
<1>7. \A m \in Node \ {n} : regs'[m] = regs[m] /\ clock'[m] = clock[m]
  BY <1>1, <1>2 DEF StoreTypeOK
<1>8. clock'[n] = c
  BY <1>1, <1>2 DEF StoreTypeOK
<1>9. \A k \in Key : /\ regs'[n][k] \in {regs[n][k], batch[k]}
                     /\ regs'[n][k] \in Slot
                     /\ regs'[n][k].lamport >= regs[n][k].lamport
  <2> SUFFICES ASSUME NEW k \in Key
               PROVE  /\ Merge(regs[n][k], batch[k]) \in {regs[n][k], batch[k]}
                      /\ Merge(regs[n][k], batch[k]) \in Slot
                      /\ Merge(regs[n][k], batch[k]).lamport >= regs[n][k].lamport
    BY <1>6
  <2>1. regs[n][k] \in Slot /\ batch[k] \in Slot
    BY <1>4, <1>5
  <2> QED BY <2>1, MergeIsUpperBound
<1>10. StoreTypeOK'
  <2>1. [k \in Key |-> Merge(regs[n][k], batch[k])] \in [Key -> Slot]
    BY <1>6, <1>9
  <2>2. regs' \in [Node -> [Key -> Slot]]
    BY <1>1, <1>2, <2>1 DEF StoreTypeOK
  <2> QED BY <1>1, <1>2, <2>2 DEF StoreTypeOK
<1>11. ClockDominates'
  <2> SUFFICES ASSUME NEW m \in Node, NEW k \in Key
               PROVE  regs'[m][k].lamport <= clock'[m]
    BY DEF ClockDominates
  <2>1. regs[m][k].lamport <= clock[m]
    BY DEF StoreInv, ClockDominates
  <2>2. CASE m = n
    <3>0. regs[n][k] \in Slot /\ batch[k] \in Slot
      BY <1>4, <1>5
    <3>1. regs[n][k].lamport \in Int /\ batch[k].lamport \in Int /\ clock[n] \in Int
      BY <3>0, <1>1, SlotLamport DEF StoreTypeOK
    <3> QED BY <2>1, <2>2, <3>1, <1>3, <1>8, <1>9
  <2>3. CASE m # n
    BY <2>1, <2>3, <1>7
  <2> QED BY <2>2, <2>3
<1>12. NoInvention'
  <2> SUFFICES ASSUME NEW m \in Node, NEW k \in Key
               PROVE  regs'[m][k] = Unwritten
                      \/ Issued(k, regs[m][k].value, regs[m][k].lamport)'
    BY DEF NoInvention
  <2>1. regs[m][k] = Unwritten \/ Issued(k, regs[m][k].value, regs[m][k].lamport)
    BY DEF StoreInv, NoInvention
  <2>2. regs'[m][k] \in {regs[m][k], batch[k]} /\ (m # n => regs'[m][k] = regs[m][k])
    BY <1>7, <1>9
  <2>3. regs'[m][k] = Unwritten \/ Issued(k, regs'[m][k].value, regs'[m][k].lamport)
    BY <2>1, <2>2, <1>4
  <2> QED BY <2>3, <1>2, IssuedStays
<1>13. OwnerCoversWrites'
  <2> SUFFICES ASSUME NEW x \in written, restarts[Owner(x.key)] = 0
               PROVE  /\ x.lamport <= clock'[Owner(x.key)]
                      /\ x.lamport <= regs'[Owner(x.key)][x.key].lamport
    BY <1>2 DEF OwnerCoversWrites
  <2> DEFINE o == Owner(x.key)
  <2>1. x.key \in Key /\ o \in Node /\ x.lamport \in Nat
    BY <1>1, KeyHasOwner DEF StoreTypeOK, Write
  <2>2. x.lamport <= clock[o] /\ x.lamport <= regs[o][x.key].lamport
    BY DEF StoreInv, OwnerCoversWrites
  <2>3. /\ clock[o] \in Int /\ regs[o][x.key].lamport \in Int
        /\ regs'[o][x.key].lamport \in Int
    <3>1. regs'[o][x.key] \in Slot /\ regs[o][x.key] \in Slot
      BY <2>1, <1>5, <1>7, <1>9
    <3> QED BY <2>1, <3>1, <1>1 DEF StoreTypeOK, Slot, Register, Unwritten
  <2> HIDE DEF o
  <2>4. CASE o = n
    BY <2>1, <2>2, <2>3, <2>4, <1>3, <1>8, <1>9 DEF o
  <2>5. CASE o # n
    BY <2>1, <2>2, <2>5, <1>7 DEF o
  <2> QED BY <2>4, <2>5
<1>14. OneWritePerStamp'
  BY <1>2 DEF StoreInv, OneWritePerStamp
<1>15. ReadYourWrites'
  <2> SUFFICES ASSUME NEW k \in Key, restarts[Owner(k)] = 0, fresh[k] # NoValue
               PROVE  regs'[Owner(k)][k].value = fresh[k]
    BY <1>2 DEF ReadYourWrites
  <2>1. regs[Owner(k)][k].value = fresh[k]
    BY DEF StoreInv, ReadYourWrites
  <2>2. CASE Owner(k) # n
    BY <2>1, <2>2, <1>7, KeyHasOwner
  <2>3. CASE Owner(k) = n
    <3>1. CASE regs'[n][k] = regs[n][k]
      BY <2>1, <2>3, <3>1
    <3>2. CASE regs'[n][k] # regs[n][k]
      <4>1. regs'[n][k] = batch[k] /\ Newer(batch[k], regs[n][k])
        BY <3>2, <1>6 DEF Merge
      <4>2. batch[k] # Unwritten
        BY <4>1, <1>5 DEF Newer, Slot, Register, Unwritten
      <4>3. WriteOf(k, batch[k]) \in written
        BY <4>2, <1>1, <1>4, IssuedWrite
      <4>4. regs[n][k] # Unwritten
        BY <2>1, <2>3, NoValueAssumption, <1>1 DEF Unwritten, StoreTypeOK
      <4>5. WriteOf(k, regs[n][k]) \in written
        BY <4>4, <1>1, IssuedWrite DEF StoreInv, NoInvention
      <4>6. batch[k].lamport <= regs[n][k].lamport
        BY <4>3, <2>3 DEF StoreInv, OwnerCoversWrites, WriteOf
      <4>7. batch[k].lamport = regs[n][k].lamport
        BY <4>1, <4>6, <1>4, <1>5 DEF Newer, Slot, Register, Unwritten
      <4>8. WriteOf(k, batch[k]) = WriteOf(k, regs[n][k])
        BY <4>3, <4>5, <4>7, <2>3 DEF StoreInv, OneWritePerStamp, WriteOf
      <4>9. batch[k].value = regs[n][k].value
        BY <4>8 DEF WriteOf
      <4> QED BY <4>1, <4>9, <2>1, <2>3
    <3> QED BY <3>1, <3>2
  <2> QED BY <2>2, <2>3
<1> QED BY <1>10, <1>11, <1>12, <1>13, <1>14, <1>15 DEF StoreInv

(* A restart gives up every claim about the restarted node's own keys. *)
LEMMA RestartKeepsInv ==
  ASSUME StoreInv, NEW n \in Node, Restart(n)
  PROVE  StoreInv'
<1> USE StoreAssumption, MaxClockAssumption
<1>1. StoreTypeOK
  BY DEF StoreInv
<1>2. /\ restarts' = [restarts EXCEPT ![n] = restarts[n] + 1]
      /\ regs' = [regs EXCEPT ![n] = Empty]
      /\ clock' = [clock EXCEPT ![n] = 0]
      /\ fresh' = [k \in Key |-> IF Owner(k) = n THEN NoValue ELSE fresh[k]]
      /\ written' = written
  BY DEF Restart, Forget
<1>3. StoreTypeOK'
  BY <1>1, <1>2, EmptyIsEmpty DEF StoreTypeOK
<1>4. \A m \in Node \ {n} : /\ regs'[m] = regs[m] /\ clock'[m] = clock[m]
                            /\ restarts'[m] = restarts[m]
  BY <1>1, <1>2 DEF StoreTypeOK
<1>5. /\ clock'[n] = 0 /\ \A k \in Key : regs'[n][k] = Unwritten
      /\ restarts'[n] # 0
  BY <1>1, <1>2, EmptyIsEmpty DEF StoreTypeOK
<1>6. ClockDominates'
  BY <1>4, <1>5 DEF StoreInv, ClockDominates, Unwritten
<1>7. NoInvention'
  <2> SUFFICES ASSUME NEW m \in Node, NEW k \in Key, m # n
               PROVE  regs'[m][k] = Unwritten
                      \/ Issued(k, regs[m][k].value, regs[m][k].lamport)'
    BY <1>5 DEF NoInvention
  <2>1. regs[m][k] = Unwritten \/ Issued(k, regs[m][k].value, regs[m][k].lamport)
    BY DEF StoreInv, NoInvention
  <2>2. restarts'[Owner(k)] = 0 => restarts[Owner(k)] = 0
    BY <1>4, <1>5, KeyHasOwner
  <2> QED BY <2>1, <2>2, <1>2, <1>4, IssuedStays
<1>8. \A x \in written : x.key \in Key /\ Owner(x.key) \in Node
  BY <1>1, KeyHasOwner DEF StoreTypeOK, Write
<1>9. OwnerCoversWrites'
  BY <1>2, <1>4, <1>5, <1>8 DEF StoreInv, OwnerCoversWrites
<1>10. OneWritePerStamp'
  BY <1>2, <1>4, <1>5, <1>8 DEF StoreInv, OneWritePerStamp
<1>11. ReadYourWrites'
  BY <1>2, <1>4, <1>5, KeyHasOwner DEF StoreInv, ReadYourWrites
<1> QED BY <1>3, <1>6, <1>7, <1>9, <1>10, <1>11 DEF StoreInv

LEMMA StepKeepsInv == StoreInv /\ [Next]_storeVars => StoreInv'
<1> SUFFICES ASSUME StoreInv, [Next]_storeVars PROVE StoreInv'
  OBVIOUS
<1>1. CASE UNCHANGED storeVars
  BY <1>1 DEF storeVars, StoreInv, StoreTypeOK, ClockDominates, NoInvention, Issued, Paired,
              OwnerCoversWrites, OneWritePerStamp, ReadYourWrites
<1>2. ASSUME NEW n \in Node, NEW t \in Topic, NEW v \in Value, NEW w \in Wall,
             Publish(n, t, v, w)
      PROVE  StoreInv'
  BY <1>2, PublishKeepsInv
<1>3. ASSUME NEW n \in Node, NEW batch \in Batches, NEW c \in 0..MaxClock,
             Absorb(n, batch, c)
      PROVE  StoreInv'
  BY <1>3, AbsorbKeepsInv
<1>4. ASSUME NEW n \in Node, Restart(n)
      PROVE  StoreInv'
  BY <1>4, RestartKeepsInv
<1> QED BY <1>1, <1>2, <1>3, <1>4 DEF Next

THEOREM StoreInvariant == Spec => []StoreInv
BY InitStoreInv, StepKeepsInv, PTL DEF Spec

(* The replicas stay well typed. *)
THEOREM StoreTypeCorrect == Spec => []StoreTypeOK
BY StoreInvariant, PTL DEF StoreInv

(* No clock ever trails a stamp its replica holds. *)
THEOREM ClockDominatesHolds == Spec => []ClockDominates
BY StoreInvariant, PTL DEF StoreInv

(* Every register held anywhere was written, so, by its owner. *)
THEOREM NoInventionHolds == Spec => []NoInvention
BY StoreInvariant, PTL DEF StoreInv

(* A node that never restarted reads its own last write. *)
THEOREM ReadYourWritesHolds == Spec => []ReadYourWrites
BY StoreInvariant, PTL DEF StoreInv

(* No replica overtakes a running owner. *)
THEOREM OwnerAheadHolds == Spec => []OwnerAhead
<1>1. StoreInv => OwnerAhead
  <2> SUFFICES ASSUME StoreInv, NEW n \in Node, NEW k \in Key, restarts[Owner(k)] = 0
               PROVE  regs[n][k].lamport <= regs[Owner(k)][k].lamport
    BY DEF OwnerAhead
  <2>1. CASE regs[n][k] = Unwritten
    <3>1. regs[Owner(k)][k] \in Slot
      BY KeyHasOwner DEF StoreInv, StoreTypeOK
    <3> QED BY <2>1, <3>1 DEF Slot, Register, Unwritten
  <2>2. CASE regs[n][k] # Unwritten
    <3>1. WriteOf(k, regs[n][k]) \in written
      BY <2>2, IssuedWrite DEF StoreInv, NoInvention
    <3> QED BY <3>1 DEF StoreInv, OwnerCoversWrites, WriteOf
  <2> QED BY <2>1, <2>2
<1> QED BY <1>1, StoreInvariant, PTL

(* Equal stamps mean equal values, wherever the records came from. *)
THEOREM SameStampSameValueHolds == Spec => []SameStampSameValue
<1>1. StoreInv => SameStampSameValue
  <2> SUFFICES ASSUME StoreInv, NEW m \in Node, NEW n \in Node, NEW k \in Key,
                      restarts[Owner(k)] = 0, regs[m][k].lamport = regs[n][k].lamport
               PROVE  regs[m][k].value = regs[n][k].value
    BY DEF SameStampSameValue
  <2>1. regs[m][k] \in Slot /\ regs[n][k] \in Slot
    BY DEF StoreInv, StoreTypeOK
  <2>2. CASE regs[m][k] = Unwritten \/ regs[n][k] = Unwritten
    BY <2>1, <2>2 DEF Slot, Register, Unwritten
  <2>3. CASE regs[m][k] # Unwritten /\ regs[n][k] # Unwritten
    <3>1. WriteOf(k, regs[m][k]) \in written /\ WriteOf(k, regs[n][k]) \in written
      BY <2>3, IssuedWrite DEF StoreInv, NoInvention
    <3>2. WriteOf(k, regs[m][k]) = WriteOf(k, regs[n][k])
      BY <3>1 DEF StoreInv, OneWritePerStamp, WriteOf
    <3> QED BY <3>2 DEF WriteOf
  <2> QED BY <2>2, <2>3
<1> QED BY <1>1, StoreInvariant, PTL

(* A replica's stamps only grow while its node runs. *)
THEOREM NeverRegressHolds == Spec => NeverRegress
<1>1. StoreInv /\ [Next]_storeVars =>
        [\A n \in Node : restarts'[n] = restarts[n] =>
            \A k \in Key : ~ Newer(regs[n][k], regs'[n][k])]_storeVars
  <2> SUFFICES ASSUME StoreInv, Next, NEW m \in Node, restarts'[m] = restarts[m],
                      NEW k \in Key
               PROVE  ~ Newer(regs[m][k], regs'[m][k])
    OBVIOUS
  <2> USE StoreAssumption, MaxClockAssumption
  <2>0. StoreTypeOK /\ regs[m][k] \in Slot /\ ~ Newer(regs[m][k], regs[m][k])
    BY NewerIsStrictTotal DEF StoreInv, StoreTypeOK
  <2>1. ASSUME NEW n \in Node, NEW t \in Topic, NEW v \in Value, NEW w \in Wall,
               Publish(n, t, v, w)
        PROVE  ~ Newer(regs[m][k], regs'[m][k])
    <3> DEFINE R == [value |-> v, lamport |-> clock[n] + 1, wall |-> w]
    <3>1. CASE m = n /\ k = <<n, t>>
      <4>1. regs'[m][k] = R
        BY <2>0, <2>1, <3>1 DEF Publish, UpdateLocal, StoreTypeOK
      <4>2. regs[m][k].lamport <= clock[n] /\ clock[n] \in Int
        BY <2>0, <3>1 DEF StoreInv, ClockDominates, StoreTypeOK
      <4> QED BY <4>1, <4>2, <2>0 DEF Newer, Slot, Register, Unwritten
    <3>2. CASE ~ (m = n /\ k = <<n, t>>)
      <4>1. regs'[m][k] = regs[m][k]
        BY <2>0, <2>1, <3>2 DEF Publish, UpdateLocal, StoreTypeOK
      <4> QED BY <4>1, <2>0
    <3> QED BY <3>1, <3>2
  <2>2. ASSUME NEW n \in Node, NEW batch \in Batches, NEW c \in 0..MaxClock,
               Absorb(n, batch, c)
        PROVE  ~ Newer(regs[m][k], regs'[m][k])
    <3>1. CASE m = n
      <4>1. regs'[m][k] = Merge(regs[m][k], batch[k])
        BY <2>0, <2>2, <3>1 DEF Absorb, StoreTypeOK
      <4>2. batch[k] \in Slot
        BY <2>0, <2>2, CirculatingIsSlot DEF Absorb
      <4> QED BY <4>1, <4>2, <2>0, MergeIsUpperBound
    <3>2. CASE m # n
      BY <2>0, <2>2, <3>2 DEF Absorb, StoreTypeOK
    <3> QED BY <3>1, <3>2
  <2>3. ASSUME NEW n \in Node, Restart(n)
        PROVE  ~ Newer(regs[m][k], regs'[m][k])
    <3>1. m # n
      BY <2>0, <2>3 DEF Restart, Forget, StoreTypeOK
    <3> QED BY <2>0, <2>3, <3>1 DEF Restart, Forget, StoreTypeOK
  <2> QED BY <2>1, <2>2, <2>3 DEF Next
<1> QED BY <1>1, StoreInvariant, PTL DEF Spec, NeverRegress

-----------------------------------------------------------------------------
(* What a replica holds circulates, its wall time included; what a running *)
(* process wrote last was issued, and its own register of the key is held. *)
(* publish reads the Lamport time back from that register.                 *)
RegsCirculate == \A n \in Node, k \in Key : regs[n][k] \in Circulating(k)

FreshIsWritten ==
    \A k \in Key : fresh[k] # NoValue =>
        /\ regs[Owner(k)][k] # Unwritten
        /\ \E x \in written : x.key = k /\ x.value = fresh[k]

HeldInv == StoreInv /\ RegsCirculate /\ FreshIsWritten

(* An issued value under its time circulates with the wall time of any frame. *)
LEMMA IssuedCirculates ==
  ASSUME NEW k, NEW v, NEW l, NEW w \in Wall, Issued(k, v, l)
  PROVE  [value |-> v, lamport |-> l, wall |-> w] \in Circulating(k)
BY DEF Issued, Circulating

LEMMA CirculatingStays ==
  ASSUME NEW k \in Key, NEW r \in Circulating(k), written \subseteq written',
         restarts'[Owner(k)] = 0 => restarts[Owner(k)] = 0
  PROVE  r \in Circulating(k)'
<1>1. CASE r = Unwritten
  BY <1>1 DEF Circulating
<1>2. CASE r # Unwritten
  <2>1. PICK p \in Paired(k), w \in Wall :
           r = [value |-> p[1].value, lamport |-> p[2].lamport, wall |-> w]
    BY <1>2 DEF Circulating
  <2>2. p \in Paired(k)'
    BY <2>1 DEF Paired, Owner
  <2> QED BY <2>1, <2>2 DEF Circulating
<1> QED BY <1>1, <1>2

LEMMA HistoryGrows ==
  ASSUME StoreTypeOK, [Next]_storeVars
  PROVE  /\ written \subseteq written'
         /\ \A n \in Node : restarts'[n] = 0 => restarts[n] = 0
<1>1. CASE UNCHANGED storeVars
  BY <1>1 DEF storeVars
<1>2. ASSUME NEW n \in Node, NEW t \in Topic, NEW v \in Value, NEW w \in Wall,
             Publish(n, t, v, w)
      PROVE  written \subseteq written' /\ restarts' = restarts
  BY <1>2 DEF Publish
<1>3. ASSUME NEW n \in Node, NEW batch \in Batches, NEW c \in 0..MaxClock,
             Absorb(n, batch, c)
      PROVE  written \subseteq written' /\ restarts' = restarts
  BY <1>3 DEF Absorb
<1>4. ASSUME NEW n \in Node, Restart(n)
      PROVE  /\ written \subseteq written'
             /\ \A m \in Node : restarts'[m] = 0 => restarts[m] = 0
  BY <1>4 DEF Restart, StoreTypeOK
<1> QED BY <1>1, <1>2, <1>3, <1>4 DEF Next

LEMMA HeldInit == Init => HeldInv
<1> SUFFICES ASSUME Init PROVE HeldInv
  OBVIOUS
<1>1. RegsCirculate
  BY EmptyIsEmpty DEF Init, StoreInit, RegsCirculate, Circulating
<1>2. FreshIsWritten
  BY DEF Init, FreshIsWritten
<1> QED BY <1>1, <1>2, InitStoreInv DEF HeldInv

LEMMA HeldPublish ==
  ASSUME HeldInv, NEW n \in Node, NEW t \in Topic, NEW v \in Value, NEW w \in Wall,
         Publish(n, t, v, w), \A k \in Key : Circulating(k) \subseteq Circulating(k)'
  PROVE  RegsCirculate' /\ FreshIsWritten'
<1> DEFINE K == <<n, t>>
           R == [value |-> v, lamport |-> clock[n] + 1, wall |-> w]
           X == WriteOf(K, R)
<1>1. StoreTypeOK /\ RegsCirculate /\ FreshIsWritten /\ K \in Key /\ Owner(K) = n
  BY DEF HeldInv, StoreInv, Key, Owner
<1>2. /\ regs' = [regs EXCEPT ![n] = [regs[n] EXCEPT ![K] = R]]
      /\ written' = written \cup {X}
      /\ fresh' = [fresh EXCEPT ![K] = v]
  BY DEF Publish, UpdateLocal, WriteOf
<1>3. regs[n] \in [Key -> Slot]
  BY <1>1 DEF StoreTypeOK
<1>4. /\ regs'[n][K] = R
      /\ \A m \in Node, k \in Key : ~(m = n /\ k = K) => regs'[m][k] = regs[m][k]
  BY <1>1, <1>2, <1>3 DEF StoreTypeOK
<1>5. fresh'[K] = v /\ \A k \in Key \ {K} : fresh'[k] = fresh[k]
  BY <1>1, <1>2 DEF StoreTypeOK
<1>6. X \in written' /\ X.key = K /\ X.value = v /\ X.lamport = clock[n] + 1
  BY <1>2 DEF WriteOf
<1>7. R # Unwritten
  BY NoValueAssumption DEF Unwritten
<1>8. R \in Circulating(K)'
  <2>1. <<X, X>> \in Paired(K)' /\ <<X, X>>[1] = X /\ <<X, X>>[2] = X
    <3> HIDE DEF X, K
    <3> QED BY <1>6 DEF Paired
  <2>2. R = [value |-> X.value, lamport |-> X.lamport, wall |-> w]
    BY <1>6
  <2> HIDE DEF X, K, R
  <2> QED BY <2>1, <2>2 DEF Circulating
<1> HIDE DEF K, R, X
<1>9. RegsCirculate'
  <2> SUFFICES ASSUME NEW m \in Node, NEW k \in Key
               PROVE  regs'[m][k] \in Circulating(k)'
    BY DEF RegsCirculate
  <2>1. CASE m = n /\ k = K
    BY <2>1, <1>4, <1>8
  <2>2. CASE ~(m = n /\ k = K)
    BY <2>2, <1>1, <1>4 DEF RegsCirculate
  <2> QED BY <2>1, <2>2
<1>10. FreshIsWritten'
  <2> SUFFICES ASSUME NEW k \in Key, fresh'[k] # NoValue
               PROVE  /\ regs'[Owner(k)][k] # Unwritten
                      /\ \E x \in written' : x.key = k /\ x.value = fresh'[k]
    BY DEF FreshIsWritten
  <2>1. CASE k = K
    BY <2>1, <1>1, <1>4, <1>5, <1>6, <1>7
  <2>2. CASE k # K
    BY <2>2, <1>1, <1>2, <1>4, <1>5, KeyHasOwner DEF FreshIsWritten
  <2> QED BY <2>1, <2>2
<1> QED BY <1>9, <1>10

LEMMA HeldAbsorb ==
  ASSUME HeldInv, NEW n \in Node, NEW batch, NEW c \in 0..MaxClock, Absorb(n, batch, c),
         \A k \in Key : Circulating(k) \subseteq Circulating(k)'
  PROVE  RegsCirculate' /\ FreshIsWritten'
<1>1. StoreTypeOK /\ RegsCirculate /\ FreshIsWritten
  BY DEF HeldInv, StoreInv
<1>2. /\ regs' = [regs EXCEPT ![n] = [k \in Key |-> Merge(regs[n][k], batch[k])]]
      /\ written' = written /\ fresh' = fresh
      /\ \A k \in Key : batch[k] \in Circulating(k)
  BY DEF Absorb
<1>3. /\ \A k \in Key : regs'[n][k] = Merge(regs[n][k], batch[k])
      /\ \A m \in Node \ {n} : regs'[m] = regs[m]
  BY <1>1, <1>2 DEF StoreTypeOK
<1>4. ASSUME NEW k \in Key
      PROVE  /\ regs'[n][k] \in {regs[n][k], batch[k]}
             /\ regs[n][k] # Unwritten => regs'[n][k] # Unwritten
  <2>1. regs[n][k] \in Slot /\ batch[k] \in Slot
    BY <1>1, <1>2, CirculatingIsSlot DEF StoreTypeOK
  <2>2. regs'[n][k] = Merge(regs[n][k], batch[k])
    BY <1>3
  <2> QED BY <2>1, <2>2 DEF Merge, Newer, Slot, Register, Unwritten
<1>5. RegsCirculate'
  <2> SUFFICES ASSUME NEW m \in Node, NEW k \in Key
               PROVE  regs'[m][k] \in Circulating(k)'
    BY DEF RegsCirculate
  <2> QED BY <1>1, <1>2, <1>3, <1>4 DEF RegsCirculate
<1>6. FreshIsWritten'
  <2> SUFFICES ASSUME NEW k \in Key, fresh[k] # NoValue
               PROVE  regs'[Owner(k)][k] # Unwritten
    BY <1>1, <1>2 DEF FreshIsWritten
  <2>1. regs[Owner(k)][k] # Unwritten /\ Owner(k) \in Node
    BY <1>1, KeyHasOwner DEF FreshIsWritten
  <2> QED BY <2>1, <1>3, <1>4
<1> QED BY <1>5, <1>6

LEMMA HeldRestart ==
  ASSUME HeldInv, NEW n \in Node, Restart(n),
         \A k \in Key : Circulating(k) \subseteq Circulating(k)'
  PROVE  RegsCirculate' /\ FreshIsWritten'
<1>1. StoreTypeOK /\ RegsCirculate /\ FreshIsWritten
  BY DEF HeldInv, StoreInv
<1>2. /\ regs' = [regs EXCEPT ![n] = Empty]
      /\ fresh' = [k \in Key |-> IF Owner(k) = n THEN NoValue ELSE fresh[k]]
      /\ written' = written
  BY DEF Restart, Forget
<1>3. /\ \A k \in Key : regs'[n][k] = Unwritten
      /\ \A m \in Node \ {n} : regs'[m] = regs[m]
  BY <1>1, <1>2, EmptyIsEmpty DEF StoreTypeOK
<1>4. RegsCirculate'
  <2> SUFFICES ASSUME NEW m \in Node, NEW k \in Key
               PROVE  regs'[m][k] \in Circulating(k)'
    BY DEF RegsCirculate
  <2>1. Unwritten \in Circulating(k)'
    BY DEF Circulating
  <2> QED BY <1>1, <1>3, <2>1 DEF RegsCirculate
<1>5. FreshIsWritten'
  BY <1>1, <1>2, <1>3, KeyHasOwner DEF FreshIsWritten
<1> QED BY <1>4, <1>5

LEMMA HeldStep == HeldInv /\ [Next]_storeVars => HeldInv'
<1> SUFFICES ASSUME HeldInv, [Next]_storeVars PROVE HeldInv'
  OBVIOUS
<1>1. StoreTypeOK /\ StoreInv'
  BY StepKeepsInv DEF HeldInv, StoreInv
<1>2. \A k \in Key : Circulating(k) \subseteq Circulating(k)'
  <2> SUFFICES ASSUME NEW k \in Key, NEW r \in Circulating(k) PROVE r \in Circulating(k)'
    OBVIOUS
  <2> QED BY <1>1, HistoryGrows, KeyHasOwner, CirculatingStays
<1>3. CASE UNCHANGED storeVars
  BY <1>1, <1>2, <1>3 DEF storeVars, HeldInv, RegsCirculate, FreshIsWritten
<1>4. ASSUME NEW n \in Node, NEW t \in Topic, NEW v \in Value, NEW w \in Wall,
             Publish(n, t, v, w)
      PROVE  HeldInv'
  BY <1>1, <1>2, <1>4, HeldPublish DEF HeldInv
<1>5. ASSUME NEW n \in Node, NEW batch \in Batches, NEW c \in 0..MaxClock,
             Absorb(n, batch, c)
      PROVE  HeldInv'
  BY <1>1, <1>2, <1>5, HeldAbsorb DEF HeldInv
<1>6. ASSUME NEW n \in Node, Restart(n)
      PROVE  HeldInv'
  BY <1>1, <1>2, <1>6, HeldRestart DEF HeldInv
<1> QED BY <1>3, <1>4, <1>5, <1>6 DEF Next

-----------------------------------------------------------------------------
SeenTypeOK == seen \in [Node -> SUBSET Write]

HistoryInv == StoreInv /\ SeenTypeOK /\ HoldsNewestSeen

(* The history variable only observes. *)
LEMMA HistoryRefines == HSpec => Spec
<1>1. HInit => Init
  BY DEF HInit
<1>2. [HNext]_historyVars => [Next]_storeVars
  BY DEF HNext, Next, historyVars, HPublish, HAbsorb, HRestart
<1> QED BY <1>1, <1>2, PTL DEF HSpec, Spec

LEMMA WritesInBatch ==
  ASSUME NEW batch, NEW x
  PROVE  x \in WritesIn(batch)
           <=> \E k \in Key : batch[k] # Unwritten /\ x = WriteOf(k, batch[k])
BY DEF WritesIn

LEMMA HistoryInit == HInit => HistoryInv
<1> SUFFICES ASSUME HInit PROVE HistoryInv
  OBVIOUS
<1>1. StoreInv
  BY InitStoreInv DEF HInit
<1>2. SeenTypeOK
  BY DEF HInit, SeenTypeOK
<1>3. HoldsNewestSeen
  BY EmptyIsEmpty DEF HInit, Init, StoreInit, HoldsNewestSeen, SeenOf
<1> QED BY <1>1, <1>2, <1>3 DEF HistoryInv

LEMMA HistoryUpdate ==
  ASSUME HistoryInv, StoreInv', NEW n \in Node, NEW t \in Topic, NEW v \in Value,
         NEW w \in Wall, HPublish(n, t, v, w)
  PROVE  SeenTypeOK' /\ HoldsNewestSeen'
<1> DEFINE K == <<n, t>>
           R == [value |-> v, lamport |-> clock[n] + 1, wall |-> w]
           X == [key |-> K, value |-> v, lamport |-> clock[n] + 1]
<1>1. StoreTypeOK /\ ClockDominates /\ SeenTypeOK /\ HoldsNewestSeen
  BY DEF HistoryInv, StoreInv
<1>2. K \in Key /\ WriteOf(K, R) = X
  BY DEF Key, WriteOf
<1>3. /\ written' = written \cup {X}
      /\ seen' = [seen EXCEPT ![n] = seen[n] \cup {X}]
  BY <1>2 DEF HPublish, Publish, UpdateLocal
<1>4. regs'[n][K] = R /\ \A m \in Node, k \in Key : ~(m = n /\ k = K) => regs'[m][k] = regs[m][k]
  BY <1>1, <1>2 DEF HPublish, Publish, UpdateLocal, StoreTypeOK
<1>5. seen'[n] = seen[n] \cup {X} /\ \A m \in Node \ {n} : seen'[m] = seen[m]
  BY <1>1, <1>3 DEF SeenTypeOK
<1>6. X.key = K /\ X.lamport = clock[n] + 1 /\ R.lamport = clock[n] + 1 /\ X \in Write
  <2>1. clock[n] + 1 \in 1..MaxClock
    BY <1>1, MaxClockAssumption DEF HPublish, Publish, UpdateLocal, StoreTypeOK
  <2> QED BY <1>2, <2>1 DEF Write
<1> HIDE DEF K, R, X
<1>7. SeenTypeOK'
  BY <1>1, <1>3, <1>6 DEF SeenTypeOK
<1>8. HoldsNewestSeen'
  <2> SUFFICES ASSUME NEW m \in Node, NEW k \in Key
               PROVE  /\ \A x \in SeenOf(m, k)' : x.lamport <= regs'[m][k].lamport
                      /\ regs'[m][k] = Unwritten \/ WriteOf(k, regs'[m][k]) \in seen'[m]
    BY DEF HoldsNewestSeen
  <2>1. /\ \A x \in seen[m] : x.key = k => x.lamport <= regs[m][k].lamport
        /\ regs[m][k] = Unwritten \/ WriteOf(k, regs[m][k]) \in seen[m]
    BY <1>1 DEF HoldsNewestSeen, SeenOf
  <2>2. CASE m = n /\ k = K
    <3>1. regs[n][K].lamport <= clock[n] /\ clock[n] \in Int /\ regs[n][K].lamport \in Int
      BY <1>1, <1>2, SlotLamport DEF ClockDominates, StoreTypeOK
    <3>2. \A x \in seen[n] : x.lamport \in Int
      BY <1>1 DEF SeenTypeOK, StoreTypeOK, Write
    <3>3. \A x \in seen'[n] : x.key = K => x.lamport <= regs'[n][K].lamport
      BY <2>1, <2>2, <3>1, <3>2, <1>4, <1>5, <1>6
    <3>4. WriteOf(K, regs'[n][K]) \in seen'[n]
      BY <1>2, <1>4, <1>5
    <3> QED BY <2>2, <3>3, <3>4 DEF SeenOf
  <2>3. CASE ~(m = n /\ k = K)
    <3>1. regs'[m][k] = regs[m][k]
      BY <2>3, <1>4
    <3>2. \A x \in seen'[m] : x.key = k => x \in seen[m]
      BY <2>3, <1>5, <1>6
    <3>3. seen[m] \subseteq seen'[m]
      BY <1>5
    <3> QED BY <2>1, <3>1, <3>2, <3>3 DEF SeenOf
  <2> QED BY <2>2, <2>3
<1> QED BY <1>7, <1>8

LEMMA HistoryAbsorb ==
  ASSUME HistoryInv, NEW n \in Node, NEW batch, NEW c \in 0..MaxClock,
         HAbsorb(n, batch, c)
  PROVE  SeenTypeOK' /\ HoldsNewestSeen'
<1>1. StoreTypeOK /\ SeenTypeOK /\ HoldsNewestSeen
  BY DEF HistoryInv, StoreInv
<1>2. /\ regs' = [regs EXCEPT ![n] = [k \in Key |-> Merge(regs[n][k], batch[k])]]
      /\ written' = written
      /\ seen' = [seen EXCEPT ![n] = seen[n] \cup WritesIn(batch)]
  BY DEF HAbsorb, Absorb
<1>3. \A k \in Key : /\ batch[k] \in Slot
                     /\ batch[k] = Unwritten \/ WriteOf(k, batch[k]) \in Write
  BY <1>1, CirculatingIsSlot DEF HAbsorb, Absorb
<1>4. WritesIn(batch) \subseteq Write
  BY <1>3, WritesInBatch
<1>5. SeenTypeOK'
  BY <1>1, <1>2, <1>4 DEF SeenTypeOK
<1>6. \A k \in Key : regs'[n][k] = Merge(regs[n][k], batch[k])
  BY <1>1, <1>2 DEF StoreTypeOK
<1>7. \A m \in Node \ {n} : regs'[m] = regs[m] /\ seen'[m] = seen[m]
  BY <1>1, <1>2 DEF StoreTypeOK, SeenTypeOK
<1>8. seen'[n] = seen[n] \cup WritesIn(batch)
  BY <1>1, <1>2 DEF SeenTypeOK
<1>9. HoldsNewestSeen'
  <2> SUFFICES ASSUME NEW m \in Node, NEW k \in Key
               PROVE  /\ \A x \in SeenOf(m, k)' : x.lamport <= regs'[m][k].lamport
                      /\ regs'[m][k] = Unwritten \/ WriteOf(k, regs'[m][k]) \in seen'[m]
    BY DEF HoldsNewestSeen
  <2>1. /\ \A x \in seen[m] : x.key = k => x.lamport <= regs[m][k].lamport
        /\ regs[m][k] = Unwritten \/ WriteOf(k, regs[m][k]) \in seen[m]
    BY <1>1 DEF HoldsNewestSeen, SeenOf
  <2>2. CASE m # n
    BY <2>1, <2>2, <1>7 DEF SeenOf
  <2>3. CASE m = n
    <3>1. regs[n][k] \in Slot /\ batch[k] \in Slot
      BY <1>1, <1>3 DEF StoreTypeOK
    <3>2. /\ regs'[n][k] \in {regs[n][k], batch[k]}
          /\ regs'[n][k].lamport >= regs[n][k].lamport
          /\ regs'[n][k].lamport >= batch[k].lamport
          /\ regs'[n][k] \in Slot
      BY <3>1, <1>6, MergeIsUpperBound
    <3>3. ASSUME NEW x \in seen'[n], x.key = k
          PROVE  x.lamport <= regs'[n][k].lamport
      <4>1. CASE x \in seen[n]
        <5>1. x.lamport \in Int
          BY <4>1, <1>1 DEF SeenTypeOK, StoreTypeOK, Write
        <5> QED BY <4>1, <5>1, <2>1, <2>3, <3>1, <3>2, <3>3, SlotLamport
      <4>2. CASE x \in WritesIn(batch)
        <5>1. PICK j \in Key : batch[j] # Unwritten /\ x = WriteOf(j, batch[j])
          BY <4>2, WritesInBatch
        <5>2. j = k /\ x.lamport = batch[k].lamport
          BY <5>1, <3>3 DEF WriteOf
        <5> QED BY <5>2, <3>1, <3>2, SlotLamport
      <4> QED BY <4>1, <4>2, <1>8
    <3>4. regs'[n][k] = Unwritten \/ WriteOf(k, regs'[n][k]) \in seen'[n]
      BY <2>1, <2>3, <3>2, <1>8, WritesInBatch
    <3> QED BY <2>3, <3>3, <3>4 DEF SeenOf
  <2> QED BY <2>2, <2>3
<1> QED BY <1>5, <1>9

LEMMA HistoryRestart ==
  ASSUME HistoryInv, NEW n \in Node, HRestart(n)
  PROVE  SeenTypeOK' /\ HoldsNewestSeen'
<1>1. StoreTypeOK /\ SeenTypeOK /\ HoldsNewestSeen
  BY DEF HistoryInv, StoreInv
<1>2. /\ regs' = [regs EXCEPT ![n] = Empty]
      /\ written' = written
      /\ seen' = [seen EXCEPT ![n] = {}]
  BY DEF HRestart, Restart, Forget
<1>3. /\ \A k \in Key : regs'[n][k] = Unwritten
      /\ seen'[n] = {}
      /\ \A m \in Node \ {n} : regs'[m] = regs[m] /\ seen'[m] = seen[m]
  BY <1>1, <1>2, EmptyIsEmpty DEF StoreTypeOK, SeenTypeOK
<1>4. SeenTypeOK'
  BY <1>1, <1>2 DEF SeenTypeOK
<1>5. HoldsNewestSeen'
  BY <1>1, <1>3 DEF HoldsNewestSeen, SeenOf
<1> QED BY <1>4, <1>5

LEMMA HistoryStep == HistoryInv /\ [HNext]_historyVars => HistoryInv'
<1> SUFFICES ASSUME HistoryInv, [HNext]_historyVars PROVE HistoryInv'
  OBVIOUS
<1>1. [HNext]_historyVars => [Next]_storeVars
  BY DEF HNext, Next, historyVars, HPublish, HAbsorb, HRestart
<1>2. StoreInv'
  BY <1>1, StepKeepsInv DEF HistoryInv
<1>3. CASE UNCHANGED historyVars
  BY <1>2, <1>3 DEF historyVars, storeVars, HistoryInv, SeenTypeOK, HoldsNewestSeen, SeenOf
<1>4. ASSUME NEW n \in Node, NEW t \in Topic, NEW v \in Value, NEW w \in Wall,
             HPublish(n, t, v, w)
      PROVE  HistoryInv'
  BY <1>2, <1>4, HistoryUpdate DEF HistoryInv
<1>5. ASSUME NEW n \in Node, NEW batch \in Batches, NEW c \in 0..MaxClock,
             HAbsorb(n, batch, c)
      PROVE  HistoryInv'
  BY <1>2, <1>5, HistoryAbsorb DEF HistoryInv
<1>6. ASSUME NEW n \in Node, HRestart(n)
      PROVE  HistoryInv'
  BY <1>2, <1>6, HistoryRestart DEF HistoryInv
<1> QED BY <1>3, <1>4, <1>5, <1>6 DEF HNext

(* A replica holds the newest write it has seen of every key. *)
THEOREM HoldsNewestSeenHolds == HSpec => []HoldsNewestSeen
BY HistoryInit, HistoryStep, PTL DEF HSpec, HistoryInv

(* Replicas that saw the same writes of a running owner agree on them,     *)
(* whatever the order, the batches, the duplicates and the wall times.     *)
THEOREM StrongConvergenceHolds == HSpec => []StrongConvergence
<1>1. HistoryInv => StrongConvergence
  <2> SUFFICES ASSUME HistoryInv, NEW m \in Node, NEW n \in Node, NEW k \in Key,
                      restarts[Owner(k)] = 0, SeenOf(m, k) = SeenOf(n, k)
               PROVE  /\ regs[m][k].lamport = regs[n][k].lamport
                      /\ regs[m][k].value = regs[n][k].value
    BY DEF StrongConvergence
  <2>1. /\ regs[m][k] \in Slot /\ regs[n][k] \in Slot
        /\ regs[m][k].lamport \in Int /\ regs[n][k].lamport \in Int
    BY SlotLamport DEF HistoryInv, StoreInv, StoreTypeOK
  <2>2. \A i, j \in {m, n} :
           regs[i][k] # Unwritten => /\ regs[i][k].lamport <= regs[j][k].lamport
                                     /\ regs[j][k] # Unwritten
    <3> SUFFICES ASSUME NEW i \in {m, n}, NEW j \in {m, n}, regs[i][k] # Unwritten
                 PROVE  /\ regs[i][k].lamport <= regs[j][k].lamport
                        /\ regs[j][k] # Unwritten
      OBVIOUS
    <3>1. WriteOf(k, regs[i][k]) \in SeenOf(j, k)
      BY DEF HistoryInv, HoldsNewestSeen, SeenOf, WriteOf
    <3>2. regs[i][k].lamport <= regs[j][k].lamport
      BY <3>1 DEF HistoryInv, HoldsNewestSeen, WriteOf
    <3>3. regs[i][k].lamport >= 0
      BY <2>1 DEF Slot, Register
    <3> QED BY <2>1, <3>2, <3>3 DEF Unwritten
  <2>3. regs[m][k].lamport = regs[n][k].lamport
    <3>1. CASE regs[m][k] = Unwritten \/ regs[n][k] = Unwritten
      BY <2>2, <3>1
    <3>2. CASE regs[m][k] # Unwritten /\ regs[n][k] # Unwritten
      BY <2>1, <2>2, <3>2
    <3> QED BY <3>1, <3>2
  <2>4. regs[m][k].value = regs[n][k].value
    <3>1. CASE regs[m][k] = Unwritten \/ regs[n][k] = Unwritten
      BY <2>2, <3>1
    <3>2. CASE regs[m][k] # Unwritten /\ regs[n][k] # Unwritten
      <4>1. WriteOf(k, regs[m][k]) \in written /\ WriteOf(k, regs[n][k]) \in written
        BY <3>2, IssuedWrite DEF HistoryInv, StoreInv, NoInvention
      <4>2. WriteOf(k, regs[m][k]) = WriteOf(k, regs[n][k])
        BY <4>1, <2>3 DEF HistoryInv, StoreInv, OneWritePerStamp, WriteOf
      <4> QED BY <4>2 DEF WriteOf
    <3> QED BY <3>1, <3>2
  <2> QED BY <2>3, <2>4
<1> QED BY <1>1, HistoryInit, HistoryStep, PTL DEF HSpec
=============================================================================
