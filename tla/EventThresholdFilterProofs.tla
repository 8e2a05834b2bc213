---------------------- MODULE EventThresholdFilterProofs --------------------
(***************************************************************************)
(* The egress buffer and the filter in front of it, for every capacity,    *)
(* batch size, number of threads and set of events.                        *)
(*                                                                         *)
(* InOrder is not inductive: while the buffer is empty it says nothing of  *)
(* the items already handed out.  LastBehind keeps them behind whatever    *)
(* comes next.  The filter's invariant is further down.                    *)
(***************************************************************************)
EXTENDS EventThresholdFilter, FiniteSetTheorems, TLAPS

LastBehind == last <= pushed - Len(buffer)

RingInv ==
    /\ RingTypeOK
    /\ HoldsNewest
    /\ Conservation
    /\ LastBehind

(* What an append to the bounded deque leaves: the right end of the whole. *)
LEMMA ExtendedKeepsTheRightEnd ==
  ASSUME NEW S, NEW s \in Seq(S), NEW items \in Seq(S)
  PROVE  /\ Extended(s, items) \in Seq(S)
         /\ Len(Extended(s, items)) <= Capacity
         /\ Len(Extended(s, items)) = Len(s) + Len(items) - Overflow(s, items)
         /\ \A i \in 1..Len(Extended(s, items)) :
               Extended(s, items)[i] = (s \o items)[Overflow(s, items) + i]
<1> DEFINE whole == s \o items
<1>1. whole \in Seq(S) /\ Len(whole) = Len(s) + Len(items)
  OBVIOUS
<1>2. Len(s) \in Nat /\ Len(items) \in Nat /\ Capacity \in Nat
  BY CapacityAssumption
<1>3. CASE Len(whole) > Capacity
  <2> DEFINE from == Len(whole) - Capacity + 1
             part == SubSeq(whole, from, Len(whole))
  <2>1. Extended(s, items) = part
    BY <1>3 DEF Extended, Newest
  <2>2. Overflow(s, items) = Len(whole) - Capacity
    BY <1>1, <1>2, <1>3 DEF Overflow
  <2> HIDE DEF whole
  <2>3. from \in 1..Len(whole)
    BY <1>1, <1>2, <1>3, CapacityAssumption
  <2>4. /\ part \in Seq(S) /\ Len(part) = Capacity
        /\ \A i \in 1..Capacity : part[i] = whole[Len(whole) - Capacity + i]
    BY <1>1, <1>2, <2>3
  <2> HIDE DEF part, from
  <2>5. Len(whole) - Overflow(s, items) = Capacity
    BY <1>1, <1>2, <2>2
  <2>6. /\ Extended(s, items) \in Seq(S)
        /\ Len(Extended(s, items)) = Capacity
        /\ Len(Extended(s, items)) = Len(s) + Len(items) - Overflow(s, items)
    BY <1>1, <1>2, <2>1, <2>2, <2>4
  <2>7. ASSUME NEW i \in 1..Len(Extended(s, items))
        PROVE  Extended(s, items)[i] = whole[Overflow(s, items) + i]
    <3>1. part[i] = whole[Len(whole) - Capacity + i]
      BY <2>4, <2>6
    <3> QED BY <2>1, <2>2, <3>1
  <2>8. Len(Extended(s, items)) <= Capacity
    BY <1>2, <2>6
  <2>9. \A i \in 1..Len(Extended(s, items)) :
           Extended(s, items)[i] = (s \o items)[Overflow(s, items) + i]
    BY <2>7 DEF whole
  <2> QED BY <2>6, <2>8, <2>9, Zenon
<1>4. CASE ~ (Len(whole) > Capacity)
  <2>1. Extended(s, items) = whole
    BY <1>4 DEF Extended, Newest
  <2>2. Overflow(s, items) = 0
    BY <1>1, <1>2, <1>4 DEF Overflow
  <2> HIDE DEF whole
  <2> QED BY <1>1, <1>2, <1>4, <2>1, <2>2 DEF whole
<1> QED BY <1>3, <1>4

(* What push and push_batch have in common. *)
Appends(count) ==
    /\ pushed + count <= MaxPushed
    /\ pushed' = pushed + count
    /\ buffer' = Extended(buffer, [i \in 1..count |-> pushed + i])
    /\ dropped' = dropped + Overflow(buffer, [i \in 1..count |-> pushed + i])
    /\ UNCHANGED <<popped, cleared, last>>

(* The items of a push, numbered on, keep the buffer contiguous. *)
LEMMA PushKeepsInv ==
  ASSUME RingInv, NEW count \in Nat \ {0}, Appends(count)
  PROVE  RingInv'
<1> DEFINE items == [i \in 1..count |-> pushed + i]
           over == Overflow(buffer, items)
<1> USE RingAssumption, CapacityAssumption
<1>1. RingTypeOK /\ HoldsNewest /\ Conservation /\ LastBehind
  BY DEF RingInv
<1>2. /\ buffer \in Seq(1..MaxPushed) /\ Len(buffer) \in Nat /\ Len(buffer) <= Capacity
      /\ dropped \in Nat /\ pushed \in Nat /\ popped \in Nat /\ cleared \in Nat /\ last \in Nat
  BY <1>1 DEF RingTypeOK
<1>3. items \in Seq(1..MaxPushed) /\ Len(items) = count /\ pushed + count <= MaxPushed
  BY <1>2 DEF Appends
<1>4. over \in Nat
  BY <1>2, <1>3 DEF Overflow
<1>5. /\ buffer' \in Seq(1..MaxPushed)
      /\ Len(buffer') <= Capacity
      /\ Len(buffer') = Len(buffer) + count - over
      /\ \A i \in 1..Len(buffer') : buffer'[i] = (buffer \o items)[over + i]
  <2>1. /\ Extended(buffer, items) \in Seq(1..MaxPushed)
        /\ Len(Extended(buffer, items)) <= Capacity
        /\ Len(Extended(buffer, items)) = Len(buffer) + Len(items) - over
        /\ \A i \in 1..Len(Extended(buffer, items)) :
              Extended(buffer, items)[i] = (buffer \o items)[over + i]
    <3> HIDE DEF items
    <3> QED BY <1>2, <1>3, ExtendedKeepsTheRightEnd
  <2>2. buffer' = Extended(buffer, items)
    BY DEF Appends
  <2> HIDE DEF items, over
  <2> QED BY <2>1, <2>2, <1>3
<1>6. \A j \in 1..(Len(buffer) + count) :
         (buffer \o items)[j] = pushed - Len(buffer) + j
  <2> SUFFICES ASSUME NEW j \in 1..(Len(buffer) + count)
               PROVE  (buffer \o items)[j] = pushed - Len(buffer) + j
    OBVIOUS
  <2>1. CASE j <= Len(buffer)
    <3>1. (buffer \o items)[j] = buffer[j]
      BY <1>2, <1>3, <2>1
    <3> QED BY <1>1, <1>2, <2>1, <3>1 DEF HoldsNewest
  <2>2. CASE j > Len(buffer)
    <3>1. (buffer \o items)[j] = items[j - Len(buffer)]
      BY <1>2, <1>3, <2>2
    <3>2. j - Len(buffer) \in 1..count
      BY <1>2, <2>2
    <3> QED BY <1>2, <3>1, <3>2
  <2> QED BY <1>2, <2>1, <2>2
<1>7. /\ dropped' = dropped + over /\ pushed' = pushed + count
      /\ popped' = popped /\ cleared' = cleared /\ last' = last
  BY DEF Appends
<1>a. Len(buffer') = Len(buffer) + count - over /\ Len(buffer') \in Int
  BY <1>2, <1>4, <1>5
<1> HIDE DEF items, over
<1>8. RingTypeOK'
  BY <1>1, <1>2, <1>3, <1>4, <1>5, <1>7 DEF RingTypeOK
<1>9. HoldsNewest'
  <2> SUFFICES ASSUME NEW i \in 1..Len(buffer')
               PROVE  buffer'[i] = pushed' - Len(buffer') + i
    BY DEF HoldsNewest
  <2>1. buffer'[i] = (buffer \o items)[over + i]
    BY <1>5
  <2>2. over + i \in 1..(Len(buffer) + count) /\ i \in Int
    BY <1>2, <1>4, <1>a
  <2>3. (buffer \o items)[over + i] = pushed - Len(buffer) + (over + i)
    BY <1>6, <2>2
  <2> QED BY <1>2, <1>4, <1>7, <1>a, <2>1, <2>2, <2>3
<1>10. Conservation'
  BY <1>1, <1>2, <1>4, <1>7, <1>a DEF Conservation
<1>11. LastBehind'
  BY <1>1, <1>2, <1>4, <1>7, <1>a DEF LastBehind
<1> QED BY <1>8, <1>9, <1>10, <1>11 DEF RingInv

LEMMA PopKeepsInv ==
  ASSUME RingInv, NEW limit \in 1..MaxBatch, PopBatch(limit)
  PROVE  RingInv'
<1> DEFINE count == IF Len(buffer) < limit THEN Len(buffer) ELSE limit
<1> USE RingAssumption, CapacityAssumption
<1>1. RingTypeOK /\ HoldsNewest /\ Conservation /\ LastBehind
  BY DEF RingInv
<1>2. /\ buffer \in Seq(1..MaxPushed) /\ Len(buffer) \in Nat /\ Len(buffer) <= Capacity
      /\ dropped \in Nat /\ pushed \in 0..MaxPushed /\ popped \in Nat /\ cleared \in Nat
      /\ last \in 0..MaxPushed
  BY <1>1 DEF RingTypeOK
<1>3. buffer # <<>> /\ Len(buffer) > 0
  BY <1>2 DEF PopBatch
<1>4. count \in 1..Len(buffer)
  BY <1>2, <1>3
<1>5. /\ buffer' = SubSeq(buffer, count + 1, Len(buffer))
      /\ popped' = popped + count /\ last' = buffer[count]
      /\ dropped' = dropped /\ pushed' = pushed /\ cleared' = cleared
  BY DEF PopBatch
<1> HIDE DEF count
<1>6. buffer' \in Seq(1..MaxPushed) /\ Len(buffer') = Len(buffer) - count
  BY <1>2, <1>4, <1>5
<1>a. /\ popped' = popped + count /\ dropped' = dropped /\ pushed' = pushed
      /\ cleared' = cleared /\ Len(buffer') = Len(buffer) - count
  BY <1>5, <1>6
<1>b. count \in Nat /\ count <= Len(buffer) /\ pushed \in Nat /\ last \in Nat
  BY <1>2, <1>4
<1>7. \A i \in 1..Len(buffer') : buffer'[i] = buffer[count + i]
  BY <1>2, <1>4, <1>5, <1>6
<1>8. last' = pushed - Len(buffer) + count /\ last' \in 1..MaxPushed
  BY <1>1, <1>2, <1>4, <1>5 DEF HoldsNewest
<1>9. RingTypeOK'
  BY <1>1, <1>2, <1>4, <1>5, <1>6, <1>8 DEF RingTypeOK
<1>10. HoldsNewest'
  <2> SUFFICES ASSUME NEW i \in 1..Len(buffer')
               PROVE  buffer'[i] = pushed' - Len(buffer') + i
    BY DEF HoldsNewest
  <2>1. count + i \in 1..Len(buffer)
    BY <1>2, <1>4, <1>6
  <2>2. buffer[count + i] = pushed - Len(buffer) + (count + i)
    BY <1>1, <2>1 DEF HoldsNewest
  <2>3. i \in Int
    OBVIOUS
  <2>4. buffer'[i] = buffer[count + i]
    BY <1>7
  <2> QED BY <1>2, <1>a, <1>b, <2>2, <2>3, <2>4
<1>11. Conservation'
  BY <1>1, <1>2, <1>a, <1>b DEF Conservation
<1>12. LastBehind'
  BY <1>2, <1>8, <1>a, <1>b DEF LastBehind
<1> QED BY <1>9, <1>10, <1>11, <1>12 DEF RingInv

LEMMA ClearKeepsInv == ASSUME RingInv, Clear PROVE RingInv'
<1> USE RingAssumption
<1>1. RingTypeOK /\ HoldsNewest /\ Conservation /\ LastBehind
  BY DEF RingInv
<1>2. /\ buffer \in Seq(1..MaxPushed) /\ Len(buffer) \in Nat
      /\ dropped \in Nat /\ pushed \in 0..MaxPushed /\ popped \in Nat /\ cleared \in Nat
  BY <1>1 DEF RingTypeOK
<1>3. buffer # <<>> /\ Len(buffer) > 0 /\ buffer' = <<>> /\ Len(buffer') = 0
  BY <1>2 DEF Clear
<1>4. last' = pushed /\ last' = buffer[Len(buffer)] /\ last' \in 1..MaxPushed
  BY <1>1, <1>2, <1>3 DEF Clear, HoldsNewest
<1>5. RingTypeOK'
  BY <1>1, <1>2, <1>3, <1>4, CapacityAssumption DEF Clear, RingTypeOK
<1>6. HoldsNewest' /\ Conservation' /\ LastBehind'
  BY <1>1, <1>2, <1>3, <1>4 DEF Clear, HoldsNewest, Conservation, LastBehind
<1> QED BY <1>5, <1>6 DEF RingInv

LEMMA PushIsBatchOfOne == ASSUME RingInv, Push PROVE Appends(1)
<1> USE RingAssumption, CapacityAssumption
<1>1. /\ Len(buffer) \in Nat /\ Len(buffer) <= Capacity
      /\ pushed \in Nat /\ dropped \in Nat
  BY DEF RingInv, RingTypeOK
<1>2. [i \in 1..1 |-> pushed + i] = <<pushed + 1>>
  BY <1>1
<1>3. Overflow(buffer, <<pushed + 1>>) = IF Len(buffer) = Capacity THEN 1 ELSE 0
  BY <1>1 DEF Overflow
<1> QED BY <1>1, <1>2, <1>3 DEF Push, Appends

LEMMA RingStep == RingInv /\ [Next]_ringVars => RingInv'
<1> SUFFICES ASSUME RingInv, [Next]_ringVars PROVE RingInv'
  OBVIOUS
<1>1. CASE UNCHANGED ringVars
  BY <1>1 DEF ringVars, RingInv, RingTypeOK, HoldsNewest, Conservation, LastBehind
<1>2. CASE Push
  <2>1. 1 \in Nat \ {0}
    OBVIOUS
  <2> QED BY <1>2, <2>1, PushIsBatchOfOne, PushKeepsInv
<1>3. ASSUME NEW count \in 1..MaxBatch, PushBatch(count)
      PROVE  RingInv'
  <2>1. count \in Nat \ {0}
    BY RingAssumption
  <2>2. Appends(count)
    BY <1>3 DEF PushBatch, Appends
  <2> QED BY <2>1, <2>2, PushKeepsInv
<1>4. ASSUME NEW limit \in 1..MaxBatch, PopBatch(limit)
      PROVE  RingInv'
  BY <1>4, PopKeepsInv
<1>5. CASE Clear
  BY <1>5, ClearKeepsInv
<1> QED BY <1>1, <1>2, <1>3, <1>4, <1>5 DEF Next

LEMMA RingInit == Init => RingInv
BY RingAssumption, CapacityAssumption
   DEF Init, RingInv, RingTypeOK, HoldsNewest, Conservation, LastBehind

THEOREM RingInvariant == Spec => []RingInv
BY RingInit, RingStep, PTL DEF Spec

(* An overflow costs the oldest items and no others. *)
THEOREM HoldsNewestHolds == Spec => []HoldsNewest
BY RingInvariant, PTL DEF RingInv

(* dropped_count accounts for every item that was neither handed out nor   *)
(* cleared, for single pushes and for batches of any size.                 *)
THEOREM ConservationHolds == Spec => []Conservation
BY RingInvariant, PTL DEF RingInv

(* Items leave in the order of their pushes. *)
THEOREM InOrderHolds == Spec => []InOrder
<1>1. RingInv => InOrder
  <2> SUFFICES ASSUME RingInv, buffer # <<>> PROVE last < buffer[1]
    BY DEF InOrder
  <2>1. /\ buffer \in Seq(1..MaxPushed) /\ Len(buffer) \in Nat /\ Len(buffer) > 0
        /\ pushed \in Nat /\ last \in Nat
    BY RingAssumption DEF RingInv, RingTypeOK
  <2>2. buffer[1] = pushed - Len(buffer) + 1
    BY <2>1 DEF RingInv, HoldsNewest
  <2> QED BY <2>1, <2>2 DEF RingInv, LastBehind
<1> QED BY <1>1, RingInvariant, PTL

(* Only a full buffer drops. *)
THEOREM DropsOnlyWhenFullHolds == Spec => DropsOnlyWhenFull
<1>1. RingInv /\ [Next]_ringVars => [dropped' > dropped => Len(buffer') = Capacity]_ringVars
  <2> SUFFICES ASSUME RingInv, Next, dropped' > dropped
               PROVE  Len(buffer') = Capacity
    OBVIOUS
  <2> USE RingAssumption, CapacityAssumption
  <2>1. /\ buffer \in Seq(1..MaxPushed) /\ Len(buffer) \in Nat
        /\ pushed \in 0..MaxPushed /\ dropped \in Nat
    BY DEF RingInv, RingTypeOK
  <2>2. ASSUME NEW count \in Nat \ {0}, Appends(count)
        PROVE  Len(buffer') = Capacity
    <3> DEFINE items == [i \in 1..count |-> pushed + i]
    <3>1. items \in Seq(1..MaxPushed) /\ Len(items) = count
      BY <2>1, <2>2 DEF Appends
    <3> HIDE DEF items
    <3>2. Overflow(buffer, items) > 0
      BY <2>1, <2>2, <3>1 DEF items, Overflow, Appends
    <3>3. Overflow(buffer, items) = Len(buffer) + count - Capacity
      BY <2>1, <3>1, <3>2 DEF Overflow
    <3>4. Len(buffer') = Len(buffer) + Len(items) - Overflow(buffer, items)
      BY <2>1, <2>2, <3>1, ExtendedKeepsTheRightEnd DEF items, Appends
    <3> QED BY <2>1, <3>1, <3>3, <3>4
  <2>3. CASE Push
    <3>1. 1 \in Nat \ {0}
      OBVIOUS
    <3> QED BY <2>2, <2>3, <3>1, PushIsBatchOfOne
  <2>4. ASSUME NEW count \in 1..MaxBatch, PushBatch(count)
        PROVE  Len(buffer') = Capacity
    <3>1. count \in Nat \ {0}
      OBVIOUS
    <3>2. Appends(count)
      BY <2>4 DEF PushBatch, Appends
    <3> QED BY <2>2, <3>1, <3>2
  <2>5. CASE \E limit \in 1..MaxBatch : PopBatch(limit)
    BY <2>1, <2>5 DEF PopBatch
  <2>6. CASE Clear
    BY <2>1, <2>6 DEF Clear
  <2> QED BY <2>3, <2>4, <2>5, <2>6 DEF Next
<1> QED BY <1>1, RingInvariant, PTL DEF Spec, DropsOnlyWhenFull

-----------------------------------------------------------------------------
(* The filter in front of the ring.                                        *)
(*                                                                         *)
(* Only its feeder touches a sole topic's references, other than to reset  *)
(* them; so what the feeder read of them at a check still holds when it    *)
(* commits, unless a reset came between, and that shows in resets.         *)

Pushing == {"value", "clock", "time", "commit value", "commit time", "push"}
Calling(p) == [pc : Pushing, event : Feed[p], now : Nat, begun : Nat]
Passage == [event : Event, at : Nat, begun : Nat, ended : Nat]

FilterTypeOK ==
    /\ clock \in Nat /\ resets \in Nat
    /\ DOMAIN calls = Thread
    /\ \A p \in Thread : \/ calls[p] \in Calling(p) /\ calls[p].begun <= resets
                         \/ calls[p].pc \in {"idle", "reset time"}
    /\ passed \in Seq(Passage)
    /\ \A i \in DOMAIN passed : passed[i].begun <= resets

IsLatest(i, indices) == i \in indices /\ \A j \in indices : j <= i
HasLatest(indices) == indices = {} \/ \E i \in indices : IsLatest(i, indices)

(* The feeder p is in a push to the topic, and has written a reference.    *)
InPush(p, topic) == calls[p].pc \in Pushing /\ calls[p].event.topic = topic
ValueSet(p, topic) == /\ InPush(p, topic) /\ calls[p].event.value # NoNumber
                      /\ calls[p].pc \in {"commit time", "push"}
TimeSet(p, topic) == InPush(p, topic) /\ calls[p].pc = "push"

(* A reference is that of the last event that passed or of the one that    *)
(* passes now.                                                             *)
ValueReference(p, topic) ==
    topic \in DOMAIN last_values =>
        \/ ValueSet(p, topic) /\ last_values[topic] = calls[p].event.value
        \/ /\ ~ ValueSet(p, topic) /\ Numbers(topic) # {}
           /\ \A i \in Numbers(topic) :
                 IsLatest(i, Numbers(topic)) => last_values[topic] = passed[i].event.value
TimeReference(p, topic) ==
    topic \in DOMAIN last_timestamps =>
        \/ TimeSet(p, topic) /\ last_timestamps[topic] = calls[p].now
        \/ /\ ~ TimeSet(p, topic) /\ Passes(topic) # {}
           /\ \A i \in Passes(topic) :
                 IsLatest(i, Passes(topic)) => last_timestamps[topic] = passed[i].at

(* A reference that was written since the last reset is there. *)
ValuePresent(p, topic) ==
    /\ ValueSet(p, topic) /\ calls[p].begun = resets => topic \in DOMAIN last_values
    /\ \A i \in Numbers(topic) : passed[i].begun = resets => topic \in DOMAIN last_values
TimePresent(p, topic) ==
    /\ TimeSet(p, topic) /\ calls[p].begun = resets => topic \in DOMAIN last_timestamps
    /\ \A i \in Passes(topic) : passed[i].begun = resets => topic \in DOMAIN last_timestamps

(* What the feeder has checked so far. *)
ValueApart(p, topic) ==
    InPush(p, topic) /\ calls[p].event.value # NoNumber /\ calls[p].pc # "value" =>
        \A i \in Numbers(topic) : IsLatest(i, Numbers(topic)) /\ passed[i].begun = resets =>
            Distance(passed[i].event.value, calls[p].event.value) >= Deadband
TimeApart(p, topic) ==
    InPush(p, topic) /\ calls[p].pc \in {"commit value", "commit time", "push"} =>
        \A i \in Passes(topic) : IsLatest(i, Passes(topic)) /\ passed[i].begun = resets =>
            calls[p].now - passed[i].at >= MinInterval
ValueComes(p, topic) == calls[p].pc = "value" => calls[p].event.value # NoNumber

Spaced(topic) ==
    /\ \A ij \in Successive(Passes(topic)) :
          Undisturbed(ij) => passed[ij[2]].at - passed[ij[1]].at >= MinInterval
    /\ \A ij \in Successive(Numbers(topic)) :
          Undisturbed(ij) => Distance(passed[ij[1]].event.value, passed[ij[2]].event.value) >= Deadband

TopicInv(p, topic) ==
    /\ ValueReference(p, topic) /\ ValuePresent(p, topic) /\ ValueApart(p, topic)
    /\ TimeReference(p, topic) /\ TimePresent(p, topic) /\ TimeApart(p, topic)
    /\ ValueComes(p, topic)
    /\ HasLatest(Passes(topic)) /\ HasLatest(Numbers(topic)) /\ Spaced(topic)

FilterInv == FilterTypeOK /\ \A topic \in Sole : \A p \in Feeders(topic) : TopicInv(p, topic)


(* The filter does with the ring what the ring's own specification allows: *)
(* what is proved of the ring holds behind the filter.                     *)
THEOREM FilterImplementsRing == FilterSpec => Spec
<1>1. FilterInit => Init
  BY DEF FilterInit
<1>2. [FilterNext]_allVars => [Next]_ringVars
  BY DEF FilterNext, Next, CallPush, CheckDeadband, ReadClock, CheckInterval, CommitValue,
         CommitTime, PushPassed, ResetValue, ResetTime, Tick, Others, allVars, ringVars
<1> QED BY <1>1, <1>2, PTL DEF FilterSpec, Spec

LEMMA SoleFacts ==
  ASSUME NEW topic \in Sole, NEW p \in Feeders(topic)
  PROVE  /\ p \in Thread
         /\ \A q \in Thread : \A e \in Feed[q] :
               /\ e.topic = topic => q = p /\ ValueKey(e) = topic /\ TimeKey(e) = topic
               /\ e.topic # topic => ValueKey(e) # topic /\ TimeKey(e) # topic
<1>1. Feeders(topic) \in SUBSET Thread
  BY DEF Feeders
<1>2. IsFiniteSet(Feeders(topic)) /\ Cardinality(Feeders(topic)) = 1
  BY <1>1, FilterAssumption, FS_Subset DEF Sole
<1>3. \E x : Feeders(topic) = {x}
  BY <1>2, FS_Singleton
<1>4. ASSUME NEW q \in Thread, NEW e \in Feed[q], e.topic = topic
      PROVE  q = p /\ ~ e.bare
  <2>1. q \in Feeders(topic) /\ e \in Event
    BY <1>4 DEF Feeders, Event
  <2> QED BY <1>3, <1>4, <2>1 DEF Sole
<1>5. topic # "__default__"
  BY DEF Sole
<1> QED BY <1>1, <1>4, <1>5 DEF ValueKey, TimeKey

LEMMA NumbersPass ==
  ASSUME NEW topic PROVE Numbers(topic) \subseteq Passes(topic) /\ Passes(topic) \subseteq DOMAIN passed
BY DEF Numbers, Passes

(* A step of others, or of the feeder on other business. *)
LEMMA Untouched ==
  ASSUME NEW p, NEW topic, TopicInv(p, topic), UNCHANGED resets,
         topic \in DOMAIN last_values' <=> topic \in DOMAIN last_values,
         topic \in DOMAIN last_values => last_values'[topic] = last_values[topic],
         topic \in DOMAIN last_timestamps' <=> topic \in DOMAIN last_timestamps,
         topic \in DOMAIN last_timestamps => last_timestamps'[topic] = last_timestamps[topic],
         Passes(topic)' = Passes(topic), Numbers(topic)' = Numbers(topic),
         \A i \in Passes(topic) : passed'[i] = passed[i],
         \/ calls'[p] = calls[p]
         \/ ~ InPush(p, topic) /\ ~ InPush(p, topic)' /\ ValueComes(p, topic)'
  PROVE  TopicInv(p, topic)'
<1>1. /\ InPush(p, topic)' <=> InPush(p, topic)
      /\ ValueSet(p, topic)' <=> ValueSet(p, topic)
      /\ TimeSet(p, topic)' <=> TimeSet(p, topic)
      /\ InPush(p, topic) => calls'[p] = calls[p]
  BY DEF InPush, ValueSet, TimeSet
<1>2. ValueSet(p, topic) => InPush(p, topic)
  BY DEF ValueSet
<1>3. TimeSet(p, topic) => InPush(p, topic)
  BY DEF TimeSet
<1>4. \A i \in Numbers(topic) : i \in Passes(topic)
  BY NumbersPass
<1>5. ValueReference(p, topic)'
  BY <1>1, <1>2, <1>4 DEF TopicInv, ValueReference, IsLatest
<1>6. ValuePresent(p, topic)'
  BY <1>1, <1>2, <1>4 DEF TopicInv, ValuePresent
<1>7. ValueApart(p, topic)'
  BY <1>1, <1>4 DEF TopicInv, ValueApart, IsLatest
<1>8. TimeReference(p, topic)'
  BY <1>1, <1>3 DEF TopicInv, TimeReference, IsLatest
<1>9. TimePresent(p, topic)'
  BY <1>1, <1>3 DEF TopicInv, TimePresent
<1>10. TimeApart(p, topic)'
  BY <1>1 DEF TopicInv, TimeApart, IsLatest
<1>11. ValueComes(p, topic)'
  BY DEF TopicInv, ValueComes
<1>12. HasLatest(Passes(topic))' /\ HasLatest(Numbers(topic))'
  BY DEF TopicInv, HasLatest, IsLatest
<1>13. Spaced(topic)'
  <2>1. \A ij \in Successive(Passes(topic)) : ij[1] \in Passes(topic) /\ ij[2] \in Passes(topic)
    BY DEF Successive
  <2>2. \A ij \in Successive(Numbers(topic)) : ij[1] \in Passes(topic) /\ ij[2] \in Passes(topic)
    BY <1>4 DEF Successive
  <2>3. Successive(Passes(topic))' = Successive(Passes(topic))
        /\ Successive(Numbers(topic))' = Successive(Numbers(topic))
    BY DEF Successive
  <2> QED BY <2>1, <2>2, <2>3 DEF TopicInv, Spaced, Undisturbed
<1> QED BY <1>5, <1>6, <1>7, <1>8, <1>9, <1>10, <1>11, <1>12, <1>13 DEF TopicInv

LEMMA NotTheNext == \A n, m \in Nat : n <= m => n # m + 1
OBVIOUS

(* A reset takes references away, and the count of resets shows it. *)
LEMMA Forgotten ==
  ASSUME NEW p \in Thread, NEW topic, TopicInv(p, topic), FilterTypeOK,
         resets' = resets + 1, UNCHANGED passed,
         topic \in DOMAIN last_values' => /\ topic \in DOMAIN last_values
                                          /\ last_values'[topic] = last_values[topic],
         topic \in DOMAIN last_timestamps' => /\ topic \in DOMAIN last_timestamps
                                              /\ last_timestamps'[topic] = last_timestamps[topic],
         \/ calls'[p] = calls[p]
         \/ ~ InPush(p, topic) /\ ~ InPush(p, topic)' /\ ValueComes(p, topic)'
  PROVE  TopicInv(p, topic)'
<1>1. /\ InPush(p, topic)' <=> InPush(p, topic)
      /\ ValueSet(p, topic)' <=> ValueSet(p, topic)
      /\ TimeSet(p, topic)' <=> TimeSet(p, topic)
      /\ InPush(p, topic) => calls'[p] = calls[p]
  BY DEF InPush, ValueSet, TimeSet
<1>2. ValueSet(p, topic) => InPush(p, topic)
  BY DEF ValueSet
<1>3. TimeSet(p, topic) => InPush(p, topic)
  BY DEF TimeSet
<1>4. \A i \in Numbers(topic) : i \in Passes(topic)
  BY NumbersPass
<1>a. Passes(topic)' = Passes(topic) /\ Numbers(topic)' = Numbers(topic)
  BY DEF Passes, Numbers
<1>b. \A i \in Passes(topic) : passed'[i].begun # resets'
  <2>1. \A i \in Passes(topic) : passed[i].begun \in Nat /\ passed[i].begun <= resets
    <3>1. passed \in Seq(Passage) /\ \A i \in DOMAIN passed : passed[i].begun <= resets
      BY DEF FilterTypeOK
    <3>2. \A i \in DOMAIN passed : passed[i] \in Passage
      BY ONLY <3>1
    <3>3. \A i \in DOMAIN passed : passed[i].begun \in Nat
      BY ONLY <3>2 DEF Passage
    <3> QED BY ONLY <3>1, <3>3, NumbersPass
  <2>2. resets \in Nat
    BY DEF FilterTypeOK
  <2> QED BY <2>1, <2>2, NotTheNext, Zenon
<1>c. InPush(p, topic) => calls'[p].begun # resets'
  <2>1. InPush(p, topic) => calls[p].begun \in Nat /\ calls[p].begun <= resets
    BY DEF FilterTypeOK, InPush, Calling, Pushing
  <2>2. resets \in Nat
    BY DEF FilterTypeOK
  <2> QED BY <1>1, <2>1, <2>2, NotTheNext, Zenon
<1>5. ValueReference(p, topic)'
  BY <1>1, <1>2, <1>4, <1>a DEF TopicInv, ValueReference, IsLatest
<1>6. ValuePresent(p, topic)'
  BY <1>1, <1>2, <1>4, <1>a, <1>b, <1>c DEF ValuePresent
<1>7. ValueApart(p, topic)'
  BY <1>4, <1>a, <1>b DEF ValueApart
<1>8. TimeReference(p, topic)'
  BY <1>1, <1>3, <1>a DEF TopicInv, TimeReference, IsLatest
<1>9. TimePresent(p, topic)'
  BY <1>1, <1>3, <1>a, <1>b, <1>c DEF TimePresent
<1>10. TimeApart(p, topic)'
  BY <1>a, <1>b DEF TimeApart
<1>11. ValueComes(p, topic)'
  BY DEF TopicInv, ValueComes
<1>12. HasLatest(Passes(topic))' /\ HasLatest(Numbers(topic))'
  BY <1>a DEF TopicInv, HasLatest, IsLatest
<1>13. Spaced(topic)'
  BY <1>a DEF TopicInv, Spaced, Undisturbed, Successive
<1> QED BY <1>5, <1>6, <1>7, <1>8, <1>9, <1>10, <1>11, <1>12, <1>13 DEF TopicInv


(* The feeder goes from check to check and has written nothing yet. *)
LEMMA FeederChecks ==
  ASSUME NEW p, NEW topic, TopicInv(p, topic),
         UNCHANGED <<last_values, last_timestamps, passed, resets>>,
         ~ ValueSet(p, topic), ~ ValueSet(p, topic)', ~ TimeSet(p, topic), ~ TimeSet(p, topic)',
         ValueApart(p, topic)', TimeApart(p, topic)', ValueComes(p, topic)'
  PROVE  TopicInv(p, topic)'
<1>1. Passes(topic)' = Passes(topic) /\ Numbers(topic)' = Numbers(topic)
  BY DEF Passes, Numbers
<1>2. ValueReference(p, topic)'
  BY <1>1 DEF TopicInv, ValueReference, IsLatest
<1>3. ValuePresent(p, topic)'
  BY <1>1 DEF TopicInv, ValuePresent
<1>4. TimeReference(p, topic)'
  BY <1>1 DEF TopicInv, TimeReference, IsLatest
<1>5. TimePresent(p, topic)'
  BY <1>1 DEF TopicInv, TimePresent
<1>6. HasLatest(Passes(topic))' /\ HasLatest(Numbers(topic))'
  BY <1>1 DEF TopicInv, HasLatest, IsLatest
<1>7. Spaced(topic)'
  BY <1>1 DEF TopicInv, Spaced, Undisturbed, Successive
<1> QED BY <1>2, <1>3, <1>4, <1>5, <1>6, <1>7 DEF TopicInv

Checking == {"value", "clock", "time", "commit value"}

LEMMA CallMoves ==
  ASSUME FilterInv, NEW q \in Thread, NEW c, Call(q, c), clock' \in Nat,
         UNCHANGED <<last_values, last_timestamps, passed, resets>>,
         calls[q].pc \in {"idle"} \cup Checking,
         \/ c = Idle
         \/ c \in Calling(q) /\ c.begun <= resets /\ c.pc \in Checking,
         calls[q].pc \in Checking /\ c.pc \in Checking => c.event = calls[q].event,
         c.pc = "value" => c.event.value # NoNumber,
         \A topic \in Sole : InPush(q, topic)' => ValueApart(q, topic)' /\ TimeApart(q, topic)'
  PROVE  FilterInv'
<1>1. calls'[q] = c /\ DOMAIN calls' = Thread /\ \A p \in Thread \ {q} : calls'[p] = calls[p]
  BY DEF Call, FilterInv, FilterTypeOK
<1>2. FilterTypeOK'
  <2>1. \A p \in Thread : \/ calls'[p] \in Calling(p) /\ calls'[p].begun <= resets'
                          \/ calls'[p].pc \in {"idle", "reset time"}
    <3>1. ASSUME NEW p \in Thread, p # q
          PROVE  \/ calls'[p] \in Calling(p) /\ calls'[p].begun <= resets'
                 \/ calls'[p].pc \in {"idle", "reset time"}
      BY <1>1, <3>1 DEF FilterInv, FilterTypeOK
    <3>2. \/ calls'[q] \in Calling(q) /\ calls'[q].begun <= resets'
          \/ calls'[q].pc \in {"idle", "reset time"}
      <4>1. Idle.pc = "idle"
        BY DEF Idle
      <4>2. CASE c = Idle
        BY <1>1, <4>1, <4>2
      <4>3. CASE c \in Calling(q) /\ c.begun <= resets
        BY <1>1, <4>3
      <4> QED BY <4>2, <4>3
    <3> QED BY <3>1, <3>2
  <2> QED BY <1>1, <2>1 DEF FilterInv, FilterTypeOK
<1>3. ASSUME NEW topic \in Sole, NEW p \in Feeders(topic) PROVE TopicInv(p, topic)'
  <2>1. p \in Thread /\ TopicInv(p, topic)
    BY SoleFacts DEF FilterInv
  <2>2. CASE p # q \/ (~ InPush(p, topic) /\ ~ InPush(p, topic)')
    <3>1. \/ calls'[p] = calls[p]
          \/ ~ InPush(p, topic) /\ ~ InPush(p, topic)' /\ ValueComes(p, topic)'
      BY <1>1, <2>1, <2>2 DEF ValueComes
    <3>2. Passes(topic)' = Passes(topic) /\ Numbers(topic)' = Numbers(topic)
      BY DEF Passes, Numbers
    <3> QED BY <2>1, <3>1, <3>2, Untouched
  <2>3. CASE p = q /\ (InPush(p, topic) \/ InPush(p, topic)')
    <3>1. /\ ~ ValueSet(p, topic) /\ ~ ValueSet(p, topic)'
          /\ ~ TimeSet(p, topic) /\ ~ TimeSet(p, topic)'
      <4>1. calls[p].pc \notin {"commit time", "push"}
        BY <2>3 DEF Checking
      <4>2. calls'[p].pc \notin {"commit time", "push"}
        <5>1. Idle.pc = "idle"
          BY DEF Idle
        <5> QED BY <1>1, <2>3, <5>1 DEF Checking
      <4> QED BY <4>1, <4>2 DEF ValueSet, TimeSet
    <3>2. ValueApart(p, topic)' /\ TimeApart(p, topic)'
      BY <2>3 DEF ValueApart, TimeApart
    <3>3. ValueComes(p, topic)'
      BY <1>1, <2>3 DEF ValueComes
    <3> QED BY <2>1, <3>1, <3>2, <3>3, FeederChecks
  <2> QED BY <2>2, <2>3
<1> QED BY <1>2, <1>3 DEF FilterInv, Sole, Feeders, Topics

LEMMA CallPushStep ==
  ASSUME FilterInv, NEW q \in Thread, NEW e \in Feed[q], CallPush(q, e)
  PROVE  FilterInv'
<1> DEFINE c == [pc |-> IF e.value = NoNumber THEN "clock" ELSE "value",
                 event |-> e, now |-> 0, begun |-> resets]
<1>1. /\ Call(q, c) /\ calls[q].pc = "idle"
      /\ UNCHANGED <<last_values, last_timestamps, clock, passed, resets>>
  BY DEF CallPush, At
<1>2. resets \in Nat /\ clock \in Nat
  BY DEF FilterInv, FilterTypeOK
<1>3. /\ c \in Calling(q) /\ c.begun <= resets /\ c.pc \in Checking
      /\ c.pc = "value" => c.event.value # NoNumber
  BY <1>2 DEF Calling, Pushing, Checking
<1>4. calls'[q] = c
  BY <1>1 DEF Call, FilterInv, FilterTypeOK
<1>5. \A topic \in Sole : ValueApart(q, topic)' /\ TimeApart(q, topic)'
  BY <1>4 DEF ValueApart, TimeApart
<1>6. calls[q].pc \notin Checking
  BY <1>1 DEF Checking
<1>7. \A topic \in Sole : InPush(q, topic)' => ValueApart(q, topic)' /\ TimeApart(q, topic)'
  BY <1>5
<1>8. clock' \in Nat /\ calls[q].pc \in {"idle"} \cup Checking
  BY <1>1, <1>2
<1> HIDE DEF c
<1>9. ~ (calls[q].pc \in Checking /\ c.pc \in Checking)
  BY <1>6
<1> QED BY <1>1, <1>3, <1>7, <1>8, <1>9, CallMoves

(* What a check compares the event with, when nothing was reset since the  *)
(* last one passed, is what passed last.                                   *)
LEMMA CheckDeadbandStep ==
  ASSUME FilterInv, NEW q \in Thread, CheckDeadband(q)
  PROVE  FilterInv'
<1> DEFINE e == calls[q].event
           to == [calls[q] EXCEPT !.pc = "clock"]
<1>1. /\ calls[q].pc = "value" /\ calls[q] \in Calling(q) /\ calls[q].begun <= resets
      /\ UNCHANGED <<last_values, last_timestamps, clock, passed, resets>>
      /\ clock \in Nat
  BY DEF CheckDeadband, At, FilterInv, FilterTypeOK
<1>2. CASE Call(q, Idle)
  <2>1. calls'[q] = Idle
    BY <1>2 DEF Call, FilterInv, FilterTypeOK
  <2>2. \A topic \in Sole : ~ InPush(q, topic)'
    BY <2>1 DEF InPush, Idle, Pushing
  <2>3. Idle.pc \notin Checking /\ Idle.pc # "value"
    BY DEF Idle, Checking
  <2>4. calls[q].pc \in {"idle"} \cup Checking
    BY <1>1 DEF Checking
  <2>5. clock' \in Nat
    BY <1>1
  <2> QED BY <1>1, <1>2, <2>2, <2>3, <2>4, <2>5, CallMoves
<1>3. CASE Call(q, to) /\ ~ Within(e, Lookup(last_values, ValueKey(e), NoNumber))
  <2>1. to \in Calling(q) /\ to.pc = "clock" /\ to.event = e /\ to.begun = calls[q].begun
    BY <1>1 DEF Calling, Pushing
  <2>2. calls'[q] = to
    BY <1>3 DEF Call, FilterInv, FilterTypeOK
  <2>3. ASSUME NEW topic \in Sole, InPush(q, topic)'
        PROVE  ValueApart(q, topic)' /\ TimeApart(q, topic)'
    <3>1. e \in Feed[q] /\ e.topic = topic /\ InPush(q, topic)
      BY <1>1, <2>1, <2>2, <2>3 DEF InPush, Calling, Pushing
    <3>2. q \in Feeders(topic)
      BY <3>1 DEF Feeders
    <3>3. TopicInv(q, topic) /\ ValueKey(e) = topic
      BY <3>1, <3>2, SoleFacts DEF FilterInv
    <3>4. e.value # NoNumber
      BY <1>1, <3>3 DEF TopicInv, ValueComes
    <3>5. ASSUME NEW i \in Numbers(topic), IsLatest(i, Numbers(topic)), passed[i].begun = resets
          PROVE  Distance(passed[i].event.value, e.value) >= Deadband
      <4>1. topic \in DOMAIN last_values
        BY <3>3, <3>5 DEF TopicInv, ValuePresent
      <4>2. last_values[topic] = passed[i].event.value
        BY <1>1, <3>3, <3>5, <4>1 DEF TopicInv, ValueReference, ValueSet
      <4>3. passed[i].event.value # NoNumber /\ passed[i].event \in Event /\ e \in Event
        <5>1. passed \in Seq(Passage) /\ i \in DOMAIN passed
          BY <3>5, NumbersPass DEF FilterInv, FilterTypeOK
        <5>2. passed[i] \in Passage
          BY <5>1
        <5>3. passed[i].event \in Event
          BY <5>2 DEF Passage
        <5>4. passed[i].event.value # NoNumber
          BY <3>5 DEF Numbers
        <5> QED BY <3>1, <5>3, <5>4 DEF Event
      <4>4. passed[i].event.value \in Int /\ e.value \in Int /\ Deadband \in Nat
        BY <3>4, <4>3, FilterAssumption
      <4>5. Lookup(last_values, ValueKey(e), NoNumber) = passed[i].event.value
        BY <3>3, <4>1, <4>2 DEF Lookup
      <4>6. ~ (Distance(e.value, passed[i].event.value) < Deadband)
        BY <1>3, <4>3, <4>5 DEF Within
      <4> HIDE DEF e
      <4> QED BY <4>4, <4>6 DEF Distance
    <3>6. ValueApart(q, topic)'
      <4>1. Numbers(topic)' = Numbers(topic)
        BY <1>1 DEF Numbers, Passes
      <4> QED BY <1>1, <2>1, <2>2, <3>5, <4>1 DEF ValueApart, IsLatest
    <3>7. TimeApart(q, topic)'
      BY <2>1, <2>2 DEF TimeApart
    <3> QED BY <3>6, <3>7
  <2>4. calls[q].pc \in {"idle"} \cup Checking /\ to.pc \in Checking /\ to.pc # "value"
    BY <1>1, <2>1 DEF Checking
  <2>5. clock' \in Nat /\ to.begun <= resets
    BY <1>1, <2>1
  <2> HIDE DEF to, e
  <2> QED BY <1>1, <1>3, <2>1, <2>3, <2>4, <2>5, CallMoves DEF e
<1> QED BY <1>2, <1>3 DEF CheckDeadband, To


LEMMA ReadClockStep ==
  ASSUME FilterInv, NEW q \in Thread, ReadClock(q)
  PROVE  FilterInv'
<1> DEFINE e == calls[q].event
           to == [calls[q] EXCEPT !.pc = "time", !.now = clock]
<1>1. /\ calls[q].pc = "clock" /\ calls[q] \in Calling(q) /\ calls[q].begun <= resets
      /\ UNCHANGED <<last_values, last_timestamps, clock, passed, resets>>
      /\ clock \in Nat /\ Call(q, to)
  BY DEF ReadClock, At, FilterInv, FilterTypeOK
<1>2. /\ to \in Calling(q) /\ to.pc = "time" /\ to.event = e /\ to.begun = calls[q].begun
  BY <1>1 DEF Calling, Pushing
<1>3. calls'[q] = to
  BY <1>1 DEF Call, FilterInv, FilterTypeOK
<1>4. ASSUME NEW topic \in Sole, InPush(q, topic)'
      PROVE  ValueApart(q, topic)' /\ TimeApart(q, topic)'
  <2>1. e \in Feed[q] /\ e.topic = topic /\ InPush(q, topic)
    BY <1>1, <1>2, <1>3, <1>4 DEF InPush, Calling, Pushing
  <2>2. q \in Feeders(topic)
    BY <2>1 DEF Feeders
  <2>3. ValueApart(q, topic)
    BY <2>2 DEF FilterInv, TopicInv
  <2>4. Numbers(topic)' = Numbers(topic)
    BY <1>1 DEF Numbers, Passes
  <2>5. ValueApart(q, topic)'
    BY <1>1, <1>2, <1>3, <2>1, <2>3, <2>4 DEF ValueApart, IsLatest
  <2>6. TimeApart(q, topic)'
    BY <1>2, <1>3 DEF TimeApart
  <2> QED BY <2>5, <2>6
<1>5. calls[q].pc \in {"idle"} \cup Checking /\ to.pc \in Checking /\ to.pc # "value"
  BY <1>1, <1>2 DEF Checking
<1>6. clock' \in Nat /\ to.begun <= resets
  BY <1>1, <1>2
<1> HIDE DEF to, e
<1> QED BY <1>1, <1>2, <1>4, <1>5, <1>6, CallMoves DEF e

LEMMA CheckIntervalStep ==
  ASSUME FilterInv, NEW q \in Thread, CheckInterval(q)
  PROVE  FilterInv'
<1> DEFINE e == calls[q].event
           since == Lookup(last_timestamps, TimeKey(e), 0)
           to == [calls[q] EXCEPT !.pc = "commit value"]
<1>1. /\ calls[q].pc = "time" /\ calls[q] \in Calling(q) /\ calls[q].begun <= resets
      /\ UNCHANGED <<last_values, last_timestamps, clock, passed, resets>>
      /\ clock \in Nat
  BY DEF CheckInterval, At, FilterInv, FilterTypeOK
<1>2. CASE Call(q, Idle)
  <2>1. calls'[q] = Idle
    BY <1>2 DEF Call, FilterInv, FilterTypeOK
  <2>2. \A topic \in Sole : ~ InPush(q, topic)'
    BY <2>1 DEF InPush, Idle, Pushing
  <2>3. Idle.pc \notin Checking /\ Idle.pc # "value"
    BY DEF Idle, Checking
  <2>4. calls[q].pc \in {"idle"} \cup Checking
    BY <1>1 DEF Checking
  <2>5. clock' \in Nat
    BY <1>1
  <2> QED BY <1>1, <1>2, <2>2, <2>3, <2>4, <2>5, CallMoves
<1>3. CASE Call(q, to) /\ ~ (calls[q].now - since < MinInterval)
  <2>1. /\ to \in Calling(q) /\ to.pc = "commit value" /\ to.event = e
        /\ to.begun = calls[q].begun /\ to.now = calls[q].now
    BY <1>1 DEF Calling, Pushing
  <2>2. calls'[q] = to
    BY <1>3 DEF Call, FilterInv, FilterTypeOK
  <2>3. ASSUME NEW topic \in Sole, InPush(q, topic)'
        PROVE  ValueApart(q, topic)' /\ TimeApart(q, topic)'
    <3>1. e \in Feed[q] /\ e.topic = topic /\ InPush(q, topic)
      BY <1>1, <2>1, <2>2, <2>3 DEF InPush, Calling, Pushing
    <3>2. q \in Feeders(topic)
      BY <3>1 DEF Feeders
    <3>3. TopicInv(q, topic) /\ TimeKey(e) = topic
      BY <3>1, <3>2, SoleFacts DEF FilterInv
    <3>4. ASSUME NEW i \in Passes(topic), IsLatest(i, Passes(topic)), passed[i].begun = resets
          PROVE  calls[q].now - passed[i].at >= MinInterval
      <4>1. topic \in DOMAIN last_timestamps
        BY <3>3, <3>4 DEF TopicInv, TimePresent
      <4>2. last_timestamps[topic] = passed[i].at
        BY <1>1, <3>3, <3>4, <4>1 DEF TopicInv, TimeReference, TimeSet
      <4>3. since = passed[i].at
        BY <3>3, <4>1, <4>2 DEF Lookup
      <4>4. passed[i].at \in Nat
        <5>1. passed \in Seq(Passage) /\ i \in DOMAIN passed
          BY <3>4, NumbersPass DEF FilterInv, FilterTypeOK
        <5>2. passed[i] \in Passage
          BY <5>1
        <5> QED BY <5>2 DEF Passage
      <4>5. calls[q].now \in Nat /\ MinInterval \in Nat
        BY <1>1, FilterAssumption DEF Calling
      <4>6. \A n, m, k \in Nat : ~ (n - m < k) => n - m >= k
        OBVIOUS
      <4>7. ~ (calls[q].now - passed[i].at < MinInterval)
        BY <1>3, <4>3
      <4> QED BY <4>4, <4>5, <4>6, <4>7, Zenon
    <3>5. TimeApart(q, topic)'
      <4>1. Passes(topic)' = Passes(topic)
        BY <1>1 DEF Passes
      <4> QED BY <1>1, <2>1, <2>2, <3>4, <4>1 DEF TimeApart, IsLatest
    <3>6. ValueApart(q, topic)'
      <4>1. Numbers(topic)' = Numbers(topic)
        BY <1>1 DEF Numbers, Passes
      <4>2. ValueApart(q, topic)
        BY <3>3 DEF TopicInv
      <4> QED BY <1>1, <2>1, <2>2, <3>1, <4>1, <4>2 DEF ValueApart, IsLatest
    <3> QED BY <3>5, <3>6
  <2>4. calls[q].pc \in {"idle"} \cup Checking /\ to.pc \in Checking /\ to.pc # "value"
    BY <1>1, <2>1 DEF Checking
  <2>5. clock' \in Nat /\ to.begun <= resets
    BY <1>1, <2>1
  <2> HIDE DEF to, e, since
  <2> QED BY <1>1, <1>3, <2>1, <2>3, <2>4, <2>5, CallMoves DEF e
<1> QED BY <1>2, <1>3 DEF CheckInterval, To

(* What is neither a push nor a reset: the clock, and other users of the ring. *)
LEMMA OutsideStep ==
  ASSUME FilterInv, Tick \/ Others \/ UNCHANGED filterVars
  PROVE  FilterInv'
<1>1. UNCHANGED <<last_values, last_timestamps, calls, passed, resets>> /\ clock' \in Nat
  <2>1. clock \in Nat
    BY DEF FilterInv, FilterTypeOK
  <2>2. CASE Tick
    BY <2>1, <2>2 DEF Tick
  <2>3. CASE Others \/ UNCHANGED filterVars
    BY <2>1, <2>3 DEF Others, filterVars
  <2> QED BY <2>2, <2>3
<1>2. FilterTypeOK'
  BY <1>1 DEF FilterInv, FilterTypeOK
<1>3. ASSUME NEW topic \in Sole, NEW p \in Feeders(topic) PROVE TopicInv(p, topic)'
  <2>1. TopicInv(p, topic)
    BY DEF FilterInv
  <2>2. Passes(topic)' = Passes(topic) /\ Numbers(topic)' = Numbers(topic)
    BY <1>1 DEF Passes, Numbers
  <2> QED BY <1>1, <2>1, <2>2, Untouched
<1> QED BY <1>2, <1>3 DEF FilterInv, Sole, Feeders, Topics

LEMMA ResetStep ==
  ASSUME FilterInv, NEW q \in Thread,
         (\E keys \in ResetArguments : ResetValue(q, keys)) \/ ResetTime(q)
  PROVE  FilterInv'
<1>1. /\ calls[q].pc \in {"idle", "reset time"}
      /\ \E to : Call(q, to) /\ to.pc \in {"idle", "reset time"}
      /\ resets' = resets + 1 /\ UNCHANGED <<clock, passed>>
  <2>1. ASSUME NEW keys, ResetValue(q, keys)
        PROVE  /\ calls[q].pc = "idle" /\ resets' = resets + 1 /\ UNCHANGED <<clock, passed>>
               /\ \E to : Call(q, to) /\ to.pc = "reset time"
    <3>1. [pc |-> "reset time", keys |-> keys].pc = "reset time"
      OBVIOUS
    <3> QED BY <2>1, <3>1 DEF ResetValue, At
  <2>2. CASE ResetTime(q)
    <3>1. Idle.pc = "idle"
      BY DEF Idle
    <3> QED BY <2>2, <3>1 DEF ResetTime, At
  <2> QED BY <2>1, <2>2
<1>2. /\ \A topic : topic \in DOMAIN last_values' => /\ topic \in DOMAIN last_values
                                                      /\ last_values'[topic] = last_values[topic]
      /\ \A topic : topic \in DOMAIN last_timestamps' =>
            /\ topic \in DOMAIN last_timestamps
            /\ last_timestamps'[topic] = last_timestamps[topic]
  BY DEF ResetValue, ResetTime, Without
<1>3. PICK to : Call(q, to) /\ to.pc \in {"idle", "reset time"}
  BY <1>1
<1>4. calls'[q] = to /\ DOMAIN calls' = Thread /\ \A p \in Thread \ {q} : calls'[p] = calls[p]
  BY <1>3 DEF Call, FilterInv, FilterTypeOK
<1>5. FilterTypeOK'
  <2>0. clock \in Nat /\ resets \in Nat /\ passed \in Seq(Passage)
    BY DEF FilterInv, FilterTypeOK
  <2>1. clock' \in Nat /\ resets' \in Nat /\ passed' \in Seq(Passage)
    <3>1. resets' = resets + 1 /\ clock' = clock /\ passed' = passed
      BY <1>1, Zenon
    <3> QED BY ONLY <2>0, <3>1
  <2>2. \A n \in Nat : n <= resets => n <= resets'
    <3>1. \A n, m \in Nat : n <= m => n <= m + 1
      BY ONLY SMT
    <3> QED BY <1>1, <2>0, <3>1, Zenon
  <2>3. ASSUME NEW i \in DOMAIN passed' PROVE passed'[i].begun <= resets'
    <3>1. passed \in Seq(Passage) /\ i \in DOMAIN passed /\ passed[i].begun <= resets
      BY <1>1 DEF FilterInv, FilterTypeOK
    <3>2. passed[i] \in Passage
      BY <3>1
    <3>3. passed[i].begun \in Nat
      BY <3>2 DEF Passage
    <3> QED BY <1>1, <2>2, <3>1, <3>3
  <2>4. ASSUME NEW p \in Thread
        PROVE  \/ calls'[p] \in Calling(p) /\ calls'[p].begun <= resets'
               \/ calls'[p].pc \in {"idle", "reset time"}
    <3>1. CASE p = q
      BY <1>3, <1>4, <3>1
    <3>2. CASE p # q /\ calls[p].pc \notin {"idle", "reset time"}
      <4>1. calls[p] \in Calling(p) /\ calls[p].begun <= resets /\ calls'[p] = calls[p]
        BY <1>4, <3>2 DEF FilterInv, FilterTypeOK
      <4>2. calls[p].begun \in Nat
        BY <4>1 DEF Calling
      <4> QED BY <2>2, <4>1, <4>2
    <3>3. CASE p # q /\ calls[p].pc \in {"idle", "reset time"}
      BY <1>4, <3>3
    <3> QED BY <3>1, <3>2, <3>3
  <2> QED BY <1>4, <2>1, <2>3, <2>4 DEF FilterTypeOK
<1>6. ASSUME NEW topic \in Sole, NEW p \in Feeders(topic) PROVE TopicInv(p, topic)'
  <2>1. p \in Thread /\ TopicInv(p, topic) /\ FilterTypeOK
    BY SoleFacts DEF FilterInv
  <2>2. \/ calls'[p] = calls[p]
        \/ ~ InPush(p, topic) /\ ~ InPush(p, topic)' /\ ValueComes(p, topic)'
    BY <1>1, <1>3, <1>4, <2>1 DEF InPush, ValueComes, Pushing
  <2> QED BY <1>1, <1>2, <2>1, <2>2, Forgotten
<1> QED BY <1>5, <1>6 DEF FilterInv, Sole, Feeders, Topics


Committing == {"commit value", "commit time", "push"}

(* What a commit leaves as it is, whichever reference it writes. *)
LEMMA FeederCommits ==
  ASSUME NEW q \in Thread, NEW pc \in Committing, calls[q].pc \in Committing,
         calls[q] \in Calling(q), NEW to, to = [calls[q] EXCEPT !.pc = pc], Call(q, to),
         FilterInv, UNCHANGED <<clock, passed, resets>>
  PROVE  /\ FilterTypeOK' /\ calls'[q] = to /\ \A p \in Thread \ {q} : calls'[p] = calls[p]
         /\ to.pc = pc /\ to.event = calls[q].event /\ to.now = calls[q].now
         /\ to.begun = calls[q].begun
         /\ \A topic \in Sole : InPush(q, topic) =>
               /\ ValueApart(q, topic)' /\ TimeApart(q, topic)' /\ ValueComes(q, topic)'
               /\ HasLatest(Passes(topic))' /\ HasLatest(Numbers(topic))' /\ Spaced(topic)'
               /\ InPush(q, topic)'
<1>1. calls'[q] = to /\ DOMAIN calls' = Thread /\ \A p \in Thread \ {q} : calls'[p] = calls[p]
  BY DEF Call, FilterInv, FilterTypeOK
<1>2. /\ to.pc = pc /\ to.event = calls[q].event /\ to.now = calls[q].now
      /\ to.begun = calls[q].begun /\ to \in Calling(q)
  BY DEF Calling, Committing, Pushing
<1>3. FilterTypeOK'
  <2>1. calls[q].begun <= resets
    BY DEF FilterInv, FilterTypeOK, Committing
  <2>2. ASSUME NEW p \in Thread
        PROVE  \/ calls'[p] \in Calling(p) /\ calls'[p].begun <= resets'
               \/ calls'[p].pc \in {"idle", "reset time"}
    <3>1. CASE p = q
      BY <1>1, <1>2, <2>1, <3>1
    <3>2. CASE p # q
      BY <1>1, <3>2 DEF FilterInv, FilterTypeOK
    <3> QED BY <3>1, <3>2
  <2> QED BY <1>1, <2>2 DEF FilterInv, FilterTypeOK
<1>4. ASSUME NEW topic \in Sole, InPush(q, topic)
      PROVE  /\ ValueApart(q, topic)' /\ TimeApart(q, topic)' /\ ValueComes(q, topic)'
             /\ HasLatest(Passes(topic))' /\ HasLatest(Numbers(topic))' /\ Spaced(topic)'
             /\ InPush(q, topic)'
  <2>1. calls[q].event \in Feed[q] /\ calls[q].event.topic = topic
    BY <1>4 DEF InPush, Calling
  <2>2. q \in Feeders(topic)
    BY <2>1 DEF Feeders
  <2>3. TopicInv(q, topic)
    BY <2>2 DEF FilterInv
  <2>4. Passes(topic)' = Passes(topic) /\ Numbers(topic)' = Numbers(topic)
    BY DEF Passes, Numbers
  <2>5. ValueApart(q, topic)'
    <3>1. calls[q].pc # "value"
      BY DEF Committing
    <3> QED BY <1>1, <1>2, <1>4, <2>3, <2>4, <3>1 DEF TopicInv, ValueApart, IsLatest
  <2>6. TimeApart(q, topic)'
    BY <1>1, <1>2, <1>4, <2>3, <2>4 DEF TopicInv, TimeApart, IsLatest, Committing
  <2>7. ValueComes(q, topic)'
    BY <1>1, <1>2 DEF ValueComes, Committing
  <2>8. HasLatest(Passes(topic))' /\ HasLatest(Numbers(topic))'
    BY <2>3, <2>4 DEF TopicInv, HasLatest, IsLatest
  <2>9. Spaced(topic)'
    BY <2>3, <2>4 DEF TopicInv, Spaced, Undisturbed, Successive
  <2>10. InPush(q, topic)'
    BY <1>1, <1>2, <1>4 DEF InPush, Committing, Pushing
  <2> QED BY <2>5, <2>6, <2>7, <2>8, <2>9, <2>10
<1> QED BY <1>1, <1>2, <1>3, <1>4

LEMMA CommitValueStep ==
  ASSUME FilterInv, NEW q \in Thread, CommitValue(q)
  PROVE  FilterInv'
<1> DEFINE e == calls[q].event
           to == [calls[q] EXCEPT !.pc = "commit time"]
<1>1. /\ calls[q].pc = "commit value" /\ calls[q] \in Calling(q)
      /\ last_values' = (IF e.value = NoNumber THEN last_values
                         ELSE Put(last_values, ValueKey(e), e.value))
      /\ UNCHANGED <<last_timestamps, clock, passed, resets>> /\ Call(q, to)
  BY DEF CommitValue, To, At, FilterInv, FilterTypeOK
<1>2. /\ FilterTypeOK' /\ calls'[q] = to /\ \A p \in Thread \ {q} : calls'[p] = calls[p]
      /\ to.pc = "commit time" /\ to.event = e /\ to.now = calls[q].now
      /\ to.begun = calls[q].begun
      /\ \A topic \in Sole : InPush(q, topic) =>
            /\ ValueApart(q, topic)' /\ TimeApart(q, topic)' /\ ValueComes(q, topic)'
            /\ HasLatest(Passes(topic))' /\ HasLatest(Numbers(topic))' /\ Spaced(topic)'
            /\ InPush(q, topic)'
  <2>1. "commit time" \in Committing /\ calls[q].pc \in Committing
    BY <1>1 DEF Committing
  <2>2. Call(q, to) /\ UNCHANGED <<clock, passed, resets>> /\ calls[q] \in Calling(q)
    BY <1>1
  <2> QED BY <2>1, <2>2, FeederCommits
<1>3. e \in Feed[q]
  BY <1>1 DEF Calling
<1> HIDE DEF e, to
<1>4. ASSUME NEW topic \in Sole, NEW p \in Feeders(topic) PROVE TopicInv(p, topic)'
  <2>1. p \in Thread /\ TopicInv(p, topic)
    BY SoleFacts DEF FilterInv
  <2>2. Passes(topic)' = Passes(topic) /\ Numbers(topic)' = Numbers(topic)
    BY <1>1 DEF Passes, Numbers
  <2>3. CASE e.topic # topic
    <3>1. ValueKey(e) # topic
      BY <1>3, <2>3, SoleFacts
    <3>2. /\ topic \in DOMAIN last_values' <=> topic \in DOMAIN last_values
          /\ topic \in DOMAIN last_values => last_values'[topic] = last_values[topic]
      <4>1. CASE e.value # NoNumber
        <5>1. last_values' = Put(last_values, ValueKey(e), e.value)
          BY <1>1, <4>1
        <5> QED BY <3>1, <5>1 DEF Put
      <4>2. CASE e.value = NoNumber
        BY <1>1, <4>2
      <4> QED BY <4>1, <4>2
    <3>3. \/ calls'[p] = calls[p]
          \/ ~ InPush(p, topic) /\ ~ InPush(p, topic)' /\ ValueComes(p, topic)'
      <4>1. CASE p = q
        BY <1>1, <1>2, <2>3, <4>1 DEF InPush, ValueComes, e
      <4> QED BY <1>2, <2>1, <4>1
    <3> QED BY <1>1, <2>1, <2>2, <3>2, <3>3, Untouched
  <2>4. CASE e.topic = topic
    <3>1. p = q /\ ValueKey(e) = topic
      BY <1>3, <2>4, SoleFacts
    <3>2. InPush(q, topic)
      BY <1>1, <2>4 DEF InPush, Pushing, e
    <3>3. /\ ~ TimeSet(q, topic) /\ ~ TimeSet(q, topic)' /\ ~ ValueSet(q, topic)
          /\ ValueSet(q, topic)' <=> e.value # NoNumber
      <4>1. InPush(q, topic)'
        BY <1>2, <3>2
      <4> QED BY <1>1, <1>2, <3>2, <4>1 DEF TimeSet, ValueSet, e
    <3>4. ValueReference(q, topic)' /\ ValuePresent(q, topic)'
      <4>1. CASE e.value = NoNumber
        <5>1. last_values' = last_values
          BY <1>1, <4>1
        <5> QED BY <1>1, <2>1, <2>2, <3>1, <3>3, <4>1, <5>1
                DEF TopicInv, ValueReference, ValuePresent, IsLatest
      <4>2. CASE e.value # NoNumber
        <5>1. topic \in DOMAIN last_values' /\ last_values'[topic] = e.value
          <6>1. last_values' = Put(last_values, topic, e.value)
            BY <1>1, <3>1, <4>2
          <6> QED BY <6>1 DEF Put
        <5> QED BY <1>2, <3>3, <4>2, <5>1 DEF ValueReference, ValuePresent
      <4> QED BY <4>1, <4>2
    <3>5. TimeReference(q, topic)' /\ TimePresent(q, topic)'
      BY <1>1, <2>1, <2>2, <3>1, <3>3 DEF TopicInv, TimeReference, TimePresent, IsLatest
    <3> QED BY <1>2, <3>1, <3>2, <3>4, <3>5 DEF TopicInv
  <2> QED BY <2>3, <2>4
<1> QED BY <1>2, <1>4 DEF FilterInv, Sole, Feeders, Topics

LEMMA CommitTimeStep ==
  ASSUME FilterInv, NEW q \in Thread, CommitTime(q)
  PROVE  FilterInv'
<1> DEFINE e == calls[q].event
           to == [calls[q] EXCEPT !.pc = "push"]
<1>1. /\ calls[q].pc = "commit time" /\ calls[q] \in Calling(q)
      /\ last_timestamps' = Put(last_timestamps, TimeKey(e), calls[q].now)
      /\ UNCHANGED <<last_values, clock, passed, resets>> /\ Call(q, to)
  BY DEF CommitTime, To, At, FilterInv, FilterTypeOK
<1>2. /\ FilterTypeOK' /\ calls'[q] = to /\ \A p \in Thread \ {q} : calls'[p] = calls[p]
      /\ to.pc = "push" /\ to.event = e /\ to.now = calls[q].now
      /\ to.begun = calls[q].begun
      /\ \A topic \in Sole : InPush(q, topic) =>
            /\ ValueApart(q, topic)' /\ TimeApart(q, topic)' /\ ValueComes(q, topic)'
            /\ HasLatest(Passes(topic))' /\ HasLatest(Numbers(topic))' /\ Spaced(topic)'
            /\ InPush(q, topic)'
  <2>1. "push" \in Committing /\ calls[q].pc \in Committing
    BY <1>1 DEF Committing
  <2> QED BY <1>1, <2>1, FeederCommits
<1>3. e \in Feed[q]
  BY <1>1 DEF Calling
<1> HIDE DEF e, to
<1>4. ASSUME NEW topic \in Sole, NEW p \in Feeders(topic) PROVE TopicInv(p, topic)'
  <2>1. p \in Thread /\ TopicInv(p, topic)
    BY SoleFacts DEF FilterInv
  <2>2. Passes(topic)' = Passes(topic) /\ Numbers(topic)' = Numbers(topic)
    BY <1>1 DEF Passes, Numbers
  <2>3. CASE e.topic # topic
    <3>1. TimeKey(e) # topic
      BY <1>3, <2>3, SoleFacts
    <3>2. /\ topic \in DOMAIN last_timestamps' <=> topic \in DOMAIN last_timestamps
          /\ topic \in DOMAIN last_timestamps => last_timestamps'[topic] = last_timestamps[topic]
      <4>1. last_timestamps' = Put(last_timestamps, TimeKey(e), calls[q].now)
        BY <1>1
      <4> QED BY <3>1, <4>1 DEF Put
    <3>3. \/ calls'[p] = calls[p]
          \/ ~ InPush(p, topic) /\ ~ InPush(p, topic)' /\ ValueComes(p, topic)'
      <4>1. CASE p = q
        BY <1>1, <1>2, <2>3, <4>1 DEF InPush, ValueComes, e
      <4> QED BY <1>2, <2>1, <4>1
    <3> QED BY <1>1, <2>1, <2>2, <3>2, <3>3, Untouched
  <2>4. CASE e.topic = topic
    <3>1. p = q /\ TimeKey(e) = topic
      BY <1>3, <2>4, SoleFacts
    <3>2. InPush(q, topic)
      BY <1>1, <2>4 DEF InPush, Pushing, e
    <3>3. /\ TimeSet(q, topic)'
          /\ ValueSet(q, topic)' <=> ValueSet(q, topic)
      <4>1. InPush(q, topic)'
        BY <1>2, <3>2
      <4> QED BY <1>1, <1>2, <3>2, <4>1 DEF TimeSet, ValueSet, e
    <3>4. ValueReference(q, topic)' /\ ValuePresent(q, topic)'
      BY <1>1, <1>2, <2>1, <2>2, <3>1, <3>3
         DEF TopicInv, ValueReference, ValuePresent, IsLatest, e
    <3>5. TimeReference(q, topic)' /\ TimePresent(q, topic)'
      <4>1. topic \in DOMAIN last_timestamps' /\ last_timestamps'[topic] = calls[q].now
        <5>1. last_timestamps' = Put(last_timestamps, topic, calls[q].now)
          BY <1>1, <3>1
        <5> QED BY <5>1 DEF Put
      <4> QED BY <1>2, <3>3, <4>1 DEF TimeReference, TimePresent
    <3> QED BY <1>2, <3>1, <3>2, <3>4, <3>5 DEF TopicInv
  <2> QED BY <2>3, <2>4
<1> QED BY <1>2, <1>4 DEF FilterInv, Sole, Feeders, Topics


LEMMA SuccessiveAdded ==
  ASSUME NEW S \in SUBSET Nat, NEW n \in Nat, \A i \in S : i < n,
         NEW ij \in Successive(S \cup {n})
  PROVE  \/ ij \in Successive(S)
         \/ ij[2] = n /\ ij[1] \in S /\ IsLatest(ij[1], S)
<1>1. /\ ij \in (S \cup {n}) \X (S \cup {n})
      /\ ij[1] \in S \cup {n} /\ ij[2] \in S \cup {n} /\ ij[1] < ij[2]
      /\ \A k \in S \cup {n} : ~ (ij[1] < k /\ k < ij[2])
  BY DEF Successive
<1>0. PICK i, j : i = ij[1] /\ j = ij[2]
  OBVIOUS
<1>a. i \in Nat /\ j \in Nat /\ j <= n /\ i < j
  <2>1. \A k \in S \cup {n} : k \in Nat /\ k <= n
    OBVIOUS
  <2> QED BY <1>0, <1>1, <2>1
<1>2. ij[1] \in S
  <2>1. i # n
    BY <1>a
  <2> QED BY <1>0, <1>1, <2>1
<1>3. CASE ij[2] = n
  <2>1. ASSUME NEW k \in S PROVE k <= i
    <3>1. ~ (i < k /\ k < n) /\ k < n /\ k \in Nat
      BY <1>0, <1>1, <1>3
    <3> QED BY ONLY <1>a, <3>1
  <2> QED BY <1>0, <1>2, <1>3, <2>1 DEF IsLatest
<1>4. CASE ij[2] \in S
  <2>1. ij \in S \X S
    BY <1>1, <1>2, <1>4
  <2> QED BY <1>1, <2>1 DEF Successive
<1> QED BY <1>1, <1>3, <1>4

(* The event that enters the ring is as far from the last one as it was    *)
(* when it was checked, unless a reset came between.                       *)
LEMMA PushPassedStep ==
  ASSUME FilterInv, NEW q \in Thread, PushPassed(q)
  PROVE  FilterInv'
<1> DEFINE e == calls[q].event
           new == [event |-> e, at |-> calls[q].now, begun |-> calls[q].begun, ended |-> resets]
           n == Len(passed) + 1
<1>1. /\ calls[q].pc = "push" /\ calls[q] \in Calling(q) /\ calls[q].begun <= resets
      /\ passed' = Append(passed, new) /\ Call(q, Idle)
      /\ UNCHANGED <<last_values, last_timestamps, clock, resets>>
  BY DEF PushPassed, At, FilterInv, FilterTypeOK
<1>2. calls'[q] = Idle /\ DOMAIN calls' = Thread /\ \A p \in Thread \ {q} : calls'[p] = calls[p]
  BY <1>1 DEF Call, FilterInv, FilterTypeOK
<1>3. e \in Feed[q] /\ e \in Event /\ new \in Passage
  <2>1. resets \in Nat
    BY DEF FilterInv, FilterTypeOK
  <2>2. e \in Feed[q] /\ calls[q].now \in Nat /\ calls[q].begun \in Nat
    BY <1>1 DEF Calling
  <2>3. e \in Event
    BY <2>2 DEF Event
  <2> QED BY <2>1, <2>2, <2>3 DEF Passage
<1>4. /\ new.event = e /\ new.at = calls[q].now /\ new.begun = calls[q].begun /\ new.ended = resets
  OBVIOUS
<1>5. passed \in Seq(Passage) /\ \A i \in DOMAIN passed : passed[i].begun <= resets
  BY DEF FilterInv, FilterTypeOK
<1> HIDE DEF e, new
<1>6. /\ passed' \in Seq(Passage) /\ n \in Nat /\ DOMAIN passed' = DOMAIN passed \cup {n}
      /\ passed'[n] = new /\ \A i \in DOMAIN passed : passed'[i] = passed[i]
      /\ n \notin DOMAIN passed /\ \A i \in DOMAIN passed : i \in Nat /\ i < n
  <2>1. passed' = Append(passed, new)
    BY <1>1
  <2> QED BY ONLY <1>3, <1>5, <2>1
<1> HIDE DEF n
<1>7. FilterTypeOK'
  <2>1. clock' \in Nat /\ resets' \in Nat
    BY <1>1 DEF FilterInv, FilterTypeOK
  <2>2. \A i \in DOMAIN passed' : passed'[i].begun <= resets'
    BY <1>1, <1>4, <1>5, <1>6
  <2>3. Idle.pc = "idle"
    BY DEF Idle
  <2>4. ASSUME NEW p \in Thread
        PROVE  \/ calls'[p] \in Calling(p) /\ calls'[p].begun <= resets'
               \/ calls'[p].pc \in {"idle", "reset time"}
    <3>1. CASE p = q
      BY <1>2, <2>3, <3>1
    <3>2. CASE p # q
      BY <1>1, <1>2, <3>2 DEF FilterInv, FilterTypeOK
    <3> QED BY <3>1, <3>2
  <2> QED BY <1>2, <1>6, <2>1, <2>2, <2>4 DEF FilterTypeOK
<1>8. ASSUME NEW topic \in Sole, NEW p \in Feeders(topic) PROVE TopicInv(p, topic)'
  <2>1. p \in Thread /\ TopicInv(p, topic)
    BY SoleFacts DEF FilterInv
  <2>2. ~ InPush(q, topic)'  /\ calls'[q].pc = "idle"
    BY <1>2 DEF InPush, Idle, Pushing
  <2>3. CASE e.topic # topic
    <3>1. Passes(topic)' = Passes(topic) /\ Numbers(topic)' = Numbers(topic)
      BY <1>4, <1>6, <2>3 DEF Passes, Numbers
    <3>2. \A i \in Passes(topic) : passed'[i] = passed[i]
      BY <1>6 DEF Passes
    <3>3. \/ calls'[p] = calls[p]
          \/ ~ InPush(p, topic) /\ ~ InPush(p, topic)' /\ ValueComes(p, topic)'
      <4>1. CASE p = q
        BY <2>2, <2>3, <4>1 DEF InPush, ValueComes, e
      <4> QED BY <1>2, <2>1, <4>1
    <3> QED BY <1>1, <2>1, <3>1, <3>2, <3>3, Untouched
  <2>4. CASE e.topic = topic
    <3>1. p = q
      BY <1>3, <2>4, SoleFacts
    <3>2. InPush(q, topic) /\ TimeSet(q, topic) /\ (ValueSet(q, topic) <=> e.value # NoNumber)
      BY <1>1, <2>4 DEF InPush, TimeSet, ValueSet, Pushing, e
    <3>3. ~ TimeSet(q, topic)' /\ ~ ValueSet(q, topic)'
      BY <2>2 DEF TimeSet, ValueSet
    <3>4. Passes(topic)' = Passes(topic) \cup {n}
          /\ Numbers(topic)' = IF e.value = NoNumber THEN Numbers(topic)
                                                     ELSE Numbers(topic) \cup {n}
      BY <1>4, <1>6, <2>4 DEF Passes, Numbers
    <3>5. /\ \A i \in Passes(topic) : i \in Nat /\ i < n /\ passed'[i] = passed[i]
          /\ \A i \in Numbers(topic) : i \in Nat /\ i < n /\ passed'[i] = passed[i]
      BY <1>6, NumbersPass
    <3>6. \A i \in Passes(topic)' : IsLatest(i, Passes(topic))' => i = n
      BY <1>6, <3>4, <3>5 DEF IsLatest
    <3>7. e.value # NoNumber => \A i \in Numbers(topic)' : IsLatest(i, Numbers(topic))' => i = n
      BY <1>6, <3>4, <3>5 DEF IsLatest
    <3>8. e.value = NoNumber =>
             \A i \in Numbers(topic) : IsLatest(i, Numbers(topic))' <=> IsLatest(i, Numbers(topic))
      BY <3>4 DEF IsLatest
    <3>9. ValueReference(q, topic)' /\ ValuePresent(q, topic)'
      <4>1. CASE e.value = NoNumber
        BY <1>1, <2>1, <3>1, <3>2, <3>3, <3>4, <3>5, <3>8, <4>1
           DEF TopicInv, ValueReference, ValuePresent
      <4>2. CASE e.value # NoNumber
        <5>1. topic \in DOMAIN last_values' => last_values'[topic] = e.value
          BY <1>1, <2>1, <3>1, <3>2, <4>2 DEF TopicInv, ValueReference, e
        <5>2. ValueReference(q, topic)'
          BY <1>4, <1>6, <3>3, <3>4, <3>7, <4>2, <5>1 DEF ValueReference
        <5>3. ValuePresent(q, topic)'
          BY <1>1, <1>4, <1>6, <2>1, <3>1, <3>2, <3>3, <3>4, <3>5, <4>2
             DEF TopicInv, ValuePresent
        <5> QED BY <5>2, <5>3
      <4> QED BY <4>1, <4>2
    <3>10. TimeReference(q, topic)' /\ TimePresent(q, topic)'
      <4>1. topic \in DOMAIN last_timestamps' => last_timestamps'[topic] = calls[q].now
        BY <1>1, <2>1, <3>1, <3>2 DEF TopicInv, TimeReference
      <4>2. TimeReference(q, topic)'
        BY <1>4, <1>6, <3>3, <3>4, <3>6, <4>1 DEF TimeReference
      <4>3. TimePresent(q, topic)'
        BY <1>1, <1>4, <1>6, <2>1, <3>1, <3>2, <3>3, <3>4, <3>5 DEF TopicInv, TimePresent
      <4> QED BY <4>2, <4>3
    <3>11. ValueApart(q, topic)' /\ TimeApart(q, topic)' /\ ValueComes(q, topic)'
      BY <2>2 DEF ValueApart, TimeApart, ValueComes, InPush, Pushing
    <3>12. HasLatest(Passes(topic))' /\ HasLatest(Numbers(topic))'
      <4>0. \A S : (\A i \in S : i \in Nat /\ i < n) => HasLatest(S \cup {n})
        <5>1. ASSUME NEW S, \A i \in S : i \in Nat /\ i < n PROVE IsLatest(n, S \cup {n})
          <6>1. \A i \in S \cup {n} : i <= n
            BY <1>6, <5>1
          <6> QED BY <6>1 DEF IsLatest
        <5> QED BY <5>1 DEF HasLatest
      <4>1. HasLatest(Passes(topic))'
        <5>1. HasLatest(Passes(topic) \cup {n})
          BY <3>5, <4>0
        <5> QED BY <3>4, <5>1 DEF HasLatest, IsLatest
      <4>2. CASE e.value = NoNumber
        BY <2>1, <3>4, <4>1, <4>2 DEF TopicInv, HasLatest, IsLatest
      <4>3. CASE e.value # NoNumber
        <5>1. HasLatest(Numbers(topic) \cup {n})
          BY <3>5, <4>0
        <5> QED BY <3>4, <4>1, <4>3, <5>1 DEF HasLatest, IsLatest
      <4> QED BY <4>2, <4>3
    <3>13. ASSUME NEW ij \in Successive(Passes(topic))', Undisturbed(ij)'
           PROVE  passed'[ij[2]].at - passed'[ij[1]].at >= MinInterval
      <4> DEFINE S == Passes(topic)
      <4>1. ij \in Successive(S \cup {n}) /\ S \in SUBSET Nat /\ \A i \in S : i < n
        BY <3>4, <3>5, <3>13 DEF Successive
      <4>2. \/ ij \in Successive(S)
            \/ ij[2] = n /\ ij[1] \in S /\ IsLatest(ij[1], S)
        BY <1>6, <4>1, SuccessiveAdded
      <4>3. CASE ij \in Successive(S)
        <5>1. ij[1] \in S /\ ij[2] \in S
          BY <4>3 DEF Successive
        <5>2. passed'[ij[1]] = passed[ij[1]] /\ passed'[ij[2]] = passed[ij[2]]
          BY <3>5, <5>1
        <5> QED BY <2>1, <3>13, <4>3, <5>2 DEF TopicInv, Spaced, Undisturbed
      <4>4. CASE ij[2] = n /\ ij[1] \in S /\ IsLatest(ij[1], S)
        <5>1. passed'[ij[1]] = passed[ij[1]] /\ passed'[ij[2]] = new
          BY <1>6, <3>5, <4>4
        <5>2. passed[ij[1]].begun = resets
          BY <1>4, <3>13, <5>1 DEF Undisturbed
        <5>3. calls[q].now - passed[ij[1]].at >= MinInterval
          BY <1>1, <2>1, <3>1, <3>2, <4>4, <5>2 DEF TopicInv, TimeApart
        <5> QED BY <1>4, <5>1, <5>3
      <4> QED BY <4>2, <4>3, <4>4
    <3>14. ASSUME NEW ij \in Successive(Numbers(topic))', Undisturbed(ij)'
           PROVE  Distance(passed'[ij[1]].event.value, passed'[ij[2]].event.value) >= Deadband
      <4> DEFINE S == Numbers(topic)
      <4>1. \/ ij \in Successive(S)
            \/ /\ e.value # NoNumber
               /\ ij[2] = n /\ ij[1] \in S /\ IsLatest(ij[1], S)
        <5>1. CASE e.value = NoNumber
          BY <3>4, <3>14, <5>1 DEF Successive
        <5>2. CASE e.value # NoNumber
          <6>1. ij \in Successive(S \cup {n}) /\ S \in SUBSET Nat /\ \A i \in S : i < n
            BY <3>4, <3>5, <3>14, <5>2 DEF Successive
          <6> QED BY <1>6, <5>2, <6>1, SuccessiveAdded
        <5> QED BY <5>1, <5>2
      <4>3. CASE ij \in Successive(S)
        <5>1. ij[1] \in S /\ ij[2] \in S
          BY <4>3 DEF Successive
        <5>2. passed'[ij[1]] = passed[ij[1]] /\ passed'[ij[2]] = passed[ij[2]]
          BY <3>5, <5>1
        <5> QED BY <2>1, <3>14, <4>3, <5>2 DEF TopicInv, Spaced, Undisturbed
      <4>4. CASE e.value # NoNumber /\ ij[2] = n /\ ij[1] \in S /\ IsLatest(ij[1], S)
        <5>1. passed'[ij[1]] = passed[ij[1]] /\ passed'[ij[2]] = new
          BY <1>6, <3>5, <4>4
        <5>2. passed[ij[1]].begun = resets
          BY <1>4, <3>14, <5>1 DEF Undisturbed
        <5>3. Distance(passed[ij[1]].event.value, e.value) >= Deadband
          BY <1>1, <2>1, <3>1, <3>2, <4>4, <5>2 DEF TopicInv, ValueApart, e
        <5> QED BY <1>4, <5>1, <5>3
      <4> QED BY <4>1, <4>3, <4>4
    <3>15. Spaced(topic)'
      BY <3>13, <3>14 DEF Spaced
    <3> QED BY <3>1, <3>9, <3>10, <3>11, <3>12, <3>15 DEF TopicInv
  <2> QED BY <2>3, <2>4
<1> QED BY <1>7, <1>8 DEF FilterInv, Sole, Feeders, Topics

THEOREM FilterInvariant == FilterSpec => []FilterInv
<1>1. FilterInit => FilterInv
  <2> SUFFICES ASSUME FilterInit PROVE FilterInv
    OBVIOUS
  <2>1. /\ last_values = <<>> /\ last_timestamps = <<>> /\ clock \in Nat
        /\ calls = [p \in Thread |-> Idle] /\ passed = <<>> /\ resets = 0
    BY DEF FilterInit
  <2>2. Idle.pc = "idle" /\ Idle.pc \notin Pushing
    BY DEF Idle, Pushing
  <2>3. FilterTypeOK
    <3>1. passed \in Seq(Passage) /\ DOMAIN passed = {}
      BY <2>1
    <3>2. \A p \in Thread : calls[p].pc \in {"idle", "reset time"}
      BY <2>1, <2>2
    <3>3. DOMAIN calls = Thread /\ clock \in Nat /\ resets \in Nat
      BY <2>1
    <3> QED BY <3>1, <3>2, <3>3 DEF FilterTypeOK
  <2>4. ASSUME NEW topic \in Sole, NEW p \in Feeders(topic) PROVE TopicInv(p, topic)
    <3>1. p \in Thread /\ ~ InPush(p, topic) /\ calls[p].pc = "idle"
      BY <2>1, <2>2, SoleFacts DEF InPush
    <3>2. Passes(topic) = {} /\ Numbers(topic) = {} /\ DOMAIN last_values = {}
          /\ DOMAIN last_timestamps = {}
      BY <2>1 DEF Passes, Numbers
    <3>3. Successive({}) = {}
      BY DEF Successive
    <3> QED BY <3>1, <3>2, <3>3
            DEF TopicInv, ValueReference, ValuePresent, ValueApart, TimeReference, TimePresent,
                TimeApart, ValueComes, HasLatest, Spaced, ValueSet, TimeSet
  <2> QED BY <2>3, <2>4 DEF FilterInv
<1>2. FilterInv /\ [FilterNext]_allVars => FilterInv'
  <2> SUFFICES ASSUME FilterInv, [FilterNext]_allVars PROVE FilterInv'
    OBVIOUS
  <2>1. CASE UNCHANGED allVars
    BY <2>1, OutsideStep DEF allVars
  <2> QED BY <2>1, CallPushStep, CheckDeadbandStep, ReadClockStep, CheckIntervalStep,
             CommitValueStep, CommitTimeStep, PushPassedStep, ResetStep, OutsideStep DEF FilterNext
<1> QED BY <1>1, <1>2, PTL DEF FilterSpec

(* A sole topic's passing events are a deadband and an interval apart, for *)
(* any number of threads, topics and resets of other topics.               *)
THEOREM QuietAndSpacedHolds == FilterSpec => []QuietAndSpaced
<1>1. ASSUME FilterInv, NEW topic \in Sole PROVE Spaced(topic)
  <2>1. \E p : p \in Feeders(topic)
    BY DEF Sole, Topics, Event, Feeders
  <2> QED BY <1>1, <2>1 DEF FilterInv, TopicInv
<1>2. FilterInv => QuietAndSpaced
  BY <1>1 DEF QuietAndSpaced, Spaced
<1> QED BY <1>2, FilterInvariant, PTL

(* What the filter compares the next event with is the last that passed.   *)
THEOREM ReferenceIsLastPassedHolds == FilterSpec => []ReferenceIsLastPassed
<1>1. ASSUME NEW S \in SUBSET Nat, HasLatest(S), S # {}
      PROVE  Latest(S) \in S /\ IsLatest(Latest(S), S)
  <2>1. \E i \in S : \A j \in S : j <= i
    BY <1>1 DEF HasLatest, IsLatest
  <2> QED BY <2>1 DEF Latest, IsLatest
<1>2. ASSUME FilterInv, NEW topic \in Sole,
             \A p \in Feeders(topic) : calls[p].pc \in {"idle", "reset time"}
      PROVE  /\ topic \in DOMAIN last_values =>
                  /\ Numbers(topic) # {}
                  /\ last_values[topic] = passed[Latest(Numbers(topic))].event.value
             /\ topic \in DOMAIN last_timestamps =>
                  /\ Passes(topic) # {}
                  /\ last_timestamps[topic] = passed[Latest(Passes(topic))].at
  <2>1. PICK p : p \in Feeders(topic)
    BY DEF Sole, Topics, Event, Feeders
  <2>2. ~ ValueSet(p, topic) /\ ~ TimeSet(p, topic)
    BY <1>2, <2>1 DEF ValueSet, TimeSet
  <2>3. TopicInv(p, topic)
    BY <1>2, <2>1 DEF FilterInv
  <2>4. Passes(topic) \in SUBSET Nat /\ Numbers(topic) \in SUBSET Nat
    <3>1. \A i \in DOMAIN passed : i \in Nat
      <4>1. passed \in Seq(Passage)
        BY <1>2 DEF FilterInv, FilterTypeOK
      <4> QED BY ONLY <4>1
    <3> QED BY <3>1, NumbersPass
  <2>5. ASSUME topic \in DOMAIN last_values
        PROVE  Numbers(topic) # {} /\ last_values[topic] = passed[Latest(Numbers(topic))].event.value
    BY <1>1, <2>2, <2>3, <2>4, <2>5 DEF TopicInv, ValueReference
  <2>6. ASSUME topic \in DOMAIN last_timestamps
        PROVE  Passes(topic) # {} /\ last_timestamps[topic] = passed[Latest(Passes(topic))].at
    BY <1>1, <2>2, <2>3, <2>4, <2>6 DEF TopicInv, TimeReference
  <2> QED BY <2>5, <2>6
<1>3. FilterInv => ReferenceIsLastPassed
  BY <1>2 DEF ReferenceIsLastPassed
<1> QED BY <1>3, FilterInvariant, PTL

=============================================================================
