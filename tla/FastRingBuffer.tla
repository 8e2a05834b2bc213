--------------------------- MODULE FastRingBuffer --------------------------
(***************************************************************************)
(* The egress buffer of ring_buffer.py between the publishers and the      *)
(* transmit thread.  Every method holds the buffer's lock, so each is one  *)
(* step.  Items are numbered in the order in which they were pushed.       *)
(***************************************************************************)
EXTENDS Deque

CONSTANTS MaxPushed,   \* bound: items pushed in all
          MaxBatch     \* bound: items per push_batch and per pop_batch

ASSUME RingAssumption == MaxPushed \in Nat /\ MaxBatch \in Nat \ {0}

VARIABLES buffer,     \* _buffer
          dropped,    \* _dropped_count
          pushed,     \* history: items pushed so far
          popped,     \* history: items handed to consumers
          cleared,    \* history: items that clear() threw away
          last        \* history: the last item handed out or cleared

ringVars == <<buffer, dropped, pushed, popped, cleared, last>>

Init ==
    /\ buffer = <<>>
    /\ dropped = 0
    /\ pushed = 0
    /\ popped = 0
    /\ cleared = 0
    /\ last = 0

(* push: counts a drop if the buffer was full before the append. *)
Push ==
    /\ pushed < MaxPushed
    /\ pushed' = pushed + 1
    /\ dropped' = IF Len(buffer) = Capacity THEN dropped + 1 ELSE dropped
    /\ buffer' = Extended(buffer, <<pushed + 1>>)
    /\ UNCHANGED <<popped, cleared, last>>

(* push_batch: counts the overflow, also when the batch alone exceeds the  *)
(* capacity and pushes out items of its own.                               *)
PushBatch(count) ==
    /\ pushed + count <= MaxPushed
    /\ pushed' = pushed + count
    /\ LET items == [i \in 1..count |-> pushed + i]
       IN  /\ dropped' = dropped + Overflow(buffer, items)
           /\ buffer' = Extended(buffer, items)
    /\ UNCHANGED <<popped, cleared, last>>

(* Mutant of PopBatch: it takes from the end the producers append to. *)
PopBatchRight(limit) ==
    /\ buffer # <<>>
    /\ LET count == IF Len(buffer) < limit THEN Len(buffer) ELSE limit
       IN  /\ buffer' = SubSeq(buffer, 1, Len(buffer) - count)
           /\ popped' = popped + count
           /\ last' = buffer[Len(buffer)]
    /\ UNCHANGED <<dropped, pushed, cleared>>

(* pop_batch, and with limit 1 pop. *)
PopBatch(limit) ==
    /\ buffer # <<>>
    /\ LET count == IF Len(buffer) < limit THEN Len(buffer) ELSE limit
       IN  /\ buffer' = SubSeq(buffer, count + 1, Len(buffer))
           /\ popped' = popped + count
           /\ last' = buffer[count]
    /\ UNCHANGED <<dropped, pushed, cleared>>

(* Mutant of Clear: it counts as dropping. *)
ClearCounted ==
    /\ buffer # <<>>
    /\ dropped' = dropped + Len(buffer)
    /\ last' = buffer[Len(buffer)]
    /\ buffer' = <<>>
    /\ UNCHANGED <<cleared, pushed, popped>>

(* clear: what it throws away is not counted as dropped. *)
Clear ==
    /\ buffer # <<>>
    /\ cleared' = cleared + Len(buffer)
    /\ last' = buffer[Len(buffer)]
    /\ buffer' = <<>>
    /\ UNCHANGED <<dropped, pushed, popped>>

Next ==
    \/ Push
    \/ \E count \in 1..MaxBatch : PushBatch(count)
    \/ \E limit \in 1..MaxBatch : PopBatch(limit)
    \/ Clear

Spec == Init /\ [][Next]_ringVars

-----------------------------------------------------------------------------
RingTypeOK ==
    /\ buffer \in Seq(1..MaxPushed)
    /\ Len(buffer) <= Capacity
    /\ dropped \in Nat /\ pushed \in 0..MaxPushed
    /\ popped \in Nat /\ cleared \in Nat /\ last \in 0..MaxPushed

(* The buffer always holds the newest items, all of them from some number  *)
(* on, in the order of the pushes: an overflow only ever costs the oldest. *)
HoldsNewest ==
    \A i \in 1..Len(buffer) : buffer[i] = pushed - Len(buffer) + i

(* Every item pushed is accounted for: handed out, cleared, waiting, or    *)
(* counted by dropped_count, whichever way the overflows came about.       *)
Conservation == pushed = popped + cleared + dropped + Len(buffer)

(* Consumers see items in the order of the pushes, and none twice. *)
InOrder == buffer # <<>> => last < buffer[1]

(* Nothing is dropped while there is room for it. *)
DropsOnlyWhenFull == [][dropped' > dropped => Len(buffer') = Capacity]_ringVars
=============================================================================
