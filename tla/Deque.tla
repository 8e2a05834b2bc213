------------------------------- MODULE Deque -------------------------------
(***************************************************************************)
(* collections.deque(maxlen=capacity) as ring_buffer.py uses it: what is   *)
(* appended to a full deque pushes items out on the left.                  *)
(***************************************************************************)
EXTENDS Integers, Sequences

CONSTANT Capacity

ASSUME CapacityAssumption == Capacity \in Nat \ {0}

(* Mutant of Newest: the oldest are kept. *)
NewestKeepsOldest(s) == IF Len(s) > Capacity THEN SubSeq(s, 1, Capacity) ELSE s

Newest(s) == IF Len(s) > Capacity
             THEN SubSeq(s, Len(s) - Capacity + 1, Len(s))
             ELSE s

Extended(s, items) == Newest(s \o items)

(* Mutant of Overflow: a batch that only partly fits counts nothing. *)
OverflowWhenFull(s, items) == IF Len(s) = Capacity THEN Len(items) ELSE 0

Overflow(s, items) == LET excess == Len(s) + Len(items) - Capacity
                      IN  IF excess > 0 THEN excess ELSE 0
=============================================================================
