---------------------------- MODULE LWWRegister ----------------------------
(***************************************************************************)
(* The last-writer-wins register of state_crdt.py: a value under a stamp,  *)
(* the pair (lamport_time, wall_time), ordered lexicographically.          *)
(*                                                                         *)
(* A key that a replica does not hold is the register Unwritten.  Every    *)
(* real stamp is newer than its stamp, so "topic not in node_topics", which *)
(* stores the incoming register unconditionally, is a merge into Unwritten. *)
(***************************************************************************)
EXTENDS Integers

CONSTANTS Value,     \* what a topic can hold
          NoValue    \* the value of a key that is not held

ASSUME NoValueAssumption == NoValue \notin Value

Register  == [value : Value, lamport : Nat, wall : Nat]
Unwritten == [value |-> NoValue, lamport |-> -1, wall |-> 0]
Slot      == Register \cup {Unwritten}

(* The strict order of Python tuples on (lamport_time, wall_time). *)
Newer(r, s) ==
    \/ r.lamport > s.lamport
    \/ r.lamport = s.lamport /\ r.wall > s.wall

(* Mutants of Merge: the value is not copied; anything replaces; nothing   *)
(* replaces; the wall time decides before the Lamport time.                *)
MergeStampOnly(local, remote) ==
    IF Newer(remote, local)
    THEN [local EXCEPT !.lamport = remote.lamport, !.wall = remote.wall] ELSE local
MergeOverwrites(local, remote) == IF remote = Unwritten THEN local ELSE remote
MergeKeepsFirst(local, remote) == IF local = Unwritten THEN remote ELSE local
MergeByWall(local, remote) ==
    IF remote.wall > local.wall \/ (remote.wall = local.wall /\ Newer(remote, local))
    THEN remote ELSE local

(* LWWRegister.merge: the incoming register wins only if strictly newer.   *)
Merge(local, remote) == IF Newer(remote, local) THEN remote ELSE local

SameStamp(r, s) == r.lamport = s.lamport /\ r.wall = s.wall
=============================================================================
