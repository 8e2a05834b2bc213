------------------------ MODULE EventThresholdFilter ------------------------
(***************************************************************************)
(* EventThresholdFilter.py in front of its ring buffer: threads that push  *)
(* through one filter read and write its two dicts without a lock.  One    *)
(* step reads or writes one dict once.  A filter with both a deadband and  *)
(* a minimal interval, and no predicate.                                   *)
(***************************************************************************)
EXTENDS FastRingBuffer, FiniteSets

CONSTANTS Thread,
          Feed,          \* thread -> the events it pushes
          NoNumber,      \* the value of a payload without a number
          MinValue, MaxValue, Deadband, MinInterval,
          MaxTime, MaxResets              \* bounds

(* An event: a topic and the number in its payload.  A bare one is         *)
(* push(number), where the number is in the place of the topic.            *)
Event == UNION {Feed[p] : p \in Thread}

ASSUME FilterAssumption ==
    /\ IsFiniteSet(Thread)
    /\ Event \subseteq [topic : STRING, value : Int \cup {NoNumber}, bare : BOOLEAN]
    /\ NoNumber \notin Int
    /\ {Deadband, MinInterval, MaxTime, MaxResets} \subseteq Nat
    /\ {MinValue, MaxValue} \subseteq Int

VARIABLES last_values, last_timestamps,
          clock,        \* time.monotonic()
          calls,        \* where each thread is in push or reset_state
          passed,       \* history: the event behind each push into the ring
          resets        \* history: how often reset_state took something away

filterVars == <<last_values, last_timestamps, clock, calls, passed, resets>>
allVars == <<filterVars, ringVars>>

(* The value of a bare event is kept under __default__, its timestamp      *)
(* under the number.                                                       *)
ValueKey(e) == IF e.bare THEN "__default__" ELSE e.topic
TimeKey(e) == e.topic

Lookup(dict, key, default) == IF key \in DOMAIN dict THEN dict[key] ELSE default
Put(dict, key, value) == [k \in DOMAIN dict \cup {key} |-> IF k = key THEN value ELSE dict[k]]
Without(dict, keys) == [k \in DOMAIN dict \ keys |-> dict[k]]
Distance(x, y) == IF x < y THEN y - x ELSE x - y

Idle == [pc |-> "idle"]
Call(p, call) == calls' = [calls EXCEPT ![p] = call]
At(p, pc) == calls[p].pc = pc
To(p, pc) == Call(p, [calls[p] EXCEPT !.pc = pc])

FilterInit ==
    /\ Init
    /\ last_values = <<>> /\ last_timestamps = <<>>
    /\ clock \in 0..1
    /\ calls = [p \in Thread |-> Idle]
    /\ passed = <<>> /\ resets = 0

(* should_pass up to its first read: an event out of range changes nothing. *)
CallPush(p, e) ==
    /\ At(p, "idle") /\ pushed < MaxPushed
    /\ e.value # NoNumber => e.value \in MinValue..MaxValue
    /\ Call(p, [pc |-> IF e.value = NoNumber THEN "clock" ELSE "value",
                event |-> e, now |-> 0, begun |-> resets])
    /\ UNCHANGED <<last_values, last_timestamps, clock, passed, resets, ringVars>>

Within(e, reference) == reference # NoNumber /\ Distance(e.value, reference) < Deadband

CheckDeadband(p) ==
    /\ At(p, "value")
    /\ LET e == calls[p].event
       IN  IF Within(e, Lookup(last_values, ValueKey(e), NoNumber)) THEN Call(p, Idle) ELSE To(p, "clock")
    /\ UNCHANGED <<last_values, last_timestamps, clock, passed, resets, ringVars>>

ReadClock(p) ==
    /\ At(p, "clock")
    /\ Call(p, [calls[p] EXCEPT !.pc = "time", !.now = clock])
    /\ UNCHANGED <<last_values, last_timestamps, clock, passed, resets, ringVars>>

(* Mutant of CheckInterval: the value is kept although the event is late. *)
CheckIntervalKeeps(p) ==
    /\ At(p, "time")
    /\ LET e == calls[p].event
       IN  /\ IF calls[p].now - Lookup(last_timestamps, TimeKey(e), 0) < MinInterval
              THEN Call(p, Idle) ELSE To(p, "commit value")
           /\ last_values' = IF e.value = NoNumber THEN last_values
                             ELSE Put(last_values, ValueKey(e), e.value)
    /\ UNCHANGED <<last_timestamps, clock, passed, resets, ringVars>>

(* A topic without an entry counts as passed at time 0. *)
CheckInterval(p) ==
    /\ At(p, "time")
    /\ IF calls[p].now - Lookup(last_timestamps, TimeKey(calls[p].event), 0) < MinInterval
       THEN Call(p, Idle) ELSE To(p, "commit value")
    /\ UNCHANGED <<last_values, last_timestamps, clock, passed, resets, ringVars>>

CommitValue(p) ==
    /\ At(p, "commit value")
    /\ LET e == calls[p].event
       IN  last_values' = IF e.value = NoNumber THEN last_values
                          ELSE Put(last_values, ValueKey(e), e.value)
    /\ To(p, "commit time")
    /\ UNCHANGED <<last_timestamps, clock, passed, resets, ringVars>>

(* Mutant of CommitTime: setdefault in place of the assignment. *)
CommitTimeOnce(p) ==
    /\ At(p, "commit time")
    /\ LET key == TimeKey(calls[p].event)
       IN  last_timestamps' = Put(last_timestamps, key, Lookup(last_timestamps, key, calls[p].now))
    /\ To(p, "push")
    /\ UNCHANGED <<last_values, clock, passed, resets, ringVars>>

CommitTime(p) ==
    /\ At(p, "commit time")
    /\ last_timestamps' = Put(last_timestamps, TimeKey(calls[p].event), calls[p].now)
    /\ To(p, "push")
    /\ UNCHANGED <<last_values, clock, passed, resets, ringVars>>

(* push: what passed goes into the ring. *)
PushPassed(p) ==
    /\ At(p, "push")
    /\ Push
    /\ passed' = Append(passed, [event |-> calls[p].event, at |-> calls[p].now,
                                 begun |-> calls[p].begun, ended |-> resets])
    /\ Call(p, Idle)
    /\ UNCHANGED <<last_values, last_timestamps, clock, resets>>

(* reset_state of one topic, or of all: two dicts, one after the other. A  *)
(* topic's reset does not reach what bare events keep under __default__.   *)
ResetValue(p, keys) ==
    /\ At(p, "idle") /\ resets < MaxResets
    /\ last_values' = Without(last_values, keys)
    /\ resets' = resets + 1
    /\ Call(p, [pc |-> "reset time", keys |-> keys])
    /\ UNCHANGED <<last_timestamps, clock, passed, ringVars>>

ResetTime(p) ==
    /\ At(p, "reset time")
    /\ last_timestamps' = Without(last_timestamps, calls[p].keys)
    /\ resets' = resets + 1
    /\ Call(p, Idle)
    /\ UNCHANGED <<last_values, clock, passed, ringVars>>

Tick ==
    /\ clock < MaxTime
    /\ clock' = clock + 1
    /\ UNCHANGED <<last_values, last_timestamps, calls, passed, resets, ringVars>>

(* Publishers that push past the filter, and the thread that pops. *)
Others ==
    /\ \/ \E count \in 1..MaxBatch : PushBatch(count)
       \/ \E limit \in 1..MaxBatch : PopBatch(limit)
       \/ Clear
    /\ UNCHANGED filterVars

Topics == {e.topic : e \in Event}
ResetArguments == {{topic} : topic \in Topics} \cup {Topics \cup {"__default__"}}

FilterNext ==
    \/ \E p \in Thread : \/ \E e \in Feed[p] : CallPush(p, e)
                         \/ \E keys \in ResetArguments : ResetValue(p, keys)
                         \/ CheckDeadband(p) \/ ReadClock(p) \/ CheckInterval(p)
                         \/ CommitValue(p) \/ CommitTime(p) \/ PushPassed(p)
                         \/ ResetTime(p)
    \/ Tick
    \/ Others

FilterSpec == FilterInit /\ [][FilterNext]_allVars

-----------------------------------------------------------------------------
(* The topics that one thread alone feeds, always with a payload, and none *)
(* that bears the name under which bare events keep their value.           *)
Feeders(topic) == {p \in Thread : \E e \in Feed[p] : e.topic = topic}
Sole == {topic \in Topics : /\ Cardinality(Feeders(topic)) = 1
                            /\ \A e \in Event : e.topic = topic => ~e.bare
                            /\ topic # "__default__"}

Passes(topic) == {i \in DOMAIN passed : passed[i].event.topic = topic}
Numbers(topic) == {i \in Passes(topic) : passed[i].event.value # NoNumber}
Latest(indices) == CHOOSE i \in indices : \A j \in indices : j <= i
Successive(indices) == {ij \in indices \X indices :
    ij[1] < ij[2] /\ \A k \in indices : ~(ij[1] < k /\ k < ij[2])}
Undisturbed(ij) == passed[ij[1]].begun = passed[ij[2]].ended

(* What a topic's only feeder lets through is a deadband and an interval   *)
(* apart, whatever other threads push and reset meanwhile; only a          *)
(* reset_state between the two events may bring them closer.               *)
QuietAndSpaced ==
    \A topic \in Sole :
        /\ \A ij \in Successive(Passes(topic)) :
              Undisturbed(ij) => passed[ij[2]].at - passed[ij[1]].at >= MinInterval
        /\ \A ij \in Successive(Numbers(topic)) :
              Undisturbed(ij) => Distance(passed[ij[1]].event.value, passed[ij[2]].event.value) >= Deadband

(* The references that the next event is compared with are those of the    *)
(* last event that passed, never of one that was held back: a slow drift   *)
(* does not stay below the deadband for ever.                              *)
ReferenceIsLastPassed ==
    \A topic \in Sole :
        (\A p \in Feeders(topic) : calls[p].pc \in {"idle", "reset time"}) =>
            /\ topic \in DOMAIN last_values =>
                 /\ Numbers(topic) # {}
                 /\ last_values[topic] = passed[Latest(Numbers(topic))].event.value
            /\ topic \in DOMAIN last_timestamps =>
                 /\ Passes(topic) # {}
                 /\ last_timestamps[topic] = passed[Latest(Passes(topic))].at
=============================================================================
