------------------------ MODULE ProcessorNodeProofs ------------------------
(***************************************************************************)
(* A wildcard's handler only runs where no earlier pattern matches, for    *)
(* any tables, queues and numbers of threads.  The argument: a place in    *)
(* the table is never given to another pattern, so what a worker has       *)
(* passed over, it has passed over for good.  And every copy of a message  *)
(* is in one place only: each step takes a copy from where it was.         *)
(***************************************************************************)
EXTENDS ProcessorNode, FiniteSetTheorems, TLAPS

(* A place holds one pattern, and a pattern has one place. *)
TableInv ==
    /\ table \in Seq(Pattern)
    /\ \A i, j \in 1..Len(table) : table[i] = table[j] => i = j

Came(f) == f \in Frame /\ received[f] # None /\ received[f].topic \in Topic

(* Whatever is under way has come, so its topic is settled. *)
FrameInv ==
    /\ DOMAIN received = Frame
    /\ dispatching # None => "frame" \in DOMAIN dispatching /\ Came(dispatching.frame)
    /\ tasks \in Seq(Frame)
    /\ \A i \in 1..Len(tasks) : Came(tasks[i])

(* No pattern before place n matches the topic. *)
PassedOver(topic, n) == \A i \in 1..(n - 1) : ~ Matches(table[i], topic)

Place == [pc : {"new", "loop", "get", "lookup", "scan", "run", "off", "dead"},
          frame : Nat, at : Nat, size : Nat]

Sound(place) ==
    /\ place.pc \in {"lookup", "scan", "run"} => Came(place.frame)
    /\ place.pc = "scan" =>
          /\ place.at \in 1..(place.size + 1)
          /\ place.size <= Len(table)
          /\ PassedOver(received[place.frame].topic, place.at)
    /\ place.pc = "run" =>
          /\ place.at \in 1..Len(table)
          /\ \/ table[place.at] \in Topic
             \/ PassedOver(received[place.frame].topic, place.at)

WorkerInv ==
    /\ worker \in [Thread -> Place]
    /\ \A t \in Thread : Sound(worker[t])

(* A handler that ran still has its place. *)
RunInv ==
    /\ runs \in [Frame -> Seq(Pattern)]
    /\ \A f \in Frame : \A k \in 1..Len(runs[f]) :
          /\ Came(f)
          /\ \E j \in 1..Len(table) :
                /\ runs[f][k] = table[j]
                /\ table[j] \in Topic \/ PassedOver(received[f].topic, j)

IInv == TableInv /\ FrameInv /\ WorkerInv /\ RunInv

(* A message that has come is known from the record it left. *)
LEMMA ReceivedIsNotNone ==
    ASSUME NEW a, NEW b PROVE [topic |-> a, copies |-> b] # None
  <1>1. DOMAIN [topic |-> a, copies |-> b] = {"topic", "copies"}
    OBVIOUS
  <1>2. DOMAIN None = {}
    BY DEF None
  <1> QED  BY <1>1, <1>2

(* From the invariant to the property: a wildcard is no topic, and a       *)
(* pattern has one place.                                                  *)
LEMMA InvariantGivesProperty ==
    ASSUME ProcessorAssumption, IInv PROVE FirstRegisteredRuns
  <1> SUFFICES ASSUME NEW f \in Frame, NEW k \in DOMAIN runs[f], NEW j \in DOMAIN table,
                      runs[f][k] = table[j], table[j] \in Wildcard,
                      NEW i \in 1..(j - 1)
               PROVE  ~ Matches(table[i], received[f].topic)
    BY DEF FirstRegisteredRuns
  <1>1. k \in 1..Len(runs[f]) /\ j \in 1..Len(table)
    BY DEF IInv, RunInv, TableInv
  <1>2. PICK l \in 1..Len(table) : /\ runs[f][k] = table[l]
                                   /\ table[l] \in Topic \/ PassedOver(received[f].topic, l)
    BY <1>1 DEF IInv, RunInv
  <1>3. l = j
    BY <1>1, <1>2 DEF IInv, TableInv
  <1>4. table[j] \notin Topic
    BY DEF ProcessorAssumption
  <1> QED  BY <1>1, <1>2, <1>3, <1>4 DEF PassedOver

LEMMA InitInvariant == ASSUME ProcessorAssumption, ProcessorInit PROVE IInv
  <1>1. TableInv
    BY DEF ProcessorAssumption, ProcessorInit, TableInv
  <1>2. FrameInv
    BY DEF ProcessorInit, FrameInv
  <1>3. WorkerInv
    <2>1. \A t \in Thread : worker[t] = [pc |-> "new", frame |-> 0, at |-> 0, size |-> 0]
      BY DEF ProcessorInit, At
    <2>2. worker \in [Thread -> Place]
      <3>1. At("new") \in Place
        BY DEF At, Place
      <3> QED  BY <3>1 DEF ProcessorInit
    <2> QED  BY <2>1, <2>2 DEF WorkerInv, Sound
  <1>4. RunInv
    BY DEF ProcessorInit, RunInv
  <1> QED  BY <1>1, <1>2, <1>3, <1>4 DEF IInv

-----------------------------------------------------------------------------
(* What register_handler does to the table: nothing, or one place more.    *)
LEMMA TableGrows ==
    ASSUME IInv, NEW p \in Pattern, Register(p)
    PROVE  /\ TableInv'
           /\ Len(table') \in Nat /\ Len(table) <= Len(table')
           /\ \A i \in 1..Len(table) : i \in 1..Len(table') /\ table'[i] = table[i]
  <1>1. CASE p \in Range(table)
    <2>1. table' = table
      BY <1>1 DEF Register
    <2> QED  BY <2>1 DEF IInv, TableInv
  <1>2. CASE p \notin Range(table)
    <2>1. table' = Append(table, p) /\ table \in Seq(Pattern)
      BY <1>2 DEF Register, IInv, TableInv
    <2>2. \A i \in 1..Len(table) : table[i] # p
      BY <1>2, <2>1 DEF Range
    <2> QED  BY <2>1, <2>2 DEF IInv, TableInv
  <1> QED  BY <1>1, <1>2

LEMMA RegisterInvariant ==
    ASSUME IInv, NEW p \in Pattern, Register(p) PROVE IInv'
  <1> DEFINE kept == \A i \in 1..Len(table) : i \in 1..Len(table') /\ table'[i] = table[i]
  <1>1. TableInv' /\ Len(table') \in Nat /\ Len(table) <= Len(table') /\ kept
    BY TableGrows
  <1>2. UNCHANGED <<received, dispatching, tasks, worker, runs>> /\ Len(table) \in Nat
    <2>1. UNCHANGED <<received, dispatching, tasks, worker, runs>>
      BY DEF Register
    <2> QED  BY <2>1 DEF IInv, TableInv
  <1>3. FrameInv'
    BY <1>2 DEF IInv, FrameInv, Came
  <1>4. \A topic : \A n \in 1..(Len(table) + 1) : PassedOver(topic, n) => PassedOver(topic, n)'
    BY <1>1, <1>2 DEF PassedOver, Matches
  <1>5. WorkerInv'
    <2>1. SUFFICES ASSUME NEW t \in Thread PROVE Sound(worker[t])'
      BY <1>2 DEF IInv, WorkerInv
    <2>2. worker[t] \in Place /\ Sound(worker[t]) /\ UNCHANGED <<worker[t], received>>
      BY <1>2 DEF IInv, WorkerInv
    <2> QED  BY <1>1, <1>2, <1>4, <2>2 DEF Sound, Place, Came
  <1>6. RunInv'
    <2>1. SUFFICES ASSUME NEW f \in Frame, NEW k \in 1..Len(runs[f])
                   PROVE  \E j \in 1..Len(table') :
                             /\ runs[f][k] = table'[j]
                             /\ table'[j] \in Topic \/ PassedOver(received[f].topic, j)'
      BY <1>2 DEF IInv, RunInv, Came
    <2>2. PICK j \in 1..Len(table) : /\ runs[f][k] = table[j]
                                     /\ table[j] \in Topic \/ PassedOver(received[f].topic, j)
      BY DEF IInv, RunInv
    <2> QED  BY <1>1, <1>2, <1>4, <2>2
  <1> QED  BY <1>1, <1>3, <1>5, <1>6 DEF IInv

(* Steps that touch neither the table, nor a message, nor a worker's task. *)
LEMMA IdleInvariant ==
    ASSUME IInv, UNCHANGED <<table, received, dispatching, tasks, worker, runs>> PROVE IInv'
  <1>1. TableInv' /\ FrameInv'
    BY DEF IInv, TableInv, FrameInv, Came
  <1>2. \A topic, n : PassedOver(topic, n)' = PassedOver(topic, n)
    BY DEF PassedOver, Matches
  <1>3. WorkerInv' /\ RunInv'
    BY <1>2 DEF IInv, WorkerInv, Sound, RunInv, Came
  <1> QED  BY <1>1, <1>3 DEF IInv

(* A worker goes to a sound place while table and messages stay. *)
LEMMA WorkerMoves ==
    ASSUME IInv, NEW t \in Thread, NEW place \in Place, Sound(place), Goto(t, place),
           UNCHANGED <<table, received>>
    PROVE  WorkerInv'
  <1>1. \A topic, n : PassedOver(topic, n)' = PassedOver(topic, n)
    BY DEF PassedOver, Matches
  <1>2. worker' \in [Thread -> Place]
    BY DEF IInv, WorkerInv, Goto
  <1>3. ASSUME NEW u \in Thread PROVE Sound(worker[u])'
    <2>1. Sound(worker'[u])
      BY DEF IInv, WorkerInv, Goto
    <2> QED  BY <1>1, <2>1 DEF Sound, Came
  <1> QED  BY <1>2, <1>3 DEF WorkerInv

(* What a step that leaves the table and the messages alone keeps.         *)
LEMMA RunsKept ==
    ASSUME IInv, UNCHANGED <<table, received, runs>> PROVE TableInv' /\ RunInv'
  <1>1. \A topic, n : PassedOver(topic, n)' = PassedOver(topic, n)
    BY DEF PassedOver, Matches
  <1> QED  BY <1>1 DEF IInv, TableInv, RunInv, Came

LEMMA StartInvariant == ASSUME IInv, Start PROVE IInv'
  <1>1. UNCHANGED <<table, received, dispatching, tasks, runs>>
    BY DEF Start
  <1>2. PICK fresh : worker' = [t \in Thread |-> IF t \in fresh THEN At("loop") ELSE worker[t]]
    BY DEF Start
  <1>3. TableInv' /\ RunInv'
    BY <1>1, RunsKept
  <1>4. FrameInv'
    BY <1>1 DEF IInv, FrameInv, Came
  <1>5. At("loop") \in Place /\ Sound(At("loop"))
    BY DEF At, Place, Sound
  <1>6. worker' \in [Thread -> Place] /\ \A t \in Thread : Sound(worker'[t])
    BY <1>2, <1>5 DEF IInv, WorkerInv
  <1>7. \A topic, n : PassedOver(topic, n)' = PassedOver(topic, n)
    BY <1>1 DEF PassedOver, Matches
  <1>8. WorkerInv'
    BY <1>1, <1>6, <1>7 DEF WorkerInv, Sound, Came
  <1> QED  BY <1>3, <1>4, <1>8 DEF IInv

LEMMA ReceiveInvariant ==
    ASSUME IInv, NEW f \in Frame, NEW topic \in Topic, Receive(f, topic) PROVE IInv'
  <1> DEFINE record == [topic |-> topic, copies |-> Copies(topic)]
  <1>1. /\ received[f] = None /\ received' = [received EXCEPT ![f] = record]
        /\ dispatching' = IF Copies(topic) = 0 THEN None
                          ELSE [frame |-> f, left |-> Copies(topic)]
        /\ UNCHANGED <<table, tasks, worker, runs>>
    BY DEF Receive
  <1>2. DOMAIN received = Frame
    BY DEF IInv, FrameInv
  <1>3. Came(f)' /\ \A g : Came(g) => Came(g)' /\ received'[g] = received[g]
    <2>1. received'[f] = record /\ record # None /\ record.topic = topic
      BY <1>1, <1>2, ReceivedIsNotNone
    <2>2. \A g \in Frame : g # f => received'[g] = received[g]
      BY <1>1, <1>2
    <2> QED  BY <1>1, <2>1, <2>2 DEF Came
  <1>4. TableInv'
    BY <1>1 DEF IInv, TableInv
  <1>5. FrameInv'
    <2>1. DOMAIN received' = Frame
      BY <1>1, <1>2
    <2>2. dispatching' # None => "frame" \in DOMAIN dispatching' /\ dispatching'.frame = f
      BY <1>1
    <2> QED  BY <1>1, <1>3, <2>1, <2>2 DEF IInv, FrameInv, Came
  <1>6. \A tpc, n : PassedOver(tpc, n)' = PassedOver(tpc, n)
    BY <1>1 DEF PassedOver, Matches
  <1>7. WorkerInv'
    BY <1>1, <1>3, <1>6 DEF IInv, WorkerInv, Sound
  <1>8. RunInv'
    <2>1. SUFFICES ASSUME NEW g \in Frame, NEW k \in 1..Len(runs[g])
                   PROVE  /\ Came(g)'
                          /\ \E j \in 1..Len(table) :
                                /\ runs[g][k] = table[j]
                                /\ table[j] \in Topic \/ PassedOver(received'[g].topic, j)
      BY <1>1, <1>6 DEF IInv, RunInv
    <2> QED  BY <1>1, <1>3 DEF IInv, RunInv
  <1> QED  BY <1>4, <1>5, <1>7, <1>8 DEF IInv

LEMMA EnqueueInvariant == ASSUME IInv, EnqueueIncoming PROVE IInv'
  <1>1. /\ dispatching # None
        /\ tasks' = tasks \/ tasks' = Append(tasks, dispatching.frame)
        /\ dispatching' = None \/ dispatching' = [dispatching EXCEPT !.left = @ - 1]
        /\ UNCHANGED <<table, received, worker, runs>>
    BY DEF EnqueueIncoming
  <1>2. Came(dispatching.frame) /\ "frame" \in DOMAIN dispatching
    BY <1>1 DEF IInv, FrameInv
  <1>3. TableInv' /\ RunInv'
    BY <1>1, RunsKept
  <1>4. FrameInv'
    <2>1. dispatching' # None =>
             "frame" \in DOMAIN dispatching' /\ dispatching'.frame = dispatching.frame
      BY <1>1, <1>2
    <2>2. tasks' \in Seq(Frame) /\ \A i \in 1..Len(tasks') : Came(tasks'[i])
      BY <1>1, <1>2 DEF IInv, FrameInv, Came
    <2> QED  BY <1>1, <1>2, <2>1, <2>2 DEF IInv, FrameInv, Came
  <1>5. \A topic, n : PassedOver(topic, n)' = PassedOver(topic, n)
    BY <1>1 DEF PassedOver, Matches
  <1>6. WorkerInv'
    BY <1>1, <1>5 DEF IInv, WorkerInv, Sound, Came
  <1> QED  BY <1>3, <1>4, <1>6 DEF IInv

-----------------------------------------------------------------------------
(* The steps of a worker *)
LEMMA SameFrames ==
    ASSUME IInv, UNCHANGED <<received, dispatching, tasks>> PROVE FrameInv'
  BY DEF IInv, FrameInv, Came

LEMMA CheckRunningInvariant ==
    ASSUME IInv, NEW t \in Thread, CheckRunning(t) PROVE IInv'
  <1>1. PICK pc \in {"get", "off"} : Goto(t, At(pc))
    BY DEF CheckRunning
  <1>2. UNCHANGED <<table, received, dispatching, tasks, runs>>
    BY DEF CheckRunning
  <1>3. At(pc) \in Place /\ Sound(At(pc))
    BY DEF At, Place, Sound
  <1> QED  BY <1>1, <1>2, <1>3, WorkerMoves, RunsKept, SameFrames DEF IInv

LEMMA GetInvariant == ASSUME IInv, NEW t \in Thread, Get(t) PROVE IInv'
  <1>1. UNCHANGED <<table, received, dispatching, runs>>
    BY DEF Get
  <1>2. TableInv' /\ RunInv'
    BY <1>1, RunsKept
  <1>3. CASE tasks = <<>>
    <2>1. Goto(t, At("loop")) /\ UNCHANGED tasks
      BY <1>3 DEF Get
    <2>2. At("loop") \in Place /\ Sound(At("loop"))
      BY DEF At, Place, Sound
    <2> QED  BY <1>1, <1>2, <2>1, <2>2, WorkerMoves, SameFrames DEF IInv
  <1>4. CASE tasks # <<>>
    <2> DEFINE place == [At("lookup") EXCEPT !.frame = Head(tasks)]
    <2>1. Goto(t, place) /\ tasks' = Tail(tasks)
      BY <1>4 DEF Get
    <2>2. Came(Head(tasks)) /\ Head(tasks) \in Frame
      BY <1>4 DEF IInv, FrameInv, Came
    <2>3. place = [pc |-> "lookup", frame |-> Head(tasks), at |-> 0, size |-> 0]
      BY DEF At
    <2>4. place \in Place /\ Sound(place)
      BY <2>2, <2>3 DEF Place, Sound, Frame
    <2>5. WorkerInv'
      BY <1>1, <2>1, <2>4, WorkerMoves
    <2>6. FrameInv'
      <3>1. Tail(tasks) \in Seq(Frame) /\ \A i \in 1..Len(Tail(tasks)) : Came(Tail(tasks)[i])
        BY <1>4 DEF IInv, FrameInv
      <3> QED  BY <1>1, <2>1, <3>1 DEF IInv, FrameInv, Came
    <2> QED  BY <1>2, <2>5, <2>6 DEF IInv
  <1> QED  BY <1>3, <1>4

LEMMA LookupInvariant == ASSUME IInv, NEW t \in Thread, Lookup(t) PROVE IInv'
  <1>1. UNCHANGED <<table, received, dispatching, tasks, runs>> /\ worker[t].pc = "lookup"
    BY DEF Lookup
  <1>2. worker[t] \in Place /\ Came(worker[t].frame)
    BY <1>1 DEF IInv, WorkerInv, Sound
  <1>3. CASE TopicOf(t) \in Range(table)
    <2> DEFINE place == [worker[t] EXCEPT !.pc = "run", !.at = PlaceOf(TopicOf(t))]
    <2>1. Goto(t, place)
      BY <1>3 DEF Lookup
    <2>2. PlaceOf(TopicOf(t)) \in 1..Len(table) /\ table[PlaceOf(TopicOf(t))] = TopicOf(t)
      <3>1. DOMAIN table = 1..Len(table)
        BY DEF IInv, TableInv
      <3>2. \E i \in DOMAIN table : table[i] = TopicOf(t)
        BY <1>3 DEF Range
      <3> QED  BY <3>1, <3>2 DEF PlaceOf
    <2>3. place \in Place
      <3>1. PlaceOf(TopicOf(t)) \in Nat
        BY <2>2 DEF IInv, TableInv
      <3> QED  BY <1>2, <3>1 DEF Place
    <2>4. place.pc = "run" /\ place.frame = worker[t].frame /\ place.at = PlaceOf(TopicOf(t))
      BY <1>2 DEF Place
    <2>5. Sound(place)
      BY <1>2, <2>2, <2>4 DEF Sound, Came, TopicOf
    <2> QED  BY <1>1, <2>1, <2>3, <2>5, WorkerMoves, RunsKept, SameFrames DEF IInv
  <1>4. CASE TopicOf(t) \notin Range(table)
    <2> DEFINE place == [worker[t] EXCEPT !.pc = "scan", !.at = 1, !.size = Len(table)]
    <2>1. Goto(t, place)
      BY <1>4 DEF Lookup
    <2>2. Len(table) \in Nat
      BY DEF IInv, TableInv
    <2>3. place \in Place
      BY <1>2, <2>2 DEF Place
    <2>4. /\ place.pc = "scan" /\ place.frame = worker[t].frame
          /\ place.at = 1 /\ place.size = Len(table)
      BY <1>2 DEF Place
    <2>5. Sound(place)
      BY <1>2, <2>2, <2>4 DEF Sound, PassedOver
    <2> QED  BY <1>1, <2>1, <2>3, <2>5, WorkerMoves, RunsKept, SameFrames DEF IInv
  <1> QED  BY <1>3, <1>4

LEMMA ScanInvariant == ASSUME IInv, NEW t \in Thread, Scan(t) PROVE IInv'
  <1>1. UNCHANGED <<table, received, dispatching, tasks, runs>> /\ worker[t].pc = "scan"
    BY DEF Scan
  <1>2. worker[t] \in Place /\ Sound(worker[t]) /\ Came(worker[t].frame)
    BY <1>1 DEF IInv, WorkerInv, Sound
  <1>3. SUFFICES WorkerInv'
    BY <1>1, RunsKept, SameFrames DEF IInv
  <1>4. ASSUME NEW pc \in {"dead", "loop"}, GiveUp(t, pc) PROVE WorkerInv'
    <2>1. At(pc) \in Place /\ Sound(At(pc))
      BY DEF At, Place, Sound
    <2> QED  BY <1>1, <1>4, <2>1, WorkerMoves DEF GiveUp
  <1> DEFINE i == worker[t].at
  <1>5. CASE Len(table) # worker[t].size \/ i > Len(table)
    BY <1>4, <1>5 DEF Scan
  <1>6. CASE Len(table) = worker[t].size /\ ~ i > Len(table)
    <2>1. i \in 1..Len(table) /\ PassedOver(received[worker[t].frame].topic, i)
      BY <1>1, <1>2, <1>6 DEF Sound, Place, IInv, TableInv
    <2>2. CASE Matches(table[i], TopicOf(t))
      <3> DEFINE place == [worker[t] EXCEPT !.pc = "run"]
      <3>1. Goto(t, place)
        BY <1>6, <2>2 DEF Scan
      <3>2. /\ place \in Place /\ place.pc = "run"
            /\ place.frame = worker[t].frame /\ place.at = i
        BY <1>2 DEF Place
      <3>3. Sound(place)
        BY <1>2, <2>1, <3>2 DEF Sound
      <3> QED  BY <1>1, <3>1, <3>2, <3>3, WorkerMoves
    <2>3. CASE ~ Matches(table[i], TopicOf(t))
      <3> DEFINE place == [worker[t] EXCEPT !.at = i + 1]
      <3>1. Goto(t, place)
        BY <1>6, <2>3 DEF Scan
      <3>2. /\ place \in Place /\ place.pc = "scan" /\ place.at = i + 1
            /\ place.frame = worker[t].frame /\ place.size = worker[t].size
        BY <1>1, <1>2 DEF Place
      <3>3. PassedOver(received[worker[t].frame].topic, i + 1)
        BY <2>1, <2>3 DEF PassedOver, TopicOf
      <3>4. Sound(place)
        BY <1>2, <1>6, <2>1, <3>2, <3>3 DEF Sound, IInv, TableInv
      <3> QED  BY <1>1, <3>1, <3>2, <3>4, WorkerMoves
    <2> QED  BY <2>2, <2>3
  <1> QED  BY <1>5, <1>6

LEMMA RunHandlerInvariant == ASSUME IInv, NEW t \in Thread, RunHandler(t) PROVE IInv'
  <1> DEFINE f == worker[t].frame
             n == worker[t].at
  <1>1. /\ UNCHANGED <<table, received, dispatching, tasks>> /\ worker[t].pc = "run"
        /\ runs' = [runs EXCEPT ![f] = Append(@, table[n])] /\ Goto(t, At("loop"))
    BY DEF RunHandler
  <1>2. /\ Came(f) /\ n \in 1..Len(table)
        /\ table[n] \in Topic \/ PassedOver(received[f].topic, n)
    BY <1>1 DEF IInv, WorkerInv, Sound
  <1>3. At("loop") \in Place /\ Sound(At("loop"))
    BY DEF At, Place, Sound
  <1>4. WorkerInv' /\ FrameInv'
    BY <1>1, <1>3, WorkerMoves, SameFrames
  <1>5. TableInv'
    BY <1>1 DEF IInv, TableInv
  <1>6. table[n] \in Pattern /\ runs \in [Frame -> Seq(Pattern)] /\ f \in Frame
    BY <1>2 DEF IInv, TableInv, RunInv, Came
  <1>7. RunInv'
    <2>1. runs' \in [Frame -> Seq(Pattern)]
      BY <1>1, <1>6
    <2>2. \A topic, j : PassedOver(topic, j)' = PassedOver(topic, j)
      BY <1>1 DEF PassedOver, Matches
    <2>3. SUFFICES ASSUME NEW g \in Frame, NEW k \in 1..Len(runs'[g])
                   PROVE  /\ Came(g)
                          /\ \E j \in 1..Len(table) :
                                /\ runs'[g][k] = table[j]
                                /\ table[j] \in Topic \/ PassedOver(received[g].topic, j)
      BY <1>1, <2>1, <2>2 DEF RunInv, Came
    <2>4. CASE k \in 1..Len(runs[g]) /\ runs'[g][k] = runs[g][k]
      BY <2>4 DEF IInv, RunInv
    <2>5. CASE g = f /\ runs'[g][k] = table[n]
      BY <1>2, <2>5
    <2>6. CASE g # f
      BY <1>1, <1>6, <2>4, <2>6
    <2>7. CASE g = f
      <3>1. runs'[g] = Append(runs[g], table[n]) /\ runs[g] \in Seq(Pattern)
        BY <1>1, <1>6, <2>7
      <3>2. CASE k = Len(runs[g]) + 1
        BY <1>6, <2>5, <2>7, <3>1, <3>2
      <3>3. CASE k \in 1..Len(runs[g])
        BY <1>6, <2>4, <3>1, <3>3
      <3> QED  BY <1>6, <3>1, <3>2, <3>3
    <2> QED  BY <2>6, <2>7
  <1> QED  BY <1>4, <1>5, <1>7 DEF IInv

LEMMA StepInvariant == ASSUME IInv, [ProcessorNext]_processorVars PROVE IInv'
  <1>1. ASSUME NEW p \in Pattern, Register(p) PROVE IInv'
    BY <1>1, RegisterInvariant
  <1>2. CASE Subscribe \/ StartTransport \/ Stop \/ StopTransport \/ UNCHANGED processorVars
    <2>1. UNCHANGED <<table, received, dispatching, tasks, worker, runs>>
      BY <1>2 DEF Subscribe, StartTransport, Stop, StopTransport, processorVars
    <2> QED  BY <2>1, IdleInvariant
  <1>3. CASE Start
    BY <1>3, StartInvariant
  <1>4. ASSUME NEW f \in Frame, NEW topic \in Topic, Receive(f, topic) PROVE IInv'
    BY <1>4, ReceiveInvariant
  <1>5. CASE EnqueueIncoming
    BY <1>5, EnqueueInvariant
  <1>6. ASSUME NEW t \in Thread, WorkerStep(t) PROVE IInv'
    BY <1>6, CheckRunningInvariant, GetInvariant, LookupInvariant, ScanInvariant,
       RunHandlerInvariant DEF WorkerStep
  <1> QED  BY <1>1, <1>2, <1>3, <1>4, <1>5, <1>6 DEF ProcessorNext

(* The invariant holds in every reachable state. *)
THEOREM ProcessorInvariant == ProcessorSpec => []IInv
  <1>1. ProcessorInit => IInv
    BY ProcessorAssumption, InitInvariant
  <1>2. IInv /\ [ProcessorNext]_processorVars => IInv'
    BY StepInvariant
  <1> QED  BY <1>1, <1>2, PTL DEF ProcessorSpec

(* A wildcard's handler runs for no topic that a pattern registered before *)
(* it matches, whatever is registered while workers search the table.      *)
THEOREM FirstRegisteredRunsHolds == ProcessorSpec => []FirstRegisteredRuns
  <1>1. IInv => FirstRegisteredRuns
    BY ProcessorAssumption, InvariantGivesProperty
  <1> QED  BY <1>1, ProcessorInvariant, PTL

-----------------------------------------------------------------------------
(* The copies of a message.  Every step moves a copy from one place to the *)
(* next, so that the sum stays; that needs the places to be countable.     *)

(* What the receiver counts is a number. *)
SubscriptionInv ==
    /\ subscribed \in [Pattern -> Nat]
    /\ \E most \in Nat : \A p \in Pattern : subscribed[p] <= most
    /\ registering = None \/ \E p \in Pattern : registering = <<p>>

CopyTypeOK ==
    /\ \A f \in Frame : received[f] # None => received[f].copies \in Nat
    /\ dispatching = None \/ dispatching \in [frame : Frame, left : Nat \ {0}]
    /\ spent \in [Frame -> Nat]

CopyInv == SubscriptionInv /\ CopyTypeOK /\ EachCopyOnce

(* The places of a message in a queue. *)
Places(s, f) == {i \in DOMAIN s : s[i] = f}

LEMMA PlacesFinite ==
    ASSUME NEW s \in Seq(Frame), NEW f
    PROVE  IsFiniteSet(Places(s, f)) /\ Cardinality(Places(s, f)) \in Nat
  <1>1. IsFiniteSet(1..Len(s)) /\ Places(s, f) \in SUBSET (1..Len(s))
    BY FS_Interval DEF Places
  <1>2. IsFiniteSet(Places(s, f))
    BY <1>1, FS_Subset
  <1> QED  BY <1>2, FS_CardinalityType

(* A message at the end of the queue has one place more, any other none. *)
LEMMA PlacesAppend ==
    ASSUME NEW s \in Seq(Frame), NEW x \in Frame, NEW f
    PROVE  Cardinality(Places(Append(s, x), f)) =
               Cardinality(Places(s, f)) + (IF x = f THEN 1 ELSE 0)
  <1>1. /\ DOMAIN Append(s, x) = 1..(Len(s) + 1) /\ DOMAIN s = 1..Len(s)
        /\ \A i \in 1..Len(s) : Append(s, x)[i] = s[i]
        /\ Append(s, x)[Len(s) + 1] = x
        /\ Len(s) \in Nat
    OBVIOUS
  <1>2. IsFiniteSet(Places(s, f)) /\ Cardinality(Places(s, f)) \in Nat
    BY PlacesFinite
  <1>3. CASE x = f
    <2>1. Places(Append(s, x), f) = Places(s, f) \cup {Len(s) + 1}
      BY <1>1, <1>3 DEF Places
    <2>2. Len(s) + 1 \notin Places(s, f)
      BY <1>1 DEF Places
    <2> QED  BY <1>2, <1>3, <2>1, <2>2, FS_AddElement
  <1>4. CASE x # f
    <2>1. Places(Append(s, x), f) = Places(s, f)
      BY <1>1, <1>4 DEF Places
    <2> QED  BY <1>2, <1>4, <2>1
  <1> QED  BY <1>3, <1>4

(* The message that leaves the head has one place less. *)
LEMMA PlacesTail ==
    ASSUME NEW s \in Seq(Frame), s # <<>>, NEW f
    PROVE  Cardinality(Places(s, f)) =
               Cardinality(Places(Tail(s), f)) + (IF Head(s) = f THEN 1 ELSE 0)
  <1> DEFINE rest == Places(s, f) \ {1}
             shift == [i \in Places(Tail(s), f) |-> i + 1]
  <1>1. /\ Len(s) \in Nat \ {0} /\ DOMAIN s = 1..Len(s)
        /\ Tail(s) \in Seq(Frame) /\ DOMAIN Tail(s) = 1..(Len(s) - 1)
        /\ \A i \in 1..(Len(s) - 1) : Tail(s)[i] = s[i + 1]
        /\ Head(s) = s[1]
    OBVIOUS
  <1>2. IsFiniteSet(Places(s, f)) /\ Cardinality(Places(s, f)) \in Nat
    BY PlacesFinite
  <1>3. IsFiniteSet(Places(Tail(s), f))
    BY <1>1, PlacesFinite
  <1>4. shift \in Bijection(Places(Tail(s), f), rest)
    <2>1. \A i \in Places(Tail(s), f) : i \in 1..(Len(s) - 1) /\ i + 1 \in rest
      BY <1>1 DEF Places
    <2>2. shift \in [Places(Tail(s), f) -> rest]
      BY <2>1
    <2>3. \A i, j \in Places(Tail(s), f) : shift[i] = shift[j] => i = j
      BY <2>1
    <2>4. \A k \in rest : \E i \in Places(Tail(s), f) : shift[i] = k
      <3>1. SUFFICES ASSUME NEW k \in rest
                     PROVE  k - 1 \in Places(Tail(s), f) /\ (k - 1) + 1 = k
        OBVIOUS
      <3> QED  BY <1>1 DEF Places
    <2> QED  BY <2>2, <2>3, <2>4 DEF Bijection, Injection, Surjection, IsInjective
  <1>5. Cardinality(rest) = Cardinality(Places(Tail(s), f))
    BY <1>3, <1>4, FS_Bijection DEF ExistsBijection
  <1>6. Cardinality(rest) = IF 1 \in Places(s, f) THEN Cardinality(Places(s, f)) - 1
                            ELSE Cardinality(Places(s, f))
    BY <1>2, FS_RemoveElement
  <1>7. 1 \in Places(s, f) <=> Head(s) = f
    BY <1>1 DEF Places
  <1> QED  BY <1>2, <1>5, <1>6, <1>7

-----------------------------------------------------------------------------
(* The parts of the sum, and what moves them. *)
Copied(f) == IF received[f] = None THEN 0 ELSE received[f].copies
Busy(place, f) == place.pc \in {"lookup", "scan", "run"} /\ place.frame = f
One(condition) == IF condition THEN 1 ELSE 0

LEMMA PartsAreNumbers ==
    ASSUME ProcessorAssumption, IInv, CopyTypeOK, NEW f \in Frame
    PROVE  /\ Copied(f) \in Nat /\ Undispatched(f) \in Nat /\ spent[f] \in Nat
           /\ Cardinality(Queued(f)) \in Nat /\ Len(runs[f]) \in Nat
           /\ IsFiniteSet(HandsOn(f)) /\ Cardinality(HandsOn(f)) \in Nat
  <1>1. Copied(f) \in Nat /\ Undispatched(f) \in Nat /\ spent[f] \in Nat
    BY DEF CopyTypeOK, Copied, Undispatched
  <1>2. Cardinality(Queued(f)) \in Nat
    <2>1. Queued(f) = Places(tasks, f) /\ tasks \in Seq(Frame)
      BY DEF Queued, Places, IInv, FrameInv
    <2> QED  BY <2>1, PlacesFinite
  <1>3. Len(runs[f]) \in Nat
    BY DEF IInv, RunInv
  <1>4. IsFiniteSet(HandsOn(f))
    <2>1. HandsOn(f) \in SUBSET Thread /\ IsFiniteSet(Thread)
      BY DEF HandsOn, ProcessorAssumption
    <2> QED  BY <2>1, FS_Subset
  <1> QED  BY <1>1, <1>2, <1>3, <1>4, FS_CardinalityType

LEMMA CopyOnceSum ==
    EachCopyOnce <=> \A f \in Frame : Copied(f) = Undispatched(f) + Cardinality(Queued(f))
                         + Cardinality(HandsOn(f)) + Len(runs[f]) + spent[f]
  BY DEF EachCopyOnce, Copied

(* A worker that goes elsewhere takes its copy along, or lets go of it. *)
LEMMA HandsMove ==
    ASSUME ProcessorAssumption, IInv, CopyTypeOK, NEW t \in Thread, NEW place,
           Goto(t, place), NEW f \in Frame
    PROVE  /\ Cardinality(HandsOn(f)') \in Nat
           /\ Cardinality(HandsOn(f)') + One(Busy(worker[t], f)) =
                  Cardinality(HandsOn(f)) + One(Busy(place, f))
  <1> DEFINE before == HandsOn(f)
             after == HandsOn(f)'
  <1>1. worker \in [Thread -> Place] /\ worker' = [worker EXCEPT ![t] = place]
    BY DEF IInv, WorkerInv, Goto
  <1>2. IsFiniteSet(before) /\ Cardinality(before) \in Nat
    BY PartsAreNumbers
  <1>3. t \in before <=> Busy(worker[t], f)
    BY DEF HandsOn, Busy
  <1>4. CASE Busy(place, f)
    <2>1. after = before \cup {t}
      BY <1>1, <1>4 DEF HandsOn, Busy
    <2>2. Cardinality(after) = IF t \in before THEN Cardinality(before)
                               ELSE Cardinality(before) + 1
      BY <1>2, <2>1, FS_AddElement
    <2> HIDE DEF before, after
    <2>3. Cardinality(after) + One(Busy(worker[t], f)) = Cardinality(before) + 1
      BY <1>2, <1>3, <2>2 DEF One
    <2>4. Cardinality(after) \in Nat
      BY <1>2, <2>2
    <2> QED  BY <1>4, <2>3, <2>4 DEF One, before, after
  <1>5. CASE ~ Busy(place, f)
    <2>1. after = before \ {t}
      BY <1>1, <1>5 DEF HandsOn, Busy
    <2>2. Cardinality(after) = IF t \in before THEN Cardinality(before) - 1
                               ELSE Cardinality(before)
      BY <1>2, <2>1, FS_RemoveElement
    <2> HIDE DEF before, after
    <2>3. Cardinality(after) + One(Busy(worker[t], f)) = Cardinality(before) + 0
      BY <1>2, <1>3, <2>2 DEF One
    <2>4. Cardinality(after) \in Nat
      <3>1. IsFiniteSet(before \ {t})
        BY <1>2, FS_RemoveElement
      <3> QED  BY <2>1, <3>1, FS_CardinalityType
    <2> QED  BY <1>5, <2>3, <2>4 DEF One, before, after
  <1> QED  BY <1>4, <1>5

-----------------------------------------------------------------------------
(* What _dispatch_callbacks counts is a number, however many calls of      *)
(* register_handler subscribed to a pattern.                               *)
LEMMA CopiesIsNumber ==
    ASSUME ProcessorAssumption, SubscriptionInv, NEW topic PROVE Copies(topic) \in Nat
  <1>1. PICK most \in Nat : \A p \in Pattern : subscribed[p] <= most
    BY DEF SubscriptionInv
  <1>2. IsFiniteSet(Pattern) /\ IsFiniteSet(1..most)
    <2>1. IsFiniteSet(Topic \cup Wildcard)
      BY FS_Union DEF ProcessorAssumption
    <2> QED  BY <2>1, FS_Interval DEF Pattern
  <1>3. IsFiniteSet(Pattern \X (1..most))
    BY <1>2, FS_Product
  <1>4. Subscriptions(topic) \in SUBSET (Pattern \X (1..most))
    <2>1. SUFFICES ASSUME NEW p \in Pattern, NEW pair \in {p} \X (1..subscribed[p])
                   PROVE  pair \in Pattern \X (1..most)
      BY DEF Subscriptions
    <2>2. subscribed[p] \in Nat /\ subscribed[p] <= most
      BY <1>1 DEF SubscriptionInv
    <2> QED  BY <2>2
  <1>5. IsFiniteSet(Subscriptions(topic))
    BY <1>3, <1>4, FS_Subset
  <1> QED  BY <1>5, FS_CardinalityType DEF Copies

LEMMA SubscriptionInit ==
    ASSUME ProcessorAssumption, ProcessorInit PROVE SubscriptionInv
  <1>1. \A p \in Pattern : subscribed[p] \in Nat /\ subscribed[p] <= 1
    BY DEF ProcessorInit
  <1>2. subscribed \in [Pattern -> Nat]
    BY <1>1 DEF ProcessorInit
  <1> QED  BY <1>1, <1>2 DEF ProcessorInit, SubscriptionInv

LEMMA SubscriptionStep ==
    ASSUME SubscriptionInv, [ProcessorNext]_processorVars PROVE SubscriptionInv'
  <1>1. ASSUME NEW p \in Pattern, Register(p) PROVE SubscriptionInv'
    <2>1. registering' = <<p>> /\ subscribed' = subscribed
      BY <1>1 DEF Register
    <2> QED  BY <2>1 DEF SubscriptionInv
  <1>2. CASE Subscribe
    <2>1. PICK p \in Pattern : registering = <<p>>
      BY <1>2 DEF Subscribe, SubscriptionInv
    <2>2. subscribed' = [subscribed EXCEPT ![p] = @ + 1] /\ registering' = None
      BY <1>2, <2>1 DEF Subscribe
    <2>3. PICK most \in Nat : \A q \in Pattern : subscribed[q] <= most
      BY DEF SubscriptionInv
    <2>4. subscribed' \in [Pattern -> Nat]
      BY <2>2 DEF SubscriptionInv
    <2>5. most + 1 \in Nat /\ \A q \in Pattern : subscribed'[q] <= most + 1
      BY <2>2, <2>3 DEF SubscriptionInv
    <2>6. \E m \in Nat : \A q \in Pattern : subscribed'[q] <= m
      BY <2>5
    <2> QED  BY <2>2, <2>4, <2>6 DEF SubscriptionInv
  <1>3. CASE UNCHANGED <<subscribed, registering>>
    BY <1>3 DEF SubscriptionInv
  <1> QED  BY <1>1, <1>2, <1>3 DEF ProcessorNext, processorVars, Start, StartTransport, Stop, StopTransport, Receive,
             EnqueueIncoming, WorkerStep, CheckRunning, Get, Lookup, Scan, RunHandler

-----------------------------------------------------------------------------
(* The steps, each with the part from which and to which a copy goes. *)

(* No copy moves: the threads look, wait, start or stop. *)
LEMMA QuietCopies ==
    ASSUME CopyTypeOK, EachCopyOnce, UNCHANGED <<received, dispatching, tasks, runs, spent>>,
           \A f \in Frame : Cardinality(HandsOn(f)') = Cardinality(HandsOn(f))
    PROVE  CopyTypeOK' /\ EachCopyOnce'
  <1>1. CopyTypeOK'
    BY DEF CopyTypeOK
  <1>2. \A f \in Frame : Undispatched(f)' = Undispatched(f) /\ Queued(f)' = Queued(f)
    BY DEF Undispatched, Queued
  <1>3. \A f \in Frame : /\ Cardinality(HandsOn(f))' = Cardinality(HandsOn(f))
                         /\ Cardinality(Queued(f))' = Cardinality(Queued(f))
    BY <1>2
  <1>4. EachCopyOnce'
    BY <1>2, <1>3 DEF EachCopyOnce
  <1> QED  BY <1>1, <1>4

(* The same for a worker that keeps what it has. *)
LEMMA QuietWorker ==
    ASSUME ProcessorAssumption, IInv, CopyTypeOK, EachCopyOnce, NEW t \in Thread, NEW place,
           Goto(t, place), UNCHANGED <<received, dispatching, tasks, runs, spent>>,
           \A f \in Frame : Busy(place, f) <=> Busy(worker[t], f)
    PROVE  CopyTypeOK' /\ EachCopyOnce'
  <1>1. SUFFICES ASSUME NEW f \in Frame
                 PROVE  Cardinality(HandsOn(f)') = Cardinality(HandsOn(f))
    BY QuietCopies
  <1>2. /\ Cardinality(HandsOn(f)') \in Nat /\ Cardinality(HandsOn(f)) \in Nat
        /\ Cardinality(HandsOn(f)') + One(Busy(worker[t], f)) =
               Cardinality(HandsOn(f)) + One(Busy(place, f))
    BY HandsMove, PartsAreNumbers
  <1>3. One(Busy(worker[t], f)) = One(Busy(place, f)) /\ One(Busy(place, f)) \in Nat
    BY DEF One
  <1> QED  BY ONLY <1>2, <1>3

LEMMA QuietSteps ==
    ASSUME ProcessorAssumption, IInv, CopyTypeOK, EachCopyOnce, NEW t \in Thread,
           CheckRunning(t) \/ Lookup(t)
    PROVE  CopyTypeOK' /\ EachCopyOnce'
  <1>1. UNCHANGED <<received, dispatching, tasks, runs, spent>>
    BY DEF CheckRunning, Lookup
  <1>2. CASE CheckRunning(t)
    <2>1. PICK pc \in {"get", "off"} : Goto(t, At(pc))
      BY <1>2 DEF CheckRunning
    <2>2. \A f \in Frame : ~ Busy(At(pc), f) /\ ~ Busy(worker[t], f)
      BY <1>2 DEF CheckRunning, At, Busy
    <2> QED  BY <1>1, <2>1, <2>2, QuietWorker
  <1>3. CASE Lookup(t)
    <2>1. worker[t] \in Place /\ worker[t].pc = "lookup"
      BY <1>3 DEF Lookup, IInv, WorkerInv
    <2>2. PICK place : Goto(t, place) /\ place.pc \in {"run", "scan"} /\ place.frame = worker[t].frame
      <3>1. CASE TopicOf(t) \in Range(table)
        <4> DEFINE place == [worker[t] EXCEPT !.pc = "run", !.at = PlaceOf(TopicOf(t))]
        <4>1. Goto(t, place)
          BY <1>3, <3>1 DEF Lookup
        <4>2. place.pc = "run" /\ place.frame = worker[t].frame
          BY <2>1 DEF Place
        <4> QED  BY <4>1, <4>2
      <3>2. CASE TopicOf(t) \notin Range(table)
        <4> DEFINE place == [worker[t] EXCEPT !.pc = "scan", !.at = 1, !.size = Len(table)]
        <4>1. Goto(t, place)
          BY <1>3, <3>2 DEF Lookup
        <4>2. place.pc = "scan" /\ place.frame = worker[t].frame
          BY <2>1 DEF Place
        <4> QED  BY <4>1, <4>2
      <3> QED  BY <3>1, <3>2
    <2>3. \A f \in Frame : Busy(place, f) <=> Busy(worker[t], f)
      BY <2>1, <2>2 DEF Busy
    <2> QED  BY <1>1, <2>2, <2>3, QuietWorker
  <1> QED  BY <1>2, <1>3

(* The threads that start hold nothing. *)
LEMMA StartCopies ==
    ASSUME CopyTypeOK, EachCopyOnce, Start PROVE CopyTypeOK' /\ EachCopyOnce'
  <1>1. UNCHANGED <<received, dispatching, tasks, runs, spent>>
    BY DEF Start
  <1>2. PICK fresh \in kSubset(NumWorkers, {t \in Thread : worker[t].pc = "new"}) :
            worker' = [t \in Thread |-> IF t \in fresh THEN At("loop") ELSE worker[t]]
    BY DEF Start
  <1>3. \A t \in fresh : worker[t].pc = "new"
    BY <1>2 DEF kSubset
  <1>4. At("loop").pc = "loop"
    BY DEF At
  <1>5. \A f \in Frame : HandsOn(f)' = HandsOn(f)
    BY <1>2, <1>3, <1>4 DEF HandsOn
  <1> QED  BY <1>1, <1>5, QuietCopies

(* The new message is nowhere yet, and then all its copies wait to be      *)
(* queued.                                                                 *)
LEMMA ReceiveCopies ==
    ASSUME ProcessorAssumption, IInv, SubscriptionInv, CopyTypeOK, EachCopyOnce,
           NEW f \in Frame, NEW topic \in Topic, Receive(f, topic)
    PROVE  CopyTypeOK' /\ EachCopyOnce'
  <1> DEFINE n == Copies(topic)
             record == [topic |-> topic, copies |-> n]
  <1>1. /\ received[f] = None /\ dispatching = None
        /\ received' = [received EXCEPT ![f] = record]
        /\ dispatching' = IF n = 0 THEN None ELSE [frame |-> f, left |-> n]
        /\ UNCHANGED <<tasks, worker, runs, spent>>
    BY DEF Receive
  <1>2. n \in Nat /\ DOMAIN received = Frame
    BY CopiesIsNumber DEF IInv, FrameInv
  <1>3. record # None /\ record.copies = n
    BY ReceivedIsNotNone
  <1> HIDE DEF n, record
  <1>4. received'[f] = record /\ \A g \in Frame : g # f => received'[g] = received[g]
    BY <1>1, <1>2
  <1>5. CopyTypeOK'
    <2>1. \A g \in Frame : received'[g] # None => received'[g].copies \in Nat
      BY <1>2, <1>3, <1>4 DEF CopyTypeOK
    <2>2. dispatching' = None \/ dispatching' \in [frame : Frame, left : Nat \ {0}]
      BY <1>1, <1>2
    <2> QED  BY <1>1, <2>1, <2>2 DEF CopyTypeOK
  <1>6. Undispatched(f)' = n /\ \A g \in Frame : g # f => Undispatched(g)' = Undispatched(g)
    <2>1. CASE n = 0
      BY <1>1, <2>1 DEF Undispatched
    <2>2. CASE n # 0
      <3>1. dispatching' = [frame |-> f, left |-> n]
        BY <1>1, <2>2
      <3>2. dispatching' # None
        <4>1. DOMAIN dispatching' = {"frame", "left"} /\ DOMAIN None = {}
          BY <3>1 DEF None
        <4> QED  BY <4>1
      <3> QED  BY <1>1, <3>1, <3>2 DEF Undispatched
    <2> QED  BY <2>1, <2>2
  <1>7. \A g \in Frame : HandsOn(g)' = HandsOn(g) /\ Queued(g)' = Queued(g)
    BY <1>1 DEF HandsOn, Queued
  <1>8. ASSUME NEW g \in Frame
        PROVE  Copied(g)' = Undispatched(g)' + Cardinality(Queued(g)) + Cardinality(HandsOn(g))
                                + Len(runs[g]) + spent[g]
    <2>1. Copied(g) = Undispatched(g) + Cardinality(Queued(g)) + Cardinality(HandsOn(g))
                          + Len(runs[g]) + spent[g]
      BY CopyOnceSum
    <2>2. CASE g = f
      <3>1. Copied(g) = 0 /\ Copied(g)' = n
        BY <1>1, <1>3, <1>4, <2>2 DEF Copied
      <3>2. /\ Undispatched(g) \in Nat /\ Cardinality(Queued(g)) \in Nat
            /\ Cardinality(HandsOn(g)) \in Nat /\ Len(runs[g]) \in Nat /\ spent[g] \in Nat
        BY PartsAreNumbers
      <3>3. Undispatched(g)' = n
        BY <1>6, <2>2
      <3> QED  BY ONLY <1>2, <2>1, <3>1, <3>2, <3>3
    <2>3. CASE g # f
      <3>1. Copied(g)' = Copied(g) /\ Undispatched(g)' = Undispatched(g)
        BY <1>4, <1>6, <2>3 DEF Copied
      <3> QED  BY <2>1, <3>1
    <2> QED  BY <2>2, <2>3
  <1>9. EachCopyOnce'
    <2>1. \A g \in Frame : /\ Cardinality(Queued(g))' = Cardinality(Queued(g))
                           /\ Cardinality(HandsOn(g))' = Cardinality(HandsOn(g))
      BY <1>7
    <2> QED  BY <1>1, <1>8, <2>1 DEF EachCopyOnce, Copied
  <1> QED  BY <1>5, <1>9

LEMMA CopyIsDropped ==
    ASSUME NEW c, NEW u, NEW q \in Nat, NEW h \in Nat, NEW r \in Nat, NEW d \in Nat,
           NEW one \in Nat, NEW u2 \in Nat, NEW q2 \in Nat, NEW d2 \in Nat,
           c = u + q + h + r + d, u = u2 + one, q2 + d2 = q + d + one
    PROVE  c = u2 + q2 + h + r + d2
  OBVIOUS

(* A copy enters the queue, or is dropped at a full one. *)
LEMMA EnqueueCopies ==
    ASSUME ProcessorAssumption, IInv, CopyTypeOK, EachCopyOnce, EnqueueIncoming
    PROVE  CopyTypeOK' /\ EachCopyOnce'
  <1> DEFINE f == dispatching.frame
             n == dispatching.left
  <1>1. /\ dispatching # None /\ UNCHANGED <<received, worker, runs>>
        /\ dispatching' = IF n = 1 THEN None ELSE [dispatching EXCEPT !.left = n - 1]
    BY DEF EnqueueIncoming
  <1>2. dispatching \in [frame : Frame, left : Nat \ {0}] /\ f \in Frame /\ n \in Nat \ {0}
    BY <1>1 DEF CopyTypeOK
  <1>3. dispatching' = None \/ dispatching' = [frame |-> f, left |-> n - 1]
    BY <1>1, <1>2
  <1>4. /\ \A g \in Frame : Undispatched(g) = Undispatched(g)' + One(g = f)
        /\ \A g \in Frame : Undispatched(g)' \in Nat
        /\ dispatching' = None \/ dispatching' \in [frame : Frame, left : Nat \ {0}]
    <2>1. CASE n = 1
      BY <1>1, <1>2, <2>1 DEF Undispatched, One
    <2>2. CASE n # 1
      <3>1. dispatching' = [frame |-> f, left |-> n - 1] /\ n - 1 \in Nat \ {0}
        BY <1>1, <1>2, <2>2
      <3>2. dispatching' # None
        <4>1. DOMAIN dispatching' = {"frame", "left"} /\ DOMAIN None = {}
          BY <3>1 DEF None
        <4> QED  BY <4>1
      <3>3. ASSUME NEW g \in Frame
            PROVE  Undispatched(g) = Undispatched(g)' + One(g = f) /\ Undispatched(g)' \in Nat
        <4>1. Undispatched(g) = IF f = g THEN n ELSE 0
          BY <1>1 DEF Undispatched
        <4>2. Undispatched(g)' = IF f = g THEN n - 1 ELSE 0
          BY <3>1, <3>2 DEF Undispatched
        <4> QED  BY <1>2, <3>1, <4>1, <4>2 DEF One
      <3> QED  BY <1>2, <3>1, <3>3
    <2> QED  BY <2>1, <2>2
  <1>5. tasks \in Seq(Frame) /\ spent \in [Frame -> Nat]
    BY DEF IInv, FrameInv, CopyTypeOK
  <1>6. /\ spent' \in [Frame -> Nat]
        /\ \A g \in Frame : Cardinality(Queued(g)') + spent'[g] =
                                Cardinality(Queued(g)) + spent[g] + One(g = f)
        /\ \A g \in Frame : Cardinality(Queued(g)') \in Nat
    <2>1. CASE Len(tasks) < MaxQueueSize
      <3>1. tasks' = Append(tasks, f) /\ spent' = spent
        BY <2>1 DEF EnqueueIncoming
      <3>2. ASSUME NEW g \in Frame
            PROVE  /\ Cardinality(Queued(g)') = Cardinality(Queued(g)) + One(g = f)
                   /\ Cardinality(Queued(g)) \in Nat
        <4>1. Queued(g)' = Places(Append(tasks, f), g) /\ Queued(g) = Places(tasks, g)
          BY <3>1 DEF Queued, Places
        <4>2. Cardinality(Places(Append(tasks, f), g)) =
                  Cardinality(Places(tasks, g)) + (IF f = g THEN 1 ELSE 0)
          BY <1>2, <1>5, PlacesAppend
        <4> QED  BY <1>5, <4>1, <4>2, PlacesFinite DEF One
      <3> QED  BY <1>5, <3>1, <3>2 DEF One
    <2>2. CASE ~ Len(tasks) < MaxQueueSize
      <3>1. tasks' = tasks /\ spent' = [spent EXCEPT ![f] = @ + 1]
        BY <2>2 DEF EnqueueIncoming
      <3>2. \A g \in Frame : Queued(g)' = Queued(g) /\ Cardinality(Queued(g)) \in Nat
        BY <3>1, PartsAreNumbers DEF Queued
      <3>3. spent' \in [Frame -> Nat]
        BY <1>2, <1>5, <3>1
      <3>4. ASSUME NEW g \in Frame
            PROVE  Cardinality(Queued(g)') + spent'[g] =
                       Cardinality(Queued(g)) + spent[g] + One(g = f)
        <4>1. spent'[g] = spent[g] + One(g = f) /\ spent[g] \in Nat
          BY <1>2, <1>5, <3>1 DEF One
        <4>2. Queued(g)' = Queued(g) /\ Cardinality(Queued(g)) \in Nat /\ One(g = f) \in Nat
          BY <3>2 DEF One
        <4> QED  BY <4>1, <4>2
      <3> QED  BY <3>2, <3>3, <3>4
    <2> QED  BY <2>1, <2>2
  <1>7. CopyTypeOK'
    BY <1>1, <1>4, <1>6 DEF CopyTypeOK
  <1>8. ASSUME NEW g \in Frame
        PROVE  Copied(g)' = Undispatched(g)' + Cardinality(Queued(g)') + Cardinality(HandsOn(g)')
                                + Len(runs'[g]) + spent'[g]
    <2>1. /\ Copied(g)' = Copied(g) /\ HandsOn(g)' = HandsOn(g) /\ runs' = runs
      BY <1>1 DEF Copied, HandsOn
    <2>2. Copied(g) = Undispatched(g) + Cardinality(Queued(g)) + Cardinality(HandsOn(g))
                          + Len(runs[g]) + spent[g]
      BY CopyOnceSum
    <2>3. /\ Cardinality(Queued(g)) \in Nat /\ Cardinality(HandsOn(g)) \in Nat
          /\ Len(runs[g]) \in Nat /\ spent[g] \in Nat
      BY PartsAreNumbers
    <2>4. /\ Undispatched(g) = Undispatched(g)' + One(g = f) /\ Undispatched(g)' \in Nat
          /\ Cardinality(Queued(g)') + spent'[g] = Cardinality(Queued(g)) + spent[g] + One(g = f)
          /\ Cardinality(Queued(g)') \in Nat /\ spent'[g] \in Nat /\ One(g = f) \in Nat
      BY <1>4, <1>6 DEF One
    <2> DEFINE c == Copied(g)
               u == Undispatched(g)
               q == Cardinality(Queued(g))
               h == Cardinality(HandsOn(g))
               r == Len(runs[g])
               d == spent[g]
               one == One(g = f)
               u2 == Undispatched(g)'
               q2 == Cardinality(Queued(g)')
               d2 == spent'[g]
    <2>5. /\ q \in Nat /\ h \in Nat /\ r \in Nat /\ d \in Nat /\ one \in Nat
          /\ u2 \in Nat /\ q2 \in Nat /\ d2 \in Nat
          /\ c = u + q + h + r + d /\ u = u2 + one /\ q2 + d2 = q + d + one
      BY <2>2, <2>3, <2>4
    <2>6. Copied(g)' = c /\ Cardinality(HandsOn(g)') = h /\ Len(runs'[g]) = r
      BY <2>1
    <2> HIDE DEF c, u, q, h, r, d, one, u2, q2, d2
    <2>7. c = u2 + q2 + h + r + d2
      BY ONLY <2>5, CopyIsDropped
    <2>8. Copied(g)' = u2 + q2 + Cardinality(HandsOn(g)') + Len(runs'[g]) + d2
      BY ONLY <2>6, <2>7
    <2> QED  BY <2>8 DEF u2, q2, d2
  <1>9. EachCopyOnce'
    BY <1>8 DEF EachCopyOnce, Copied
  <1> QED  BY <1>7, <1>9

(* A worker that lets go of its copy, or has none. *)
LEMMA NotBusy == ASSUME NEW pc \in {"loop", "dead"}, NEW f PROVE ~ Busy(At(pc), f)
  BY DEF At, Busy

(* A copy goes from the queue into a worker's hands. *)
LEMMA GetCopies ==
    ASSUME ProcessorAssumption, IInv, CopyTypeOK, EachCopyOnce, NEW t \in Thread, Get(t)
    PROVE  CopyTypeOK' /\ EachCopyOnce'
  <1>1. UNCHANGED <<received, dispatching, runs, spent>> /\ worker[t].pc = "get"
    BY DEF Get
  <1>2. \A f \in Frame : ~ Busy(worker[t], f)
    BY <1>1 DEF Busy
  <1>3. CASE tasks = <<>>
    <2>1. Goto(t, At("loop")) /\ UNCHANGED tasks
      BY <1>3 DEF Get
    <2>2. \A f \in Frame : ~ Busy(At("loop"), f)
      BY NotBusy
    <2> QED  BY <1>1, <1>2, <2>1, <2>2, QuietWorker
  <1>4. CASE tasks # <<>>
    <2> DEFINE place == [At("lookup") EXCEPT !.frame = Head(tasks)]
    <2>1. Goto(t, place) /\ tasks' = Tail(tasks) /\ tasks \in Seq(Frame)
      BY <1>4 DEF Get, IInv, FrameInv
    <2>2. place.pc = "lookup" /\ place.frame = Head(tasks)
      BY DEF At
    <2> HIDE DEF place
    <2>3. CopyTypeOK'
      BY <1>1 DEF CopyTypeOK
    <2>4. ASSUME NEW f \in Frame
          PROVE  Copied(f)' = Undispatched(f)' + Cardinality(Queued(f)') + Cardinality(HandsOn(f)')
                                  + Len(runs'[f]) + spent'[f]
      <3> DEFINE c == Copied(f)
                 u == Undispatched(f)
                 q == Cardinality(Queued(f))
                 h == Cardinality(HandsOn(f))
                 r == Len(runs[f])
                 d == spent[f]
                 one == One(Head(tasks) = f)
                 q2 == Cardinality(Queued(f)')
                 h2 == Cardinality(HandsOn(f)')
      <3>1. q = q2 + one /\ q2 \in Nat /\ one \in Nat
        <4>1. Queued(f)' = Places(Tail(tasks), f) /\ Queued(f) = Places(tasks, f)
          BY <2>1 DEF Queued, Places
        <4>2. Cardinality(Places(tasks, f)) =
                  Cardinality(Places(Tail(tasks), f)) + (IF Head(tasks) = f THEN 1 ELSE 0)
          BY <1>4, <2>1, PlacesTail
        <4>3. Tail(tasks) \in Seq(Frame)
          BY <1>4, <2>1
        <4> QED  BY <4>1, <4>2, <4>3, PlacesFinite DEF One
      <3>2. h2 = h + one /\ h \in Nat
        <4>1. h2 \in Nat /\ h2 + One(Busy(worker[t], f)) = h + One(Busy(place, f)) /\ h \in Nat
          BY <2>1, HandsMove, PartsAreNumbers
        <4>2. One(Busy(worker[t], f)) = 0 /\ One(Busy(place, f)) = one
          BY <1>2, <2>2 DEF One, Busy
        <4> HIDE DEF h, h2, one
        <4> QED  BY <3>1, <4>1, <4>2
      <3>3. c = u + q + h + r + d /\ u \in Nat /\ r \in Nat /\ d \in Nat
        BY CopyOnceSum, PartsAreNumbers
      <3>4. Copied(f)' = c /\ Undispatched(f)' = u /\ Len(runs'[f]) = r /\ spent'[f] = d
        BY <1>1 DEF Copied, Undispatched
      <3> HIDE DEF c, u, q, h, r, d, one, q2, h2
      <3>5. c = u + q2 + h2 + r + d
        BY ONLY <3>1, <3>2, <3>3
      <3>6. Copied(f)' = Undispatched(f)' + q2 + h2 + Len(runs'[f]) + spent'[f]
        BY ONLY <3>4, <3>5
      <3> QED  BY <3>6 DEF q2, h2
    <2>5. EachCopyOnce'
      BY <2>4 DEF EachCopyOnce, Copied
    <2> QED  BY <2>3, <2>5
  <1> QED  BY <1>3, <1>4

(* A copy that no handler matches, or whose worker the growing table has   *)
(* thrown out of its loop, is lost with the worker's hand.                 *)
LEMMA GiveUpCopies ==
    ASSUME ProcessorAssumption, IInv, CopyTypeOK, EachCopyOnce, NEW t \in Thread,
           NEW pc \in {"loop", "dead"}, worker[t].pc = "scan", GiveUp(t, pc),
           UNCHANGED <<received, dispatching, tasks, runs>>
    PROVE  CopyTypeOK' /\ EachCopyOnce'
  <1> DEFINE g == worker[t].frame
  <1>1. Goto(t, At(pc)) /\ spent' = [spent EXCEPT ![g] = @ + 1] /\ spent \in [Frame -> Nat]
    BY DEF GiveUp, CopyTypeOK
  <1>2. g \in Frame
    BY DEF IInv, WorkerInv, Sound, Came
  <1>3. CopyTypeOK'
    BY <1>1, <1>2 DEF CopyTypeOK
  <1>4. ASSUME NEW f \in Frame
        PROVE  Copied(f)' = Undispatched(f)' + Cardinality(Queued(f)') + Cardinality(HandsOn(f)')
                                + Len(runs'[f]) + spent'[f]
    <2> DEFINE c == Copied(f)
               u == Undispatched(f)
               q == Cardinality(Queued(f))
               h == Cardinality(HandsOn(f))
               r == Len(runs[f])
               d == spent[f]
               one == One(g = f)
               h2 == Cardinality(HandsOn(f)')
               d2 == spent'[f]
    <2>1. d2 = d + one /\ d \in Nat /\ one \in Nat
      BY <1>1, <1>2 DEF One
    <2>2. h2 + one = h /\ h \in Nat /\ h2 \in Nat
      <3>1. h2 \in Nat /\ h2 + One(Busy(worker[t], f)) = h + One(Busy(At(pc), f)) /\ h \in Nat
        BY <1>1, HandsMove, PartsAreNumbers
      <3>2. One(Busy(worker[t], f)) = one /\ One(Busy(At(pc), f)) = 0
        BY NotBusy DEF One, Busy
      <3> HIDE DEF h, h2, one
      <3> QED  BY <2>1, <3>1, <3>2
    <2>3. c = u + q + h + r + d /\ u \in Nat /\ q \in Nat /\ r \in Nat
      BY CopyOnceSum, PartsAreNumbers
    <2>4. /\ Copied(f)' = c /\ Undispatched(f)' = u /\ Len(runs'[f]) = r
          /\ Cardinality(Queued(f)') = q
      BY DEF Copied, Undispatched, Queued
    <2> HIDE DEF c, u, q, h, r, d, one, h2, d2
    <2>5. c = u + q + h2 + r + d2
      BY ONLY <2>1, <2>2, <2>3
    <2>6. Copied(f)' = Undispatched(f)' + Cardinality(Queued(f)') + h2 + Len(runs'[f]) + d2
      BY ONLY <2>4, <2>5
    <2> QED  BY <2>6 DEF h2, d2
  <1>5. EachCopyOnce'
    BY <1>4 DEF EachCopyOnce, Copied
  <1> QED  BY <1>3, <1>5

LEMMA ScanCopies ==
    ASSUME ProcessorAssumption, IInv, CopyTypeOK, EachCopyOnce, NEW t \in Thread, Scan(t)
    PROVE  CopyTypeOK' /\ EachCopyOnce'
  <1>1. UNCHANGED <<received, dispatching, tasks, runs>> /\ worker[t].pc = "scan"
    BY DEF Scan
  <1>2. CASE \E pc \in {"loop", "dead"} : GiveUp(t, pc)
    BY <1>1, <1>2, GiveUpCopies
  <1>3. CASE ~ \E pc \in {"loop", "dead"} : GiveUp(t, pc)
    <2> DEFINE i == worker[t].at
               place == IF Matches(table[i], TopicOf(t)) THEN [worker[t] EXCEPT !.pc = "run"]
                        ELSE [worker[t] EXCEPT !.at = i + 1]
    <2>1. Goto(t, place) /\ UNCHANGED spent
      BY <1>3 DEF Scan
    <2>2. place.pc \in {"scan", "run"} /\ place.frame = worker[t].frame
      BY <1>1 DEF IInv, WorkerInv, Place
    <2>3. \A f \in Frame : Busy(place, f) <=> Busy(worker[t], f)
      BY <1>1, <2>2 DEF Busy
    <2> QED  BY <1>1, <2>1, <2>3, QuietWorker
  <1> QED  BY <1>2, <1>3

(* A copy is handled, whether the handler returns or raises. *)
LEMMA RunHandlerCopies ==
    ASSUME ProcessorAssumption, IInv, CopyTypeOK, EachCopyOnce, NEW t \in Thread, RunHandler(t)
    PROVE  CopyTypeOK' /\ EachCopyOnce'
  <1> DEFINE g == worker[t].frame
             p == table[worker[t].at]
  <1>1. /\ UNCHANGED <<received, dispatching, tasks, spent>> /\ worker[t].pc = "run"
        /\ runs' = [runs EXCEPT ![g] = Append(@, p)] /\ Goto(t, At("loop"))
    BY DEF RunHandler
  <1>2. g \in Frame /\ p \in Pattern /\ runs \in [Frame -> Seq(Pattern)]
    BY <1>1 DEF IInv, WorkerInv, Sound, Came, TableInv, RunInv
  <1>3. CopyTypeOK'
    BY <1>1 DEF CopyTypeOK
  <1>4. ASSUME NEW f \in Frame
        PROVE  Copied(f)' = Undispatched(f)' + Cardinality(Queued(f)') + Cardinality(HandsOn(f)')
                                + Len(runs'[f]) + spent'[f]
    <2> DEFINE c == Copied(f)
               u == Undispatched(f)
               q == Cardinality(Queued(f))
               h == Cardinality(HandsOn(f))
               r == Len(runs[f])
               d == spent[f]
               one == One(g = f)
               h2 == Cardinality(HandsOn(f)')
               r2 == Len(runs'[f])
    <2>1. r2 = r + one /\ r \in Nat /\ one \in Nat
      <3>1. runs[f] \in Seq(Pattern)
        BY <1>2
      <3>2. runs'[f] = IF g = f THEN Append(runs[f], p) ELSE runs[f]
        BY <1>1, <1>2
      <3> QED  BY <1>2, <3>1, <3>2 DEF One
    <2>2. h2 + one = h /\ h \in Nat /\ h2 \in Nat
      <3>1. h2 \in Nat /\ h2 + One(Busy(worker[t], f)) = h + One(Busy(At("loop"), f)) /\ h \in Nat
        BY <1>1, HandsMove, PartsAreNumbers
      <3>2. One(Busy(worker[t], f)) = one /\ One(Busy(At("loop"), f)) = 0
        BY <1>1, NotBusy DEF One, Busy
      <3> HIDE DEF h, h2, one
      <3> QED  BY <2>1, <3>1, <3>2
    <2>3. c = u + q + h + r + d /\ u \in Nat /\ q \in Nat /\ d \in Nat
      BY CopyOnceSum, PartsAreNumbers
    <2>4. /\ Copied(f)' = c /\ Undispatched(f)' = u /\ spent'[f] = d
          /\ Cardinality(Queued(f)') = q
      BY <1>1 DEF Copied, Undispatched, Queued
    <2> HIDE DEF c, u, q, h, r, d, one, h2, r2
    <2>5. c = u + q + h2 + r2 + d
      BY ONLY <2>1, <2>2, <2>3
    <2>6. Copied(f)' = Undispatched(f)' + Cardinality(Queued(f)') + h2 + r2 + spent'[f]
      BY ONLY <2>4, <2>5
    <2> QED  BY <2>6 DEF h2, r2
  <1>5. EachCopyOnce'
    BY <1>4 DEF EachCopyOnce, Copied
  <1> QED  BY <1>3, <1>5

-----------------------------------------------------------------------------
LEMMA CopyInit == ASSUME ProcessorAssumption, ProcessorInit PROVE CopyInv
  <1>1. CopyTypeOK
    BY DEF ProcessorInit, CopyTypeOK
  <1>2. ASSUME NEW f \in Frame
        PROVE  /\ Queued(f) = {} /\ HandsOn(f) = {} /\ Undispatched(f) = 0
               /\ received[f] = None /\ Len(runs[f]) = 0 /\ spent[f] = 0
    BY DEF ProcessorInit, Queued, HandsOn, Undispatched, At
  <1>3. EachCopyOnce
    <2>1. \A f \in Frame : Cardinality(Queued(f)) = 0 /\ Cardinality(HandsOn(f)) = 0
      BY <1>2, FS_EmptySet
    <2> QED  BY <1>2, <2>1 DEF EachCopyOnce
  <1> QED  BY <1>1, <1>3, SubscriptionInit DEF CopyInv

LEMMA CopyStep ==
    ASSUME ProcessorAssumption, IInv, CopyInv, [ProcessorNext]_processorVars PROVE CopyInv'
  <1>1. CopyTypeOK /\ EachCopyOnce /\ SubscriptionInv
    BY DEF CopyInv
  <1>2. SUFFICES CopyTypeOK' /\ EachCopyOnce'
    BY <1>1, SubscriptionStep DEF CopyInv
  <1>3. CASE UNCHANGED <<received, dispatching, tasks, worker, runs, spent>>
    <2>1. \A f \in Frame : HandsOn(f)' = HandsOn(f)
      BY <1>3 DEF HandsOn
    <2> QED  BY <1>1, <1>3, <2>1, QuietCopies
  <1>4. CASE \/ \E p \in Pattern : Register(p)
             \/ Subscribe \/ StartTransport \/ Stop \/ StopTransport \/ UNCHANGED processorVars
    BY <1>3, <1>4 DEF Register, Subscribe, StartTransport, Stop, StopTransport, processorVars
  <1>5. CASE Start
    BY <1>1, <1>5, StartCopies
  <1>6. ASSUME NEW f \in Frame, NEW topic \in Topic, Receive(f, topic)
        PROVE  CopyTypeOK' /\ EachCopyOnce'
    BY <1>1, <1>6, ReceiveCopies
  <1>7. CASE EnqueueIncoming
    BY <1>1, <1>7, EnqueueCopies
  <1>8. ASSUME NEW t \in Thread, WorkerStep(t) PROVE CopyTypeOK' /\ EachCopyOnce'
    BY <1>1, <1>8, QuietSteps, GetCopies, ScanCopies, RunHandlerCopies DEF WorkerStep
  <1> QED  BY <1>4, <1>5, <1>6, <1>7, <1>8 DEF ProcessorNext

(* What the sum rests on: numbers everywhere, and that no step moves a     *)
(* copy without taking it from where it was.                               *)
THEOREM CopyInvariant == ProcessorSpec => []CopyInv
  <1>1. ProcessorInit => CopyInv
    BY ProcessorAssumption, CopyInit
  <1>2. IInv /\ CopyInv /\ [ProcessorNext]_processorVars => CopyInv'
    BY ProcessorAssumption, CopyStep
  <1> QED  BY <1>1, <1>2, ProcessorInvariant, PTL DEF ProcessorSpec

(* Every copy of a message is in one place: still to be queued, queued,    *)
(* with one worker, handled once, or dropped; for any number of workers,   *)
(* starts, registrations and messages.                                     *)
THEOREM EachCopyOnceHolds == ProcessorSpec => []EachCopyOnce
  <1>1. CopyInv => EachCopyOnce
    BY DEF CopyInv
  <1> QED  BY <1>1, CopyInvariant, PTL
=============================================================================
