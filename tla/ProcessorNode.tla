--------------------------- MODULE ProcessorNode ---------------------------
(***************************************************************************)
(* ProcessorNode: the queue between the receiver thread and the worker     *)
(* threads of one node, and the table of handlers that every worker reads  *)
(* and the application writes, without a lock.                             *)
(*                                                                         *)
(* A worker's turn is several steps, as the other threads see it: it looks *)
(* at the running flag, waits for a task, looks for a handler one table    *)
(* entry at a time, and runs it.  The table is a Python dict: it keeps its *)
(* order of insertion, and a dict that grows under an iteration raises,    *)
(* outside of the worker's try block.                                      *)
(***************************************************************************)
EXTENDS Integers, Sequences, FiniteSets, SequencesExt

CONSTANTS Topic,          \* a handler may be registered for a topic itself
          Wildcard,       \* or for a pattern that ends in an asterisk
          Covers,         \* Covers[p]: the topics that match the wildcard p
          Registered,     \* the patterns in the table when the node starts
          Thread,         \* the names of all worker threads ever started
          NumWorkers,     \* num_workers
          MaxQueueSize,   \* max_queue_size
          MaxFrames,      \* bound: messages that the node receives
          MaxRegistrations \* bound: calls of register_handler in all

Pattern == Topic \cup Wildcard
Frame == 1..MaxFrames

ASSUME ProcessorAssumption ==
    /\ IsFiniteSet(Topic) /\ IsFiniteSet(Wildcard) /\ Topic \cap Wildcard = {}
    /\ Covers \in [Wildcard -> SUBSET Topic]
    /\ Registered \in Seq(Pattern)
    /\ \A i, j \in 1..Len(Registered) : Registered[i] = Registered[j] => i = j
    /\ IsFiniteSet(Thread) /\ NumWorkers \in 1..Cardinality(Thread)
    /\ MaxQueueSize \in Nat \ {0}
    /\ MaxFrames \in Nat /\ MaxRegistrations \in Nat

VARIABLES table,        \* _processing_callbacks, in the order of insertion
          subscribed,   \* subscribed[p]: how often _enqueue_incoming is subscribed
          registering,  \* the pattern that register_handler is at work on, if any
          phase,        \* where start and stop are: "stopped", "opening", "running", "closing"
          received,     \* received[f]: the topic of frame f, once it has come
          dispatching,  \* the receiver's copies that are still to be queued
          tasks,        \* _task_queue
          worker,       \* worker[t]: where the thread t is
          runs,         \* history: the handler calls, with frame and pattern
          spent,        \* history: copies of a frame that no handler will see
          grew          \* history: the table grew under a live worker

processorVars == <<table, subscribed, registering, phase, received,
                   dispatching, tasks, worker, runs, spent, grew>>

Matches(p, topic) == p = topic \/ (p \in Wildcard /\ topic \in Covers[p])

running == phase = "running"   \* _processor_running

None == <<>>
At(pc) == [pc |-> pc, frame |-> 0, at |-> 0, size |-> 0]
Live(t) == worker[t].pc \notin {"new", "off", "dead"}

(* _dispatch_callbacks makes one copy of a message for every subscription  *)
(* to a pattern that matches.                                              *)
Subscriptions(topic) ==
    UNION {{p} \X (1..subscribed[p]) : p \in {q \in Pattern : Matches(q, topic)}}
Copies(topic) == Cardinality(Subscriptions(topic))

ProcessorInit ==
    /\ table = Registered
    /\ subscribed = [p \in Pattern |-> IF p \in Range(Registered) THEN 1 ELSE 0]
    /\ registering = None
    /\ phase = "stopped"
    /\ received = [f \in Frame |-> None]
    /\ dispatching = None
    /\ tasks = <<>>
    /\ worker = [t \in Thread |-> At("new")]
    /\ runs = [f \in Frame |-> <<>>]
    /\ spent = [f \in Frame |-> 0]
    /\ grew = FALSE

-----------------------------------------------------------------------------
(* register_handler: the table first.  A pattern that is there already     *)
(* keeps its place, and the new handler takes that of the old one.         *)
Register(p) ==
    /\ registering = None
    /\ FoldFunction(+, 0, subscribed) < MaxRegistrations
    /\ registering' = <<p>>
    /\ IF p \in Range(table)
       THEN UNCHANGED <<table, grew>>
       ELSE /\ table' = Append(table, p)
            /\ grew' = (grew \/ \E t \in Thread : Live(t))
    /\ UNCHANGED <<subscribed, phase, received, dispatching, tasks, worker, runs, spent>>

(* Then the subscription, also when there was one.                         *)
Subscribe ==
    /\ registering # None
    /\ subscribed' = [subscribed EXCEPT ![registering[1]] = @ + 1]
    /\ registering' = None
    /\ UNCHANGED <<table, phase, received, dispatching, tasks, worker, runs, spent, grew>>

(* start: the transport receives before the flag is up. *)
StartTransport ==
    /\ phase = "stopped"
    /\ phase' = "opening"
    /\ UNCHANGED <<table, subscribed, registering, received, dispatching, tasks, worker,
                   runs, spent, grew>>

(* Then every call starts threads of its own; those of an earlier start    *)
(* that have not seen the flag go on working.                              *)
Start ==
    /\ phase = "opening"
    /\ \E fresh \in kSubset(NumWorkers, {t \in Thread : worker[t].pc = "new"}) :
          worker' = [t \in Thread |-> IF t \in fresh THEN At("loop") ELSE worker[t]]
    /\ phase' = "running"
    /\ UNCHANGED <<table, subscribed, registering, received, dispatching, tasks, runs, spent, grew>>

(* stop: the flag first, then the transport. *)
Stop ==
    /\ running
    /\ phase' = "closing"
    /\ UNCHANGED <<table, subscribed, registering, received, dispatching, tasks, worker,
                   runs, spent, grew>>

StopTransport ==
    /\ phase = "closing"
    /\ phase' = "stopped"
    /\ UNCHANGED <<table, subscribed, registering, received, dispatching, tasks, worker,
                   runs, spent, grew>>

-----------------------------------------------------------------------------
(* _dispatch_callbacks of the transport: the callbacks are collected under *)
(* its lock and called after it, one after the other.  It does not ask     *)
(* for the flag: tasks may be queued before it is up and after it is down. *)
Receive(f, topic) ==
    /\ phase # "stopped" /\ dispatching = None
    /\ received[f] = None /\ \A g \in 1..(f - 1) : received[g] # None
    /\ received' = [received EXCEPT ![f] = [topic |-> topic, copies |-> Copies(topic)]]
    /\ dispatching' = IF Copies(topic) = 0 THEN None ELSE [frame |-> f, left |-> Copies(topic)]
    /\ UNCHANGED <<table, subscribed, registering, phase, tasks, worker, runs, spent, grew>>

(* _enqueue_incoming: a full queue drops the task.                         *)
EnqueueIncoming ==
    /\ dispatching # None
    /\ LET f == dispatching.frame
       IN  IF Len(tasks) < MaxQueueSize
           THEN /\ tasks' = Append(tasks, f)
                /\ UNCHANGED spent
           ELSE /\ spent' = [spent EXCEPT ![f] = @ + 1]
                /\ UNCHANGED tasks
    /\ dispatching' = IF dispatching.left = 1 THEN None ELSE [dispatching EXCEPT !.left = @ - 1]
    /\ UNCHANGED <<table, subscribed, registering, phase, received, worker, runs, grew>>

-----------------------------------------------------------------------------
(* _worker_loop *)
Goto(t, place) == worker' = [worker EXCEPT ![t] = place]

CheckRunning(t) ==
    /\ worker[t].pc = "loop"
    /\ Goto(t, At(IF running THEN "get" ELSE "off"))
    /\ UNCHANGED <<table, subscribed, registering, phase, received, dispatching, tasks,
                   runs, spent, grew>>

(* Mutant of Get: the task stays in the queue. *)
GetPeeks(t) ==
    /\ worker[t].pc = "get"
    /\ Goto(t, IF tasks = <<>> THEN At("loop") ELSE [At("lookup") EXCEPT !.frame = Head(tasks)])
    /\ UNCHANGED <<table, subscribed, registering, phase, received, dispatching, tasks,
                   runs, spent, grew>>

(* Mutant of Get: an empty queue is tried again without a look at the flag. *)
GetAgain(t) ==
    /\ worker[t].pc = "get" /\ tasks # <<>>
    /\ Goto(t, [At("lookup") EXCEPT !.frame = Head(tasks)])
    /\ tasks' = Tail(tasks)
    /\ UNCHANGED <<table, subscribed, registering, phase, received, dispatching, runs, spent, grew>>

(* The task may come after a stop: get() waits for 0.2 s.                  *)
Get(t) ==
    /\ worker[t].pc = "get"
    /\ IF tasks = <<>>
       THEN /\ Goto(t, At("loop"))
            /\ UNCHANGED tasks
       ELSE /\ Goto(t, [At("lookup") EXCEPT !.frame = Head(tasks)])
            /\ tasks' = Tail(tasks)
    /\ UNCHANGED <<table, subscribed, registering, phase, received, dispatching, runs, spent, grew>>

TopicOf(t) == received[worker[t].frame].topic
PlaceOf(p) == CHOOSE i \in DOMAIN table : table[i] = p

(* Mutant of Lookup: the iteration begins behind the first entry. *)
LookupBehindFirst(t) ==
    /\ worker[t].pc = "lookup"
    /\ Goto(t, [worker[t] EXCEPT !.pc = "scan", !.at = 2, !.size = Len(table)])
    /\ UNCHANGED <<table, subscribed, registering, phase, received, dispatching, tasks,
                   runs, spent, grew>>

(* The handler of the topic itself, or an iteration over the table.        *)
Lookup(t) ==
    /\ worker[t].pc = "lookup"
    /\ Goto(t, IF TopicOf(t) \in Range(table)
               THEN [worker[t] EXCEPT !.pc = "run", !.at = PlaceOf(TopicOf(t))]
               ELSE [worker[t] EXCEPT !.pc = "scan", !.at = 1, !.size = Len(table)])
    /\ UNCHANGED <<table, subscribed, registering, phase, received, dispatching, tasks,
                   runs, spent, grew>>

(* The copy is gone with the worker, or because no handler matches it.     *)
GiveUp(t, pc) ==
    /\ Goto(t, At(pc))
    /\ spent' = [spent EXCEPT ![worker[t].frame] = @ + 1]

Scan(t) ==
    /\ worker[t].pc = "scan"
    /\ LET i == worker[t].at
       IN  IF Len(table) # worker[t].size THEN GiveUp(t, "dead")
           ELSE IF i > Len(table) THEN GiveUp(t, "loop")
           ELSE /\ Goto(t, IF Matches(table[i], TopicOf(t))
                           THEN [worker[t] EXCEPT !.pc = "run"]
                           ELSE [worker[t] EXCEPT !.at = i + 1])
                /\ UNCHANGED spent
    /\ UNCHANGED <<table, subscribed, registering, phase, received, dispatching, tasks,
                   runs, grew>>

(* Mutant of RunHandler: what the handler raises ends the worker. *)
RunHandlerUncaught(t) ==
    /\ worker[t].pc = "run"
    /\ runs' = [runs EXCEPT ![worker[t].frame] = Append(@, table[worker[t].at])]
    /\ \E pc \in {"loop", "dead"} : Goto(t, At(pc))
    /\ UNCHANGED <<table, subscribed, registering, phase, received, dispatching, tasks,
                   spent, grew>>

(* The handler returns or raises: the worker goes on in both cases.        *)
RunHandler(t) ==
    /\ worker[t].pc = "run"
    /\ runs' = [runs EXCEPT ![worker[t].frame] = Append(@, table[worker[t].at])]
    /\ Goto(t, At("loop"))
    /\ UNCHANGED <<table, subscribed, registering, phase, received, dispatching, tasks,
                   spent, grew>>

WorkerStep(t) == CheckRunning(t) \/ Get(t) \/ Lookup(t) \/ Scan(t) \/ RunHandler(t)

ProcessorNext ==
    \/ \E p \in Pattern : Register(p)
    \/ Subscribe
    \/ StartTransport \/ Start \/ Stop \/ StopTransport
    \/ \E f \in Frame, topic \in Topic : Receive(f, topic)
    \/ EnqueueIncoming
    \/ \E t \in Thread : WorkerStep(t)

ProcessorSpec ==
    /\ ProcessorInit /\ [][ProcessorNext]_processorVars
    /\ WF_processorVars(EnqueueIncoming)
    /\ \A t \in Thread : WF_processorVars(WorkerStep(t))

-----------------------------------------------------------------------------
(* A wildcard's handler only ever runs for a topic that no pattern         *)
(* registered before it matches: whoever registers telemetry/* first takes *)
(* every message of telemetry/metrics/*, however registrations and workers *)
(* interleave.                                                             *)
FirstRegisteredRuns ==
    \A f \in Frame : \A k \in DOMAIN runs[f] : \A j \in DOMAIN table :
        runs[f][k] = table[j] /\ table[j] \in Wildcard =>
            \A i \in 1..(j - 1) : ~ Matches(table[i], received[f].topic)

Queued(f) == {i \in DOMAIN tasks : tasks[i] = f}
HandsOn(f) == {t \in Thread : worker[t].pc \in {"lookup", "scan", "run"} /\ worker[t].frame = f}
Undispatched(f) ==
    IF dispatching # None /\ dispatching.frame = f THEN dispatching.left ELSE 0

(* Every copy that the receiver made of a message is in one place only: to *)
(* be queued, queued, with one worker, handled once, or dropped.           *)
EachCopyOnce ==
    \A f \in Frame :
        (IF received[f] = None THEN 0 ELSE received[f].copies) =
            Undispatched(f) + Cardinality(Queued(f)) + Cardinality(HandsOn(f))
            + Len(runs[f]) + spent[f]

(* While the node runs and nobody registers a new pattern, no message      *)
(* stays in the queue, whatever was stopped and started before, and        *)
(* although workers share one queue and handlers raise.                    *)
QueueDrains == (<>[]running /\ []~grew) => []<>(tasks = <<>>)

(* Once the node is stopped for good, all of its workers come to an end.   *)
StopQuiesces == <>[]~running => <>[](\A t \in Thread : ~ Live(t))
=============================================================================
