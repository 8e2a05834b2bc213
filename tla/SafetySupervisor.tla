-------------------------- MODULE SafetySupervisor --------------------------
(***************************************************************************)
(* Nodes/AI/AISafetySupervisorNode.py: the workers of a supervisor judge   *)
(* proposed actions against state dicts that other workers update, and     *)
(* share the counters and the veto history without a lock.  One step reads *)
(* or writes one shared thing once.                                        *)
(*                                                                         *)
(* AINode registers telemetry/* first, so that a worker gives a message on *)
(* telemetry/kinematics/<unit> to AINode.on_telemetry, unless the          *)
(* application has registered the exact topic (ProcessorNode!Lookup).      *)
(***************************************************************************)
EXTENDS SimplexArbiter, FiniteSets

CONSTANTS Worker, Unit,
          ExactTopic,                      \* units whose kinematics topic is registered exactly
          Actions, SensorReport, KinematicsReport,   \* payloads
          MaxProposals, MaxUpdates         \* bounds

ASSUME SupervisorAssumption ==
    /\ IsFiniteSet(Worker) /\ ExactTopic \subseteq Unit
    /\ MaxProposals \in Nat /\ MaxUpdates \in Nat

(* A payload gives keys their values; of a trigger, whether it is on. *)
ASSUME PayloadAssumption ==
    \A payload \in SensorReport \cup KinematicsReport :
        /\ DOMAIN payload \subseteq Keys
        /\ \A key \in DOMAIN payload :
              payload[key] \in IF key \in Triggers THEN BOOLEAN ELSE Int \cup Outlier

VARIABLES dicts,           \* every state dict; the first is local_sensor_state
          peer_states,     \* the number of a unit's dict in dicts, 0: not in peer_states
          approval_count, veto_count, veto_history,
          work,            \* what each worker is doing
          answers,         \* published on control/approved and control/veto
          unanswered,      \* history: proposals that were ignored or raised
          proposals, updates               \* how many were heard

supervisorVars == <<dicts, peer_states, approval_count, veto_count, veto_history,
                    work, answers, unanswered, proposals, updates>>
stats == <<approval_count, veto_count, veto_history>>

Idle == [pc |-> "idle"]

SupervisorInit ==
    /\ dicts = << <<>> >>
    /\ peer_states = [unit \in Unit |-> 0]
    /\ approval_count = 0 /\ veto_count = 0 /\ veto_history = <<>>
    /\ work = [w \in Worker |-> Idle]
    /\ answers = {} /\ unanswered = {} /\ proposals = 0 /\ updates = 0

Updated(state, payload) ==
    [key \in DOMAIN state \cup DOMAIN payload |->
        IF key \in DOMAIN payload THEN payload[key] ELSE state[key]]

(* History for the interlock: the triggers that are on in a dict while a   *)
(* worker judges an action by it.                                          *)
On(state) == {trigger \in Triggers : Get(state, trigger)}
Witnessed(at, state) ==
    [w \in Worker |-> IF work[w].pc \in {"judge", "fallback"} /\ work[w].judged = at
                      THEN [work[w] EXCEPT !.on = @ \cup On(state)] ELSE work[w]]

Judging(w) == work[w].pc = "judge"
With(w, job) == work' = [work EXCEPT ![w] = job]

(* on_proposed_action returns at once if the payload is no dict, and the    *)
(* look-up in peer_states raises if unit_id is a list or a dict.           *)
IgnoreProposal(w) ==
    /\ work[w].pc = "idle" /\ proposals < MaxProposals
    /\ proposals' = proposals + 1
    /\ unanswered' = unanswered \cup {proposals + 1}
    /\ UNCHANGED <<dicts, peer_states, stats, work, answers, updates>>

(* on_proposed_action up to the first read, with _check_numerical_sanity.  *)
(* step counts the reads of a check, and then those of the fallback.       *)
Propose(w, unit, action) ==
    /\ work[w].pc = "idle" /\ proposals < MaxProposals
    /\ proposals' = proposals + 1
    /\ LET at == IF peer_states[unit] = 0 THEN 1 ELSE peer_states[unit]
       IN  With(w, [pc |-> IF NumericalSanity(action) = "NONE" THEN "judge" ELSE "fallback",
                    id |-> proposals + 1, unit |-> unit, action |-> action, judged |-> at,
                    step |-> 0, seen |-> <<>>, reason |-> NumericalSanity(action),
                    on |-> On(dicts[at]), loaded |-> 0, mark |-> 0])
    /\ UNCHANGED <<dicts, peer_states, stats, answers, updates, unanswered>>

Seen(w, key) ==
    [k \in DOMAIN work[w].seen \cup {key} |->
        IF k = key THEN Get(dicts[work[w].judged], key) ELSE work[w].seen[k]]

(* One current_state.get of evaluate, with the checks that it decides. *)
Read(w) ==
    /\ Judging(w)
    /\ LET job == work[w]
           reads == Reads(job.action)
           seen == Seen(w, reads[job.step + 1])
           reason == Verdict(job.action, seen)
       IN  \/ /\ Raises(job.action, seen)
              /\ unanswered' = unanswered \cup {job.id}
              /\ With(w, Idle)
           \/ /\ ~Raises(job.action, seen) /\ reason # "NONE"
              /\ With(w, [job EXCEPT !.pc = "fallback", !.step = 0, !.seen = <<>>, !.reason = reason])
              /\ UNCHANGED unanswered
           \/ /\ ~Raises(job.action, seen) /\ reason = "NONE"
              /\ With(w, [job EXCEPT !.pc = IF job.step + 1 = Len(reads) THEN "approved" ELSE @,
                                     !.step = @ + 1, !.seen = seen])
              /\ UNCHANGED unanswered
    /\ UNCHANGED <<dicts, peer_states, stats, answers, proposals, updates>>

(* _generate_fallback, one get after the other. *)
ReadFallback(w) ==
    /\ work[w].pc = "fallback"
    /\ LET job == work[w]
           reads == FallbackReads(job.reason)
           seen == Seen(w, reads[job.step + 1])
       IN  \/ /\ job.step = Len(reads)
              /\ With(w, [job EXCEPT !.pc = "vetoed"])
              /\ UNCHANGED unanswered
           \/ /\ job.step < Len(reads)
              /\ "z" \in DOMAIN seen /\ seen["z"] = NotNumber
              /\ unanswered' = unanswered \cup {job.id}
              /\ With(w, Idle)
           \/ /\ job.step < Len(reads)
              /\ ~("z" \in DOMAIN seen /\ seen["z"] = NotNumber)
              /\ With(w, [job EXCEPT !.step = @ + 1, !.seen = seen])
              /\ UNCHANGED unanswered
    /\ UNCHANGED <<dicts, peer_states, stats, answers, proposals, updates>>

(* supervise: the counters are read in one step and written in the next.   *)
LoadCount(w) ==
    /\ \/ work[w].pc = "approved"
          /\ With(w, [work[w] EXCEPT !.pc = "count approval", !.loaded = approval_count])
       \/ work[w].pc = "vetoed"
          /\ With(w, [work[w] EXCEPT !.pc = "count veto", !.loaded = veto_count])
    /\ UNCHANGED <<dicts, peer_states, stats, answers, proposals, updates, unanswered>>

(* Mutant of StoreCount: an approval is counted as an evaluation and as a veto. *)
StoreCountBoth(w) ==
    /\ work[w].pc \in {"count approval", "count veto"}
    /\ veto_count' = veto_count + 1
    /\ approval_count' = IF work[w].pc = "count veto" THEN approval_count ELSE work[w].loaded + 1
    /\ With(w, [work[w] EXCEPT !.pc = IF @ = "count veto" THEN "append" ELSE "approve"])
    /\ UNCHANGED <<dicts, peer_states, veto_history, answers, proposals, updates, unanswered>>

StoreCount(w) ==
    /\ \/ /\ work[w].pc = "count approval"
          /\ approval_count' = work[w].loaded + 1
          /\ With(w, [work[w] EXCEPT !.pc = "approve"])
          /\ UNCHANGED veto_count
       \/ /\ work[w].pc = "count veto"
          /\ veto_count' = work[w].loaded + 1
          /\ With(w, [work[w] EXCEPT !.pc = "append"])
          /\ UNCHANGED approval_count
    /\ UNCHANGED <<dicts, peer_states, veto_history, answers, proposals, updates, unanswered>>

AppendVeto(w) ==
    /\ work[w].pc = "append"
    /\ veto_history' = Append(veto_history, work[w].reason)
    /\ With(w, [work[w] EXCEPT !.pc = "report", !.mark = Len(veto_history) + 1])
    /\ UNCHANGED <<dicts, peer_states, approval_count, veto_count, answers, proposals, updates, unanswered>>

Answer(w, status, action, reason) ==
    [id |-> work[w].id, status |-> status, action |-> action, reason |-> reason,
     on |-> work[w].on, position |-> work[w].seen, mark |-> work[w].mark]

Approve(w) ==
    /\ work[w].pc = "approve"
    /\ answers' = answers \cup {Answer(w, "APPROVED", work[w].action, "NONE")}
    /\ With(w, Idle)
    /\ UNCHANGED <<dicts, peer_states, stats, proposals, updates, unanswered>>

(* Mutant of ReportVeto: the first veto of the history is reported. *)
ReportFirstVeto(w) ==
    /\ work[w].pc = "report"
    /\ answers' = answers \cup {Answer(w, "VETOED", work[w].action, veto_history[1])}
    /\ With(w, [work[w] EXCEPT !.pc = "substitute"])
    /\ UNCHANGED <<dicts, peer_states, stats, proposals, updates, unanswered>>

(* The veto that is reported is the last one of the history. *)
ReportVeto(w) ==
    /\ work[w].pc = "report"
    /\ answers' = answers \cup {Answer(w, "VETOED", work[w].action, veto_history[Len(veto_history)])}
    /\ With(w, [work[w] EXCEPT !.pc = "substitute"])
    /\ UNCHANGED <<dicts, peer_states, stats, proposals, updates, unanswered>>

(* Mutant of Substitute: only a fallback that moves the unit is sent. *)
SubstituteMoves(w) ==
    /\ work[w].pc = "substitute"
    /\ LET target == Fallback(work[w].reason, work[w].seen)
       IN  answers' = IF target = <<>> THEN answers
                      ELSE answers \cup {Answer(w, "FALLBACK_SUBSTITUTED", Manoeuvre(target), work[w].reason)}
    /\ With(w, Idle)
    /\ UNCHANGED <<dicts, peer_states, stats, proposals, updates, unanswered>>

(* The fallback goes to control/approved, so that the unit executes it. *)
Substitute(w) ==
    /\ work[w].pc = "substitute"
    /\ answers' = answers \cup {Answer(w, "FALLBACK_SUBSTITUTED",
                                       Manoeuvre(Fallback(work[w].reason, work[w].seen)), work[w].reason)}
    /\ With(w, Idle)
    /\ UNCHANGED <<dicts, peer_states, stats, proposals, updates, unanswered>>

(* on_security_sensors_update of any sender, and update_sensor_state. *)
SensorsUpdate(payload) ==
    /\ updates < MaxUpdates
    /\ updates' = updates + 1
    /\ dicts' = [dicts EXCEPT ![1] = Updated(@, payload)]
    /\ work' = Witnessed(1, Updated(dicts[1], payload))
    /\ UNCHANGED <<peer_states, stats, answers, proposals, unanswered>>

(* on_kinematics_update: the test, the new dict, the update.  The sender   *)
(* is never this node, whose own frames are not received.                  *)
HearKinematics(w, unit, payload) ==
    /\ work[w].pc = "idle" /\ updates < MaxUpdates /\ unit \in ExactTopic
    /\ updates' = updates + 1
    /\ With(w, [pc |-> IF peer_states[unit] = 0 THEN "create" ELSE "update",
                unit |-> unit, payload |-> payload])
    /\ UNCHANGED <<dicts, peer_states, stats, answers, proposals, unanswered>>

CreateState(w) ==
    /\ work[w].pc = "create"
    /\ dicts' = Append(dicts, <<>>)
    /\ peer_states' = [peer_states EXCEPT ![work[w].unit] = Len(dicts) + 1]
    /\ With(w, [work[w] EXCEPT !.pc = "update"])
    /\ UNCHANGED <<stats, answers, proposals, updates, unanswered>>

UpdateState(w) ==
    /\ work[w].pc = "update"
    /\ LET at == peer_states[work[w].unit]
           state == Updated(dicts[at], work[w].payload)
       IN  /\ dicts' = [dicts EXCEPT ![at] = state]
           /\ work' = [Witnessed(at, state) EXCEPT ![w] = Idle]
    /\ UNCHANGED <<peer_states, stats, answers, proposals, updates, unanswered>>

WorkerStep(w) ==
    \/ Read(w) \/ ReadFallback(w)
    \/ LoadCount(w) \/ StoreCount(w) \/ AppendVeto(w)
    \/ Approve(w) \/ ReportVeto(w) \/ Substitute(w)
    \/ CreateState(w) \/ UpdateState(w)

SupervisorNext ==
    \/ \E w \in Worker, unit \in Unit, action \in Actions : Propose(w, unit, action)
    \/ \E w \in Worker, unit \in Unit, payload \in KinematicsReport : HearKinematics(w, unit, payload)
    \/ \E payload \in SensorReport : SensorsUpdate(payload)
    \/ \E w \in Worker : IgnoreProposal(w) \/ WorkerStep(w)

SupervisorSpec == SupervisorInit /\ [][SupervisorNext]_supervisorVars

-----------------------------------------------------------------------------
(* No actuator moves on the word of the AI alone: an approved hard command *)
(* was judged by a dict in which a hardware trigger was on at some moment  *)
(* between the proposal and the approval, whatever other workers changed.  *)
InterlockHolds ==
    \A a \in answers : a.status = "APPROVED" /\ a.action.hard => a.on # {}

(* Bounds between which a unit can hover at all. *)
Habitable == 0 <= MaxVelocity /\ 0 <= MaxAccel /\ MinClearance <= MaxZ

(* The base of a return to base, the origin at 15 m, is between them. *)
BaseFits == 0 \in MinX..MaxX /\ RtbAltitude \in MinClearance..MaxZ

(* A fallback for a unit that is inside the fence by what was read of it.  *)
FallbackFromInside(a) ==
    /\ a.status = "FALLBACK_SUBSTITUTED"
    /\ "x" \in DOMAIN a.position => a.position["x"] \in MinX..MaxX
    /\ "z" \in DOMAIN a.position => a.position["z"] \in Int /\ a.position["z"] <= MaxZ

(* It is a manoeuvre that the kinematic check would let through itself,    *)
(* although x and z may have been read before and after an update; but the *)
(* return to base only under an envelope that holds the base.              *)
FallbackWithinEnvelope ==
    \A a \in answers :
        Habitable /\ FallbackFromInside(a) /\ (a.reason \in Grave => BaseFits)
            => Kinematics(a.action, a.position) = "NONE"

(* The reason published with a veto is that of this veto or of one that    *)
(* another worker recorded after it: never of an older one.                *)
ReasonIsRecent ==
    \A a \in answers : a.status = "VETOED" =>
        a.mark > 0 /\ \E i \in a.mark..Len(veto_history) : veto_history[i] = a.reason

AnswersOf(status) == {a \in answers : a.status = status}

(* get_safety_stats may lose evaluations that two workers count at once,   *)
(* and never shows more of them than there were.                           *)
StatsNeverOvercount ==
    /\ approval_count <= Cardinality(AnswersOf("APPROVED"))
                         + Cardinality({w \in Worker : work[w].pc = "approve"})
    /\ veto_count <= Len(veto_history) + Cardinality({w \in Worker : work[w].pc = "append"})

Commands(id) ==
    {a \in AnswersOf("APPROVED") \cup AnswersOf("FALLBACK_SUBSTITUTED") : a.id = id}
InWork(id) == {w \in Worker : "id" \in DOMAIN work[w] /\ work[w].id = id}

(* A unit that proposes gets one command, its own or a fallback, unless    *)
(* the payload was ignored or the evaluation raised.                       *)
OneCommandEach ==
    \A id \in 1..proposals :
        Cardinality(Commands(id)) + Cardinality(InWork(id)) + Cardinality({id} \cap unanswered) = 1
=============================================================================
