----------------------- MODULE SafetySupervisorProofs -----------------------
(***************************************************************************)
(* The supervisor for any number of workers, units and updates, and for    *)
(* any envelope: what is approved, what is substituted and what is         *)
(* reported.                                                               *)
(***************************************************************************)
EXTENDS SafetySupervisor, FiniteSetTheorems, TLAPS

Reason == {"NONE", "INVALID_COMMAND", "AI_EXCEPTION_OR_NAN", "UNVERIFIED_SECURITY_ACTION",
           "CRITICAL_BATTERY", "THERMAL_OVERHEAT", "EXCESSIVE_VELOCITY",
           "EXCESSIVE_ACCELERATION", "GEOFENCE_BREACH", "INSUFFICIENT_CLEARANCE"}

Content(key) == IF key \in Triggers THEN BOOLEAN ELSE Int \cup Outlier
Dict == {state \in UNION {[K -> BOOLEAN \cup Int \cup Outlier] : K \in SUBSET Keys} :
            \A key \in DOMAIN state : state[key] \in Content(key)}

Approving == {"approved", "count approval", "approve"}
Vetoing   == {"vetoed", "count veto", "append", "report", "substitute"}
JobPcs    == {"judge", "fallback"} \cup Approving \cup Vetoing
Job == [pc : JobPcs,
        id : Nat, unit : Unit, action : Actions, judged : Nat \ {0}, step : Nat, seen : Dict,
        reason : Reason, on : SUBSET Triggers, loaded : Nat, mark : Nat]
Hearing == [pc : {"create", "update"}, unit : Unit, payload : KinematicsReport]

SupervisorTypeOK ==
    /\ dicts \in Seq(Dict) /\ dicts # <<>>
    /\ peer_states \in [Unit -> 0..Len(dicts)]
    /\ approval_count \in Nat /\ veto_count \in Nat
    /\ veto_history \in Seq(Reason)
    /\ work \in [Worker -> Job \cup Hearing \cup {Idle}]
    /\ proposals \in Nat /\ updates \in Nat

AllOf(reads) == {reads[i] : i \in DOMAIN reads}
FirstOf(reads, n) == {reads[i] : i \in 1..n}

(* What a worker may rely on between two reads of a dict that others       *)
(* update: triggers it has seen on, and those that are on now, are among   *)
(* those that were on since it began.                                      *)
Witness(job) ==
    job.pc \in {"judge", "fallback"} =>
        job.judged \in DOMAIN dicts /\ On(dicts[job.judged]) \subseteq job.on
Progress(job) ==
    job.pc = "judge" =>
        /\ job.step < Len(Reads(job.action))
        /\ DOMAIN job.seen = FirstOf(Reads(job.action), job.step)
        /\ \A trigger \in Triggers \cap DOMAIN job.seen : job.seen[trigger] => trigger \in job.on
Corroborated(job) == job.pc \in Approving /\ job.action.hard => job.on # {}
FallbackProgress(job) ==
    /\ job.pc = "fallback" =>
          /\ job.step <= Len(FallbackReads(job.reason))
          /\ DOMAIN job.seen = FirstOf(FallbackReads(job.reason), job.step)
    /\ job.pc \in Vetoing => DOMAIN job.seen = AllOf(FallbackReads(job.reason))
Recorded(job) == job.pc = "report" => job.mark \in DOMAIN veto_history

JobOK(job) == /\ Witness(job) /\ Progress(job) /\ Corroborated(job)
              /\ FallbackProgress(job) /\ Recorded(job)
JobInv == \A w \in Worker : JobOK(work[w])
HearingInv == \A w \in Worker : work[w].pc = "update" => peer_states[work[w].unit] # 0

Substituted == \A a \in answers : a.status = "FALLBACK_SUBSTITUTED" =>
    /\ a.reason \in Reason
    /\ a.action = Manoeuvre(Fallback(a.reason, a.position))
    /\ DOMAIN a.position = AllOf(FallbackReads(a.reason))
Reported == \A a \in answers : a.status = "VETOED" =>
    a.mark \in Nat \ {0} /\ \E i \in a.mark..Len(veto_history) : veto_history[i] = a.reason

SupervisorInv ==
    /\ SupervisorTypeOK /\ JobInv /\ HearingInv
    /\ InterlockHolds /\ Substituted /\ Reported

-----------------------------------------------------------------------------
(* State dicts. *)

LEMMA DefaultContent == \A key \in Keys : Default[key] \in Content(key)
<1>1. ASSUME NEW key \in Triggers PROVE Default[key] = FALSE
  BY <1>1 DEF Default, Triggers
<1>2. ASSUME NEW key \in Keys, key \notin Triggers PROVE Default[key] \in Int
  BY <1>2 DEF Default, Keys, Triggers
<1> QED BY <1>1, <1>2 DEF Content

LEMMA GetContent ==
  ASSUME NEW state \in Dict, NEW key \in Keys
  PROVE  Get(state, key) \in Content(key)
BY DefaultContent DEF Dict, Get

LEMMA DictIntro ==
  ASSUME NEW K \in SUBSET Keys, NEW state, state = [key \in K |-> state[key]],
         \A key \in K : state[key] \in Content(key)
  PROVE  state \in Dict
<1>1. state \in [K -> BOOLEAN \cup Int \cup Outlier]
  BY DEF Content
<1> QED BY <1>1 DEF Dict

LEMMA EmptyDict == <<>> \in Dict /\ DOMAIN <<>> = {}
<1>1. <<>> \in [{} -> BOOLEAN \cup Int \cup Outlier]
  OBVIOUS
<1>2. DOMAIN <<>> = {}
  OBVIOUS
<1> QED BY <1>1, <1>2 DEF Dict

LEMMA UpdatedDict ==
  ASSUME NEW state \in Dict, NEW payload \in SensorReport \cup KinematicsReport
  PROVE  Updated(state, payload) \in Dict
<1> DEFINE K == DOMAIN state \cup DOMAIN payload
           new == Updated(state, payload)
<1>1. K \in SUBSET Keys
  BY PayloadAssumption DEF Dict
<1>2. new = [key \in K |-> IF key \in DOMAIN payload THEN payload[key] ELSE state[key]]
  BY DEF Updated
<1>3. \A key \in K : new[key] \in Content(key)
  BY <1>1, <1>2, PayloadAssumption DEF Dict, Content
<1>4. new = [key \in K |-> new[key]]
  BY <1>2
<1> HIDE DEF new, K
<1> QED BY <1>1, <1>3, <1>4, DictIntro DEF new

LEMMA SeenDict ==
  ASSUME SupervisorTypeOK, NEW w \in Worker, work[w] \in Job, work[w].judged \in DOMAIN dicts,
         NEW key \in Keys
  PROVE  /\ Seen(w, key) \in Dict
         /\ DOMAIN Seen(w, key) = DOMAIN work[w].seen \cup {key}
         /\ Seen(w, key)[key] = Get(dicts[work[w].judged], key)
         /\ \A k \in DOMAIN work[w].seen : k # key => Seen(w, key)[k] = work[w].seen[k]
<1> DEFINE old == work[w].seen
           K == DOMAIN old \cup {key}
           new == Seen(w, key)
<1>1. old \in Dict /\ dicts[work[w].judged] \in Dict
  BY DEF SupervisorTypeOK, Job
<1>2. K \in SUBSET Keys
  BY <1>1 DEF Dict
<1>3. new = [k \in K |-> IF k = key THEN Get(dicts[work[w].judged], key) ELSE old[k]]
  BY DEF Seen
<1>4. \A k \in K : new[k] \in Content(k)
  BY <1>1, <1>3, GetContent DEF Dict
<1>5. new = [k \in K |-> new[k]]
  BY <1>3
<1>6. new \in Dict
  <2> HIDE DEF new, K
  <2> QED BY <1>2, <1>4, <1>5, DictIntro
<1> QED BY <1>3, <1>6

-----------------------------------------------------------------------------
(* The functions of the arbiter. *)

LEMMA VerdictReason ==
  ASSUME NEW action, NEW seen
  PROVE  /\ Verdict(action, seen) \in Reason
         /\ Verdict(action, seen) = "NONE" => ~ SecurityInterlock(action, seen)
<1>1. Motion(action) \in Reason
  BY DEF Motion, Reason
<1>2. Kinematics(action, seen) \in Reason
  BY <1>1 DEF Kinematics, Reason
<1>3. HardwareHealth(seen) \in Reason
  BY DEF HardwareHealth, Reason
<1> QED BY <1>2, <1>3 DEF Verdict, Reason

LEMMA SanityReason ==
  ASSUME NEW action PROVE NumericalSanity(action) \in Reason
BY DEF NumericalSanity, Reason

(* What is read of a state, one key after the other. *)
LEMMA ReadsType ==
  ASSUME NEW action
  PROVE  /\ Reads(action) \in Seq(Keys)
         /\ 2 <= Len(Reads(action))
         /\ action.hard => Triggers \subseteq AllOf(Reads(action))
<1> DEFINE first == IF action.hard THEN <<"pir_motion", "tripwire_broken">> ELSE <<>>
           middle == <<"battery", "motor_temp">>
           last == IF Len(action.target) = 1 THEN <<"z">> ELSE <<>>
<1>1. first \in Seq(Keys) /\ middle \in Seq(Keys) /\ last \in Seq(Keys)
  <2>1. /\ "pir_motion" \in Keys /\ "tripwire_broken" \in Keys
        /\ "battery" \in Keys /\ "motor_temp" \in Keys /\ "z" \in Keys
    BY DEF Keys, Triggers
  <2>2. /\ <<"pir_motion", "tripwire_broken">> \in Seq(Keys) /\ <<>> \in Seq(Keys)
        /\ middle \in Seq(Keys) /\ <<"z">> \in Seq(Keys)
    BY <2>1
  <2> QED BY <2>2
<1>2. Len(middle) = 2
  OBVIOUS
<1>3. Reads(action) = (first \o middle) \o last
  BY DEF Reads
<1>4. action.hard => Len(first) = 2 /\ first[1] = "pir_motion" /\ first[2] = "tripwire_broken"
  OBVIOUS
<1> HIDE DEF first, middle, last
<1>5. Reads(action) \in Seq(Keys) /\ Len(Reads(action)) = Len(first) + Len(middle) + Len(last)
  BY <1>1, <1>3
<1>6. ASSUME action.hard PROVE Triggers \subseteq AllOf(Reads(action))
  <2>1. {1, 2} \subseteq DOMAIN Reads(action)
    BY <1>1, <1>2, <1>4, <1>5, <1>6
  <2>2. first \o middle \in Seq(Keys) /\ Len(first \o middle) = Len(first) + Len(middle)
    BY <1>1
  <2>3. Reads(action)[1] = (first \o middle)[1] /\ Reads(action)[2] = (first \o middle)[2]
    BY <1>1, <1>2, <1>3, <1>4, <1>6, <2>2
  <2>4. (first \o middle)[1] = first[1] /\ (first \o middle)[2] = first[2]
    <3>1. Len(first) = 2
      BY <1>4, <1>6
    <3>2. \A i \in Nat : 1 <= i /\ i <= Len(first) => (first \o middle)[i] = first[i]
      BY <1>1
    <3>3. (first \o middle)[1] = first[1]
      BY <3>1, <3>2
    <3>4. (first \o middle)[2] = first[2]
      BY <3>1, <3>2
    <3> QED BY <3>3, <3>4
  <2> QED BY <1>4, <1>6, <2>1, <2>3, <2>4 DEF AllOf, Triggers
<1> QED BY <1>1, <1>2, <1>5, <1>6

LEMMA FallbackReadsType ==
  ASSUME NEW reason PROVE FallbackReads(reason) \in Seq(Keys)
<1>1. "x" \in Keys /\ "z" \in Keys
  BY DEF Keys
<1>2. <<>> \in Seq(Keys) /\ <<"z">> \in Seq(Keys) /\ <<"x", "z">> \in Seq(Keys)
  BY <1>1
<1> QED BY <1>2 DEF FallbackReads

LEMMA FirstOfNext ==
  ASSUME NEW reads \in Seq(Keys), NEW n \in Nat, n < Len(reads)
  PROVE  /\ reads[n + 1] \in Keys
         /\ FirstOf(reads, n + 1) = FirstOf(reads, n) \cup {reads[n + 1]}
<1>1. 1..(n + 1) = (1..n) \cup {n + 1}
  OBVIOUS
<1> QED BY <1>1 DEF FirstOf

LEMMA FirstOfAll ==
  ASSUME NEW reads \in Seq(Keys) PROVE FirstOf(reads, Len(reads)) = AllOf(reads)
BY DEF FirstOf, AllOf

-----------------------------------------------------------------------------
(* The steps. *)

LEMMA WorkerType ==
  ASSUME SupervisorTypeOK, NEW w \in Worker
  PROVE  /\ work[w].pc \in JobPcs => work[w] \in Job
         /\ work[w].pc \in {"create", "update"} => work[w] \in Hearing
<1>1. work[w] \in Job \cup Hearing \cup {Idle}
  BY DEF SupervisorTypeOK
<1>2. ASSUME NEW h \in Hearing PROVE h.pc \in {"create", "update"}
  BY DEF Hearing
<1>3. ASSUME NEW j \in Job PROVE j.pc \in JobPcs
  BY DEF Job, JobPcs
<1>4. Idle.pc = "idle"
  BY DEF Idle
<1>5. JobPcs \cap {"create", "update"} = {} /\ "idle" \notin JobPcs
  BY DEF JobPcs, Approving, Vetoing
<1> QED BY <1>1, <1>2, <1>3, <1>4, <1>5

(* A step of one worker that leaves the dicts and the history alone. *)
LEMMA OneWorker ==
  ASSUME SupervisorInv, NEW w \in Worker, NEW job \in Job \cup Hearing \cup {Idle},
         With(w, job), UNCHANGED <<dicts, peer_states, veto_history>>,
         JobOK(job), job.pc = "update" => peer_states[job.unit] # 0
  PROVE  /\ work' \in [Worker -> Job \cup Hearing \cup {Idle}]
         /\ JobInv' /\ HearingInv'
<1>1. work' = [work EXCEPT ![w] = job] /\ work \in [Worker -> Job \cup Hearing \cup {Idle}]
  BY DEF With, SupervisorInv, SupervisorTypeOK
<1>2. work' \in [Worker -> Job \cup Hearing \cup {Idle}]
  BY <1>1
<1>3. ASSUME NEW v \in Worker PROVE work'[v] = job \/ work'[v] = work[v]
  BY <1>1
<1>4. ASSUME NEW j PROVE JobOK(j)' <=> JobOK(j)
  BY DEF JobOK, Witness, Progress, Corroborated, FallbackProgress, Recorded
<1>5. ASSUME NEW v \in Worker PROVE JobOK(work[v])'
  BY <1>3, <1>4 DEF SupervisorInv, JobInv
<1>6. ASSUME NEW v \in Worker, work'[v].pc = "update" PROVE peer_states'[work'[v].unit] # 0
  BY <1>3, <1>6 DEF SupervisorInv, HearingInv
<1> QED BY <1>2, <1>5, <1>6 DEF JobInv, HearingInv

LEMMA IdleOK == JobOK(Idle) /\ Idle.pc = "idle"
BY DEF Idle, JobOK, Witness, Progress, Corroborated, FallbackProgress, Recorded, Approving, Vetoing

(* What a step that answers nothing and records no veto leaves as it is. *)
LEMMA NoAnswer ==
  ASSUME SupervisorInv, UNCHANGED <<answers, veto_history>>
  PROVE  InterlockHolds' /\ Substituted' /\ Reported'
BY DEF SupervisorInv, InterlockHolds, Substituted, Reported

LEMMA IgnoreStep ==
  ASSUME SupervisorInv, NEW w \in Worker, IgnoreProposal(w) PROVE SupervisorInv'
<1>1. UNCHANGED <<dicts, peer_states, stats, work, answers, updates>> /\ proposals' = proposals + 1
  BY DEF IgnoreProposal
<1>2. SupervisorTypeOK' /\ JobInv' /\ HearingInv'
  BY <1>1 DEF SupervisorInv, SupervisorTypeOK, JobInv, HearingInv, JobOK, stats,
              Witness, Progress, Corroborated, FallbackProgress, Recorded
<1> QED BY <1>1, <1>2, NoAnswer DEF SupervisorInv, stats

LEMMA ProposeStep ==
  ASSUME SupervisorInv, NEW w \in Worker, NEW unit \in Unit, NEW action \in Actions,
         Propose(w, unit, action)
  PROVE  SupervisorInv'
<1> DEFINE at == IF peer_states[unit] = 0 THEN 1 ELSE peer_states[unit]
           job == [pc |-> IF NumericalSanity(action) = "NONE" THEN "judge" ELSE "fallback",
                   id |-> proposals + 1, unit |-> unit, action |-> action, judged |-> at,
                   step |-> 0, seen |-> <<>>, reason |-> NumericalSanity(action),
                   on |-> On(dicts[at]), loaded |-> 0, mark |-> 0]
<1> USE DEF SupervisorInv
<1>1. /\ proposals' = proposals + 1 /\ With(w, job)
      /\ UNCHANGED <<dicts, peer_states, stats, answers, updates, unanswered>>
  BY DEF Propose
<1>2. at \in DOMAIN dicts /\ at \in Nat \ {0}
  BY DEF SupervisorTypeOK
<1>3. /\ job.pc \in {"judge", "fallback"}
      /\ job.action = action /\ job.judged = at /\ job.step = 0 /\ job.seen = <<>>
      /\ job.on = On(dicts[at])
  OBVIOUS
<1>4. On(dicts[at]) \in SUBSET Triggers
  BY DEF On
<1> HIDE DEF at
<1>5. job \in Job
  BY <1>2, <1>4, EmptyDict, SanityReason DEF Job, JobPcs, SupervisorTypeOK
<1> HIDE DEF job
<1>6. JobOK(job)
  <2>1. job.pc \in {"judge", "fallback"} /\ job.step = 0 /\ DOMAIN job.seen = {}
    BY <1>3, EmptyDict
  <2>2. Witness(job)
    BY <1>2, <1>3 DEF Witness
  <2>3. FirstOf(Reads(action), 0) = {} /\ FirstOf(FallbackReads(job.reason), 0) = {}
    BY DEF FirstOf
  <2>4. Progress(job)
    BY <1>3, <2>1, <2>3, ReadsType DEF Progress
  <2>5. FallbackProgress(job)
    <3>1. Len(FallbackReads(job.reason)) \in Nat
      BY FallbackReadsType
    <3>2. job.pc \notin Vetoing
      BY <2>1 DEF Vetoing
    <3> QED BY <2>1, <2>3, <3>1, <3>2 DEF FallbackProgress
  <2> QED BY <2>1, <2>2, <2>4, <2>5 DEF JobOK, Corroborated, Recorded, Approving
<1>7. job.pc # "update"
  BY <1>3
<1>8. JobInv' /\ HearingInv' /\ work' \in [Worker -> Job \cup Hearing \cup {Idle}]
  BY <1>1, <1>5, <1>6, <1>7, OneWorker DEF stats
<1>9. InterlockHolds' /\ Substituted' /\ Reported'
  BY <1>1, NoAnswer DEF stats
<1> QED BY <1>1, <1>8, <1>9 DEF SupervisorTypeOK, stats

(* The value a worker has just read, among what it knows. *)
LEMMA WitnessedRead ==
  ASSUME SupervisorInv, NEW w \in Worker, work[w].pc = "judge",
         NEW key \in Keys, NEW trigger \in Triggers,
         trigger \in DOMAIN Seen(w, key), Seen(w, key)[trigger]
  PROVE  trigger \in work[w].on
<1>1. work[w] \in Job /\ Witness(work[w]) /\ Progress(work[w])
  BY WorkerType DEF SupervisorInv, JobInv, JobOK, JobPcs
<1>2. work[w].judged \in DOMAIN dicts
  BY <1>1 DEF Witness
<1>3. CASE trigger = key
  <2>1. Get(dicts[work[w].judged], trigger)
    BY <1>1, <1>2, <1>3, SeenDict DEF SupervisorInv
  <2> QED BY <1>1, <2>1 DEF Witness, On
<1>4. CASE trigger # key
  <2>1. trigger \in DOMAIN work[w].seen /\ work[w].seen[trigger]
    <3>1. /\ DOMAIN Seen(w, key) = DOMAIN work[w].seen \cup {key}
          /\ \A k \in DOMAIN work[w].seen : k # key => Seen(w, key)[k] = work[w].seen[k]
      BY <1>1, <1>2, SeenDict DEF SupervisorInv
    <3>2. trigger \in DOMAIN work[w].seen
      BY <1>4, <3>1
    <3>3. Seen(w, key)[trigger] = work[w].seen[trigger]
      BY <1>4, <3>1, <3>2
    <3> QED BY <3>2, <3>3
  <2> QED BY <1>1, <2>1 DEF Progress
<1> QED BY <1>3, <1>4

LEMMA ReadStep ==
  ASSUME SupervisorInv, NEW w \in Worker, Read(w)
  PROVE  SupervisorInv'
<1> DEFINE job == work[w]
           reads == Reads(job.action)
           seen == Seen(w, reads[job.step + 1])
           reason == Verdict(job.action, seen)
           next == work'[w]
<1> USE DEF SupervisorInv
<1>1. /\ job.pc = "judge" /\ job \in Job
      /\ Witness(job) /\ Progress(job)
  BY WorkerType DEF Read, Judging, JobInv, JobOK, JobPcs
<1>2. UNCHANGED <<dicts, peer_states, stats, answers, proposals, updates>>
  BY DEF Read
<1>3. job.judged \in DOMAIN dicts /\ job.step \in Nat /\ job.step < Len(reads)
  BY <1>1 DEF Witness, Progress, Job
<1>4. reads \in Seq(Keys) /\ reads[job.step + 1] \in Keys
      /\ FirstOf(reads, job.step + 1) = FirstOf(reads, job.step) \cup {reads[job.step + 1]}
  BY <1>3, ReadsType, FirstOfNext
<1>5. seen \in Dict /\ DOMAIN seen = FirstOf(reads, job.step + 1)
  <2>1. seen \in Dict /\ DOMAIN seen = DOMAIN job.seen \cup {reads[job.step + 1]}
    BY <1>1, <1>3, <1>4, SeenDict
  <2>2. DOMAIN job.seen = FirstOf(reads, job.step)
    BY <1>1 DEF Progress
  <2> HIDE DEF seen, reads, job
  <2> QED BY <1>4, <2>1, <2>2
<1>6. \A trigger \in Triggers \cap DOMAIN seen : seen[trigger] => trigger \in job.on
  BY <1>1, <1>4, WitnessedRead
<1>7. \/ With(w, Idle)
      \/ /\ reason # "NONE"
         /\ With(w, [job EXCEPT !.pc = "fallback", !.step = 0, !.seen = <<>>, !.reason = reason])
      \/ /\ reason = "NONE"
         /\ With(w, [job EXCEPT !.pc = IF job.step + 1 = Len(reads) THEN "approved" ELSE @,
                                !.step = @ + 1, !.seen = seen])
  BY DEF Read
<1> HIDE DEF job, reads, seen, reason
<1>8. CASE With(w, Idle)
  <2>1. JobInv' /\ HearingInv' /\ work' \in [Worker -> Job \cup Hearing \cup {Idle}]
    BY <1>2, <1>8, IdleOK, OneWorker DEF stats
  <2> QED BY <1>2, <2>1, NoAnswer DEF SupervisorTypeOK, stats
<1>9. ASSUME reason # "NONE", NEW to,
             to = [job EXCEPT !.pc = "fallback", !.step = 0, !.seen = <<>>, !.reason = reason],
             With(w, to)
      PROVE  SupervisorInv'
  <2>1. reason \in Reason
    BY VerdictReason DEF reason
  <2>2. to \in Job
    BY <1>1, <1>9, <2>1, EmptyDict DEF Job, JobPcs
  <2>3. /\ to.pc = "fallback" /\ to.step = 0 /\ DOMAIN to.seen = {}
        /\ to.judged = job.judged /\ to.on = job.on
    BY <1>1, <1>9, EmptyDict DEF Job
  <2>4. FirstOf(FallbackReads(to.reason), 0) = {}
    BY DEF FirstOf
  <2>5. JobOK(to)
    BY <1>1, <2>3, <2>4, FallbackReadsType
       DEF JobOK, Witness, Progress, Corroborated, FallbackProgress, Recorded, Approving, Vetoing
  <2>6. JobInv' /\ HearingInv' /\ work' \in [Worker -> Job \cup Hearing \cup {Idle}]
    BY <1>2, <1>9, <2>2, <2>3, <2>5, OneWorker DEF stats
  <2> QED BY <1>2, <2>6, NoAnswer DEF SupervisorTypeOK, stats
<1>10. ASSUME reason = "NONE", NEW to,
              to = [job EXCEPT !.pc = IF job.step + 1 = Len(reads) THEN "approved" ELSE @,
                               !.step = @ + 1, !.seen = seen],
              With(w, to)
       PROVE  SupervisorInv'
  <2>1. to \in Job
    <3>1. (IF job.step + 1 = Len(reads) THEN "approved" ELSE job.pc) \in {"approved", "judge"}
      BY <1>1
    <3>2. job.step + 1 \in Nat
      BY <1>3
    <3> QED BY <1>1, <1>5, <1>10, <3>1, <3>2 DEF Job, JobPcs, Approving
  <2>2. /\ to.pc = IF job.step + 1 = Len(reads) THEN "approved" ELSE "judge"
        /\ to.step = job.step + 1 /\ to.seen = seen
        /\ to.judged = job.judged /\ to.on = job.on /\ to.action = job.action
    BY <1>1, <1>10 DEF Job
  <2>3. Witness(to)
    BY <1>1, <2>2 DEF Witness
  <2>4. Progress(to)
    <3>1. to.pc = "judge" => job.step + 1 < Len(reads)
      BY <1>3, <1>4, <2>2
    <3> QED BY <1>5, <1>6, <2>2, <3>1 DEF Progress, reads
  <2>5. Corroborated(to)
    <3> SUFFICES ASSUME to.pc = "approved", job.action.hard PROVE job.on # {}
      BY <2>2 DEF Corroborated, Approving
    <3>1. DOMAIN seen = AllOf(reads)
      BY <1>4, <1>5, <2>2, FirstOfAll
    <3>2. Triggers \subseteq DOMAIN seen
      BY <3>1, ReadsType DEF reads
    <3>3. ~ SecurityInterlock(job.action, seen)
      BY <1>10, VerdictReason DEF reason
    <3>4. PICK trigger \in Triggers : ~ ~ seen[trigger]
      BY <3>2, <3>3 DEF SecurityInterlock
    <3>5. seen[trigger] \in BOOLEAN
      BY <1>5, <3>2 DEF Dict, Content
    <3> QED BY <1>6, <3>2, <3>4, <3>5
  <2>6. JobOK(to)
    BY <2>2, <2>3, <2>4, <2>5 DEF JobOK, FallbackProgress, Recorded, Vetoing
  <2>7. to.pc # "update"
    BY <2>2
  <2>8. JobInv' /\ HearingInv' /\ work' \in [Worker -> Job \cup Hearing \cup {Idle}]
    BY <1>2, <1>10, <2>1, <2>6, <2>7, OneWorker DEF stats
  <2> QED BY <1>2, <2>8, NoAnswer DEF SupervisorTypeOK, stats
<1> QED BY <1>7, <1>8, <1>9, <1>10

LEMMA ReadFallbackStep ==
  ASSUME SupervisorInv, NEW w \in Worker, ReadFallback(w)
  PROVE  SupervisorInv'
<1> DEFINE job == work[w]
           reads == FallbackReads(job.reason)
           seen == Seen(w, reads[job.step + 1])
<1> USE DEF SupervisorInv
<1>1. /\ job.pc = "fallback" /\ job \in Job
      /\ Witness(job) /\ FallbackProgress(job)
  BY WorkerType DEF ReadFallback, JobInv, JobOK, JobPcs
<1>2. UNCHANGED <<dicts, peer_states, stats, answers, proposals, updates>>
  BY DEF ReadFallback
<1>3. /\ job.judged \in DOMAIN dicts /\ job.step \in Nat /\ reads \in Seq(Keys)
      /\ DOMAIN job.seen = FirstOf(reads, job.step)
  BY <1>1, FallbackReadsType DEF Witness, FallbackProgress, Job
<1>4. \/ With(w, Idle)
      \/ job.step = Len(reads) /\ With(w, [job EXCEPT !.pc = "vetoed"])
      \/ job.step < Len(reads) /\ With(w, [job EXCEPT !.step = @ + 1, !.seen = seen])
  BY DEF ReadFallback
<1>5. ASSUME job.step < Len(reads)
      PROVE  seen \in Dict /\ DOMAIN seen = FirstOf(reads, job.step + 1)
  <2>1. /\ reads[job.step + 1] \in Keys
        /\ FirstOf(reads, job.step + 1) = FirstOf(reads, job.step) \cup {reads[job.step + 1]}
    BY <1>3, <1>5, FirstOfNext
  <2>2. seen \in Dict /\ DOMAIN seen = DOMAIN job.seen \cup {reads[job.step + 1]}
    BY <1>1, <1>3, <2>1, SeenDict
  <2> HIDE DEF seen, reads, job
  <2> QED BY <1>3, <2>1, <2>2
<1> HIDE DEF job, seen
<1>6. ASSUME NEW to \in Job \cup {Idle}, With(w, to), JobOK(to), to.pc # "update"
      PROVE  SupervisorInv'
  <2>1. JobInv' /\ HearingInv' /\ work' \in [Worker -> Job \cup Hearing \cup {Idle}]
    BY <1>2, <1>6, OneWorker DEF stats
  <2> QED BY <1>2, <2>1, NoAnswer DEF SupervisorTypeOK, stats
<1>7. CASE With(w, Idle)
  BY <1>6, <1>7, IdleOK
<1>8. ASSUME job.step = Len(reads), NEW to, to = [job EXCEPT !.pc = "vetoed"], With(w, to)
      PROVE  SupervisorInv'
  <2>1. to \in Job
    BY <1>1, <1>8 DEF Job, JobPcs, Vetoing
  <2>2. to.pc = "vetoed" /\ to.seen = job.seen /\ to.reason = job.reason
    BY <1>1, <1>8 DEF Job
  <2>3. DOMAIN to.seen = AllOf(reads)
    BY <1>3, <1>8, <2>2, FirstOfAll
  <2>4. JobOK(to)
    BY <2>2, <2>3
       DEF JobOK, Witness, Progress, Corroborated, FallbackProgress, Recorded, Approving
  <2> QED BY <1>6, <1>8, <2>1, <2>2, <2>4
<1>9. ASSUME job.step < Len(reads), NEW to,
             to = [job EXCEPT !.step = @ + 1, !.seen = seen], With(w, to)
      PROVE  SupervisorInv'
  <2>1. to \in Job
    <3>1. job.step + 1 \in Nat /\ seen \in Dict
      BY <1>3, <1>5, <1>9
    <3> QED BY <1>1, <1>9, <3>1 DEF Job
  <2>2. /\ to.pc = "fallback" /\ to.seen = seen /\ to.reason = job.reason
        /\ to.step = job.step + 1 /\ to.judged = job.judged /\ to.on = job.on
    BY <1>1, <1>9 DEF Job
  <2>3. Witness(to)
    BY <1>1, <2>2 DEF Witness
  <2>4. FallbackProgress(to)
    <3>1. job.step + 1 <= Len(reads)
      BY <1>3, <1>9
    <3> QED BY <1>5, <1>9, <2>2, <3>1 DEF FallbackProgress, Vetoing
  <2>5. JobOK(to)
    BY <2>2, <2>3, <2>4 DEF JobOK, Progress, Corroborated, Recorded, Approving
  <2> QED BY <1>6, <1>9, <2>1, <2>2, <2>5
<1> QED BY <1>4, <1>7, <1>8, <1>9

(* The counting steps: a job goes on with the same reads. *)
LEMMA GoesOn ==
  ASSUME NEW job \in Job, JobOK(job), NEW to \in Job,
         to.action = job.action, to.on = job.on, to.seen = job.seen, to.reason = job.reason,
         \/ job.pc \in Approving /\ to.pc \in Approving
         \/ job.pc \in Vetoing /\ to.pc \in Vetoing \ {"report"}
  PROVE  JobOK(to) /\ to.pc # "update"
<1>1. to.pc \notin {"judge", "fallback", "report", "update"}
  BY DEF Approving, Vetoing
<1>2. Corroborated(to) /\ FallbackProgress(to)
  BY <1>1 DEF JobOK, Corroborated, FallbackProgress, Approving, Vetoing
<1> QED BY <1>1, <1>2 DEF JobOK, Witness, Progress, Recorded

LEMMA CountStep ==
  ASSUME SupervisorInv, NEW w \in Worker, LoadCount(w) \/ StoreCount(w)
  PROVE  SupervisorInv'
<1> DEFINE job == work[w]
<1> USE DEF SupervisorInv
<1>1. UNCHANGED <<dicts, peer_states, veto_history, answers, proposals, updates>>
  BY DEF LoadCount, StoreCount, stats
<1>2. approval_count' \in Nat /\ veto_count' \in Nat /\ job \in Job
  <2>1. job.pc \in JobPcs
    BY DEF LoadCount, StoreCount, JobPcs, Approving, Vetoing
  <2>2. job \in Job
    BY <2>1, WorkerType
  <2>3. job.loaded + 1 \in Nat
    BY <2>2 DEF Job
  <2>4. CASE LoadCount(w)
    BY <2>2, <2>4 DEF LoadCount, stats, SupervisorTypeOK
  <2>5. CASE StoreCount(w)
    BY <2>2, <2>3, <2>5 DEF StoreCount, SupervisorTypeOK
  <2> QED BY <2>4, <2>5
<1>3. PICK to : /\ With(w, to)
                /\ \/ job.pc = "approved" /\ to = [job EXCEPT !.pc = "count approval", !.loaded = approval_count]
                   \/ job.pc = "vetoed" /\ to = [job EXCEPT !.pc = "count veto", !.loaded = veto_count]
                   \/ job.pc = "count approval" /\ to = [job EXCEPT !.pc = "approve"]
                   \/ job.pc = "count veto" /\ to = [job EXCEPT !.pc = "append"]
  BY DEF LoadCount, StoreCount
<1>4. JobOK(job)
  BY DEF JobInv
<1> HIDE DEF job
<1>5. /\ to \in Job
      /\ to.action = job.action /\ to.on = job.on /\ to.seen = job.seen /\ to.reason = job.reason
      /\ \/ job.pc \in Approving /\ to.pc \in Approving
         \/ job.pc \in Vetoing /\ to.pc \in Vetoing \ {"report"}
  <2>1. approval_count \in Nat /\ veto_count \in Nat
    BY DEF SupervisorTypeOK
  <2>2. CASE job.pc = "approved" /\ to = [job EXCEPT !.pc = "count approval", !.loaded = approval_count]
    BY <1>2, <2>1, <2>2 DEF Job, JobPcs, Approving
  <2>3. CASE job.pc = "vetoed" /\ to = [job EXCEPT !.pc = "count veto", !.loaded = veto_count]
    BY <1>2, <2>1, <2>3 DEF Job, JobPcs, Vetoing
  <2>4. CASE job.pc = "count approval" /\ to = [job EXCEPT !.pc = "approve"]
    BY <1>2, <2>4 DEF Job, JobPcs, Approving
  <2>5. CASE job.pc = "count veto" /\ to = [job EXCEPT !.pc = "append"]
    BY <1>2, <2>5 DEF Job, JobPcs, Vetoing
  <2> QED BY <1>3, <2>2, <2>3, <2>4, <2>5
<1>6. JobOK(to) /\ to.pc # "update"
  BY <1>2, <1>4, <1>5, GoesOn
<1>7. JobInv' /\ HearingInv' /\ work' \in [Worker -> Job \cup Hearing \cup {Idle}]
  BY <1>1, <1>3, <1>5, <1>6, OneWorker
<1> QED BY <1>1, <1>2, <1>7, NoAnswer DEF SupervisorTypeOK

LEMMA AppendVetoStep ==
  ASSUME SupervisorInv, NEW w \in Worker, AppendVeto(w)
  PROVE  SupervisorInv'
<1> DEFINE job == work[w]
<1> USE DEF SupervisorInv
<1>1. /\ job.pc = "append" /\ job \in Job /\ JobOK(job)
      /\ veto_history' = Append(veto_history, job.reason)
      /\ UNCHANGED <<dicts, peer_states, approval_count, veto_count, answers, proposals, updates>>
  BY WorkerType DEF AppendVeto, JobInv, JobPcs, Vetoing
<1>0. PICK to : /\ to = [job EXCEPT !.pc = "report", !.mark = Len(veto_history) + 1]
               /\ With(w, to)
  BY DEF AppendVeto
<1>2. /\ veto_history \in Seq(Reason) /\ job.reason \in Reason
      /\ work \in [Worker -> Job \cup Hearing \cup {Idle}]
  BY <1>1 DEF SupervisorTypeOK, Job
<1> HIDE DEF job
<1>3. /\ veto_history' \in Seq(Reason)
      /\ Len(veto_history) \in Nat /\ Len(veto_history') = Len(veto_history) + 1
      /\ \A i \in 1..Len(veto_history) : veto_history'[i] = veto_history[i]
  BY <1>1, <1>2
<1>4. to \in Job /\ to.pc = "report" /\ to.seen = job.seen /\ to.reason = job.reason
      /\ to.mark = Len(veto_history) + 1
  <2>1. Len(veto_history) + 1 \in Nat
    BY <1>3
  <2> QED BY <1>1, <1>0, <2>1 DEF Job, JobPcs, Vetoing
<1>5. ASSUME NEW j, JobOK(j) PROVE JobOK(j)'
  <2>1. j.mark \in DOMAIN veto_history => j.mark \in DOMAIN veto_history'
    BY <1>2, <1>3
  <2> QED BY <1>1, <1>5, <2>1
          DEF JobOK, Witness, Progress, Corroborated, FallbackProgress, Recorded
<1>6. JobOK(to)'
  <2>1. FallbackProgress(to)
    BY <1>1, <1>4 DEF JobOK, FallbackProgress, Vetoing
  <2>2. Recorded(to)'
    BY <1>3, <1>4 DEF Recorded
  <2> QED BY <1>4, <2>1, <2>2
          DEF JobOK, Witness, Progress, Corroborated, FallbackProgress, Approving
<1>7. \A v \in Worker : work'[v] = to \/ work'[v] = work[v]
  BY <1>2, <1>0 DEF With
<1>8. JobInv'
  <2>1. ASSUME NEW v \in Worker PROVE JobOK(work[v])'
    BY <1>5, <1>6, <1>7 DEF JobInv
  <2> QED BY <2>1 DEF JobInv
<1>9. HearingInv'
  BY <1>1, <1>4, <1>7 DEF HearingInv
<1>10. SupervisorTypeOK'
  BY <1>1, <1>2, <1>3, <1>4, <1>0 DEF SupervisorTypeOK, With
<1>11. Reported'
  <2> SUFFICES ASSUME NEW a \in answers, a.status = "VETOED"
               PROVE  /\ a.mark \in Nat \ {0}
                      /\ \E i \in a.mark..Len(veto_history') : veto_history'[i] = a.reason
    BY <1>1 DEF Reported
  <2>1. PICK i \in a.mark..Len(veto_history) : veto_history[i] = a.reason
    BY DEF Reported
  <2>2. a.mark \in Nat \ {0}
    BY DEF Reported
  <2>3. i \in 1..Len(veto_history) /\ i \in a.mark..Len(veto_history')
    BY <1>3, <2>2
  <2> QED BY <1>3, <2>1, <2>2, <2>3
<1>12. InterlockHolds' /\ Substituted'
  BY <1>1 DEF InterlockHolds, Substituted
<1> QED BY <1>8, <1>9, <1>10, <1>11, <1>12

LEMMA AnswerStep ==
  ASSUME SupervisorInv, NEW w \in Worker, Approve(w) \/ ReportVeto(w) \/ Substitute(w)
  PROVE  SupervisorInv'
<1> DEFINE job == work[w]
<1> USE DEF SupervisorInv
<1>1. job \in Job /\ JobOK(job)
  BY WorkerType DEF Approve, ReportVeto, Substitute, JobInv, JobPcs, Approving, Vetoing
<1>2. UNCHANGED <<dicts, peer_states, stats, proposals, updates>>
  BY DEF Approve, ReportVeto, Substitute
<1>3. ASSUME NEW to \in Job \cup {Idle}, With(w, to), JobOK(to), to.pc # "update"
      PROVE  JobInv' /\ HearingInv' /\ SupervisorTypeOK'
  <2>1. JobInv' /\ HearingInv' /\ work' \in [Worker -> Job \cup Hearing \cup {Idle}]
    BY <1>2, <1>3, OneWorker DEF stats
  <2> QED BY <1>2, <2>1 DEF SupervisorTypeOK, stats
<1>4. CASE Approve(w)
  <2> DEFINE a == Answer(w, "APPROVED", job.action, "NONE")
  <2>1. answers' = answers \cup {a} /\ With(w, Idle) /\ job.pc = "approve"
    BY <1>4 DEF Approve
  <2>2. a.status = "APPROVED" /\ a.action = job.action /\ a.on = job.on
    BY DEF Answer
  <2>3. a.action.hard => a.on # {}
    BY <1>1, <2>1, <2>2 DEF JobOK, Corroborated, Approving
  <2> HIDE DEF a, job
  <2>4. InterlockHolds'
    BY <2>1, <2>3 DEF InterlockHolds
  <2>5. Substituted' /\ Reported'
    BY <1>2, <2>1, <2>2 DEF Substituted, Reported, stats
  <2> QED BY <1>3, <2>1, <2>4, <2>5, IdleOK
<1>5. CASE ReportVeto(w)
  <2> DEFINE a == Answer(w, "VETOED", job.action, veto_history[Len(veto_history)])
             to == [job EXCEPT !.pc = "substitute"]
  <2>1. answers' = answers \cup {a} /\ With(w, to) /\ job.pc = "report"
    BY <1>5 DEF ReportVeto
  <2>2. /\ a.status = "VETOED" /\ a.mark = job.mark
        /\ a.reason = veto_history[Len(veto_history)]
    BY DEF Answer
  <2>3. /\ to \in Job /\ to.pc = "substitute" /\ to.action = job.action /\ to.on = job.on
        /\ to.seen = job.seen /\ to.reason = job.reason
    BY <1>1 DEF Job, JobPcs, Vetoing
  <2>4. job.mark \in 1..Len(veto_history) /\ Len(veto_history) \in Nat
    BY <1>1, <2>1 DEF JobOK, Recorded, SupervisorTypeOK
  <2> HIDE DEF a, job, to
  <2>5. JobOK(to) /\ to.pc # "update"
    <3>1. job.pc \in Vetoing /\ to.pc \in Vetoing \ {"report"}
      BY <2>1, <2>3 DEF Vetoing
    <3> QED BY <1>1, <2>3, <3>1, GoesOn
  <2>6. Reported'
    <3>1. a.mark \in Nat \ {0} /\ Len(veto_history) \in a.mark..Len(veto_history)
      BY <2>2, <2>4
    <3>2. \E i \in a.mark..Len(veto_history) : veto_history[i] = a.reason
      BY <2>2, <3>1
    <3> QED BY <1>2, <2>1, <3>1, <3>2 DEF Reported, stats
  <2>7. InterlockHolds' /\ Substituted'
    BY <2>1, <2>2 DEF InterlockHolds, Substituted
  <2> QED BY <1>3, <2>1, <2>3, <2>5, <2>6, <2>7
<1>6. CASE Substitute(w)
  <2> DEFINE a == Answer(w, "FALLBACK_SUBSTITUTED",
                         Manoeuvre(Fallback(job.reason, job.seen)), job.reason)
  <2>1. answers' = answers \cup {a} /\ With(w, Idle) /\ job.pc = "substitute"
    BY <1>6 DEF Substitute
  <2>2. /\ a.status = "FALLBACK_SUBSTITUTED" /\ a.reason = job.reason /\ a.position = job.seen
        /\ a.action = Manoeuvre(Fallback(job.reason, job.seen))
    BY DEF Answer
  <2>3. DOMAIN job.seen = AllOf(FallbackReads(job.reason)) /\ job.reason \in Reason
    BY <1>1, <2>1 DEF JobOK, FallbackProgress, Vetoing, Job
  <2> HIDE DEF a, job
  <2>4. Substituted'
    BY <2>1, <2>2, <2>3 DEF Substituted
  <2>5. InterlockHolds' /\ Reported'
    BY <1>2, <2>1, <2>2 DEF InterlockHolds, Reported, stats
  <2> QED BY <1>3, <2>1, <2>4, <2>5, IdleOK
<1> QED BY <1>4, <1>5, <1>6

LEMMA WitnessedPc ==
  ASSUME SupervisorInv, NEW v \in Worker, NEW at, NEW state
  PROVE  Witnessed(at, state)[v].pc = "update" => Witnessed(at, state)[v] = work[v]
<1>1. CASE work[v].pc \in {"judge", "fallback"}
  <2>1. work[v] \in Job
    BY <1>1, WorkerType DEF SupervisorInv, JobPcs
  <2>2. Witnessed(at, state)[v] = IF work[v].judged = at
                                  THEN [work[v] EXCEPT !.on = @ \cup On(state)] ELSE work[v]
    BY <1>1 DEF Witnessed
  <2> QED BY <1>1, <2>1, <2>2 DEF Job
<1>2. CASE work[v].pc \notin {"judge", "fallback"}
  BY <1>2 DEF Witnessed
<1> QED BY <1>1, <1>2

(* An update of a dict: whoever judges by it has its triggers as witnesses. *)
LEMMA WitnessedStep ==
  ASSUME SupervisorInv, NEW at \in DOMAIN dicts, NEW state \in Dict,
         dicts' = [dicts EXCEPT ![at] = state], UNCHANGED <<peer_states, veto_history>>,
         NEW v \in Worker, NEW to, to = Witnessed(at, state)[v]
  PROVE  to \in Job \cup Hearing \cup {Idle} /\ JobOK(to)'
<1> DEFINE job == work[v]
<1> USE DEF SupervisorInv
<1>1. job \in Job \cup Hearing \cup {Idle} /\ JobOK(job)
  BY DEF SupervisorTypeOK, JobInv
<1>2. DOMAIN dicts' = DOMAIN dicts /\ dicts'[at] = state
      /\ \A i \in DOMAIN dicts \ {at} : dicts'[i] = dicts[i]
  BY DEF SupervisorTypeOK
<1>3. to = IF job.pc \in {"judge", "fallback"} /\ job.judged = at
           THEN [job EXCEPT !.on = @ \cup On(state)] ELSE job
  BY DEF Witnessed
<1>4. CASE job.pc \in {"judge", "fallback"} /\ job.judged = at
  <2>1. job \in Job /\ to = [job EXCEPT !.on = @ \cup On(state)]
    BY <1>3, <1>4, WorkerType DEF JobPcs
  <2>2. On(state) \in SUBSET Triggers
    BY DEF On
  <2> HIDE DEF job
  <2>3. /\ to \in Job /\ to.on = job.on \cup On(state)
        /\ to.pc = job.pc /\ to.action = job.action /\ to.step = job.step /\ to.seen = job.seen
        /\ to.judged = job.judged /\ to.reason = job.reason
    BY <2>1, <2>2 DEF Job
  <2>4. Witness(to)'
    <3>1. to.judged = at /\ On(dicts'[at]) \subseteq to.on
      BY <1>2, <1>4, <2>3
    <3> QED BY <1>2, <3>1 DEF Witness, On
  <2>5. Progress(to) /\ FallbackProgress(to)
    BY <1>1, <2>3 DEF JobOK, Progress, FallbackProgress
  <2>6. to.pc \notin Approving /\ to.pc # "report"
    BY <1>4, <2>3 DEF Approving
  <2> QED BY <2>3, <2>4, <2>5, <2>6
          DEF JobOK, Progress, FallbackProgress, Corroborated, Recorded
<1>5. CASE ~(job.pc \in {"judge", "fallback"} /\ job.judged = at)
  <2>1. to = job
    BY <1>3, <1>5
  <2>2. Witness(to)'
    <3> SUFFICES ASSUME to.pc \in {"judge", "fallback"}
                 PROVE  to.judged \in DOMAIN dicts' /\ On(dicts'[to.judged]) \subseteq to.on
      BY DEF Witness
    <3>1. to.judged \in DOMAIN dicts /\ to.judged # at /\ On(dicts[to.judged]) \subseteq to.on
      BY <1>1, <1>5, <2>1 DEF JobOK, Witness
    <3> QED BY <1>2, <3>1
  <2>3. Progress(to)' /\ FallbackProgress(to)' /\ Corroborated(to)' /\ Recorded(to)'
    BY <1>1, <2>1 DEF JobOK, Progress, Corroborated, FallbackProgress, Recorded
  <2> QED BY <1>1, <2>1, <2>2, <2>3 DEF JobOK
<1> QED BY <1>4, <1>5

LEMMA UpdateStep ==
  ASSUME SupervisorInv, NEW at \in DOMAIN dicts, NEW w \in Worker,
         NEW payload \in SensorReport \cup KinematicsReport,
         dicts' = [dicts EXCEPT ![at] = Updated(dicts[at], payload)],
         \/ work' = Witnessed(at, Updated(dicts[at], payload))
         \/ work' = [Witnessed(at, Updated(dicts[at], payload)) EXCEPT ![w] = Idle],
         UNCHANGED <<peer_states, stats, answers, proposals>>, updates' \in Nat
  PROVE  SupervisorInv'
<1> DEFINE state == Updated(dicts[at], payload)
<1>1. state \in Dict
  BY UpdatedDict DEF SupervisorInv, SupervisorTypeOK
<1>2. DOMAIN Witnessed(at, state) = Worker
  BY DEF Witnessed
<1> HIDE DEF state
<1>3. ASSUME NEW v \in Worker PROVE work'[v] = Idle \/ work'[v] = Witnessed(at, state)[v]
  BY <1>2 DEF state
<1>4. ASSUME NEW v \in Worker, NEW to, to = work'[v]
      PROVE  /\ to \in Job \cup Hearing \cup {Idle} /\ JobOK(to)'
             /\ to.pc = "update" => to = work[v]
  <2>1. CASE to = Idle
    BY <2>1, IdleOK DEF Idle, JobOK, Witness, Progress, Corroborated, FallbackProgress,
                        Recorded, Approving, Vetoing
  <2>2. CASE to = Witnessed(at, state)[v]
    <3>1. dicts' = [dicts EXCEPT ![at] = state] /\ UNCHANGED <<peer_states, veto_history>>
      BY DEF state, stats
    <3>2. to \in Job \cup Hearing \cup {Idle}
      BY <1>1, <2>2, <3>1, WitnessedStep
    <3>3. JobOK(to)'
      BY <1>1, <2>2, <3>1, WitnessedStep
    <3>4. to.pc = "update" => to = work[v]
      BY <2>2, WitnessedPc
    <3> QED BY <3>2, <3>3, <3>4
  <2> QED BY <1>3, <1>4, <2>1, <2>2
<1>5. work' \in [Worker -> Job \cup Hearing \cup {Idle}]
  <2>1. work' = [v \in Worker |-> work'[v]]
    BY DEF Witnessed
  <2> QED BY <1>4, <2>1
<1>6. JobInv'
  <2>1. ASSUME NEW v \in Worker PROVE JobOK(work[v])'
    BY <1>4
  <2> QED BY <2>1 DEF JobInv
<1>7. HearingInv'
  BY <1>4 DEF SupervisorInv, HearingInv
<1>8. SupervisorTypeOK'
  <2>1. dicts' \in Seq(Dict) /\ dicts' # <<>> /\ Len(dicts') = Len(dicts)
    BY <1>1 DEF SupervisorInv, SupervisorTypeOK, state
  <2> QED BY <1>5, <2>1 DEF SupervisorInv, SupervisorTypeOK, stats
<1> QED BY <1>6, <1>7, <1>8, NoAnswer DEF SupervisorInv, stats

LEMMA SensorsUpdateStep ==
  ASSUME SupervisorInv, NEW payload \in SensorReport, SensorsUpdate(payload)
  PROVE  SupervisorInv'
<1>1. 1 \in DOMAIN dicts /\ updates' \in Nat
  BY DEF SupervisorInv, SupervisorTypeOK, SensorsUpdate
<1>2. CASE \E w : w \in Worker
  BY <1>1, <1>2, UpdateStep DEF SensorsUpdate
<1>3. CASE Worker = {}
  <2>1. /\ dicts' \in Seq(Dict) /\ dicts' # <<>> /\ Len(dicts') = Len(dicts)
        /\ work' \in [Worker -> Job \cup Hearing \cup {Idle}]
    <3>1. dicts[1] \in Dict
      BY <1>1 DEF SupervisorInv, SupervisorTypeOK
    <3>2. Updated(dicts[1], payload) \in Dict
      BY <3>1, UpdatedDict
    <3> QED BY <1>1, <1>3, <3>2 DEF SensorsUpdate, SupervisorInv, SupervisorTypeOK, Witnessed
  <2>2. SupervisorTypeOK' /\ JobInv' /\ HearingInv'
    BY <1>1, <1>3, <2>1
       DEF SensorsUpdate, SupervisorInv, SupervisorTypeOK, JobInv, HearingInv, stats
  <2> QED BY <2>2, NoAnswer DEF SensorsUpdate, SupervisorInv, stats
<1> QED BY <1>2, <1>3

LEMMA HearKinematicsStep ==
  ASSUME SupervisorInv, NEW w \in Worker, NEW unit \in Unit, NEW payload \in KinematicsReport,
         HearKinematics(w, unit, payload)
  PROVE  SupervisorInv'
<1> USE DEF SupervisorInv
<1>1. /\ updates' = updates + 1
      /\ UNCHANGED <<dicts, peer_states, stats, answers, proposals, unanswered>>
  BY DEF HearKinematics
<1>2. PICK job : /\ job = [pc |-> IF peer_states[unit] = 0 THEN "create" ELSE "update",
                            unit |-> unit, payload |-> payload]
                 /\ With(w, job)
  BY DEF HearKinematics
<1>3. job.pc \in {"create", "update"} /\ job \in Hearing
      /\ (job.pc = "update" => peer_states[job.unit] # 0)
  BY <1>2 DEF Hearing
<1>4. JobOK(job)
  BY <1>3 DEF JobOK, Witness, Progress, Corroborated, FallbackProgress, Recorded,
              Approving, Vetoing
<1>5. JobInv' /\ HearingInv' /\ work' \in [Worker -> Job \cup Hearing \cup {Idle}]
  BY <1>1, <1>2, <1>3, <1>4, OneWorker DEF stats
<1> QED BY <1>1, <1>5, NoAnswer DEF SupervisorTypeOK, stats

LEMMA CreateStateStep ==
  ASSUME SupervisorInv, NEW w \in Worker, CreateState(w)
  PROVE  SupervisorInv'
<1> DEFINE job == work[w]
<1> USE DEF SupervisorInv
<1>1. /\ job.pc = "create" /\ job \in Hearing
      /\ dicts' = Append(dicts, <<>>)
      /\ peer_states' = [peer_states EXCEPT ![job.unit] = Len(dicts) + 1]
      /\ UNCHANGED <<stats, answers, proposals, updates, unanswered>>
  BY WorkerType DEF CreateState
<1>2. PICK to : to = [job EXCEPT !.pc = "update"] /\ With(w, to)
  BY DEF CreateState
<1>3. /\ dicts \in Seq(Dict) /\ peer_states \in [Unit -> 0..Len(dicts)] /\ job.unit \in Unit
      /\ work \in [Worker -> Job \cup Hearing \cup {Idle}]
  BY <1>1 DEF SupervisorTypeOK, Hearing
<1> HIDE DEF job
<1>4. /\ dicts' \in Seq(Dict) /\ Len(dicts) \in Nat /\ Len(dicts') = Len(dicts) + 1
      /\ \A i \in DOMAIN dicts : i \in DOMAIN dicts' /\ dicts'[i] = dicts[i]
  BY <1>1, <1>3, EmptyDict
<1>5. to \in Hearing /\ to.pc = "update" /\ to.unit = job.unit
  BY <1>1, <1>2 DEF Hearing
<1>6. peer_states' \in [Unit -> 0..Len(dicts')]
  BY <1>1, <1>3, <1>4
<1>7. ASSUME NEW j, JobOK(j) PROVE JobOK(j)'
  <2>1. Witness(j)'
    BY <1>4, <1>7 DEF JobOK, Witness
  <2> QED BY <1>1, <1>7, <2>1
          DEF JobOK, Progress, Corroborated, FallbackProgress, Recorded, stats
<1>8. JobOK(to)
  BY <1>5 DEF JobOK, Witness, Progress, Corroborated, FallbackProgress, Recorded,
              Approving, Vetoing
<1>9. \A v \in Worker : work'[v] = to \/ work'[v] = work[v]
  BY <1>2, <1>3 DEF With
<1>10. JobInv'
  <2>1. ASSUME NEW v \in Worker PROVE JobOK(work[v])'
    BY <1>7, <1>8, <1>9 DEF JobInv
  <2> QED BY <2>1 DEF JobInv
<1>11. HearingInv'
  <2>1. \A unit \in Unit : peer_states[unit] # 0 => peer_states'[unit] # 0
    BY <1>1, <1>3, <1>4
  <2>2. ASSUME NEW v \in Worker, work'[v].pc = "update" PROVE peer_states'[work'[v].unit] # 0
    <3>1. CASE work'[v] = to
      BY <1>1, <1>3, <1>4, <1>5, <3>1
    <3>2. CASE work'[v] = work[v]
      <4>1. work[v] \in Hearing /\ peer_states[work[v].unit] # 0
        BY <2>2, <3>2, WorkerType DEF HearingInv
      <4> QED BY <2>1, <3>2, <4>1 DEF Hearing
    <3> QED BY <1>9, <3>1, <3>2
  <2> QED BY <2>2 DEF HearingInv
<1>12. SupervisorTypeOK'
  BY <1>1, <1>2, <1>3, <1>4, <1>5, <1>6 DEF SupervisorTypeOK, With, stats
<1> QED BY <1>1, <1>10, <1>11, <1>12, NoAnswer DEF stats

LEMMA UpdateStateStep ==
  ASSUME SupervisorInv, NEW w \in Worker, UpdateState(w)
  PROVE  SupervisorInv'
<1>1. work[w] \in Hearing /\ work[w].pc = "update" /\ peer_states[work[w].unit] # 0
  BY WorkerType DEF UpdateState, SupervisorInv, HearingInv
<1>2. PICK at : at = peer_states[work[w].unit]
  OBVIOUS
<1>3. at \in DOMAIN dicts /\ work[w].payload \in KinematicsReport
  BY <1>1, <1>2 DEF Hearing, SupervisorInv, SupervisorTypeOK
<1>4. /\ dicts' = [dicts EXCEPT ![at] = Updated(dicts[at], work[w].payload)]
      /\ work' = [Witnessed(at, Updated(dicts[at], work[w].payload)) EXCEPT ![w] = Idle]
      /\ UNCHANGED <<peer_states, stats, answers, proposals, updates>>
  BY <1>2 DEF UpdateState
<1>5. updates' \in Nat
  BY <1>4 DEF SupervisorInv, SupervisorTypeOK
<1> QED BY <1>3, <1>4, <1>5, UpdateStep

-----------------------------------------------------------------------------
(* The inductive invariant: the types, what a worker may rely on while     *)
(* others write the dicts and the history, and what the answers carry.     *)
THEOREM SupervisorInvariant == SupervisorSpec => []SupervisorInv
<1>1. SupervisorInit => SupervisorInv
  <2> SUFFICES ASSUME SupervisorInit PROVE SupervisorInv
    OBVIOUS
  <2>1. dicts \in Seq(Dict) /\ dicts # <<>> /\ veto_history \in Seq(Reason)
    BY EmptyDict DEF SupervisorInit
  <2>2. SupervisorTypeOK
    BY <2>1 DEF SupervisorInit, SupervisorTypeOK
  <2>3. JobInv /\ HearingInv
    BY IdleOK DEF SupervisorInit, JobInv, HearingInv
  <2> QED BY <2>2, <2>3
          DEF SupervisorInit, SupervisorInv, InterlockHolds, Substituted, Reported
<1>2. SupervisorInv /\ [SupervisorNext]_supervisorVars => SupervisorInv'
  <2> SUFFICES ASSUME SupervisorInv, [SupervisorNext]_supervisorVars PROVE SupervisorInv'
    OBVIOUS
  <2>1. ASSUME NEW w \in Worker, WorkerStep(w) PROVE SupervisorInv'
    BY <2>1, ReadStep, ReadFallbackStep, CountStep, AppendVetoStep, AnswerStep,
       CreateStateStep, UpdateStateStep DEF WorkerStep
  <2>2. CASE UNCHANGED supervisorVars
    <3>1. SupervisorTypeOK' /\ JobInv' /\ HearingInv'
      BY <2>2 DEF supervisorVars, SupervisorInv, SupervisorTypeOK, JobInv, HearingInv, JobOK,
                  Witness, Progress, Corroborated, FallbackProgress, Recorded
    <3> QED BY <2>2, <3>1, NoAnswer DEF supervisorVars, SupervisorInv
  <2> QED BY <2>1, <2>2, IgnoreStep, ProposeStep, HearKinematicsStep, SensorsUpdateStep DEF SupervisorNext
<1> QED BY <1>1, <1>2, PTL DEF SupervisorSpec

(* "Physical action requires deterministic secondary sensor verification": *)
(* no approval of a hard command without a trigger that was on meanwhile.  *)
THEOREM InterlockAlwaysHolds == SupervisorSpec => []InterlockHolds
<1>1. SupervisorInv => InterlockHolds
  BY DEF SupervisorInv
<1> QED BY <1>1, SupervisorInvariant, PTL

(* A substituted manoeuvre passes the kinematic check itself, for any      *)
(* bounds between which a unit can hover; the return to base needs in      *)
(* addition that the base is between them.                                 *)
THEOREM FallbackWithinEnvelopeHolds == SupervisorSpec => []FallbackWithinEnvelope
<1>1. ASSUME NEW reason \in Reason, NEW seen, DOMAIN seen = AllOf(FallbackReads(reason)),
             Habitable, reason \in Grave => BaseFits,
             "x" \in DOMAIN seen => seen["x"] \in MinX..MaxX,
             "z" \in DOMAIN seen => seen["z"] \in Int /\ seen["z"] <= MaxZ
      PROVE  Kinematics(Manoeuvre(Fallback(reason, seen)), seen) = "NONE"
  <2> DEFINE target == Fallback(reason, seen)
  <2>1. ~ (0 > MaxVelocity) /\ ~ (0 > MaxAccel)
    BY <1>1, EnvelopeAssumption DEF Habitable
  <2>2. CASE reason = "UNVERIFIED_SECURITY_ACTION"
    <3>1. target = <<>>
      BY <2>2 DEF Fallback, Grave
    <3> QED BY <2>1, <3>1 DEF Kinematics, Motion, Manoeuvre
  <2>3. ASSUME NEW x \in MinX..MaxX, NEW z \in Int, target = <<x, z>>,
               MinClearance <= z, z <= MaxZ
        PROVE  Kinematics(Manoeuvre(target), seen) = "NONE"
    <3>1. /\ target # <<>> /\ target[1] = x /\ Len(target) = 2 /\ target[2] = z
      BY <2>3
    <3> HIDE DEF target
    <3>2. Motion(Manoeuvre(target)) = "NONE"
      BY <2>1, <3>1 DEF Motion, Manoeuvre
    <3>3. Altitude(Manoeuvre(target), seen) = z
      BY <3>1 DEF Altitude, Manoeuvre
    <3>4. ~ Below(z, MinClearance) /\ ~ Above(z, MaxZ)
      BY <2>3, EnvelopeAssumption DEF Below, Above
    <3> QED BY <3>1, <3>2, <3>3, <3>4 DEF Kinematics, Manoeuvre
  <2>4. ASSUME NEW z \in Int, z <= MaxZ, NEW bound \in MinClearance..MaxZ, bound \in Int
        PROVE  /\ AtLeast(z, bound) \in Int
               /\ MinClearance <= AtLeast(z, bound) /\ AtLeast(z, bound) <= MaxZ
    BY <2>4, EnvelopeAssumption DEF AtLeast, Below, Outlier
  <2>5. CASE reason \in Grave
    <3>1. "z" \in DOMAIN seen
      BY <1>1, <2>5 DEF AllOf, FallbackReads, Grave
    <3>2. target = <<0, AtLeast(seen["z"], RtbAltitude)>>
      BY <2>5 DEF Fallback, Grave
    <3>3. 0 \in MinX..MaxX /\ RtbAltitude \in MinClearance..MaxZ /\ RtbAltitude \in Int
      BY <1>1, <2>5, EnvelopeAssumption DEF BaseFits
    <3> HIDE DEF target
    <3> QED BY <1>1, <2>3, <2>4, <3>1, <3>2, <3>3 DEF target
  <2>6. CASE reason # "UNVERIFIED_SECURITY_ACTION" /\ reason \notin Grave
    <3>1. "x" \in DOMAIN seen /\ "z" \in DOMAIN seen
      BY <1>1, <2>6 DEF AllOf, FallbackReads
    <3>2. target = <<seen["x"], AtLeast(seen["z"], MinClearance)>>
      BY <2>6 DEF Fallback
    <3>3. MinClearance \in MinClearance..MaxZ /\ MinClearance \in Int
      BY <1>1, EnvelopeAssumption DEF Habitable
    <3> QED BY <1>1, <2>3, <2>4, <3>1, <3>2, <3>3
  <2> QED BY <2>2, <2>5, <2>6
<1>2. SupervisorInv => FallbackWithinEnvelope
  BY <1>1 DEF SupervisorInv, Substituted, FallbackWithinEnvelope, FallbackFromInside
<1> QED BY <1>2, SupervisorInvariant, PTL

(* The reason reported with a veto is never that of an earlier veto.       *)
THEOREM ReasonIsRecentHolds == SupervisorSpec => []ReasonIsRecent
<1>1. SupervisorInv => ReasonIsRecent
  BY DEF SupervisorInv, Reported, ReasonIsRecent
<1> QED BY <1>1, SupervisorInvariant, PTL

-----------------------------------------------------------------------------
(* Who answers a proposal, and what the counters count.                    *)
(*                                                                         *)
(* A proposal is in the hands of one worker, was answered by one command,  *)
(* or is unanswered: CommandInv says it without counting.  A counter may be *)
(* set back by a worker that loaded it before others stored, so that it is not *)
(* enough to know the counter: no worker may have loaded more than there   *)
(* was to count (StatsInv).                                                *)

Held(job) == IF job.pc \in JobPcs THEN job.id ELSE 0
IsCommand(a) == a.status \in {"APPROVED", "FALLBACK_SUBSTITUTED"}

CommandInv ==
    /\ \A w \in Worker : Held(work[w]) \in 0..proposals /\ Held(work[w]) \notin unanswered
    /\ \A v, w \in Worker : Held(work[v]) # 0 /\ Held(work[v]) = Held(work[w]) => v = w
    /\ unanswered \subseteq 1..proposals
    /\ \A a \in answers : IsCommand(a) =>
          /\ a.id \in 1..proposals /\ a.id \notin unanswered
          /\ \A w \in Worker : Held(work[w]) # a.id
          /\ \A b \in answers : IsCommand(b) /\ b.id = a.id => b = a
    /\ \A id \in 1..proposals : \/ \E w \in Worker : Held(work[w]) = id
                                \/ \E a \in answers : IsCommand(a) /\ a.id = id
                                \/ id \in unanswered

WorkersAt(pc) == {w \in Worker : work[w].pc = pc}
Approvals == Cardinality(AnswersOf("APPROVED")) + Cardinality(WorkersAt("approve"))
Vetoes    == Len(veto_history) + Cardinality(WorkersAt("append"))

StatsInv ==
    /\ IsFiniteSet(answers)
    /\ approval_count <= Approvals
    /\ veto_count <= Vetoes
    /\ \A w \in WorkersAt("count approval") : work[w].loaded <= Approvals
    /\ \A w \in WorkersAt("count veto") : work[w].loaded <= Vetoes

LEMMA MoveOne ==
  ASSUME SupervisorTypeOK, NEW w \in Worker, NEW to, With(w, to)
  PROVE  work'[w] = to /\ \A v \in Worker \ {w} : work'[v] = work[v]
BY DEF With, SupervisorTypeOK

(* Idle workers, and those that hear a report, hold no proposal. *)
LEMMA NothingHeld ==
  /\ Held(Idle) = 0
  /\ \A job : job.pc \in {"idle", "create", "update"} => Held(job) = 0
BY DEF Held, Idle, JobPcs, Approving, Vetoing

LEMMA CommandsQuiet ==
  ASSUME CommandInv, UNCHANGED <<proposals, unanswered>>,
         \A w \in Worker : Held(work'[w]) = Held(work[w]),
         \A a : IsCommand(a) => (a \in answers' <=> a \in answers)
  PROVE  CommandInv'
BY DEF CommandInv, Held, IsCommand

LEMMA CommandsPropose ==
  ASSUME CommandInv, proposals \in Nat, proposals' = proposals + 1, UNCHANGED <<unanswered, answers>>,
         NEW w \in Worker, Held(work[w]) = 0, Held(work'[w]) = proposals + 1,
         \A v \in Worker \ {w} : Held(work'[v]) = Held(work[v])
  PROVE  CommandInv'
<1>1. \A v \in Worker : Held(work[v]) \in 0..proposals /\ Held(work[v]) \notin unanswered
  BY DEF CommandInv
<1>2. \A v \in Worker : Held(work'[v]) \in 0..proposals' /\ Held(work'[v]) \notin unanswered
  <2>1. proposals + 1 \notin unanswered
    BY DEF CommandInv
  <2> QED BY <1>1, <2>1
<1>3. \A u, v \in Worker : Held(work'[u]) # 0 /\ Held(work'[u]) = Held(work'[v]) => u = v
  BY <1>1 DEF CommandInv
<1>4. unanswered \subseteq 1..proposals'
  BY DEF CommandInv
<1>5. \A a \in answers : IsCommand(a) =>
          /\ a.id \in 1..proposals' /\ a.id \notin unanswered
          /\ \A v \in Worker : Held(work'[v]) # a.id
          /\ \A b \in answers : IsCommand(b) /\ b.id = a.id => b = a
  BY DEF CommandInv
<1>6. ASSUME NEW id \in 1..proposals'
      PROVE  \/ \E v \in Worker : Held(work'[v]) = id
             \/ \E a \in answers : IsCommand(a) /\ a.id = id
             \/ id \in unanswered
  <2>1. CASE id = proposals + 1
    BY <2>1
  <2>2. CASE id # proposals + 1
    <3>1. id \in 1..proposals
      BY <2>2
    <3>2. \A v \in Worker : Held(work[v]) = id => v # w /\ Held(work'[v]) = id
      BY <3>1
    <3> QED BY <3>1, <3>2 DEF CommandInv
  <2> QED BY <2>1, <2>2
<1> QED BY <1>2, <1>3, <1>4, <1>5, <1>6 DEF CommandInv, Held, IsCommand

(* A worker is done with its proposal: it raised, or sent a command. *)
LEMMA CommandsEnd ==
  ASSUME CommandInv, proposals \in Nat, proposals' = proposals,
         NEW w \in Worker, Held(work[w]) # 0, Held(work'[w]) = 0,
         \A v \in Worker \ {w} : Held(work'[v]) = Held(work[v]),
         \/ unanswered' = unanswered \cup {Held(work[w])} /\ answers' = answers
         \/ /\ unanswered' = unanswered
            /\ \E a : answers' = answers \cup {a} /\ IsCommand(a) /\ a.id = Held(work[w])
  PROVE  CommandInv'
<1> DEFINE done == Held(work[w])
<1>1. done \in 1..proposals /\ done \notin unanswered
  BY DEF CommandInv
<1>2. \A a \in answers : IsCommand(a) => a.id # done
  BY DEF CommandInv
<1>3. \A v \in Worker \ {w} : Held(work'[v]) # done
  BY DEF CommandInv
<1>4. \A v \in Worker : Held(work'[v]) \in {0, Held(work[v])}
  OBVIOUS
<1>5. \A id \in 1..proposals : id # done =>
         \A v \in Worker : Held(work[v]) = id => Held(work'[v]) = id
  OBVIOUS
<1> HIDE DEF done
<1>6. CASE unanswered' = unanswered \cup {done} /\ answers' = answers
  <2>1. 0 \notin unanswered'
    BY <1>1, <1>6 DEF CommandInv
  <2>2. \A v \in Worker : Held(work'[v]) \in 0..proposals' /\ Held(work'[v]) \notin unanswered'
    BY <1>3, <1>4, <1>6, <2>1 DEF CommandInv
  <2>3. \A u, v \in Worker : Held(work'[u]) # 0 /\ Held(work'[u]) = Held(work'[v]) => u = v
    BY <1>4 DEF CommandInv
  <2>4. unanswered' \subseteq 1..proposals'
    BY <1>1, <1>6 DEF CommandInv
  <2>5. \A a \in answers' : IsCommand(a) =>
          /\ a.id \in 1..proposals' /\ a.id \notin unanswered'
          /\ \A v \in Worker : Held(work'[v]) # a.id
          /\ \A b \in answers' : IsCommand(b) /\ b.id = a.id => b = a
    BY <1>2, <1>4, <1>6 DEF CommandInv
  <2>6. \A id \in 1..proposals' : \/ \E v \in Worker : Held(work'[v]) = id
                                  \/ \E a \in answers' : IsCommand(a) /\ a.id = id
                                  \/ id \in unanswered'
    BY <1>5, <1>6 DEF CommandInv
  <2> QED BY <2>2, <2>3, <2>4, <2>5, <2>6 DEF CommandInv, Held, IsCommand
<1>7. ASSUME unanswered' = unanswered, NEW c, answers' = answers \cup {c}, IsCommand(c), c.id = done
      PROVE  CommandInv'
  <2>2. \A v \in Worker : Held(work'[v]) \in 0..proposals' /\ Held(work'[v]) \notin unanswered'
    BY <1>4, <1>7 DEF CommandInv
  <2>3. \A u, v \in Worker : Held(work'[u]) # 0 /\ Held(work'[u]) = Held(work'[v]) => u = v
    BY <1>4 DEF CommandInv
  <2>4. unanswered' \subseteq 1..proposals'
    BY <1>7 DEF CommandInv
  <2>5. ASSUME NEW a \in answers', IsCommand(a)
        PROVE  /\ a.id \in 1..proposals' /\ a.id \notin unanswered'
               /\ \A v \in Worker : Held(work'[v]) # a.id
               /\ \A b \in answers' : IsCommand(b) /\ b.id = a.id => b = a
    <3>1. CASE a = c
      BY <1>1, <1>2, <1>3, <1>7, <3>1
    <3>2. CASE a # c
      BY <1>2, <1>4, <1>7, <2>5, <3>2 DEF CommandInv
    <3> QED BY <3>1, <3>2
  <2>6. ASSUME NEW id \in 1..proposals'
        PROVE  \/ \E v \in Worker : Held(work'[v]) = id
               \/ \E a \in answers' : IsCommand(a) /\ a.id = id
               \/ id \in unanswered'
    BY <1>5, <1>7 DEF CommandInv
  <2> QED BY <2>2, <2>3, <2>4, <2>5, <2>6 DEF CommandInv, Held, IsCommand
<1> QED BY <1>6, <1>7 DEF done


Numbered == \A w \in Worker : work[w].pc \in JobPcs => Held(work[w]) # 0

(* Where a worker counts: between reading a counter and the answer. *)
Counting == {"count approval", "approve", "count veto", "append"}

LEMMA HeldId ==
  ASSUME SupervisorTypeOK, NEW w \in Worker, work[w].pc \in JobPcs
  PROVE  work[w] \in Job /\ Held(work[w]) = work[w].id
BY WorkerType DEF Held

LEMMA WorkersMove ==
  ASSUME NEW pc, NEW w \in Worker, \A v \in Worker \ {w} : work'[v].pc = work[v].pc
  PROVE  /\ Cardinality(WorkersAt(pc)) \in Nat /\ Cardinality(WorkersAt(pc))' \in Nat
         /\ (work[w].pc = pc <=> work'[w].pc = pc) =>
               Cardinality(WorkersAt(pc))' = Cardinality(WorkersAt(pc))
         /\ work[w].pc # pc /\ work'[w].pc = pc =>
               Cardinality(WorkersAt(pc))' = Cardinality(WorkersAt(pc)) + 1
         /\ work[w].pc = pc /\ work'[w].pc # pc =>
               Cardinality(WorkersAt(pc))' = Cardinality(WorkersAt(pc)) - 1
<1> DEFINE old == {v \in Worker : work[v].pc = pc}
           new == {v \in Worker : work'[v].pc = pc}
<1>1. WorkersAt(pc) = old /\ WorkersAt(pc)' = new
  BY DEF WorkersAt
<1>2. old \in SUBSET Worker /\ new \in SUBSET Worker
  OBVIOUS
<1>3. (work[w].pc = pc <=> work'[w].pc = pc) => new = old
  OBVIOUS
<1>4. work[w].pc # pc /\ work'[w].pc = pc => w \notin old /\ new = old \cup {w}
  OBVIOUS
<1>5. work[w].pc = pc /\ work'[w].pc # pc => w \in old /\ new = old \ {w}
  OBVIOUS
<1> HIDE DEF old, new
<1>6. IsFiniteSet(old) /\ IsFiniteSet(new)
  BY <1>2, SupervisorAssumption, FS_Subset
<1>7. Cardinality(old) \in Nat /\ Cardinality(new) \in Nat
  BY <1>6, FS_CardinalityType
<1>8. w \notin old /\ new = old \cup {w} => Cardinality(new) = Cardinality(old) + 1
  BY <1>6, FS_AddElement
<1>9. w \in old /\ new = old \ {w} => Cardinality(new) = Cardinality(old) - 1
  BY <1>6, FS_RemoveElement
<1> QED BY <1>1, <1>3, <1>4, <1>5, <1>7, <1>8, <1>9

LEMMA ApprovedAnswers ==
  ASSUME StatsInv
  PROVE  IsFiniteSet(AnswersOf("APPROVED")) /\ Cardinality(AnswersOf("APPROVED")) \in Nat
<1>1. AnswersOf("APPROVED") \in SUBSET answers /\ IsFiniteSet(answers)
  BY DEF AnswersOf, StatsInv
<1>2. IsFiniteSet(AnswersOf("APPROVED"))
  BY <1>1, FS_Subset
<1> QED BY <1>2, FS_CardinalityType

LEMMA OneMore == \A n, m \in Nat : n <= m => n + 1 <= m + 1
OBVIOUS

LEMMA AtMost == \A n, m, k \in Nat : n <= m /\ m <= k => n <= k
OBVIOUS

(* The counters hold and no more is loaded, when there is more to count. *)
LEMMA StatsGrow ==
  ASSUME StatsInv, SupervisorTypeOK, IsFiniteSet(answers'),
         Approvals \in Nat, Vetoes \in Nat, Approvals' \in Nat, Vetoes' \in Nat,
         Approvals <= Approvals', Vetoes <= Vetoes',
         approval_count' <= Approvals', veto_count' <= Vetoes',
         NEW w \in Worker, \A v \in Worker \ {w} : work'[v] = work[v],
         work'[w].pc = "count approval" => work'[w].loaded <= Approvals',
         work'[w].pc = "count veto" => work'[w].loaded <= Vetoes'
  PROVE  StatsInv'
<1>1. ASSUME NEW v \in Worker, work[v].pc \in Counting PROVE work[v].loaded \in Nat
  BY <1>1, WorkerType DEF Counting, JobPcs, Approving, Vetoing, Job
<1>0. \A n \in Nat : (n <= Approvals => n <= Approvals') /\ (n <= Vetoes => n <= Vetoes')
  BY AtMost, Zenon
<1>2. ASSUME NEW v \in Worker, work'[v].pc = "count approval" PROVE work'[v].loaded <= Approvals'
  <2>1. CASE v = w
    BY <1>2, <2>1
  <2>2. CASE v # w
    <3>1. work'[v] = work[v] /\ work[v].loaded \in Nat
      BY <1>1, <1>2, <2>2 DEF Counting
    <3>2. work[v].loaded <= Approvals
      BY <1>2, <3>1 DEF StatsInv, WorkersAt
    <3> QED BY ONLY <1>0, <3>1, <3>2
  <2> QED BY <2>1, <2>2
<1>3. ASSUME NEW v \in Worker, work'[v].pc = "count veto" PROVE work'[v].loaded <= Vetoes'
  <2>1. CASE v = w
    BY <1>3, <2>1
  <2>2. CASE v # w
    <3>1. work'[v] = work[v] /\ work[v].loaded \in Nat
      BY <1>1, <1>3, <2>2 DEF Counting
    <3>2. work[v].loaded <= Vetoes
      BY <1>3, <3>1 DEF StatsInv, WorkersAt
    <3> QED BY ONLY <1>0, <3>1, <3>2
  <2> QED BY <2>1, <2>2
<1> QED BY <1>2, <1>3 DEF StatsInv, WorkersAt

(* A step that neither counts nor moves a worker that does. *)
LEMMA StatsQuiet ==
  ASSUME StatsInv, UNCHANGED stats, IsFiniteSet(answers'),
         AnswersOf("APPROVED")' = AnswersOf("APPROVED"),
         \A v \in Worker : \/ work'[v].pc = work[v].pc /\ work'[v].loaded = work[v].loaded
                           \/ work[v].pc \notin Counting /\ work'[v].pc \notin Counting
  PROVE  StatsInv'
<1>1. ASSUME NEW pc \in Counting PROVE WorkersAt(pc)' = WorkersAt(pc)
  BY DEF WorkersAt
<1>2. /\ WorkersAt("approve")' = WorkersAt("approve") /\ WorkersAt("append")' = WorkersAt("append")
      /\ WorkersAt("count approval")' = WorkersAt("count approval")
      /\ WorkersAt("count veto")' = WorkersAt("count veto")
  BY <1>1 DEF Counting
<1>3. Approvals' = Approvals /\ Vetoes' = Vetoes
  BY <1>2 DEF Approvals, Vetoes, stats
<1>4. \A w \in WorkersAt("count approval") \cup WorkersAt("count veto") :
         work'[w].loaded = work[w].loaded
  BY DEF WorkersAt, Counting
<1> HIDE DEF Approvals, Vetoes
<1>5. approval_count' <= Approvals' /\ veto_count' <= Vetoes'
  BY <1>3 DEF StatsInv, stats
<1>6. \A w \in WorkersAt("count approval")' : work'[w].loaded <= Approvals'
  BY <1>2, <1>3, <1>4 DEF StatsInv
<1>7. \A w \in WorkersAt("count veto")' : work'[w].loaded <= Vetoes'
  BY <1>2, <1>3, <1>4 DEF StatsInv
<1> QED BY <1>5, <1>6, <1>7 DEF StatsInv


CountInv == SupervisorInv /\ CommandInv /\ Numbered /\ StatsInv

LEMMA MoreAnswers ==
  ASSUME StatsInv, answers' = answers \/ \E a : answers' = answers \cup {a}
  PROVE  IsFiniteSet(answers')
BY FS_AddElement DEF StatsInv

(* A step after which every worker holds what it held, and none counts.    *)
LEMMA QuietStep ==
  ASSUME CountInv, UNCHANGED <<stats, proposals, unanswered>>,
         \/ answers' = answers
         \/ \E a : answers' = answers \cup {a} /\ ~ IsCommand(a),
         \A v \in Worker : /\ Held(work'[v]) = Held(work[v])
                           /\ work'[v].pc \in JobPcs => work[v].pc \in JobPcs,
         \A v \in Worker : \/ work'[v].pc = work[v].pc /\ work'[v].loaded = work[v].loaded
                           \/ work[v].pc \notin Counting /\ work'[v].pc \notin Counting
  PROVE  CommandInv' /\ Numbered' /\ StatsInv'
<1>1. \A a : IsCommand(a) => (a \in answers' <=> a \in answers)
  OBVIOUS
<1>2. CommandInv'
  BY <1>1, CommandsQuiet DEF CountInv
<1>3. Numbered'
  BY DEF CountInv, Numbered, Held
<1>4. AnswersOf("APPROVED")' = AnswersOf("APPROVED")
  BY <1>1 DEF AnswersOf, IsCommand
<1>5. IsFiniteSet(answers')
  BY MoreAnswers DEF CountInv
<1>6. StatsInv'
  BY <1>4, <1>5, StatsQuiet DEF CountInv
<1> QED BY <1>2, <1>3, <1>6

LEMMA QuietMove ==
  ASSUME CountInv, UNCHANGED <<stats, proposals, unanswered>>,
         \/ answers' = answers
         \/ \E a : answers' = answers \cup {a} /\ ~ IsCommand(a),
         NEW w \in Worker, NEW to, With(w, to),
         \/ /\ work[w].pc \in JobPcs \ Counting /\ to.pc \in JobPcs \ Counting
            /\ to.id = work[w].id
         \/ work[w].pc \in {"idle", "create", "update"} /\ to.pc \in {"idle", "create", "update"}
  PROVE  CommandInv' /\ Numbered' /\ StatsInv'
<1>1. work'[w] = to /\ \A v \in Worker \ {w} : work'[v] = work[v]
  BY MoveOne DEF CountInv, SupervisorInv
<1>2. Held(to) = Held(work[w]) /\ (to.pc \in JobPcs => work[w].pc \in JobPcs)
  BY DEF Held, JobPcs, Approving, Vetoing
<1>3. work[w].pc \notin Counting /\ to.pc \notin Counting
  BY DEF Counting
<1>4. \A v \in Worker : /\ Held(work'[v]) = Held(work[v])
                        /\ work'[v].pc \in JobPcs => work[v].pc \in JobPcs
  BY <1>1, <1>2
<1>5. \A v \in Worker : \/ work'[v].pc = work[v].pc /\ work'[v].loaded = work[v].loaded
                        \/ work[v].pc \notin Counting /\ work'[v].pc \notin Counting
  BY <1>1, <1>3
<1> QED BY <1>4, <1>5, QuietStep

(* A worker drops its proposal: the evaluation raised. *)
LEMMA RaisedStep ==
  ASSUME CountInv, NEW w \in Worker, work[w].pc \in JobPcs \ Counting, With(w, Idle),
         UNCHANGED <<stats, proposals, answers>>, unanswered' = unanswered \cup {work[w].id}
  PROVE  CommandInv' /\ Numbered' /\ StatsInv'
<1>1. work'[w] = Idle /\ \A v \in Worker \ {w} : work'[v] = work[v]
  BY MoveOne DEF CountInv, SupervisorInv
<1>2. Held(work[w]) = work[w].id /\ Held(work[w]) # 0
  BY HeldId DEF CountInv, SupervisorInv, Numbered
<1>3. Held(work'[w]) = 0 /\ work'[w].pc \notin JobPcs \cup Counting
  <2>1. Held(Idle) = 0 /\ Idle.pc \notin JobPcs \cup Counting
    BY NothingHeld DEF Idle, JobPcs, Approving, Vetoing, Counting
  <2> QED BY <1>1, <2>1
<1>4. CommandInv'
  <2>1. unanswered' = unanswered \cup {Held(work[w])} /\ answers' = answers
    BY <1>2
  <2>2. \A v \in Worker \ {w} : Held(work'[v]) = Held(work[v])
    BY <1>1
  <2>3. proposals \in Nat
    BY DEF CountInv, SupervisorInv, SupervisorTypeOK
  <2> QED BY <1>2, <1>3, <2>1, <2>2, <2>3, CommandsEnd DEF CountInv
<1>5. Numbered'
  BY <1>1, <1>3 DEF CountInv, Numbered, Held
<1>6. StatsInv'
  <2>1. \A v \in Worker : \/ work'[v].pc = work[v].pc /\ work'[v].loaded = work[v].loaded
                          \/ work[v].pc \notin Counting /\ work'[v].pc \notin Counting
    BY <1>1, <1>3
  <2>2. AnswersOf("APPROVED")' = AnswersOf("APPROVED")
    BY DEF AnswersOf
  <2> QED BY <2>1, <2>2, MoreAnswers, StatsQuiet DEF CountInv
<1> QED BY <1>4, <1>5, <1>6

LEMMA ReadCounts ==
  ASSUME CountInv, NEW w \in Worker, Read(w) \/ ReadFallback(w)
  PROVE  CommandInv' /\ Numbered' /\ StatsInv'
<1> DEFINE job == work[w]
<1>1. job.pc \in {"judge", "fallback"} /\ job \in Job
  BY WorkerType DEF Read, Judging, ReadFallback, CountInv, SupervisorInv, JobPcs
<1>2. UNCHANGED <<stats, proposals, answers>>
  BY DEF Read, ReadFallback
<1>3. job.pc \in JobPcs \ Counting
  BY <1>1 DEF JobPcs, Counting
<1>4. ASSUME NEW to, With(w, to), to.pc \in {"judge", "fallback", "approved", "vetoed"},
             to.id = job.id, unanswered' = unanswered
      PROVE  CommandInv' /\ Numbered' /\ StatsInv'
  <2>1. to.pc \in JobPcs \ Counting
    BY <1>4 DEF JobPcs, Counting, Approving, Vetoing
  <2> QED BY <1>2, <1>3, <1>4, <2>1, QuietMove
<1>5. CASE Read(w)
  <2> DEFINE reads == Reads(job.action)
             seen == Seen(w, reads[job.step + 1])
             reason == Verdict(job.action, seen)
  <2>1. \/ unanswered' = unanswered \cup {job.id} /\ With(w, Idle)
        \/ /\ With(w, [job EXCEPT !.pc = "fallback", !.step = 0, !.seen = <<>>, !.reason = reason])
           /\ unanswered' = unanswered
        \/ /\ With(w, [job EXCEPT !.pc = IF job.step + 1 = Len(reads) THEN "approved" ELSE @,
                                  !.step = @ + 1, !.seen = seen])
           /\ unanswered' = unanswered
    BY <1>5 DEF Read
  <2>2. CASE unanswered' = unanswered \cup {job.id} /\ With(w, Idle)
    BY <1>2, <1>3, <2>2, RaisedStep
  <2>3. ASSUME NEW to, With(w, to), unanswered' = unanswered,
               to = [job EXCEPT !.pc = "fallback", !.step = 0, !.seen = <<>>, !.reason = reason]
        PROVE  CommandInv' /\ Numbered' /\ StatsInv'
    <3>1. to.pc = "fallback" /\ to.id = job.id
      BY <1>1, <2>3 DEF Job
    <3> QED BY <1>4, <2>3, <3>1
  <2>4. ASSUME NEW to, With(w, to), unanswered' = unanswered,
               to = [job EXCEPT !.pc = IF job.step + 1 = Len(reads) THEN "approved" ELSE @,
                                !.step = @ + 1, !.seen = seen]
        PROVE  CommandInv' /\ Numbered' /\ StatsInv'
    <3>1. to.pc \in {"approved", job.pc} /\ to.id = job.id
      BY <1>1, <2>4 DEF Job
    <3> QED BY <1>1, <1>4, <2>4, <3>1
  <2> QED BY <2>1, <2>2, <2>3, <2>4
<1>6. CASE ReadFallback(w)
  <2> DEFINE seen == Seen(w, FallbackReads(job.reason)[job.step + 1])
  <2>1. \/ unanswered' = unanswered \cup {job.id} /\ With(w, Idle)
        \/ With(w, [job EXCEPT !.pc = "vetoed"]) /\ unanswered' = unanswered
        \/ With(w, [job EXCEPT !.step = @ + 1, !.seen = seen]) /\ unanswered' = unanswered
    BY <1>6 DEF ReadFallback
  <2>2. CASE unanswered' = unanswered \cup {job.id} /\ With(w, Idle)
    BY <1>2, <1>3, <2>2, RaisedStep
  <2>3. ASSUME NEW to, to = [job EXCEPT !.pc = "vetoed"], With(w, to), unanswered' = unanswered
        PROVE  CommandInv' /\ Numbered' /\ StatsInv'
    <3>1. to.pc = "vetoed" /\ to.id = job.id
      BY <1>1, <2>3 DEF Job
    <3> QED BY <1>4, <2>3, <3>1
  <2>4. ASSUME NEW to, to = [job EXCEPT !.step = @ + 1, !.seen = seen], With(w, to),
               unanswered' = unanswered
        PROVE  CommandInv' /\ Numbered' /\ StatsInv'
    <3>1. to.pc = job.pc /\ to.id = job.id
      BY <1>1, <2>4 DEF Job
    <3> QED BY <1>1, <1>4, <2>4, <3>1
  <2> QED BY <2>1, <2>2, <2>3, <2>4
<1> QED BY <1>5, <1>6


(* A proposal that is ignored is the only one of its number. *)
LEMMA IgnoreCounts ==
  ASSUME CountInv, NEW w \in Worker, IgnoreProposal(w)
  PROVE  CommandInv' /\ Numbered' /\ StatsInv'
<1>1. /\ proposals' = proposals + 1 /\ unanswered' = unanswered \cup {proposals + 1}
      /\ UNCHANGED <<stats, answers, work>>
  BY DEF IgnoreProposal
<1>2. proposals \in Nat
  BY DEF CountInv, SupervisorInv, SupervisorTypeOK
<1>3. \A v \in Worker : /\ Held(work[v]) \in 0..proposals /\ Held(work[v]) \notin unanswered
                        /\ Held(work'[v]) = Held(work[v])
  BY <1>1 DEF CountInv, CommandInv
<1>4. CommandInv'
  <2>1. \A v \in Worker : Held(work'[v]) \in 0..proposals' /\ Held(work'[v]) \notin unanswered'
    BY <1>1, <1>2, <1>3
  <2>2. \A u, v \in Worker : Held(work'[u]) # 0 /\ Held(work'[u]) = Held(work'[v]) => u = v
    BY <1>3 DEF CountInv, CommandInv
  <2>3. unanswered' \subseteq 1..proposals'
    BY <1>1, <1>2 DEF CountInv, CommandInv
  <2>4. \A a \in answers' : IsCommand(a) =>
          /\ a.id \in 1..proposals' /\ a.id \notin unanswered'
          /\ \A v \in Worker : Held(work'[v]) # a.id
          /\ \A b \in answers' : IsCommand(b) /\ b.id = a.id => b = a
    BY <1>1, <1>2, <1>3 DEF CountInv, CommandInv
  <2>5. ASSUME NEW id \in 1..proposals'
        PROVE  \/ \E v \in Worker : Held(work'[v]) = id
               \/ \E a \in answers' : IsCommand(a) /\ a.id = id
               \/ id \in unanswered'
    <3>1. CASE id = proposals + 1
      BY <1>1, <3>1
    <3>2. CASE id # proposals + 1
      <4>1. id \in 1..proposals
        BY <1>1, <1>2, <3>2
      <4> QED BY <1>1, <1>3, <4>1 DEF CountInv, CommandInv
    <3> QED BY <3>1, <3>2
  <2> QED BY <2>1, <2>2, <2>3, <2>4, <2>5 DEF CommandInv, Held, IsCommand
<1>5. Numbered'
  BY <1>1 DEF CountInv, Numbered, Held
<1>6. StatsInv'
  <2>1. AnswersOf("APPROVED")' = AnswersOf("APPROVED")
    BY <1>1 DEF AnswersOf
  <2>2. \A v \in Worker : work'[v].pc = work[v].pc /\ work'[v].loaded = work[v].loaded
    BY <1>1
  <2> QED BY <1>1, <2>1, <2>2, MoreAnswers, StatsQuiet DEF CountInv
<1> QED BY <1>4, <1>5, <1>6

LEMMA ProposeCounts ==
  ASSUME CountInv, NEW w \in Worker, NEW unit \in Unit, NEW action \in Actions,
         Propose(w, unit, action)
  PROVE  CommandInv' /\ Numbered' /\ StatsInv'
<1>1. PICK to : /\ With(w, to) /\ to.pc \in {"judge", "fallback"} /\ to.id = proposals + 1
      BY DEF Propose
<1>2. /\ work[w].pc = "idle" /\ proposals' = proposals + 1
      /\ UNCHANGED <<stats, answers, unanswered>>
  BY DEF Propose
<1>3. work'[w] = to /\ \A v \in Worker \ {w} : work'[v] = work[v]
  BY <1>1, MoveOne DEF CountInv, SupervisorInv
<1>4. Held(work[w]) = 0 /\ Held(work'[w]) = proposals + 1
  BY <1>1, <1>2, <1>3, NothingHeld DEF Held, JobPcs
<1>5. proposals \in Nat
  BY DEF CountInv, SupervisorInv, SupervisorTypeOK
<1>6. CommandInv'
  <2>1. \A v \in Worker \ {w} : Held(work'[v]) = Held(work[v])
    BY <1>3
  <2> QED BY <1>2, <1>4, <1>5, <2>1, CommandsPropose DEF CountInv
<1>7. Numbered'
  <2>1. \A v \in Worker : v # w => work'[v] = work[v]
    BY <1>3
  <2>2. Held(work'[w]) # 0
    BY <1>4, <1>5
  <2> QED BY <2>1, <2>2 DEF CountInv, Numbered, Held
<1>8. StatsInv'
  <2>1. work[w].pc \notin Counting /\ work'[w].pc \notin Counting
    BY <1>1, <1>2, <1>3 DEF Counting
  <2>2. \A v \in Worker : \/ work'[v].pc = work[v].pc /\ work'[v].loaded = work[v].loaded
                          \/ work[v].pc \notin Counting /\ work'[v].pc \notin Counting
    BY <1>3, <2>1
  <2>3. AnswersOf("APPROVED")' = AnswersOf("APPROVED")
    BY <1>2 DEF AnswersOf
  <2> QED BY <1>2, <2>2, <2>3, MoreAnswers, StatsQuiet DEF CountInv
<1> QED BY <1>6, <1>7, <1>8

(* What there is to count, in numbers. *)
LEMMA TypedCounts ==
  ASSUME CountInv, NEW w \in Worker, NEW to, With(w, to)
  PROVE  /\ work'[w] = to /\ \A v \in Worker \ {w} : work'[v] = work[v]
         /\ Cardinality(AnswersOf("APPROVED")) \in Nat /\ Len(veto_history) \in Nat
         /\ Cardinality(WorkersAt("approve")) \in Nat /\ Cardinality(WorkersAt("approve"))' \in Nat
         /\ Cardinality(WorkersAt("append")) \in Nat /\ Cardinality(WorkersAt("append"))' \in Nat
         /\ (work[w].pc = "approve" <=> to.pc = "approve") =>
               Cardinality(WorkersAt("approve"))' = Cardinality(WorkersAt("approve"))
         /\ (work[w].pc = "append" <=> to.pc = "append") =>
               Cardinality(WorkersAt("append"))' = Cardinality(WorkersAt("append"))
         /\ work[w].pc # "approve" /\ to.pc = "approve" =>
               Cardinality(WorkersAt("approve"))' = Cardinality(WorkersAt("approve")) + 1
         /\ work[w].pc # "append" /\ to.pc = "append" =>
               Cardinality(WorkersAt("append"))' = Cardinality(WorkersAt("append")) + 1
         /\ work[w].pc = "approve" /\ to.pc # "approve" =>
               Cardinality(WorkersAt("approve"))' = Cardinality(WorkersAt("approve")) - 1
         /\ work[w].pc = "append" /\ to.pc # "append" =>
               Cardinality(WorkersAt("append"))' = Cardinality(WorkersAt("append")) - 1
<1>1. work'[w] = to /\ \A v \in Worker \ {w} : work'[v] = work[v]
  BY MoveOne DEF CountInv, SupervisorInv
<1>2. \A v \in Worker \ {w} : work'[v].pc = work[v].pc
  BY <1>1
<1>3. Cardinality(AnswersOf("APPROVED")) \in Nat
  BY ApprovedAnswers DEF CountInv
<1>4. Len(veto_history) \in Nat
  BY DEF CountInv, SupervisorInv, SupervisorTypeOK
<1> QED BY <1>1, <1>2, <1>3, <1>4, WorkersMove

(* A worker that keeps its proposal while it counts. *)
LEMMA KeptProposal ==
  ASSUME CountInv, NEW w \in Worker, NEW to, With(w, to), work[w].pc \in JobPcs,
         to.pc \in JobPcs, to.id = work[w].id, UNCHANGED <<proposals, unanswered, answers>>
  PROVE  CommandInv' /\ Numbered'
<1>1. work'[w] = to /\ \A v \in Worker \ {w} : work'[v] = work[v]
  BY MoveOne DEF CountInv, SupervisorInv
<1>2. Held(to) = Held(work[w])
  BY DEF Held
<1>3. \A v \in Worker : Held(work'[v]) = Held(work[v])
  BY <1>1, <1>2
<1>4. CommandInv'
  BY <1>3, CommandsQuiet DEF CountInv
<1>5. \A v \in Worker : work'[v].pc \in JobPcs => work[v].pc \in JobPcs
  BY <1>1
<1> QED BY <1>3, <1>4, <1>5 DEF CountInv, Numbered, Held

LEMMA LoadCounts ==
  ASSUME CountInv, NEW w \in Worker, LoadCount(w)
  PROVE  CommandInv' /\ Numbered' /\ StatsInv'
<1> DEFINE job == work[w]
<1>1. job.pc \in {"approved", "vetoed"} /\ job \in Job
  BY WorkerType DEF LoadCount, CountInv, SupervisorInv, JobPcs, Approving, Vetoing
<1>2. UNCHANGED <<proposals, unanswered, answers>>
      /\ approval_count' = approval_count /\ veto_count' = veto_count /\ veto_history' = veto_history
  BY DEF LoadCount, stats
<1>3. PICK to : /\ With(w, to)
                /\ \/ to = [job EXCEPT !.pc = "count approval", !.loaded = approval_count]
                   \/ to = [job EXCEPT !.pc = "count veto", !.loaded = veto_count]
  BY DEF LoadCount
<1>4. /\ to.id = job.id
      /\ \/ to.pc = "count approval" /\ to.loaded = approval_count
         \/ to.pc = "count veto" /\ to.loaded = veto_count
  BY <1>1, <1>3 DEF Job
<1>5. CommandInv' /\ Numbered'
  <2>1. job.pc \in JobPcs /\ to.pc \in JobPcs
    BY <1>1, <1>4 DEF JobPcs, Approving, Vetoing
  <2> QED BY <1>2, <1>3, <1>4, <2>1, KeptProposal
<1>6. /\ Cardinality(WorkersAt("approve"))' = Cardinality(WorkersAt("approve"))
      /\ Cardinality(WorkersAt("append"))' = Cardinality(WorkersAt("append"))
      /\ Cardinality(WorkersAt("approve")) \in Nat /\ Cardinality(WorkersAt("append")) \in Nat
      /\ Cardinality(AnswersOf("APPROVED")) \in Nat /\ Len(veto_history) \in Nat
      /\ work'[w] = to /\ \A v \in Worker \ {w} : work'[v] = work[v]
  BY <1>1, <1>3, <1>4, TypedCounts
<1>7. AnswersOf("APPROVED")' = AnswersOf("APPROVED")
  BY <1>2 DEF AnswersOf
<1>8. /\ Approvals' = Approvals /\ Vetoes' = Vetoes
      /\ Approvals \in Nat /\ Vetoes \in Nat
  BY <1>2, <1>6, <1>7 DEF Approvals, Vetoes
<1>9. approval_count <= Approvals /\ veto_count <= Vetoes
  BY DEF CountInv, StatsInv
<1>10. StatsInv'
  <2>1. IsFiniteSet(answers')
    BY <1>2 DEF CountInv, StatsInv
  <2>2. work'[w].pc = "count approval" => work'[w].loaded <= Approvals'
    BY <1>4, <1>6, <1>8, <1>9
  <2>3. work'[w].pc = "count veto" => work'[w].loaded <= Vetoes'
    BY <1>4, <1>6, <1>8, <1>9
  <2>4. Approvals <= Approvals' /\ Vetoes <= Vetoes'
    BY <1>8
  <2>5. Approvals' \in Nat /\ Vetoes' \in Nat
        /\ approval_count' <= Approvals' /\ veto_count' <= Vetoes'
    BY <1>2, <1>8, <1>9
  <2> QED BY <1>6, <1>8, <2>1, <2>2, <2>3, <2>4, <2>5, StatsGrow DEF CountInv, SupervisorInv
<1> QED BY <1>5, <1>10


(* What was loaded was at most what there was to count; now it is one more. *)
LEMMA StoreCounts ==
  ASSUME CountInv, NEW w \in Worker, StoreCount(w)
  PROVE  CommandInv' /\ Numbered' /\ StatsInv'
<1> DEFINE job == work[w]
<1>1. job.pc \in {"count approval", "count veto"} /\ job \in Job
  BY WorkerType DEF StoreCount, CountInv, SupervisorInv, JobPcs, Approving, Vetoing
<1>2. UNCHANGED <<proposals, unanswered, answers, veto_history>>
  BY DEF StoreCount
<1>3. PICK to : /\ With(w, to)
                /\ \/ /\ job.pc = "count approval" /\ to = [job EXCEPT !.pc = "approve"]
                      /\ approval_count' = job.loaded + 1 /\ veto_count' = veto_count
                   \/ /\ job.pc = "count veto" /\ to = [job EXCEPT !.pc = "append"]
                      /\ veto_count' = job.loaded + 1 /\ approval_count' = approval_count
  BY DEF StoreCount
<1>4. to.id = job.id /\ job.loaded \in Nat
      /\ to.pc = (IF job.pc = "count approval" THEN "approve" ELSE "append")
  BY <1>1, <1>3 DEF Job
<1>5. CommandInv' /\ Numbered'
  <2>1. job.pc \in JobPcs /\ to.pc \in JobPcs
    BY <1>1, <1>4 DEF JobPcs, Approving, Vetoing
  <2> QED BY <1>2, <1>3, <1>4, <2>1, KeptProposal
<1>6. /\ Cardinality(WorkersAt("approve")) \in Nat /\ Cardinality(WorkersAt("append")) \in Nat
      /\ Cardinality(AnswersOf("APPROVED")) \in Nat /\ Len(veto_history) \in Nat
      /\ work'[w] = to /\ \A v \in Worker \ {w} : work'[v] = work[v]
      /\ \/ /\ to.pc = "approve"
            /\ Cardinality(WorkersAt("approve"))' = Cardinality(WorkersAt("approve")) + 1
            /\ Cardinality(WorkersAt("append"))' = Cardinality(WorkersAt("append"))
         \/ /\ to.pc = "append"
            /\ Cardinality(WorkersAt("approve"))' = Cardinality(WorkersAt("approve"))
            /\ Cardinality(WorkersAt("append"))' = Cardinality(WorkersAt("append")) + 1
  <2>1. CASE job.pc = "count approval"
    <3>1. to.pc = "approve" /\ job.pc # "approve" /\ job.pc # "append"
      BY <1>4, <2>1
    <3>2. /\ Cardinality(WorkersAt("approve"))' = Cardinality(WorkersAt("approve")) + 1
          /\ Cardinality(WorkersAt("append"))' = Cardinality(WorkersAt("append"))
      BY <1>3, <3>1, TypedCounts
    <3> QED BY <1>3, <3>1, <3>2, TypedCounts
  <2>2. CASE job.pc = "count veto"
    <3>1. to.pc = "append" /\ job.pc # "approve" /\ job.pc # "append"
      BY <1>4, <2>2
    <3>2. /\ Cardinality(WorkersAt("approve"))' = Cardinality(WorkersAt("approve"))
          /\ Cardinality(WorkersAt("append"))' = Cardinality(WorkersAt("append")) + 1
      BY <1>3, <3>1, TypedCounts
    <3> QED BY <1>3, <3>1, <3>2, TypedCounts
  <2> QED BY <1>1, <2>1, <2>2
<1>7. AnswersOf("APPROVED")' = AnswersOf("APPROVED")
  BY <1>2 DEF AnswersOf
<1>8. /\ \/ to.pc = "approve" /\ Approvals' = Approvals + 1 /\ Vetoes' = Vetoes
         \/ to.pc = "append" /\ Approvals' = Approvals /\ Vetoes' = Vetoes + 1
      /\ Approvals \in Nat /\ Vetoes \in Nat
  BY <1>2, <1>6, <1>7 DEF Approvals, Vetoes
<1>9. /\ approval_count <= Approvals /\ veto_count <= Vetoes
      /\ job.pc = "count approval" => job.loaded <= Approvals
      /\ job.pc = "count veto" => job.loaded <= Vetoes
      /\ approval_count \in Nat /\ veto_count \in Nat
  BY DEF CountInv, StatsInv, WorkersAt, SupervisorInv, SupervisorTypeOK
<1>10. StatsInv'
  <2>1. IsFiniteSet(answers')
    BY <1>2 DEF CountInv, StatsInv
  <2>2. work'[w].pc # "count approval" /\ work'[w].pc # "count veto"
    BY <1>4, <1>6
  <2>3. /\ Approvals <= Approvals' /\ Vetoes <= Vetoes'
        /\ Approvals' \in Nat /\ Vetoes' \in Nat
    BY ONLY <1>8
  <2>4. approval_count' <= Approvals' /\ veto_count' <= Vetoes'
    <3>1. CASE job.pc = "count approval"
      <4>1. approval_count' = job.loaded + 1 /\ veto_count' = veto_count /\ to.pc = "approve"
        BY <1>3, <1>4, <3>1
      <4>2. Approvals' = Approvals + 1 /\ Vetoes' = Vetoes
        BY <1>8, <4>1
      <4>3. job.loaded <= Approvals
        BY <1>9, <3>1
      <4>4. job.loaded + 1 <= Approvals + 1
        BY <1>4, <1>8, <4>3, OneMore, Zenon
      <4> QED BY <1>9, <4>1, <4>2, <4>4
    <3>2. CASE job.pc = "count veto"
      <4>1. veto_count' = job.loaded + 1 /\ approval_count' = approval_count /\ to.pc = "append"
        BY <1>3, <1>4, <3>2
      <4>2. Vetoes' = Vetoes + 1 /\ Approvals' = Approvals
        BY <1>8, <4>1
      <4>3. job.loaded <= Vetoes
        BY <1>9, <3>2
      <4>4. job.loaded + 1 <= Vetoes + 1
        BY <1>4, <1>8, <4>3, OneMore, Zenon
      <4> QED BY <1>9, <4>1, <4>2, <4>4
    <3> QED BY <1>1, <3>1, <3>2
  <2> QED BY <1>6, <1>8, <2>1, <2>2, <2>3, <2>4, StatsGrow DEF CountInv, SupervisorInv
<1> QED BY <1>5, <1>10

LEMMA AppendCounts ==
  ASSUME CountInv, NEW w \in Worker, AppendVeto(w)
  PROVE  CommandInv' /\ Numbered' /\ StatsInv'
<1> DEFINE job == work[w]
<1>1. job.pc = "append" /\ job \in Job
  BY WorkerType DEF AppendVeto, CountInv, SupervisorInv, JobPcs, Approving, Vetoing
<1>2. UNCHANGED <<proposals, unanswered, answers, approval_count, veto_count>>
      /\ veto_history' = Append(veto_history, job.reason)
  BY DEF AppendVeto
<1>3. PICK to : With(w, to) /\ to = [job EXCEPT !.pc = "report", !.mark = Len(veto_history) + 1]
  BY DEF AppendVeto
<1>4. to.id = job.id /\ to.pc = "report"
  BY <1>1, <1>3 DEF Job
<1>5. CommandInv' /\ Numbered'
  <2>1. job.pc \in JobPcs /\ to.pc \in JobPcs
    BY <1>1, <1>4 DEF JobPcs, Approving, Vetoing
  <2> QED BY <1>2, <1>3, <1>4, <2>1, KeptProposal
<1>6. /\ Cardinality(WorkersAt("approve")) \in Nat /\ Cardinality(WorkersAt("append")) \in Nat
      /\ Cardinality(AnswersOf("APPROVED")) \in Nat /\ Len(veto_history) \in Nat
      /\ work'[w] = to /\ \A v \in Worker \ {w} : work'[v] = work[v]
      /\ Cardinality(WorkersAt("approve"))' = Cardinality(WorkersAt("approve"))
      /\ Cardinality(WorkersAt("append"))' = Cardinality(WorkersAt("append")) - 1
  BY <1>1, <1>3, <1>4, TypedCounts
<1>7. AnswersOf("APPROVED")' = AnswersOf("APPROVED") /\ Len(veto_history') = Len(veto_history) + 1
  BY <1>2 DEF AnswersOf, CountInv, SupervisorInv, SupervisorTypeOK
<1>8. /\ Approvals' = Approvals /\ Vetoes' = Vetoes
      /\ Approvals \in Nat /\ Vetoes \in Nat
  BY <1>6, <1>7 DEF Approvals, Vetoes
<1>9. StatsInv'
  <2>1. IsFiniteSet(answers')
    BY <1>2 DEF CountInv, StatsInv
  <2>2. work'[w].pc # "count approval" /\ work'[w].pc # "count veto"
    BY <1>4, <1>6
  <2>3. /\ Approvals <= Approvals' /\ Vetoes <= Vetoes'
        /\ Approvals' \in Nat /\ Vetoes' \in Nat
    BY <1>8
  <2>4. approval_count' <= Approvals' /\ veto_count' <= Vetoes'
    BY <1>2, <1>8 DEF CountInv, StatsInv
  <2> QED BY <1>6, <1>8, <2>1, <2>2, <2>3, <2>4, StatsGrow DEF CountInv, SupervisorInv
<1> QED BY <1>5, <1>9

(* The proposal is in no answer yet, so that the approval is a new one. *)
LEMMA CommandCounts ==
  ASSUME CountInv, NEW w \in Worker, Approve(w) \/ Substitute(w)
  PROVE  CommandInv' /\ Numbered' /\ StatsInv'
<1> DEFINE job == work[w]
<1>1. job.pc \in {"approve", "substitute"} /\ job.pc \in JobPcs
  BY DEF Approve, Substitute, JobPcs, Approving, Vetoing
<1>2. UNCHANGED <<proposals, unanswered, approval_count, veto_count, veto_history>> /\ With(w, Idle)
  BY DEF Approve, Substitute, stats
<1>3. PICK a : /\ answers' = answers \cup {a} /\ a.id = job.id
               /\ a.status = IF job.pc = "approve" THEN "APPROVED" ELSE "FALLBACK_SUBSTITUTED"
  <2>1. CASE Approve(w)
    <3>1. PICK a : a = Answer(w, "APPROVED", job.action, "NONE")
      OBVIOUS
    <3>2. answers' = answers \cup {a} /\ job.pc = "approve"
      BY <2>1, <3>1 DEF Approve
    <3>3. a.id = job.id /\ a.status = "APPROVED"
      BY <3>1 DEF Answer
    <3> QED BY <3>2, <3>3
  <2>2. CASE Substitute(w)
    <3>1. PICK a : a = Answer(w, "FALLBACK_SUBSTITUTED",
                              Manoeuvre(Fallback(job.reason, job.seen)), job.reason)
      OBVIOUS
    <3>2. answers' = answers \cup {a} /\ job.pc = "substitute"
      BY <2>2, <3>1 DEF Substitute
    <3>3. a.id = job.id /\ a.status = "FALLBACK_SUBSTITUTED"
      BY <3>1 DEF Answer
    <3> QED BY <3>2, <3>3
  <2> QED BY <2>1, <2>2
<1>4. Held(job) = job.id /\ Held(job) # 0
  BY <1>1, HeldId DEF CountInv, SupervisorInv, Numbered
<1>5. /\ work'[w] = Idle /\ \A v \in Worker \ {w} : work'[v] = work[v]
      /\ Cardinality(AnswersOf("APPROVED")) \in Nat /\ Len(veto_history) \in Nat
      /\ Cardinality(WorkersAt("approve")) \in Nat /\ Cardinality(WorkersAt("append")) \in Nat
      /\ Cardinality(WorkersAt("approve"))' =
            Cardinality(WorkersAt("approve")) - (IF job.pc = "approve" THEN 1 ELSE 0)
      /\ Cardinality(WorkersAt("approve"))' \in Nat
      /\ Cardinality(WorkersAt("append"))' = Cardinality(WorkersAt("append"))
  <2>1. Idle.pc = "idle"
    BY DEF Idle
  <2> QED BY <1>1, <1>2, <2>1, TypedCounts
<1>6. Held(Idle) = 0 /\ Idle.pc = "idle"
  BY NothingHeld DEF Idle
<1>7. CommandInv'
  <2>1. IsCommand(a)
    BY <1>3 DEF IsCommand
  <2>2. \A v \in Worker \ {w} : Held(work'[v]) = Held(work[v])
    BY <1>5
  <2>3. proposals \in Nat
    BY DEF CountInv, SupervisorInv, SupervisorTypeOK
  <2>4. unanswered' = unanswered /\ \E b : answers' = answers \cup {b} /\ IsCommand(b) /\ b.id = Held(work[w])
    BY <1>2, <1>3, <1>4, <2>1
  <2>5. Held(work[w]) # 0 /\ Held(work'[w]) = 0 /\ proposals' = proposals
    BY <1>2, <1>4, <1>5, <1>6
  <2> QED BY <2>2, <2>3, <2>4, <2>5, CommandsEnd DEF CountInv
<1>8. Numbered'
  <2>1. Idle.pc \notin JobPcs
    BY <1>6 DEF JobPcs, Approving, Vetoing
  <2> QED BY <1>5, <2>1 DEF CountInv, Numbered, Held
<1>9. a \notin answers
  <2>1. IsCommand(a)
    BY <1>3 DEF IsCommand
  <2> QED BY <1>3, <1>4, <2>1 DEF CountInv, CommandInv
<1>10. Cardinality(AnswersOf("APPROVED"))' =
          Cardinality(AnswersOf("APPROVED")) + (IF job.pc = "approve" THEN 1 ELSE 0)
  <2>1. IsFiniteSet(AnswersOf("APPROVED"))
    BY ApprovedAnswers DEF CountInv
  <2>2. CASE job.pc = "approve"
    <3>1. AnswersOf("APPROVED")' = AnswersOf("APPROVED") \cup {a} /\ a \notin AnswersOf("APPROVED")
      BY <1>3, <1>9, <2>2 DEF AnswersOf
    <3> QED BY <2>1, <2>2, <3>1, FS_AddElement
  <2>3. CASE job.pc # "approve"
    <3>1. AnswersOf("APPROVED")' = AnswersOf("APPROVED")
      BY <1>3, <2>3 DEF AnswersOf
    <3> QED BY <1>5, <2>3, <3>1
  <2> QED BY <2>2, <2>3
<1>11. /\ Approvals' = Approvals /\ Vetoes' = Vetoes
       /\ Approvals \in Nat /\ Vetoes \in Nat
  <2>1. Len(veto_history') = Len(veto_history)
    BY <1>2
  <2> QED BY <1>5, <1>10, <2>1 DEF Approvals, Vetoes
<1>12. StatsInv'
  <2>1. IsFiniteSet(answers')
    BY <1>3, MoreAnswers DEF CountInv
  <2>2. work'[w].pc # "count approval" /\ work'[w].pc # "count veto"
    BY <1>5, <1>6
  <2>3. /\ Approvals <= Approvals' /\ Vetoes <= Vetoes'
        /\ Approvals' \in Nat /\ Vetoes' \in Nat
    BY <1>11
  <2>4. approval_count' <= Approvals' /\ veto_count' <= Vetoes'
    BY <1>2, <1>11 DEF CountInv, StatsInv
  <2> QED BY <1>5, <1>11, <2>1, <2>2, <2>3, <2>4, StatsGrow DEF CountInv, SupervisorInv
<1> QED BY <1>7, <1>8, <1>12


LEMMA ReportCounts ==
  ASSUME CountInv, NEW w \in Worker, ReportVeto(w)
  PROVE  CommandInv' /\ Numbered' /\ StatsInv'
<1> DEFINE job == work[w]
<1>1. job.pc = "report" /\ job \in Job
  BY WorkerType DEF ReportVeto, CountInv, SupervisorInv, JobPcs, Vetoing
<1>2. PICK to : With(w, to) /\ to = [job EXCEPT !.pc = "substitute"]
  BY DEF ReportVeto
<1>3. to.pc = "substitute" /\ to.id = job.id
  BY <1>1, <1>2 DEF Job
<1>4. job.pc \in JobPcs \ Counting /\ to.pc \in JobPcs \ Counting
  BY <1>1, <1>3 DEF JobPcs, Vetoing, Counting
<1>5. PICK a : a = Answer(w, "VETOED", job.action, veto_history[Len(veto_history)])
  OBVIOUS
<1>6. answers' = answers \cup {a} /\ UNCHANGED <<stats, proposals, unanswered>>
  BY <1>5 DEF ReportVeto
<1>7. ~ IsCommand(a)
  BY <1>5 DEF Answer, IsCommand
<1> HIDE DEF job
<1> QED BY <1>2, <1>3, <1>4, <1>6, <1>7, QuietMove DEF job

LEMMA HearingCounts ==
  ASSUME CountInv, NEW w \in Worker,
         \/ CreateState(w)
         \/ \E unit \in Unit, payload \in KinematicsReport : HearKinematics(w, unit, payload)
  PROVE  CommandInv' /\ Numbered' /\ StatsInv'
<1>1. UNCHANGED <<stats, proposals, unanswered, answers>>
  BY DEF CreateState, HearKinematics
<1>2. \E to : /\ With(w, to)
              /\ work[w].pc \in {"idle", "create", "update"} /\ to.pc \in {"idle", "create", "update"}
  <2>1. CASE CreateState(w)
    <3>1. work[w] \in Hearing /\ work[w].pc = "create" /\ With(w, [work[w] EXCEPT !.pc = "update"])
      BY <2>1, WorkerType DEF CreateState, CountInv, SupervisorInv
    <3>2. [work[w] EXCEPT !.pc = "update"].pc = "update"
      BY <3>1 DEF Hearing
    <3> QED BY <3>1, <3>2
  <2>2. ASSUME NEW unit \in Unit, NEW payload \in KinematicsReport, HearKinematics(w, unit, payload)
        PROVE  \E to : /\ With(w, to)
                       /\ work[w].pc \in {"idle", "create", "update"}
                       /\ to.pc \in {"idle", "create", "update"}
    BY <2>2 DEF HearKinematics
  <2> QED BY <2>1, <2>2
<1> QED BY <1>1, <1>2, QuietMove

(* The triggers that a judging worker witnesses are nothing it counts.     *)
LEMMA WitnessedCounts ==
  ASSUME CountInv, NEW v \in Worker, NEW at, NEW state, NEW to, to = Witnessed(at, state)[v]
  PROVE  /\ Held(to) = Held(work[v]) /\ to.pc = work[v].pc
         /\ to.pc \in Counting => to.loaded = work[v].loaded
<1>1. CASE work[v].pc \in {"judge", "fallback"} /\ work[v].judged = at
  <2>1. work[v] \in Job
    BY <1>1, WorkerType DEF CountInv, SupervisorInv, JobPcs
  <2>2. to = [work[v] EXCEPT !.on = @ \cup On(state)]
    BY <1>1 DEF Witnessed
  <2>3. to.pc = work[v].pc /\ to.id = work[v].id
    BY <2>1, <2>2 DEF Job
  <2>4. to.pc \notin Counting
    BY <1>1, <2>3 DEF Counting
  <2> QED BY <2>3, <2>4 DEF Held
<1>2. CASE ~ (work[v].pc \in {"judge", "fallback"} /\ work[v].judged = at)
  <2>1. to = work[v]
    BY <1>2 DEF Witnessed
  <2> QED BY <2>1
<1> QED BY <1>1, <1>2

LEMMA UpdateCounts ==
  ASSUME CountInv, UNCHANGED <<stats, proposals, unanswered, answers>>,
         NEW at, NEW state,
         \A v \in Worker : \/ work'[v] = Witnessed(at, state)[v]
                           \/ work[v].pc = "update" /\ work'[v] = Idle
  PROVE  CommandInv' /\ Numbered' /\ StatsInv'
<1>1. Held(Idle) = 0 /\ Idle.pc = "idle" /\ Idle.pc \notin JobPcs \cup Counting
  BY NothingHeld DEF Idle, JobPcs, Approving, Vetoing, Counting
<1>2. ASSUME NEW v \in Worker
      PROVE  /\ Held(work'[v]) = Held(work[v])
             /\ work'[v].pc \in JobPcs => work[v].pc \in JobPcs
             /\ \/ work'[v].pc = work[v].pc /\ work'[v].loaded = work[v].loaded
                \/ work[v].pc \notin Counting /\ work'[v].pc \notin Counting
  <2>1. CASE work'[v] = Witnessed(at, state)[v]
    BY <2>1, WitnessedCounts
  <2>2. CASE work[v].pc = "update" /\ work'[v] = Idle
    <3>1. Held(work[v]) = 0 /\ work[v].pc \notin Counting
      BY <2>2, NothingHeld DEF Counting
    <3> QED BY <1>1, <2>2, <3>1
  <2> QED BY <2>1, <2>2
<1> QED BY <1>2, QuietStep

LEMMA DictCounts ==
  ASSUME CountInv,
         (\E w \in Worker : UpdateState(w)) \/ (\E payload \in SensorReport : SensorsUpdate(payload))
  PROVE  CommandInv' /\ Numbered' /\ StatsInv'
<1>1. ASSUME NEW w \in Worker, UpdateState(w) PROVE CommandInv' /\ Numbered' /\ StatsInv'
  <2>1. PICK at, state : work' = [Witnessed(at, state) EXCEPT ![w] = Idle]
    BY <1>1 DEF UpdateState
  <2>2. work[w].pc = "update" /\ UNCHANGED <<stats, proposals, unanswered, answers>>
    BY <1>1 DEF UpdateState
  <2>3. \A v \in Worker : \/ work'[v] = Witnessed(at, state)[v]
                          \/ work[v].pc = "update" /\ work'[v] = Idle
    BY <2>1, <2>2 DEF Witnessed
  <2> QED BY <2>2, <2>3, UpdateCounts
<1>2. ASSUME NEW payload \in SensorReport, SensorsUpdate(payload)
      PROVE  CommandInv' /\ Numbered' /\ StatsInv'
  <2>1. PICK at, state : work' = Witnessed(at, state)
    BY <1>2 DEF SensorsUpdate
  <2>2. UNCHANGED <<stats, proposals, unanswered, answers>>
    BY <1>2 DEF SensorsUpdate
  <2>3. \A v \in Worker : work'[v] = Witnessed(at, state)[v]
    BY <2>1
  <2> QED BY <2>2, <2>3, UpdateCounts
<1> QED BY <1>1, <1>2

(* What a proposal ends in, and what the counters count, is inductive.     *)
THEOREM CountInvariant == SupervisorSpec => []CountInv
<1>1. SupervisorInit => CommandInv /\ Numbered /\ StatsInv
  <2> SUFFICES ASSUME SupervisorInit PROVE CommandInv /\ Numbered /\ StatsInv
    OBVIOUS
  <2>1. /\ \A w \in Worker : work[w] = Idle
        /\ answers = {} /\ unanswered = {} /\ proposals = 0
        /\ approval_count = 0 /\ veto_count = 0 /\ veto_history = <<>>
    BY DEF SupervisorInit
  <2>2. Held(Idle) = 0 /\ Idle.pc = "idle" /\ Idle.pc \notin JobPcs
    BY NothingHeld DEF Idle, JobPcs, Approving, Vetoing
  <2>3. CommandInv
    BY <2>1, <2>2 DEF CommandInv
  <2>4. Numbered
    BY <2>1, <2>2 DEF Numbered
  <2>5. StatsInv
    <3>1. AnswersOf("APPROVED") = {} /\ \A pc \in Counting : WorkersAt(pc) = {}
      BY <2>1, <2>2 DEF AnswersOf, WorkersAt, Counting
    <3>2. /\ WorkersAt("approve") = {} /\ WorkersAt("append") = {}
          /\ WorkersAt("count approval") = {} /\ WorkersAt("count veto") = {}
      BY <3>1 DEF Counting
    <3>3. Cardinality({}) = 0 /\ IsFiniteSet({}) /\ Len(<<>>) = 0
      BY FS_EmptySet
    <3>4. Approvals = 0 + 0 /\ Vetoes = 0 + 0
      BY <2>1, <3>1, <3>2, <3>3, Zenon DEF Approvals, Vetoes
    <3>5. Approvals = 0 /\ Vetoes = 0
      BY <3>4
    <3>6. IsFiniteSet(answers)
      BY <2>1, <3>3, Zenon
    <3>7. approval_count <= Approvals /\ veto_count <= Vetoes
      BY <2>1, <3>5
    <3> QED BY <3>2, <3>6, <3>7 DEF StatsInv
  <2> QED BY <2>3, <2>4, <2>5
<1>2. CountInv /\ [SupervisorNext]_supervisorVars => CommandInv' /\ Numbered' /\ StatsInv'
  <2> SUFFICES ASSUME CountInv, [SupervisorNext]_supervisorVars
               PROVE  CommandInv' /\ Numbered' /\ StatsInv'
    OBVIOUS
  <2>1. ASSUME NEW w \in Worker, WorkerStep(w) PROVE CommandInv' /\ Numbered' /\ StatsInv'
    BY <2>1, ReadCounts, LoadCounts, StoreCounts, AppendCounts, CommandCounts, ReportCounts,
       HearingCounts, DictCounts DEF WorkerStep
  <2>2. CASE UNCHANGED supervisorVars
    <3>1. UNCHANGED <<stats, proposals, unanswered, answers, work>>
      BY <2>2 DEF supervisorVars, stats
    <3> QED BY <3>1, QuietStep
  <2> QED BY <2>1, <2>2, ProposeCounts, IgnoreCounts, HearingCounts, DictCounts DEF SupervisorNext
<1> QED BY <1>1, <1>2, SupervisorInvariant, PTL DEF SupervisorSpec, CountInv

(* Counters written without a lock lose evaluations, and never invent one. *)
THEOREM StatsNeverOvercountHolds == SupervisorSpec => []StatsNeverOvercount
<1>1. CountInv => StatsNeverOvercount
  BY DEF CountInv, StatsInv, StatsNeverOvercount, Approvals, Vetoes, WorkersAt
<1> QED BY <1>1, CountInvariant, PTL

(* A proposal is with one worker, or got one command, or was ignored, or   *)
(* its evaluation raised: for any number of workers, and one of the three  *)
(* only.                                                                   *)
THEOREM OneCommandEachHolds == SupervisorSpec => []OneCommandEach
<1>1. ASSUME CountInv, NEW id \in 1..proposals
      PROVE  Cardinality(Commands(id)) + Cardinality(InWork(id)) + Cardinality({id} \cap unanswered) = 1
  <2>1. Commands(id) = {a \in answers : IsCommand(a) /\ a.id = id}
    BY DEF Commands, AnswersOf, IsCommand
  <2>2. proposals \in Nat /\ id # 0
    BY <1>1 DEF CountInv, SupervisorInv, SupervisorTypeOK
  <2>3. InWork(id) = {w \in Worker : Held(work[w]) = id}
    <3>1. ASSUME NEW w \in Worker
          PROVE  "id" \in DOMAIN work[w] /\ work[w].id = id <=> Held(work[w]) = id
      <4>1. CASE work[w] \in Job
        BY <4>1 DEF Job, Held
      <4>2. CASE work[w] \in Hearing \cup {Idle}
        <5>1. "id" \notin DOMAIN work[w]
          BY <4>2 DEF Hearing, Idle
        <5>2. Held(work[w]) = 0
          BY <4>2, NothingHeld DEF Hearing, Idle
        <5> QED BY <2>2, <5>1, <5>2
      <4> QED BY <1>1, <4>1, <4>2 DEF CountInv, SupervisorInv, SupervisorTypeOK
    <3> QED BY <3>1 DEF InWork
  <2>0. /\ Cardinality({}) = 0
        /\ \A x : Cardinality({x}) = 1
    BY FS_EmptySet, FS_Singleton, Zenon
  <2>4. CASE \E w \in Worker : Held(work[w]) = id
    <3>1. PICK w \in Worker : Held(work[w]) = id
      BY <2>4
    <3>2. InWork(id) = {w} /\ Commands(id) = {} /\ {id} \cap unanswered = {}
      BY <1>1, <2>1, <2>2, <2>3, <3>1 DEF CountInv, CommandInv
    <3>3. /\ Cardinality(InWork(id)) = 1
          /\ Cardinality(Commands(id)) = 0
          /\ Cardinality({id} \cap unanswered) = 0
      BY ONLY <2>0, <3>2, Zenon
    <3> QED BY ONLY <3>3
  <2>5. CASE \E a \in answers : IsCommand(a) /\ a.id = id
    <3>1. PICK a \in answers : IsCommand(a) /\ a.id = id
      BY <2>5
    <3>2. InWork(id) = {} /\ Commands(id) = {a} /\ {id} \cap unanswered = {}
      BY <1>1, <2>1, <2>3, <3>1 DEF CountInv, CommandInv
    <3>3. /\ Cardinality(InWork(id)) = 0
          /\ Cardinality(Commands(id)) = 1
          /\ Cardinality({id} \cap unanswered) = 0
      BY ONLY <2>0, <3>2, Zenon
    <3> QED BY ONLY <3>3
  <2>6. CASE id \in unanswered
    <3>1. InWork(id) = {} /\ Commands(id) = {} /\ {id} \cap unanswered = {id}
      BY <1>1, <2>1, <2>3, <2>6 DEF CountInv, CommandInv
    <3>2. /\ Cardinality(InWork(id)) = 0
          /\ Cardinality(Commands(id)) = 0
          /\ Cardinality({id} \cap unanswered) = 1
      BY ONLY <2>0, <3>1, Zenon
    <3> QED BY ONLY <3>2
  <2> QED BY <1>1, <2>4, <2>5, <2>6 DEF CountInv, CommandInv
<1>2. CountInv => OneCommandEach
  BY <1>1 DEF OneCommandEach
<1> QED BY <1>2, CountInvariant, PTL

=============================================================================
