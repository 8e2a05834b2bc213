------------------------- MODULE QuorumVotingProofs -------------------------
(***************************************************************************)
(* The vote for every swarm size, number of workers and interleaving of    *)
(* the handlers: any two commits overlap, votes are only counted of nodes  *)
(* that have the proposal, and a commit is announced where it was counted. *)
(* For the first the induction only needs to know that each recorded set   *)
(* of approvers was large enough, the rest is counting; the other two rest *)
(* on what a handler has seen at each of its steps.                        *)
(***************************************************************************)
EXTENDS QuorumVoting, FiniteSetTheorems, TLAPS

Supermajority(P) == P \subseteq Node /\ Cardinality(P) >= Required

QuorumInv == \A Q \in quorums : Supermajority(Q.approvers)

(* More than two thirds, for every n, although 0.67 n is rounded down. *)
LEMMA RequiredIsSupermajority == Required \in Nat /\ 3 * Required > 2 * SwarmSize
BY QuorumAssumption DEF Required

LEMMA SupermajoritiesOverlap ==
  ASSUME NEW P, NEW Q, Supermajority(P), Supermajority(Q)
  PROVE  3 * Cardinality(P \cap Q) > SwarmSize
<1>1. IsFiniteSet(Node) /\ Cardinality(Node) \in Nat /\ Cardinality(Node) <= SwarmSize
  BY QuorumAssumption, FS_CardinalityType
<1>2. P \subseteq Node /\ Q \subseteq Node /\ P \cup Q \subseteq Node /\ P \cap Q \subseteq Node
  BY DEF Supermajority
<1>3. IsFiniteSet(P) /\ IsFiniteSet(Q) /\ IsFiniteSet(P \cup Q) /\ IsFiniteSet(P \cap Q)
  BY <1>1, <1>2, FS_Subset
<1>4. /\ Cardinality(P) \in Nat /\ Cardinality(Q) \in Nat
      /\ Cardinality(P \cup Q) \in Nat /\ Cardinality(P \cap Q) \in Nat
  BY <1>3, FS_CardinalityType
<1>5. Cardinality(P \cup Q) <= Cardinality(Node)
  BY <1>1, <1>2, FS_Subset
<1>6. Cardinality(P \cup Q) = Cardinality(P) + Cardinality(Q) - Cardinality(P \cap Q)
  BY <1>3, FS_Union
<1>7. Cardinality(P) >= Required /\ Cardinality(Q) >= Required
  BY DEF Supermajority
<1> HIDE DEF Supermajority
<1> QED BY <1>1, <1>4, <1>5, <1>6, <1>7, RequiredIsSupermajority, QuorumAssumption

(* Both steps that evaluate a proposal record its approvers only then. *)
LEMMA QuorumsOfSupermajorities ==
  ASSUME NEW n, NEW p, NEW Q \in QuorumsOf(n, p)
  PROVE  Supermajority(Q.approvers)
BY DEF QuorumsOf, Commits, Voters, Supermajority

LEMMA QuorumStep == QuorumInv /\ [QuorumNext]_quorumVars => QuorumInv'
<1> SUFFICES ASSUME QuorumInv, [QuorumNext]_quorumVars PROVE QuorumInv'
  OBVIOUS
<1>1. ASSUME NEW n, NEW p, quorums' = quorums \cup QuorumsOf(n, p)
      PROVE  QuorumInv'
  BY <1>1, QuorumsOfSupermajorities DEF QuorumInv, Supermajority
<1>2. ASSUME UNCHANGED quorums PROVE QuorumInv'
  BY <1>2 DEF QuorumInv, Supermajority
<1>3. ASSUME NEW n \in Node, Propose(n) PROVE QuorumInv'
  BY <1>1, <1>3 DEF Propose
<1>4. ASSUME NEW n \in Node, NEW w, Tally(n, w) PROVE QuorumInv'
  BY <1>1, <1>4 DEF Tally
<1>5. ASSUME NEW n \in Node, NEW w,
             \/ HearProposal(n, w) \/ HearVote(n, w) \/ Create(n, w)
             \/ Admit(n, w) \/ Record(n, w) \/ Decide(n, w) \/ Return(n, w)
             \/ \E choice \in {"yes", "no"} : CastVote(n, choice)
      PROVE  QuorumInv'
  <2>1. UNCHANGED quorums
    BY <1>5 DEF HearProposal, HearVote, HearsVote, Create, Admit, Record, Decide, Return, CastVote, Begin
  <2> QED BY <1>2, <2>1
<1>6. CASE \E n \in Node : Timeout(n)
  BY <1>2, <1>6 DEF Timeout
<1>7. CASE UNCHANGED quorumVars
  BY <1>2, <1>7 DEF quorumVars
<1> QED BY <1>3, <1>4, <1>5, <1>6, <1>7 DEF QuorumNext, HandlerStep

(* "2/3 supermajority consensus": no two nodes commit on disjoint parts of *)
(* the swarm, provided swarm_size is not below its true size.              *)
THEOREM CommitsOverlapHolds == QuorumSpec => []CommitsOverlap
<1>1. QuorumInit => QuorumInv
  BY DEF QuorumInit, QuorumInv
<1>2. QuorumInv => CommitsOverlap
  BY SupermajoritiesOverlap DEF QuorumInv, CommitsOverlap
<1> QED BY <1>1, <1>2, QuorumStep, PTL DEF QuorumSpec

-----------------------------------------------------------------------------
Known(m) == objects[m] # <<>>

Looked == {"record", "tally", "decide", "return"}

CountedAt(n) == \E P \in quorums : P.at = n

(* What a handler that is under way relies on. *)
HandlerOK(n, t) ==
    /\ Known(t.voter) \/ (t.pc = "create" /\ t.voter = n)
    /\ t.pc # "create" => Known(n)
    /\ t.pc \in Looked => t.object \in 1..Len(objects[n])
    /\ t.verdict = "committed" => CountedAt(n)

Handlers == \A n \in Node : \A w \in DOMAIN work[n] :
                work[n][w] # Idle => HandlerOK(n, work[n][w])

(* A commit was counted at the node that has it. *)
Counted == \A n \in Node : \A i \in DOMAIN objects[n] :
               objects[n][i].status = "committed" => CountedAt(n)

Voted == \A m \in messages : m.kind = "vote" => Known(m.voter)

(* Before the first message nobody has a proposal. *)
Quiet == messages = {} =>
             \A n \in Node : /\ objects[n] = <<>>
                            /\ \A w \in DOMAIN work[n] : work[n][w] = Idle

VotingInv ==
    /\ QuorumTypeOK
    /\ Handlers /\ Counted /\ Voted /\ Quiet
    /\ VotesAreCast /\ AnnouncedAfterCommit

LEMMA VotingInitially == QuorumInit => VotingInv
BY QuorumAssumption
   DEF QuorumInit, VotingInv, QuorumTypeOK, Handlers, Counted, Voted, Quiet,
       VotesAreCast, AnnouncedAfterCommit, Known, Idle

(* _evaluate_quorum only touches the status. *)
LEMMA EvaluatedProposal ==
  ASSUME NEW p \in Proposal
  PROVE  /\ Evaluated(p) \in Proposal
         /\ Evaluated(p).votes = p.votes
         /\ Evaluated(p).status = "committed" => p.status = "committed" \/ Commits(p)
BY DEF Evaluated, Verdict, Proposal

LEMMA NewProposals ==
  ASSUME NEW n \in Node
  PROVE  /\ NewProposal(NoVotes) \in Proposal
         /\ NewProposal([NoVotes EXCEPT ![n] = "yes"]) \in Proposal
         /\ \A v \in Node : NoVotes[v] = "none"
BY DEF NewProposal, NoVotes, Proposal

(* A commit that is counted is on record. *)
LEMMA CommitIsRecorded ==
  ASSUME NEW n \in Node, NEW p, Commits(p), quorums' = quorums \cup QuorumsOf(n, p)
  PROVE  (CountedAt(n))'
<1> DEFINE P == [at |-> n, approvers |-> Voters(p, "yes")]
<1>1. P \in quorums'
  <2>1. P \in QuorumsOf(n, p)
    BY DEF QuorumsOf
  <2> QED BY <2>1
<1>2. P.at = n
  OBVIOUS
<1> QED BY <1>1, <1>2 DEF CountedAt

LEMMA QuorumsTyped ==
  ASSUME NEW n \in Node, NEW p
  PROVE  QuorumsOf(n, p) \subseteq [at : Node, approvers : SUBSET Node]
BY DEF QuorumsOf, Voters

(* Steps that leave the proposals alone and give one thread a new task. *)
LEMMA TaskKeepsInv ==
  ASSUME VotingInv, NEW n \in Node, NEW w \in DOMAIN work[n],
         NEW t \in Handler, HandlerOK(n, t), messages # {},
         work' = [work EXCEPT ![n][w] = t],
         UNCHANGED <<objects, overdue, messages, announced, quorums>>
  PROVE  VotingInv'
<1>1. QuorumTypeOK'
  BY DEF VotingInv, QuorumTypeOK
<1>2. Handlers'
  BY DEF VotingInv, QuorumTypeOK, Handlers, HandlerOK, CountedAt, Known
<1> QED
  BY <1>1, <1>2 DEF VotingInv, Counted, CountedAt, Voted, Quiet, VotesAreCast,
                    AnnouncedAfterCommit, Known

(* Steps that write one proposal, no vote but that of the handler, and     *)
(* move the handler on.                                                    *)
LEMMA WriteKeepsInv ==
  ASSUME VotingInv, NEW n \in Node, NEW w \in DOMAIN work[n], work[n][w] # Idle,
         NEW t \in Handler, t.voter = work[n][w].voter, t.pc \in Looked, t.object = work[n][w].object,
         t.verdict = work[n][w].verdict, work[n][w].pc \in Looked,
         NEW p \in Proposal,
         objects' = [objects EXCEPT ![n][t.object] = p],
         \A v \in Node : p.votes[v] # "none" => v = t.voter \/ objects[n][t.object].votes[v] # "none",
         p.status = "committed" => CountedAt(n),
         work' = [work EXCEPT ![n][w] = t],
         UNCHANGED <<overdue, messages, announced, quorums>>
  PROVE  VotingInv'
<1> DEFINE i == t.object
<1>1. /\ Known(t.voter) /\ Known(n) /\ i \in 1..Len(objects[n])
      /\ t.verdict = "committed" => CountedAt(n)
      /\ DOMAIN objects = Node /\ objects[n] \in Seq(Proposal)
      /\ t.voter \in Node
  BY DEF VotingInv, QuorumTypeOK, Handlers, HandlerOK, Handler, Looked
<1>2. i \in DOMAIN objects[n]
  BY <1>1
<1>3. /\ \A m \in Node : /\ objects'[m] \in Seq(Proposal)
                         /\ Len(objects'[m]) = Len(objects[m])
                         /\ DOMAIN objects'[m] = DOMAIN objects[m]
                         /\ (objects'[m] # <<>>) <=> Known(m)
      /\ objects'[n][i] = p
      /\ \A m \in Node : \A j \in DOMAIN objects[m] :
            m # n \/ j # i => objects'[m][j] = objects[m][j]
  BY <1>1, <1>2 DEF VotingInv, QuorumTypeOK, Known
<1> HIDE DEF i
<1>4. QuorumTypeOK'
  <2>1. objects' \in [Node -> Seq(Proposal)]
    BY <1>1, <1>3
  <2>2. DOMAIN work' = Node /\ \A m \in Node : work'[m] \in [Workers[m] \cup {App} -> {Idle} \cup Handler]
    BY DEF VotingInv, QuorumTypeOK
  <2> QED BY <2>1, <2>2 DEF VotingInv, QuorumTypeOK
<1>5. Handlers'
  <2> SUFFICES ASSUME NEW m \in Node, NEW x \in DOMAIN work'[m], work'[m][x] # Idle
               PROVE  (HandlerOK(m, work[m][x]))'
    BY DEF Handlers
  <2>1. CASE m = n /\ x = w
    <3>1. work'[m][x] = t
      BY <2>1 DEF VotingInv, QuorumTypeOK
    <3>2. objects'[t.voter] # <<>> /\ objects'[n] # <<>> /\ i \in 1..Len(objects'[n])
      BY <1>1, <1>3 DEF Known
    <3>3. t.pc # "create"
      BY DEF Looked
    <3> QED BY <1>1, <2>1, <3>1, <3>2, <3>3 DEF HandlerOK, Known, CountedAt, i
  <2>2. CASE ~ (m = n /\ x = w)
    <3>1. x \in DOMAIN work[m] /\ work'[m][x] = work[m][x]
      BY <2>2 DEF VotingInv, QuorumTypeOK
    <3>2. HandlerOK(m, work[m][x]) /\ work[m][x] \in Handler
      BY <3>1 DEF VotingInv, QuorumTypeOK, Handlers
    <3> QED BY <1>3, <3>1, <3>2 DEF HandlerOK, Handler, Known, CountedAt
  <2> QED BY <2>1, <2>2
<1>6. Counted'
  BY <1>1, <1>3 DEF VotingInv, Counted, CountedAt
<1>7. Voted' /\ Quiet'
  BY <1>1, <1>3 DEF VotingInv, QuorumTypeOK, Voted, Quiet, Known
<1>8. VotesAreCast'
  <2> SUFFICES ASSUME NEW m \in Node, NEW j \in DOMAIN objects'[m], NEW v \in Node,
                      objects'[m][j].votes[v] # "none"
               PROVE  objects'[v] # <<>>
    BY DEF VotesAreCast
  <2>1. v = t.voter \/ objects[m][j].votes[v] # "none"
    BY <1>3 DEF i
  <2>2. Known(v)
    BY <1>1, <1>3, <2>1 DEF VotingInv, VotesAreCast, Known
  <2> QED BY <1>3, <2>2
<1>9. AnnouncedAfterCommit'
  BY DEF VotingInv, AnnouncedAfterCommit
<1> QED BY <1>4, <1>5, <1>6, <1>7, <1>8, <1>9 DEF VotingInv

LEMMA ProposeKeepsInv == ASSUME VotingInv, NEW n \in Node, Propose(n) PROVE VotingInv'
<1> DEFINE p == Proposed(n)
<1>1. /\ messages = {} /\ objects' = [objects EXCEPT ![n] = <<p>>]
      /\ quorums' = quorums \cup QuorumsOf(n, p)
      /\ messages' = {Message("propose", n)}
      /\ UNCHANGED <<overdue, work, announced>>
  BY DEF Propose
<1>2. /\ p \in Proposal
      /\ \A v \in Node : p.votes[v] # "none" => v = n
      /\ p.status = "committed" => Commits(p)
  <2> DEFINE q == NewProposal([NoVotes EXCEPT ![n] = "yes"])
  <2>1. q \in Proposal /\ p = Evaluated(q)
    BY NewProposals DEF Proposed
  <2>2. q.status = "voting" /\ \A v \in Node : q.votes[v] # "none" => v = n
    BY DEF NewProposal, NoVotes
  <2> HIDE DEF p, q
  <2>3. p \in Proposal /\ p.votes = q.votes /\ (p.status = "committed" => Commits(q))
    BY <2>1, <2>2, EvaluatedProposal
  <2>4. Commits(p) <=> Commits(q)
    BY <2>3 DEF Commits, Voters
  <2> QED BY <2>2, <2>3, <2>4
<1> HIDE DEF p
<1>3. \A m \in Node : /\ m # n => objects'[m] = <<>>
                      /\ m = n => objects'[m] = <<p>>
                      /\ \A x \in DOMAIN work'[m] : work'[m][x] = Idle
  BY <1>1 DEF VotingInv, Quiet, QuorumTypeOK
<1>4. QuorumTypeOK'
  <2>1. objects' \in [Node -> Seq(Proposal)]
    BY <1>1, <1>2 DEF VotingInv, QuorumTypeOK
  <2>2. quorums' \subseteq [at : Node, approvers : SUBSET Node]
    BY <1>1, QuorumsTyped DEF VotingInv, QuorumTypeOK
  <2>3. messages' \subseteq [kind : {"propose", "vote"}, from : Node, voter : Node, choice : {"yes", "no"}]
    BY <1>1 DEF Message
  <2> QED BY <1>1, <2>1, <2>2, <2>3 DEF VotingInv, QuorumTypeOK
<1>5. Handlers' /\ Voted' /\ Quiet'
  <2>1. Handlers'
    BY <1>3 DEF Handlers
  <2>2. Voted'
    BY <1>1 DEF Voted, Message
  <2>3. Quiet'
    BY <1>1 DEF Quiet
  <2> QED BY <2>1, <2>2, <2>3
<1>6. Counted'
  BY <1>1, <1>2, <1>3, CommitIsRecorded DEF Counted, CountedAt
<1>7. VotesAreCast'
  BY <1>2, <1>3 DEF VotesAreCast
<1>8. AnnouncedAfterCommit'
  BY <1>1 DEF VotingInv, AnnouncedAfterCommit
<1> QED BY <1>4, <1>5, <1>6, <1>7, <1>8 DEF VotingInv

LEMMA CreateKeepsInv ==
  ASSUME VotingInv, NEW n \in Node, NEW w \in DOMAIN work[n], Create(n, w)
  PROVE  VotingInv'
<1> DEFINE p == Evaluated(NewProposal(NoVotes))
           t == [work[n][w] EXCEPT !.pc = "vote"]
<1>1. /\ work[n][w] # Idle /\ work[n][w].pc = "create"
      /\ objects' = [objects EXCEPT ![n] = Append(objects[n], p)]
      /\ overdue' = [overdue EXCEPT ![n] = FALSE]
      /\ work' = [work EXCEPT ![n][w] = t]
      /\ UNCHANGED <<messages, announced, quorums>>
  BY DEF Create
<1>2. p \in Proposal /\ p.votes = NoVotes /\ p.status # "committed"
  <2>1. p \in Proposal /\ p.votes = NoVotes
    BY NewProposals, EvaluatedProposal DEF NewProposal
  <2>2. Voters(NewProposal(NoVotes), "yes") = {}
    BY DEF Voters, NewProposal, NoVotes
  <2>3. ~ Commits(NewProposal(NoVotes))
    <3>1. Required \in Nat /\ Required > 0
      BY RequiredIsSupermajority, QuorumAssumption
    <3> QED BY <2>2, <3>1, FS_EmptySet DEF Commits
  <2> QED BY <2>1, <2>3 DEF Evaluated, Verdict, NewProposal
<1>3. /\ DOMAIN objects = Node /\ objects[n] \in Seq(Proposal)
      /\ work[n][w] \in Handler /\ t \in Handler /\ t.voter = work[n][w].voter
      /\ t.pc = "vote" /\ t.verdict = work[n][w].verdict
  <2>1. DOMAIN objects = Node /\ objects[n] \in Seq(Proposal)
    BY DEF VotingInv, QuorumTypeOK
  <2>2. work[n][w] \in Handler
    BY <1>1 DEF VotingInv, QuorumTypeOK
  <2> QED BY <2>1, <2>2 DEF Handler
<1>4. Handlers
  BY DEF VotingInv
<1> HIDE DEF p, t
<1>5. /\ objects'[n] \in Seq(Proposal) /\ Len(objects'[n]) = Len(objects[n]) + 1
      /\ \A j \in DOMAIN objects'[n] : objects'[n][j] = p \/ (j \in DOMAIN objects[n] /\ objects'[n][j] = objects[n][j])
      /\ \A m \in Node : m # n => objects'[m] = objects[m]
      /\ \A m \in Node : Known(m) => (Known(m))'
      /\ (Known(n))'
  BY <1>1, <1>2, <1>3 DEF Known
<1>6. QuorumTypeOK'
  BY <1>1, <1>2, <1>3, <1>5 DEF VotingInv, QuorumTypeOK
<1>7. Handlers'
  <2> SUFFICES ASSUME NEW m \in Node, NEW x \in DOMAIN work'[m], work'[m][x] # Idle
               PROVE  (HandlerOK(m, work[m][x]))'
    BY DEF Handlers
  <2>1. CASE m = n /\ x = w
    <3>1. work'[m][x] = t
      BY <1>1, <2>1 DEF VotingInv, QuorumTypeOK
    <3>2. Known(t.voter) \/ t.voter = n
      BY <1>1, <1>3, <1>4 DEF Handlers, HandlerOK
    <3>3. objects'[t.voter] # <<>> /\ objects'[n] # <<>>
      BY <1>3, <1>5, <3>2 DEF Handler, Known
    <3>4. t.verdict = "committed" => CountedAt(n)
      BY <1>1, <1>3, <1>4 DEF Handlers, HandlerOK
    <3> QED BY <1>1, <1>3, <2>1, <3>1, <3>3, <3>4 DEF HandlerOK, Known, CountedAt, Looked
  <2>2. CASE ~ (m = n /\ x = w)
    <3>1. x \in DOMAIN work[m] /\ work'[m][x] = work[m][x]
      BY <1>1, <2>2 DEF VotingInv, QuorumTypeOK
    <3>2. HandlerOK(m, work[m][x]) /\ work[m][x] \in Handler
      BY <1>4, <3>1 DEF VotingInv, QuorumTypeOK, Handlers
    <3>3. Len(objects[m]) \in Nat /\ Len(objects'[m]) \in Nat /\ Len(objects'[m]) >= Len(objects[m])
      BY <1>5 DEF VotingInv, QuorumTypeOK
    <3>4. /\ Known(work[m][x].voter) => objects'[work[m][x].voter] # <<>>
          /\ Known(m) => objects'[m] # <<>>
      BY <1>5, <3>2 DEF Handler, Known
    <3>5. work[m][x].pc \in Looked => work[m][x].object \in 1..Len(objects'[m])
      BY <3>2, <3>3 DEF HandlerOK
    <3> QED BY <1>1, <3>1, <3>2, <3>4, <3>5 DEF HandlerOK, Known, CountedAt
  <2> QED BY <2>1, <2>2
<1>8. Counted'
  BY <1>1, <1>2, <1>5 DEF VotingInv, Counted, CountedAt
<1>9. Voted' /\ Quiet'
  BY <1>1, <1>5 DEF VotingInv, QuorumTypeOK, Voted, Quiet
<1>10. VotesAreCast'
  <2> SUFFICES ASSUME NEW m \in Node, NEW j \in DOMAIN objects'[m], NEW v \in Node,
                      objects'[m][j].votes[v] # "none"
               PROVE  (Known(v))'
    BY DEF VotesAreCast, Known
  <2>1. j \in DOMAIN objects[m] /\ objects'[m][j] = objects[m][j]
    BY <1>2, <1>5, NewProposals
  <2>2. Known(v)
    BY <2>1 DEF VotingInv, VotesAreCast, Known
  <2> QED BY <1>5, <2>2
<1>11. AnnouncedAfterCommit'
  BY <1>1 DEF VotingInv, AnnouncedAfterCommit
<1> QED BY <1>6, <1>7, <1>8, <1>9, <1>10, <1>11 DEF VotingInv

LEMMA AdmitKeepsInv ==
  ASSUME VotingInv, NEW n \in Node, NEW w \in DOMAIN work[n], Admit(n, w)
  PROVE  VotingInv'
<1> DEFINE i == Len(objects[n])
           open == objects[n][i].status = "voting"
           t == [work[n][w] EXCEPT
                    !.object = i,
                    !.verdict = IF open /\ overdue[n] THEN "expired" ELSE "voting",
                    !.pc = IF ~ open THEN "return" ELSE IF overdue[n] THEN "decide" ELSE "record"]
<1>1. /\ work[n][w] # Idle /\ work[n][w].pc = "vote" /\ work' = [work EXCEPT ![n][w] = t]
      /\ UNCHANGED <<objects, overdue, messages, announced, quorums>>
  BY DEF Admit
<1>2. /\ objects[n] \in Seq(Proposal) /\ Known(n) /\ work[n][w] \in Handler
      /\ Known(work[n][w].voter)
  BY <1>1 DEF VotingInv, QuorumTypeOK, Handlers, HandlerOK
<1>3. i \in Nat /\ i \in 1..Len(objects[n])
  BY <1>2 DEF Known
<1>4. messages # {}
  BY <1>2 DEF VotingInv, Quiet, Known
<1>5. /\ t \in Handler /\ t.voter = work[n][w].voter /\ t.object = i
      /\ t.pc \in Looked /\ t.pc # "create" /\ t.verdict # "committed"
  BY <1>2, <1>3 DEF Handler, Looked
<1>6. HandlerOK(n, t)
  BY <1>2, <1>3, <1>5 DEF HandlerOK
<1> HIDE DEF t
<1> QED BY <1>1, <1>4, <1>5, <1>6, TaskKeepsInv

LEMMA RecordKeepsInv ==
  ASSUME VotingInv, NEW n \in Node, NEW w \in DOMAIN work[n], Record(n, w)
  PROVE  VotingInv'
<1> DEFINE task == work[n][w]
           i == work[n][w].object
           p == [objects[n][i] EXCEPT !.votes = [@ EXCEPT ![task.voter] = task.choice]]
           t == [task EXCEPT !.pc = "tally"]
<1>1. /\ task # Idle /\ task.pc = "record"
      /\ objects' = [objects EXCEPT ![n][i].votes[task.voter] = task.choice]
      /\ work' = [work EXCEPT ![n][w].pc = "tally"]
      /\ UNCHANGED <<overdue, messages, announced, quorums>>
  BY DEF Record
<1>2. /\ task \in Handler /\ i \in 1..Len(objects[n])
      /\ DOMAIN objects = Node /\ objects[n] \in Seq(Proposal)
  BY <1>1 DEF VotingInv, QuorumTypeOK, Handlers, HandlerOK, Looked
<1>3. i \in DOMAIN objects[n] /\ objects[n][i] \in Proposal
  BY <1>2
<1>4. /\ p \in Proposal /\ p.status = objects[n][i].status
      /\ \A v \in Node : p.votes[v] # "none" => v = task.voter \/ objects[n][i].votes[v] # "none"
  BY <1>2, <1>3 DEF Proposal, Handler
<1>5. objects' = [objects EXCEPT ![n][i] = p]
  BY <1>1, <1>2, <1>3
<1>6. work' = [work EXCEPT ![n][w] = t]
  BY <1>1
<1>7. /\ t \in Handler /\ t.voter = task.voter /\ t.pc \in Looked /\ t.object = i
      /\ t.verdict = task.verdict /\ task.pc \in Looked
  BY <1>1, <1>2 DEF Handler, Looked
<1>8. p.status = "committed" => CountedAt(n)
  BY <1>3, <1>4 DEF VotingInv, Counted
<1> HIDE DEF p, t
<1>9. /\ objects' = [objects EXCEPT ![n][t.object] = p] /\ t.object = work[n][w].object
      /\ \A v \in Node : p.votes[v] # "none" => v = t.voter \/ objects[n][t.object].votes[v] # "none"
  BY <1>4, <1>5, <1>7, <1>8
<1>10. p \in Proposal /\ (p.status = "committed" => CountedAt(n))
  BY <1>4, <1>8
<1>11. /\ work[n][w] # Idle /\ t.voter = work[n][w].voter /\ t.pc \in Looked
       /\ t.verdict = work[n][w].verdict /\ work[n][w].pc \in Looked /\ t \in Handler
       /\ UNCHANGED <<overdue, messages, announced, quorums>>
  BY <1>1, <1>7
<1> HIDE DEF i, task
<1> QED BY ONLY VotingInv, n \in Node, w \in DOMAIN work[n], <1>6, <1>9, <1>10, <1>11, WriteKeepsInv

LEMMA TallyKeepsInv ==
  ASSUME VotingInv, NEW n \in Node, NEW w \in DOMAIN work[n], Tally(n, w)
  PROVE  VotingInv'
<1> DEFINE i == work[n][w].object
           p == objects[n][i]
           t == [work[n][w] EXCEPT
                    !.verdict = Verdict(p),
                    !.pc = IF Verdict(p) = "voting" THEN "return" ELSE "decide"]
<1>1. /\ work[n][w] # Idle /\ work[n][w].pc = "tally"
      /\ work' = [work EXCEPT ![n][w] = t]
      /\ quorums' = quorums \cup QuorumsOf(n, p)
      /\ UNCHANGED <<objects, overdue, messages, announced>>
  BY DEF Tally
<1>2. /\ work[n][w] \in Handler /\ Known(n) /\ Known(work[n][w].voter) /\ i \in 1..Len(objects[n])
  BY <1>1 DEF VotingInv, QuorumTypeOK, Handlers, HandlerOK, Looked
<1>3. /\ t \in Handler /\ t.voter = work[n][w].voter /\ t.object = i
      /\ t.pc \in Looked /\ t.pc # "create" /\ t.verdict = Verdict(p)
  BY <1>2 DEF Handler, Looked, Verdict
<1>4. t.verdict = "committed" => (CountedAt(n))'
  <2>1. t.verdict = "committed" => Commits(p)
    BY <1>3 DEF Verdict
  <2> QED BY <1>1, <2>1, CommitIsRecorded
<1> HIDE DEF t, p
<1>5. quorums' \subseteq [at : Node, approvers : SUBSET Node] /\ quorums \subseteq quorums'
  BY <1>1, QuorumsTyped DEF VotingInv, QuorumTypeOK
<1>6. QuorumTypeOK'
  BY <1>1, <1>3, <1>5 DEF VotingInv, QuorumTypeOK
<1>7. Handlers'
  <2> SUFFICES ASSUME NEW m \in Node, NEW x \in DOMAIN work'[m], work'[m][x] # Idle
               PROVE  (HandlerOK(m, work[m][x]))'
    BY DEF Handlers
  <2>1. CASE m = n /\ x = w
    <3>1. work'[m][x] = t
      BY <1>1, <2>1 DEF VotingInv, QuorumTypeOK
    <3> QED BY <1>1, <1>2, <1>3, <1>4, <2>1, <3>1 DEF HandlerOK, Known, CountedAt
  <2>2. CASE ~ (m = n /\ x = w)
    <3>1. x \in DOMAIN work[m] /\ work'[m][x] = work[m][x]
      BY <1>1, <2>2 DEF VotingInv, QuorumTypeOK
    <3>2. HandlerOK(m, work[m][x])
      BY <3>1 DEF VotingInv, Handlers
    <3> QED BY <1>1, <1>5, <3>1, <3>2 DEF HandlerOK, Known, CountedAt
  <2> QED BY <2>1, <2>2
<1>8. Counted' /\ AnnouncedAfterCommit'
  BY <1>1, <1>5 DEF VotingInv, Counted, CountedAt, AnnouncedAfterCommit
<1>9. Voted' /\ Quiet' /\ VotesAreCast'
  BY <1>1, <1>2 DEF VotingInv, Voted, Quiet, VotesAreCast, Known
<1> QED BY <1>6, <1>7, <1>8, <1>9 DEF VotingInv

LEMMA DecideKeepsInv ==
  ASSUME VotingInv, NEW n \in Node, NEW w \in DOMAIN work[n], Decide(n, w)
  PROVE  VotingInv'
<1> DEFINE task == work[n][w]
           i == work[n][w].object
           p == [objects[n][i] EXCEPT !.status = task.verdict]
           t == [task EXCEPT !.pc = "return"]
<1>1. /\ task # Idle /\ task.pc = "decide"
      /\ objects' = [objects EXCEPT ![n][i].status = task.verdict]
      /\ work' = [work EXCEPT ![n][w].pc = "return"]
      /\ UNCHANGED <<overdue, messages, announced, quorums>>
  BY DEF Decide
<1>2. /\ task \in Handler /\ i \in 1..Len(objects[n])
      /\ task.verdict = "committed" => CountedAt(n)
      /\ DOMAIN objects = Node /\ objects[n] \in Seq(Proposal)
  BY <1>1 DEF VotingInv, QuorumTypeOK, Handlers, HandlerOK, Looked
<1>3. i \in DOMAIN objects[n] /\ objects[n][i] \in Proposal
  BY <1>2
<1>4. p \in Proposal /\ p.votes = objects[n][i].votes /\ (p.status = "committed" => CountedAt(n))
  BY <1>2, <1>3 DEF Proposal, Handler
<1>5. objects' = [objects EXCEPT ![n][i] = p]
  BY <1>1, <1>2, <1>3
<1>6. work' = [work EXCEPT ![n][w] = t]
  BY <1>1
<1>7. /\ t \in Handler /\ t.voter = task.voter /\ t.pc \in Looked /\ t.object = i
      /\ t.verdict = task.verdict /\ task.pc \in Looked
  BY <1>1, <1>2 DEF Handler, Looked
<1>8. \A v \in Node : p.votes[v] # "none" => v = task.voter \/ objects[n][i].votes[v] # "none"
  BY <1>4
<1> HIDE DEF p, t
<1>9. /\ objects' = [objects EXCEPT ![n][t.object] = p] /\ t.object = work[n][w].object
      /\ \A v \in Node : p.votes[v] # "none" => v = t.voter \/ objects[n][t.object].votes[v] # "none"
  BY <1>4, <1>5, <1>7, <1>8
<1>10. p \in Proposal /\ (p.status = "committed" => CountedAt(n))
  BY <1>4, <1>8
<1>11. /\ work[n][w] # Idle /\ t.voter = work[n][w].voter /\ t.pc \in Looked
       /\ t.verdict = work[n][w].verdict /\ work[n][w].pc \in Looked /\ t \in Handler
       /\ UNCHANGED <<overdue, messages, announced, quorums>>
  BY <1>1, <1>7
<1> HIDE DEF i, task
<1> QED BY ONLY VotingInv, n \in Node, w \in DOMAIN work[n], <1>6, <1>9, <1>10, <1>11, WriteKeepsInv

LEMMA ReturnKeepsInv ==
  ASSUME VotingInv, NEW n \in Node, NEW w \in DOMAIN work[n], Return(n, w)
  PROVE  VotingInv'
<1> DEFINE status == objects[n][work[n][w].object].status
<1>1. /\ work[n][w] # Idle /\ work[n][w].pc = "return" /\ Finish(n, w, status)
      /\ UNCHANGED <<objects, overdue, quorums>>
  BY DEF Return
<1>2. /\ work[n][w] \in Handler /\ Known(n) /\ work[n][w].object \in 1..Len(objects[n])
      /\ objects[n] \in Seq(Proposal)
  BY <1>1 DEF VotingInv, QuorumTypeOK, Handlers, HandlerOK, Looked
<1>3. work[n][w].object \in DOMAIN objects[n]
  BY <1>2
<1>4. status = "committed" => CountedAt(n)
  BY <1>3 DEF VotingInv, Counted
<1> HIDE DEF status
<1>5. QuorumTypeOK'
  <2>1. DOMAIN work' = Node /\ \A m \in Node : work'[m] \in [Workers[m] \cup {App} -> {Idle} \cup Handler]
    BY <1>1 DEF VotingInv, QuorumTypeOK, Finish
  <2>2. /\ messages' \subseteq [kind : {"propose", "vote"}, from : Node, voter : Node, choice : {"yes", "no"}]
        /\ announced' \subseteq Node
    BY <1>1 DEF VotingInv, QuorumTypeOK, Finish, Message
  <2> QED BY <1>1, <2>1, <2>2 DEF VotingInv, QuorumTypeOK
<1>6. Handlers'
  BY <1>1 DEF VotingInv, QuorumTypeOK, Handlers, HandlerOK, Finish, Known, CountedAt
<1>7. Counted' /\ VotesAreCast'
  BY <1>1 DEF VotingInv, Counted, CountedAt, VotesAreCast
<1>8. Voted' /\ Quiet'
  BY <1>1, <1>2 DEF VotingInv, QuorumTypeOK, Voted, Quiet, Finish, Message, Known
<1>9. AnnouncedAfterCommit'
  BY <1>1, <1>4 DEF VotingInv, AnnouncedAfterCommit, Finish, CountedAt
<1> QED BY <1>5, <1>6, <1>7, <1>8, <1>9 DEF VotingInv

(* Only the time passes. *)
LEMMA ClockKeepsInv ==
  ASSUME VotingInv, overdue' \in [Node -> BOOLEAN],
         UNCHANGED <<objects, work, messages, announced, quorums>>
  PROVE  VotingInv'
<1>1. QuorumTypeOK'
  BY DEF VotingInv, QuorumTypeOK
<1>2. Handlers'
  BY DEF VotingInv, Handlers, HandlerOK, Known, CountedAt
<1>3. Counted' /\ Voted' /\ Quiet' /\ VotesAreCast' /\ AnnouncedAfterCommit'
  BY DEF VotingInv, Counted, Voted, Quiet, VotesAreCast, AnnouncedAfterCommit, Known, CountedAt
<1> QED BY <1>1, <1>2, <1>3 DEF VotingInv

LEMMA VotingStep == VotingInv /\ [QuorumNext]_quorumVars => VotingInv'
<1> SUFFICES ASSUME VotingInv, [QuorumNext]_quorumVars PROVE VotingInv'
  OBVIOUS
<1>1. ASSUME NEW n \in Node, Propose(n) PROVE VotingInv'
  BY <1>1, ProposeKeepsInv
<1>2. ASSUME NEW n \in Node, Timeout(n) PROVE VotingInv'
  <2>1. overdue' \in [Node -> BOOLEAN]
    BY <1>2 DEF Timeout, VotingInv, QuorumTypeOK
  <2> QED BY <1>2, <2>1, ClockKeepsInv DEF Timeout
<1>3. ASSUME NEW n \in Node, NEW choice \in {"yes", "no"}, CastVote(n, choice)
      PROVE  VotingInv'
  <2> DEFINE t == Task("cast", n, choice, "vote")
  <2>1. t \in Handler /\ HandlerOK(n, t)
    BY <1>3 DEF Task, Handler, HandlerOK, Looked, CastVote, Known
  <2>2. App \in DOMAIN work[n] /\ messages # {}
    BY <1>3 DEF CastVote, VotingInv, QuorumTypeOK, Quiet
  <2> QED BY <1>3, <2>1, <2>2, TaskKeepsInv DEF CastVote, Begin
<1>4. ASSUME NEW n \in Node, NEW w \in Workers[n], HearProposal(n, w) PROVE VotingInv'
  <2> DEFINE t == Task("proposal", n, "yes", IF objects[n] = <<>> THEN "create" ELSE "vote")
  <2>1. t \in Handler /\ HandlerOK(n, t)
    BY DEF Task, Handler, HandlerOK, Looked, Known
  <2>2. w \in DOMAIN work[n] /\ messages # {}
    BY <1>4 DEF HearProposal, VotingInv, QuorumTypeOK
  <2> QED BY <1>4, <2>1, <2>2, TaskKeepsInv DEF HearProposal, Begin
<1>5. ASSUME NEW n \in Node, NEW w \in Workers[n], HearVote(n, w) PROVE VotingInv'
  <2>1. PICK m \in messages : HearsVote(n, m, w)
    BY <1>5 DEF HearVote
  <2> DEFINE t == Task("vote", m.voter, m.choice, "vote")
  <2>2. m.voter \in Node /\ m.choice \in {"yes", "no"}
    BY DEF VotingInv, QuorumTypeOK
  <2>3. t \in Handler /\ HandlerOK(n, t)
    BY <2>1, <2>2 DEF HearsVote, Task, Handler, HandlerOK, Looked, VotingInv, Voted, Known
  <2>4. w \in DOMAIN work[n] /\ messages # {}
    BY <2>1 DEF VotingInv, QuorumTypeOK
  <2> QED BY <2>1, <2>3, <2>4, TaskKeepsInv DEF HearsVote, Begin
<1>6. ASSUME NEW n \in Node, NEW w \in DOMAIN work[n], HandlerStep(n, w) PROVE VotingInv'
  BY <1>6, CreateKeepsInv, AdmitKeepsInv, RecordKeepsInv, TallyKeepsInv,
     DecideKeepsInv, ReturnKeepsInv DEF HandlerStep
<1>7. CASE UNCHANGED quorumVars
  BY <1>7, ClockKeepsInv DEF quorumVars, VotingInv, QuorumTypeOK
<1> QED BY <1>1, <1>2, <1>3, <1>4, <1>5, <1>6, <1>7 DEF QuorumNext

(* The inductive invariant of the vote: besides the types, what a handler  *)
(* between two of its steps may rely on although no lock protects it.      *)
THEOREM VotingInvariant == QuorumSpec => []VotingInv
BY VotingInitially, VotingStep, PTL DEF QuorumSpec

(* A vote is only ever counted of a node that has the proposal itself.     *)
THEOREM VotesAreCastHolds == QuorumSpec => []VotesAreCast
<1>1. VotingInv => VotesAreCast
  BY DEF VotingInv
<1> QED BY <1>1, VotingInvariant, PTL

(* A node only announces a commit if a supermajority was counted there.    *)
THEOREM AnnouncedAfterCommitHolds == QuorumSpec => []AnnouncedAfterCommit
<1>1. VotingInv => AnnouncedAfterCommit
  BY DEF VotingInv
<1> QED BY <1>1, VotingInvariant, PTL
=============================================================================
