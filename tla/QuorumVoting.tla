---------------------------- MODULE QuorumVoting ----------------------------
(***************************************************************************)
(* Quorum voting over one incident: ByzantineQuorumVoting of ai/anomaly.py *)
(* in every AIAnomalyNode, and the propose and vote messages between them. *)
(*                                                                         *)
(* A node's handlers run in several worker threads, cast_vote in one of    *)
(* the application's, and neither the table of proposals nor a proposal    *)
(* has a lock.  A handler is therefore several steps here: each reads or   *)
(* writes the shared proposal once.  A handler keeps the proposal object   *)
(* it looked up, also when another one replaces it in the table;           *)
(* objects[n] holds them all, the last is in the table.                    *)
(*                                                                         *)
(* A message is delivered at any time, any number of times, or never: a    *)
(* lost frame is not repeated, since anti-entropy does not dispatch.       *)
(***************************************************************************)
EXTENDS TamperDetector, Integers, Sequences, FiniteSets, SequencesExt

CONSTANTS Node,
          Proposer,     \* nodes that may be the one to detect the incident
          Caster,       \* nodes whose application calls cast_vote
          Workers,      \* Workers[n]: the worker threads of n
          App,          \* the application's thread, the same name at every node
          SwarmSize,    \* swarm_size, the same at every node
          Expires,      \* whether the voting timeout may pass
          Diagnostics   \* what a camera may report of its frames

ASSUME QuorumAssumption ==
    /\ Proposer \subseteq Node /\ Caster \subseteq Node
    /\ \A n \in Node : App \notin Workers[n]
    /\ IsFiniteSet(Node) /\ Cardinality(Node) <= SwarmSize
    /\ SwarmSize \in Nat \ {0} /\ Expires \in BOOLEAN

VARIABLES objects,    \* objects[n]: the proposals n created for the incident
          overdue,    \* overdue[n]: time has passed expires_at
          work,       \* work[n][w]: the handler that worker w is running
          messages,   \* published so far
          announced,  \* the nodes that published anomaly/quorum_committed
          quorums     \* history: the approvers behind each commit

quorumVars == <<objects, overdue, work, messages, announced, quorums>>

Idle == <<>>

(* Mutant of Required: the product is rounded down. *)
RequiredFloor == (67 * SwarmSize) \div 100

(* floor(n * 0.67) + 1 *)
Required == (67 * SwarmSize) \div 100 + 1

Voters(p, choice) == {v \in Node : p.votes[v] = choice}

NewProposal(votes) == [votes |-> votes, status |-> "voting"]

(* Mutant of NoVotes: whoever has not voted approves. *)
PresumedVotes == [v \in Node |-> "yes"]

NoVotes == [v \in Node |-> "none"]

Commits(p) == Cardinality(Voters(p, "yes")) >= Required

(* _evaluate_quorum: "voting" leaves the status as it is. *)
Verdict(p) ==
    IF Commits(p) THEN "committed"
    ELSE IF SwarmSize - Cardinality(Voters(p, "no")) < Required
    THEN "rejected" ELSE "voting"

Evaluated(p) == [p EXCEPT !.status = IF Verdict(p) = "voting" THEN @ ELSE Verdict(p)]

QuorumsOf(n, p) ==
    IF Commits(p) THEN {[at |-> n, approvers |-> Voters(p, "yes")]} ELSE {}

QuorumInit ==
    /\ objects = [n \in Node |-> <<>>]
    /\ overdue = [n \in Node |-> FALSE]
    /\ work = [n \in Node |-> [w \in Workers[n] \cup {App} |-> Idle]]
    /\ messages = {}
    /\ announced = {}
    /\ quorums = {}

-----------------------------------------------------------------------------
(* What a node publishes of itself: a vote carries its id and approves. *)
Message(kind, n) == [kind |-> kind, from |-> n, voter |-> n, choice |-> "yes"]

(* propose_quorum_action: the proposal counts the proposer's own approval. *)
Proposed(n) == Evaluated(NewProposal([NoVotes EXCEPT ![n] = "yes"]))

(* on_cctv_diagnostics of a camera whose frames call for a vote; of others *)
(* it only publishes a report.  The id of the incident is new: it holds    *)
(* the time.                                                               *)
Propose(n) ==
    /\ n \in Proposer /\ messages = {}
    /\ \E stats \in Diagnostics : CallsVote(stats)
    /\ LET p == Proposed(n)
       IN  /\ objects' = [objects EXCEPT ![n] = <<p>>]
           /\ quorums' = quorums \cup QuorumsOf(n, p)
    /\ messages' = messages \cup {Message("propose", n)}
    /\ UNCHANGED <<overdue, work, announced>>

Begin(n, w, task) ==
    /\ work[n][w] = Idle
    /\ work' = [work EXCEPT ![n][w] = task]
    /\ UNCHANGED <<objects, overdue, messages, announced, quorums>>

Task(kind, voter, choice, pc) ==
    [kind |-> kind, voter |-> voter, choice |-> choice, pc |-> pc, object |-> 0,
     verdict |-> "voting"]

(* on_quorum_proposal looks the incident up and will approve it. *)
HearProposal(n, w) ==
    /\ \E m \in messages : m.kind = "propose" /\ m.from # n
    /\ Begin(n, w, Task("proposal", n, "yes",
                        IF objects[n] = <<>> THEN "create" ELSE "vote"))

(* on_quorum_vote takes the voter and the choice from the payload, and     *)
(* drops a vote that names this node; a vote for an unknown incident       *)
(* raises and is gone.                                                     *)
HearsVote(n, m, w) ==
    /\ objects[n] # <<>>
    /\ m \in messages /\ m.kind = "vote" /\ m.from # n /\ m.voter # n
    /\ Begin(n, w, Task("vote", m.voter, m.choice, "vote"))

HearVote(n, w) == \E m \in messages : HearsVote(n, m, w)

(* cast_vote is recorded at this node and told to nobody. *)
CastVote(n, choice) ==
    /\ n \in Caster /\ objects[n] # <<>>
    /\ Begin(n, App, Task("cast", n, choice, "vote"))

(* propose() with auto_vote=False: the proposer's approval is not counted, *)
(* and a proposal that came in since the lookup is replaced.               *)
Create(n, w) ==
    /\ work[n][w] # Idle /\ work[n][w].pc = "create"
    /\ objects' = [objects EXCEPT ![n] = Append(@, Evaluated(NewProposal(NoVotes)))]
    /\ overdue' = [overdue EXCEPT ![n] = FALSE]
    /\ work' = [work EXCEPT ![n][w].pc = "vote"]
    /\ UNCHANGED <<messages, announced, quorums>>

(* Mutant of Finish: a commit is announced before it is one. *)
FinishEager(n, w, status) ==
    /\ work' = [work EXCEPT ![n][w] = Idle]
    /\ messages' = IF work[n][w].kind = "proposal"
                   THEN messages \cup {Message("vote", n)} ELSE messages
    /\ announced' = IF work[n][w].kind = "vote" /\ status # "rejected"
                    THEN announced \cup {n} ELSE announced

(* The end of a handler: what it publishes, given the status it was told.  *)
(* on_quorum_proposal publishes its approval whatever the status is.       *)
Finish(n, w, status) ==
    /\ work' = [work EXCEPT ![n][w] = Idle]
    /\ messages' = IF work[n][w].kind = "proposal"
                   THEN messages \cup {Message("vote", n)} ELSE messages
    /\ announced' = IF work[n][w].kind = "vote" /\ status = "committed"
                    THEN announced \cup {n} ELSE announced

(* vote(), up to the check that the proposal is open. *)
Admit(n, w) ==
    /\ work[n][w] # Idle /\ work[n][w].pc = "vote"
    /\ LET i == Len(objects[n])
           open == objects[n][i].status = "voting"
       IN  work' = [work EXCEPT ![n][w] =
                      [@ EXCEPT !.object = i,
                                !.verdict = IF open /\ overdue[n] THEN "expired" ELSE "voting",
                                !.pc = IF ~ open THEN "return"
                                       ELSE IF overdue[n] THEN "decide" ELSE "record"]]
    /\ UNCHANGED <<objects, overdue, messages, announced, quorums>>

Record(n, w) ==
    /\ work[n][w] # Idle /\ work[n][w].pc = "record"
    /\ objects' = [objects EXCEPT ![n][work[n][w].object].votes[work[n][w].voter] =
                                     work[n][w].choice]
    /\ work' = [work EXCEPT ![n][w].pc = "tally"]
    /\ UNCHANGED <<overdue, messages, announced, quorums>>

(* _evaluate_quorum, which asks for the votes only, *)
Tally(n, w) ==
    /\ work[n][w] # Idle /\ work[n][w].pc = "tally"
    /\ LET p == objects[n][work[n][w].object]
       IN  /\ work' = [work EXCEPT ![n][w] =
                          [@ EXCEPT !.verdict = Verdict(p),
                                    !.pc = IF Verdict(p) = "voting" THEN "return" ELSE "decide"]]
           /\ quorums' = quorums \cup QuorumsOf(n, p)
    /\ UNCHANGED <<objects, overdue, messages, announced>>

(* and the status it sets, or vote() at a proposal that is overdue: over   *)
(* whatever another handler has set meanwhile.                             *)
Decide(n, w) ==
    /\ work[n][w] # Idle /\ work[n][w].pc = "decide"
    /\ objects' = [objects EXCEPT ![n][work[n][w].object].status = work[n][w].verdict]
    /\ work' = [work EXCEPT ![n][w].pc = "return"]
    /\ UNCHANGED <<overdue, messages, announced, quorums>>

(* The status is read again to be returned. *)
Return(n, w) ==
    /\ work[n][w] # Idle /\ work[n][w].pc = "return"
    /\ Finish(n, w, objects[n][work[n][w].object].status)
    /\ UNCHANGED <<objects, overdue, quorums>>

Timeout(n) ==
    /\ Expires /\ objects[n] # <<>> /\ ~ overdue[n]
    /\ overdue' = [overdue EXCEPT ![n] = TRUE]
    /\ UNCHANGED <<objects, work, messages, announced, quorums>>

HandlerStep(n, w) ==
    \/ Create(n, w) \/ Admit(n, w) \/ Record(n, w)
    \/ Tally(n, w) \/ Decide(n, w) \/ Return(n, w)

QuorumNext ==
    \E n \in Node :
        \/ Propose(n)
        \/ Timeout(n)
        \/ \E choice \in {"yes", "no"} : CastVote(n, choice)
        \/ \E w \in Workers[n] : HearProposal(n, w) \/ HearVote(n, w)
        \/ \E w \in DOMAIN work[n] : HandlerStep(n, w)

QuorumSpec == QuorumInit /\ [][QuorumNext]_quorumVars

(* Every message is heard and every handler runs to its end. *)
QuorumFairness ==
    \A n \in Node : \A w \in Workers[n] :
        /\ WF_quorumVars(HandlerStep(n, w))
        /\ SF_quorumVars(HearProposal(n, w))
        /\ \A m \in Node : SF_quorumVars(HearsVote(n, Message("vote", m), w))

FairQuorumSpec == QuorumSpec /\ QuorumFairness

-----------------------------------------------------------------------------
Status(n) == IF objects[n] = <<>> THEN "none" ELSE Last(objects[n]).status

Proposal == [votes  : [Node -> {"none", "yes", "no"}],
             status : {"voting", "committed", "rejected", "expired"}]
Handler  == [kind : {"proposal", "vote", "cast"}, voter : Node, choice : {"yes", "no"},
             pc : {"create", "vote", "record", "tally", "decide", "return"}, object : Nat,
             verdict : {"voting", "committed", "rejected", "expired"}]

QuorumTypeOK ==
    /\ objects \in [Node -> Seq(Proposal)]
    /\ overdue \in [Node -> BOOLEAN]
    /\ DOMAIN work = Node
    /\ \A n \in Node : work[n] \in [Workers[n] \cup {App} -> {Idle} \cup Handler]
    /\ messages \subseteq [kind : {"propose", "vote"}, from : Node, voter : Node, choice : {"yes", "no"}]
    /\ announced \subseteq Node
    /\ quorums \subseteq [at : Node, approvers : SUBSET Node]

(* A vote is only ever counted of a node that has the proposal itself,     *)
(* whatever was duplicated, reordered or replaced on the way.              *)
VotesAreCast ==
    \A n \in Node : \A i \in DOMAIN objects[n] : \A v \in Node :
        objects[n][i].votes[v] # "none" => objects[v] # <<>>

(* "2/3 supermajority consensus": the approvals behind any two commits,    *)
(* at any two nodes, share more than a third of the swarm, although the    *)
(* nodes count different votes.                                            *)
CommitsOverlap ==
    \A P, Q \in quorums : 3 * Cardinality(P.approvers \cap Q.approvers) > SwarmSize

(* A node only announces a commit, which triggers the actuators, if a      *)
(* supermajority was counted at that very node, in whichever of the        *)
(* proposal objects its workers hold.                                      *)
AnnouncedAfterCommit ==
    \A n \in announced : \E P \in quorums : P.at = n

(* "Ensuring a unified response across multiple nodes in the swarm": when  *)
(* one node has committed, every node does.                                *)
UnifiedResponse ==
    (\E n \in Node : Status(n) = "committed") ~> (\A n \in Node : Status(n) = "committed")
=============================================================================
