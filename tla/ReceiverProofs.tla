--------------------------- MODULE ReceiverProofs ---------------------------
(***************************************************************************)
(* What a node may believe of what it receives: the frames of a chain      *)
(* (LedgerSpec and LinkSpec), and the keys and connections of its peers    *)
(* (ZmqSpec).  The two have no variable in common, and each theorem is     *)
(* about one of them.                                                      *)
(*                                                                         *)
(* The hash chain is proved for every number of frames, restarts and       *)
(* losses, within the first SeqModulus - 1 frames of a sender that stays   *)
(* up; the keys and connections for every number of peers, threads, lives  *)
(* and starts.                                                             *)
(***************************************************************************)
EXTENDS LedgerHistory, ZmqTransport, TLAPS

(* What the sender's _last_digest is after i frames of its first run. *)
DigestAfter(i) == IF i = 0 THEN Genesis ELSE Digest(1, i, i)

Counters == run \in Nat \ {0} /\ seq \in Nat

(* The sender's side: every frame continues the chain. *)
Chained ==
    /\ lastDigest = DigestAfter(seq)
    /\ \A f \in frames : /\ f.run = 1 /\ f.index \in 1..seq /\ f.seq = f.index
                        /\ f.prev = DigestAfter(f.index - 1)

(* The receiver's side: the tracker stands at a frame of that chain, no    *)
(* accepted frame is beyond it, and what it passed is accounted for.       *)
Tracked ==
    /\ rejected = {} /\ accepted \subseteq frames
    /\ tracker = NoPeer => accepted = {}
    /\ tracker # NoPeer =>
          /\ tracker.lastSeq \in 1..seq
          /\ tracker.lastDigest = DigestAfter(tracker.lastSeq)
          /\ first \in 1..tracker.lastSeq
          /\ \A f \in accepted : f.seq <= tracker.lastSeq
          /\ first..tracker.lastSeq \subseteq missing \cup Numbers(accepted)

LinkInv == Counters /\ (Regular => Chained /\ Tracked)

LEMMA LinkInitially == LinkInit => LinkInv
BY DEF LinkInit, LinkInv, Counters, Regular, Chained, Tracked, DigestAfter

LEMMA AppendKeepsInv == ASSUME LinkInv, AppendFrame PROVE LinkInv'
<1> USE LinkAssumption
<1>1. run' = run /\ seq' = seq + 1 /\ seq \in Nat /\ run \in Nat \ {0}
  BY DEF AppendFrame, Frame, LinkInv, Counters
<1>2. Counters'
  BY <1>1 DEF Counters
<1>3. ASSUME Regular' PROVE Chained' /\ Tracked'
  <2>1. run = 1 /\ seq + 1 < SeqModulus /\ SeqModulus \in Nat
    BY <1>1, <1>3 DEF Regular
  <2>2. Chained /\ Tracked
    BY <1>1, <2>1 DEF LinkInv, Regular
  <2>3. (seq + 1) % SeqModulus = seq + 1
    BY <1>1, <2>1
  <2>4. lastDigest' = DigestAfter(seq + 1)
    BY <1>1, <2>1 DEF AppendFrame, Frame, DigestAfter
  <2>5. /\ frames' = frames \cup {[run |-> 1, index |-> seq + 1, seq |-> seq + 1,
                                   prev |-> DigestAfter(seq)]}
    BY <2>1, <2>2, <2>3 DEF AppendFrame, Frame, Chained
  <2>6. Chained'
    <3> SUFFICES ASSUME NEW f \in frames'
                 PROVE  /\ f.run = 1 /\ f.index \in 1..(seq + 1) /\ f.seq = f.index
                        /\ f.prev = DigestAfter(f.index - 1)
      BY <1>1, <2>4 DEF Chained
    <3>1. CASE f \in frames
      <4>1. /\ f.run = 1 /\ f.index \in 1..seq /\ f.seq = f.index
            /\ f.prev = DigestAfter(f.index - 1)
        BY <2>2, <3>1 DEF Chained
      <4>2. f.index \in 1..(seq + 1)
        BY <1>1, <4>1
      <4> QED BY <4>1, <4>2
    <3>2. CASE f \notin frames
      <4>1. /\ f.run = 1 /\ f.index = seq + 1 /\ f.seq = seq + 1
            /\ f.prev = DigestAfter(seq)
        BY <2>5, <3>2
      <4>2. f.index - 1 = seq /\ f.index \in 1..(seq + 1)
        BY <1>1, <4>1
      <4> QED BY <4>1, <4>2
    <3> QED BY <3>1, <3>2
  <2>7. Tracked'
    BY <1>1, <2>2 DEF AppendFrame, Frame, receiverVars, Tracked, Numbers
  <2> QED BY <2>6, <2>7
<1> QED BY <1>2, <1>3 DEF LinkInv

LEMMA RestartsKeepInv == ASSUME LinkInv, RestartSender \/ RestartReceiver PROVE LinkInv'
<1>1. CASE RestartSender
  BY <1>1 DEF RestartSender, LinkInv, Counters, Regular
<1>2. CASE RestartReceiver
  <2>1. Counters' /\ (Regular' => Regular) /\ (Chained => Chained')
    BY <1>2 DEF RestartReceiver, senderVars, LinkInv, Counters, Regular, Chained
  <2>2. Tracked'
    BY <1>2 DEF RestartReceiver, Tracked
  <2> QED BY <2>1, <2>2 DEF LinkInv
<1> QED BY <1>1, <1>2

(* The tracker moves to frame f, and the numbers up to f are accounted for. *)
LEMMA AdvanceTracks ==
  ASSUME LinkInv, Regular, NEW f \in frames, Advance(f), UNCHANGED senderVars,
         rejected' = rejected, first' \in 1..f.seq,
         \A g \in accepted : g.seq <= f.seq,
         first'..f.seq \subseteq missing' \cup Numbers(accepted) \cup {f.seq}
  PROVE  LinkInv'
<1>1. Chained /\ Tracked /\ seq \in Nat
  BY DEF LinkInv, Counters
<1>2. /\ f.run = 1 /\ f.index \in 1..seq /\ f.seq = f.index
  BY <1>1 DEF Chained
<1>3. /\ tracker'.lastSeq = f.seq /\ tracker'.lastDigest = DigestAfter(f.seq)
      /\ tracker' # NoPeer
  BY <1>1, <1>2 DEF Advance, DigestAfter, NoPeer
<1>4. accepted' = accepted \cup {f}
  BY DEF Advance
<1>5. Numbers(accepted') = Numbers(accepted) \cup {f.seq}
  BY <1>4 DEF Numbers
<1>6. \A g \in accepted' : g.seq <= f.seq
  BY <1>1, <1>2, <1>4
<1>7. seq' = seq /\ run' = run /\ frames' = frames /\ lastDigest' = lastDigest
  BY DEF senderVars
<1>8. rejected' = {} /\ accepted' \subseteq frames
  BY <1>1, <1>4 DEF Tracked
<1>9. Tracked'
  BY <1>1, <1>2, <1>3, <1>5, <1>6, <1>7, <1>8 DEF Tracked, Numbers
<1>10. Counters' /\ Chained'
  BY <1>1, <1>7 DEF Counters, Chained, LinkInv
<1> QED BY <1>9, <1>10 DEF LinkInv

LEMMA RecordKeepsInv ==
  ASSUME LinkInv, NEW f \in frames, RecordIncoming(f)
  PROVE  LinkInv'
<1>1. seq' = seq /\ run' = run /\ frames' = frames /\ lastDigest' = lastDigest
  BY DEF RecordIncoming, senderVars
<1>2. Counters'
  BY <1>1 DEF Counters, LinkInv
<1>3. ASSUME Regular PROVE LinkInv'
  <2>1. Chained /\ Tracked /\ seq \in Nat /\ UNCHANGED senderVars
    BY <1>3 DEF LinkInv, Counters, RecordIncoming
  <2>2. /\ f.index \in 1..seq /\ f.seq = f.index
        /\ f.prev = DigestAfter(f.index - 1)
    BY <2>1 DEF Chained
  <2>3. CASE FirstFrame(f)
    <3>1. accepted = {} /\ first' = f.index /\ rejected' = rejected /\ Advance(f)
      BY <2>1, <2>3 DEF FirstFrame, Tracked
    <3>2. first' \in 1..f.seq /\ first'..f.seq \subseteq {f.seq}
      BY <2>1, <2>2, <3>1
    <3> QED BY <1>3, <2>1, <3>1, <3>2, AdvanceTracks
  <2>4. CASE OutOfOrderOrDuplicate(f)
    <3>1. /\ accepted' = accepted \cup {f} /\ tracker' = tracker /\ rejected' = rejected
          /\ missing' = missing /\ first' = first /\ tracker # NoPeer
          /\ f.seq <= tracker.lastSeq
      BY <2>4 DEF OutOfOrderOrDuplicate
    <3>2. Numbers(accepted) \subseteq Numbers(accepted')
      BY <3>1 DEF Numbers
    <3>3. Tracked'
      BY <1>1, <2>1, <3>1, <3>2 DEF Tracked
    <3>4. Chained'
      BY <1>1, <2>1 DEF Chained
    <3> QED BY <1>2, <3>3, <3>4 DEF LinkInv
  <2> DEFINE last == tracker.lastSeq
  <2>a. ASSUME tracker # NoPeer
        PROVE  /\ last \in 1..seq /\ tracker.lastDigest = DigestAfter(last)
               /\ first \in 1..last /\ \A g \in accepted : g.seq <= last
               /\ first..last \subseteq missing \cup Numbers(accepted)
    BY <2>1, <2>a DEF Tracked
  <2>b. \A g \in accepted : g.seq \in 1..seq
    BY <2>1 DEF Chained, Tracked
  <2>5. CASE NextLink(f)
    <3>1. /\ Advance(f) /\ rejected' = rejected /\ missing' = missing /\ first' = first
          /\ tracker # NoPeer /\ f.seq = last + 1
      BY <2>5 DEF NextLink
    <3>2. first' \in 1..f.seq
      BY <2>1, <2>a, <3>1
    <3>3. first'..f.seq \subseteq missing' \cup Numbers(accepted) \cup {f.seq}
      <4> SUFFICES ASSUME NEW i \in first..f.seq, i # f.seq
                   PROVE  i \in missing \cup Numbers(accepted)
        BY <3>1
      <4>1. i \in first..last
        BY <2>1, <2>a, <3>1
      <4> QED BY <2>a, <3>1, <4>1
    <3>4. \A g \in accepted : g.seq <= f.seq
      BY <2>a, <2>b, <3>1, <2>1, <2>2
    <3> QED BY <1>3, <2>1, <3>1, <3>2, <3>3, <3>4, AdvanceTracks
  <2>6. CASE ForkOrTamper(f)
    <3>1. tracker # NoPeer /\ f.seq = last + 1 /\ f.prev # tracker.lastDigest
      BY <2>6 DEF ForkOrTamper
    <3>2. f.index - 1 = last
      BY <2>2, <2>a, <3>1
    <3> QED BY <2>2, <2>a, <3>1, <3>2
  <2>7. CASE Gap(f)
    <3>1. /\ Advance(f) /\ rejected' = rejected /\ first' = first
          /\ missing' = missing \cup (last + 1)..(f.seq - 1)
          /\ tracker # NoPeer /\ f.seq > last + 1
      BY <2>7 DEF Gap
    <3>2. first' \in 1..f.seq
      BY <2>1, <2>2, <2>a, <3>1
    <3>3. first'..f.seq \subseteq missing' \cup Numbers(accepted) \cup {f.seq}
      <4> SUFFICES ASSUME NEW i \in first..f.seq, i # f.seq
                   PROVE  i \in missing' \cup Numbers(accepted)
        BY <3>1
      <4>1. i \in first..last \/ i \in (last + 1)..(f.seq - 1)
        BY <2>1, <2>2, <2>a, <3>1
      <4> QED BY <2>a, <3>1, <4>1
    <3>4. \A g \in accepted : g.seq <= f.seq
      BY <2>a, <2>b, <3>1, <2>1, <2>2
    <3> QED BY <1>3, <2>1, <3>1, <3>2, <3>3, <3>4, AdvanceTracks
  <2> QED BY <2>3, <2>4, <2>5, <2>6, <2>7 DEF RecordIncoming
<1> QED BY <1>1, <1>2, <1>3 DEF LinkInv, Regular

LEMMA LinkStep == LinkInv /\ [LinkNext]_linkVars => LinkInv'
<1> SUFFICES ASSUME LinkInv, [LinkNext]_linkVars PROVE LinkInv'
  OBVIOUS
<1>1. CASE UNCHANGED linkVars
  BY <1>1 DEF linkVars, senderVars, receiverVars, LinkInv, Counters, Regular, Chained,
              Tracked, Numbers
<1>2. CASE AppendFrame
  BY <1>2, AppendKeepsInv
<1>3. CASE RestartSender \/ RestartReceiver
  BY <1>3, RestartsKeepInv
<1>4. ASSUME NEW f \in frames, RecordIncoming(f) PROVE LinkInv'
  BY <1>4, RecordKeepsInv
<1> QED BY <1>1, <1>2, <1>3, <1>4 DEF LinkNext

THEOREM LinkInvariant == LinkSpec => []LinkInv
BY LinkInitially, LinkStep, PTL DEF LinkSpec

(* No loss, duplicate, late frame or restart of the receiver makes the     *)
(* first SeqModulus - 1 frames of a sender look like a fork.               *)
THEOREM NoFalseForkHolds == LinkSpec => []NoFalseFork
<1>1. LinkInv => NoFalseFork
  BY DEF LinkInv, Tracked, NoFalseFork
<1> QED BY <1>1, LinkInvariant, PTL

(* Nor does any of them hide a gap. *)
THEOREM GapsDetectedHolds == LinkSpec => []GapsDetected
<1>1. LinkInv => GapsDetected
  BY DEF LinkInv, Tracked, GapsDetected
<1> QED BY <1>1, LinkInvariant, PTL

(* What is reported missing has not been accepted before. *)
THEOREM NoFalseGapHolds == LinkSpec => NoFalseGap
<1>1. ASSUME LinkInv, LinkNext, Regular, NEW i \in missing' \ missing
      PROVE  i \notin Numbers(accepted)
  <2>1. Chained /\ Tracked /\ seq \in Nat
    BY <1>1 DEF LinkInv, Counters
  <2>2. PICK f \in frames : Gap(f)
    BY <1>1 DEF LinkNext, AppendFrame, Frame, RestartSender, RestartReceiver, RecordIncoming, FirstFrame,
                OutOfOrderOrDuplicate, NextLink, ForkOrTamper, receiverVars
  <2>3. i \in (tracker.lastSeq + 1)..(f.seq - 1) /\ tracker # NoPeer
    BY <1>1, <2>2 DEF Gap
  <2>4. tracker.lastSeq \in 1..seq /\ f.seq \in 1..seq
    BY <2>1, <2>2, <2>3 DEF Tracked, Chained
  <2>5. i > tracker.lastSeq
    BY <2>3, <2>4
  <2>6. \A g \in accepted : g.seq <= tracker.lastSeq
    BY <2>1, <2>3 DEF Tracked
  <2> QED BY <2>3, <2>4, <2>5, <2>6 DEF Numbers
<1>2. LinkInv /\ [LinkNext]_linkVars
      => [Regular => \A i \in missing' \ missing : i \notin Numbers(accepted)]_linkVars
  BY <1>1
<1> QED BY <1>2, LinkInvariant, PTL DEF LinkSpec, NoFalseGap

-----------------------------------------------------------------------------
(* The ledger with its history, its verification and its drops does to the *)
(* link what the link does by itself.                                      *)
THEOREM LedgerImplementsLink == LedgerSpec => LinkSpec
<1>1. LedgerInit => LinkInit
  BY DEF LedgerInit
<1>2. [LedgerNext]_ledgerVars => [LinkNext]_linkVars
  BY DEF LedgerNext, LinkNext, AppendEntry, DropOldest, RestartLedger, VerifyBegin, VerifyEntry,
         ledgerVars
<1> QED BY <1>1, <1>2, PTL DEF LedgerSpec, LinkSpec

Digests == Nat \X Nat \X Nat
Entries == [seq : Nat, prev : Digests, digest : Digests]

(* The digest of the entry before number s of this run. *)
Before(s) == IF s = 1 THEN Genesis ELSE Digest(run, s - 1, s - 1)

HistoryTypeOK ==
    /\ run \in Nat /\ seq \in Nat
    /\ history \in Seq(Entries)
    /\ check = NoCheck \/ check \in [at : Nat \ {0}, prev : Digests, expected : Nat,
                                     dropped : BOOLEAN]
    /\ alarm \in BOOLEAN

(* The history is the end of the chain. *)
EndOfChain ==
    /\ lastDigest = Before(seq + 1)
    /\ Len(history) <= seq
    /\ \A j \in 1..Len(history) :
          /\ history[j].seq = seq - Len(history) + j
          /\ history[j].prev = Before(history[j].seq)
          /\ history[j].digest = Digest(run, history[j].seq, history[j].seq)

(* A verification that was not disturbed expects what comes next in it. *)
OnTrack ==
    check # NoCheck /\ ~ check.dropped =>
        /\ check.at <= Len(history) + 1
        /\ check.expected = seq - Len(history) + check.at
        /\ check.prev = Before(check.expected)

HistoryInv == HistoryTypeOK /\ EndOfChain /\ OnTrack /\ IntactChainVerifies

LEMMA HistoryInitially == LedgerInit => HistoryInv
<1> SUFFICES ASSUME LedgerInit PROVE HistoryInv
  OBVIOUS
<1>1. /\ run = 1 /\ seq = 0 /\ lastDigest = Genesis /\ history = <<>>
      /\ check = NoCheck /\ alarm = FALSE
  BY DEF LedgerInit, LinkInit
<1>2. HistoryTypeOK
  <2>1. history \in Seq(Entries)
    BY <1>1
  <2> QED BY <1>1, <2>1 DEF HistoryTypeOK
<1>3. EndOfChain
  BY <1>1 DEF EndOfChain, Before
<1> QED BY <1>1, <1>2, <1>3 DEF HistoryInv, OnTrack, IntactChainVerifies

LEMMA BeforeIsDigest == ASSUME HistoryTypeOK, NEW s \in Nat \ {0} PROVE Before(s) \in Digests
BY DEF HistoryTypeOK, Before, Digests, Genesis, Digest

LEMMA AppendKeepsHistory == ASSUME HistoryInv, AppendEntry PROVE HistoryInv'
<1> DEFINE e == [seq |-> seq + 1, prev |-> lastDigest, digest |-> Digest(run, seq + 1, seq + 1)]
<1>1. /\ history' = history \o <<e>> /\ seq' = seq + 1 /\ run' = run
      /\ lastDigest' = Digest(run, seq + 1, seq + 1)
      /\ check' = check /\ alarm' = alarm
  BY DEF AppendEntry, AppendFrame, Entry
<1>2. HistoryTypeOK /\ EndOfChain /\ OnTrack
  BY DEF HistoryInv
<1>3. e \in Entries /\ e.seq = seq + 1 /\ e.prev = Before(seq + 1)
      /\ e.digest = Digest(run, seq + 1, seq + 1)
  <2>1. lastDigest = Before(seq + 1) /\ lastDigest \in Digests
    BY <1>2, BeforeIsDigest DEF EndOfChain, HistoryTypeOK
  <2> QED BY <1>2, <2>1 DEF Entries, Digests, Digest, HistoryTypeOK
<1> HIDE DEF e
<1>4. /\ history' \in Seq(Entries) /\ Len(history') = Len(history) + 1
      /\ \A j \in 1..Len(history) : history'[j] = history[j]
      /\ history'[Len(history) + 1] = e
  BY <1>1, <1>2, <1>3 DEF HistoryTypeOK
<1>5. HistoryTypeOK'
  BY <1>1, <1>2, <1>4 DEF HistoryTypeOK
<1>6. seq \in Nat /\ Len(history) \in Nat
  BY <1>2 DEF HistoryTypeOK
<1>7. \A s : (Before(s))' = Before(s)
  BY <1>1 DEF Before, Digest
<1>8. EndOfChain'
  <2>1. lastDigest' = Before(seq' + 1)
    BY <1>1, <1>6 DEF Before
  <2>2. ASSUME NEW j \in 1..Len(history')
        PROVE  /\ history'[j].seq = seq' - Len(history') + j
               /\ history'[j].prev = Before(history'[j].seq)
               /\ history'[j].digest = Digest(run, history'[j].seq, history'[j].seq)
    <3>1. CASE j \in 1..Len(history)
      BY <1>1, <1>2, <1>4, <1>6, <3>1 DEF EndOfChain
    <3>2. CASE j = Len(history) + 1
      BY <1>1, <1>3, <1>4, <1>6, <3>2
    <3> QED BY <1>4, <1>6, <2>2, <3>1, <3>2
  <2>3. Len(history') <= seq'
    BY <1>1, <1>2, <1>4, <1>6 DEF EndOfChain
  <2> QED BY <1>1, <1>7, <2>1, <2>2, <2>3 DEF EndOfChain, Digest
<1>9. OnTrack'
  <2>1. check # NoCheck => check.at \in Nat
    BY <1>2 DEF HistoryTypeOK
  <2> QED BY <1>1, <1>2, <1>4, <1>6, <1>7, <2>1 DEF OnTrack
<1> QED BY <1>1, <1>5, <1>8, <1>9 DEF HistoryInv, IntactChainVerifies

LEMMA DropKeepsHistory == ASSUME HistoryInv, DropOldest PROVE HistoryInv'
<1>1. /\ Len(history) > MaxHistory /\ history' = Tail(history)
      /\ check' = IF check = NoCheck THEN NoCheck ELSE [check EXCEPT !.dropped = TRUE]
      /\ UNCHANGED <<run, seq, lastDigest, alarm>>
  BY DEF DropOldest, linkVars, senderVars
<1>2. HistoryTypeOK /\ EndOfChain /\ seq \in Nat
  BY DEF HistoryInv, HistoryTypeOK
<1>3. /\ Len(history) \in Nat \ {0} /\ history' \in Seq(Entries)
      /\ Len(history') = Len(history) - 1
      /\ \A j \in 1..Len(history') : j + 1 \in 1..Len(history) /\ history'[j] = history[j + 1]
  BY <1>1, <1>2, HistoryAssumption DEF HistoryTypeOK
<1>4. HistoryTypeOK' /\ (check' = NoCheck \/ check'.dropped)
  <2>1. CASE check = NoCheck
    BY <1>1, <1>2, <1>3, <2>1 DEF HistoryTypeOK
  <2>2. CASE check # NoCheck
    <3>1. check' \in [at : Nat \ {0}, prev : Digests, expected : Nat, dropped : BOOLEAN] /\ check'.dropped
      BY <1>1, <1>2, <2>2 DEF HistoryTypeOK
    <3> QED BY <1>1, <1>2, <1>3, <3>1 DEF HistoryTypeOK
  <2> QED BY <2>1, <2>2
<1>5. \A s : (Before(s))' = Before(s)
  BY <1>1 DEF Before, Digest
<1>6. EndOfChain'
  <2>1. ASSUME NEW j \in 1..Len(history')
        PROVE  /\ history'[j].seq = seq - Len(history') + j
               /\ history'[j].prev = Before(history'[j].seq)
               /\ history'[j].digest = Digest(run, history'[j].seq, history'[j].seq)
    <3>1. j + 1 \in 1..Len(history) /\ history'[j] = history[j + 1] /\ j \in Nat
      BY <1>3
    <3>2. /\ history[j + 1].seq = seq - Len(history) + (j + 1)
          /\ history[j + 1].prev = Before(history[j + 1].seq)
          /\ history[j + 1].digest = Digest(run, history[j + 1].seq, history[j + 1].seq)
      BY <1>2, <3>1 DEF EndOfChain
    <3>3. seq - Len(history) + (j + 1) = seq - Len(history') + j
      BY <1>2, <1>3, <3>1
    <3> QED BY <3>1, <3>2, <3>3
  <2> QED BY <1>1, <1>2, <1>3, <1>5, <2>1 DEF EndOfChain, Digest
<1> QED BY <1>1, <1>4, <1>6 DEF HistoryInv, OnTrack, IntactChainVerifies

LEMMA RestartKeepsHistory == ASSUME HistoryInv, RestartLedger PROVE HistoryInv'
BY DEF HistoryInv, RestartLedger, RestartSender, HistoryTypeOK, EndOfChain, OnTrack, Before,
       IntactChainVerifies, NoCheck

LEMMA BeginKeepsHistory == ASSUME HistoryInv, VerifyBegin PROVE HistoryInv'
<1> DEFINE e == history[1]
<1>1. HistoryTypeOK /\ EndOfChain /\ seq \in Nat /\ run \in Nat
  BY DEF HistoryInv, HistoryTypeOK
<1>2. /\ Len(history) \in Nat \ {0} /\ e \in Entries /\ Head(history) = e
      /\ 1 \in 1..Len(history)
  BY <1>1 DEF VerifyBegin, HistoryTypeOK
<1>3. e.seq = seq - Len(history) + 1 /\ e.prev = Before(e.seq) /\ e.seq \in Nat /\ e.prev \in Digests
  BY <1>1, <1>2 DEF EndOfChain, Entries
<1>4. ~ (e.seq = 1 /\ e.prev # Genesis)
  BY <1>3 DEF Before
<1> HIDE DEF e
<1>5. /\ check' = [at |-> 1, prev |-> e.prev, expected |-> e.seq, dropped |-> FALSE]
      /\ UNCHANGED <<run, seq, lastDigest, history, alarm>>
  BY <1>2, <1>4 DEF VerifyBegin, linkVars, senderVars
<1>6. HistoryTypeOK'
  BY <1>1, <1>3, <1>5 DEF HistoryTypeOK
<1>7. EndOfChain'
  BY <1>1, <1>5 DEF EndOfChain, Before
<1>8. check'.at = 1 /\ check'.expected = e.seq /\ check'.prev = e.prev
  BY <1>5
<1>9. OnTrack'
  BY <1>2, <1>3, <1>5, <1>8 DEF OnTrack, Before
<1> QED BY <1>5, <1>6, <1>7, <1>9 DEF HistoryInv, IntactChainVerifies

LEMMA VerifyKeepsHistory == ASSUME HistoryInv, VerifyEntry PROVE HistoryInv'
<1> DEFINE e == history[check.at]
<1>1. /\ HistoryTypeOK /\ EndOfChain /\ OnTrack /\ ~ alarm
      /\ seq \in Nat /\ run \in Nat /\ Len(history) \in Nat
  BY DEF HistoryInv, HistoryTypeOK, IntactChainVerifies
<1>2. /\ check # NoCheck /\ UNCHANGED <<run, seq, lastDigest, history>>
      /\ check \in [at : Nat \ {0}, prev : Digests, expected : Nat, dropped : BOOLEAN]
  BY <1>1 DEF VerifyEntry, linkVars, senderVars, HistoryTypeOK
<1>3. EndOfChain'
  BY <1>1, <1>2 DEF EndOfChain, Before
<1>4. CASE check.at > Len(history)
  <2>1. alarm' = FALSE /\ check' = NoCheck
    BY <1>1, <1>4 DEF VerifyEntry, Returns
  <2> QED BY <1>1, <1>2, <1>3, <2>1 DEF HistoryInv, HistoryTypeOK, OnTrack, IntactChainVerifies
<1>5. CASE check.at <= Len(history)
  <2>1. check.at \in 1..Len(history) /\ e \in Entries
    BY <1>1, <1>2, <1>5 DEF HistoryTypeOK
  <2>2. /\ e.seq = seq - Len(history) + check.at /\ e.prev = Before(e.seq)
        /\ e.digest = Digest(run, e.seq, e.seq) /\ e.seq \in Nat
    BY <1>1, <2>1 DEF EndOfChain, Entries
  <2>3. ~ check.dropped => Linked(e)
    BY <1>1, <1>2, <2>2 DEF OnTrack, Linked
  <2>4. CASE ~ Linked(e)
    <3>1. alarm' = FALSE /\ check' = NoCheck
      BY <1>1, <1>2, <1>5, <2>3, <2>4 DEF VerifyEntry, Returns
    <3> QED BY <1>1, <1>2, <1>3, <3>1 DEF HistoryInv, HistoryTypeOK, OnTrack, IntactChainVerifies
  <2>5. CASE Linked(e)
    <3>1. /\ check' = [check EXCEPT !.at = check.at + 1, !.prev = e.digest,
                                    !.expected = check.expected + 1]
          /\ alarm' = alarm
      <4>1. ~ (check.at > Len(history))
        BY <1>1, <1>2, <1>5
      <4> QED BY <1>2, <2>5, <4>1 DEF VerifyEntry
    <3> HIDE DEF e
    <3>2. /\ check'.at = check.at + 1 /\ check'.prev = e.digest
          /\ check'.expected = check.expected + 1 /\ check'.dropped = check.dropped
          /\ check' \in [at : Nat \ {0}, prev : Digests, expected : Nat, dropped : BOOLEAN]
      <4>1. e.digest \in Digests
        BY <2>1 DEF Entries
      <4>2. check' \in [at : Nat \ {0}, prev : Digests, expected : Nat, dropped : BOOLEAN]
        <5> DEFINE at == check.at + 1
                   expected == check.expected + 1
        <5>1. at \in Nat \ {0} /\ expected \in Nat
          BY <1>2
        <5>2. check' = [check EXCEPT !.at = at, !.prev = e.digest, !.expected = expected]
          BY <3>1
        <5> HIDE DEF at, expected
        <5> QED BY <1>2, <4>1, <5>1, <5>2
      <4>3. check'.at = check.at + 1 /\ check'.prev = e.digest /\ check'.expected = check.expected + 1
        BY <1>2, <3>1
      <4>4. check'.dropped = check.dropped
        BY <1>2, <3>1
      <4> QED BY <4>2, <4>3, <4>4
    <3>3. HistoryTypeOK'
      BY <1>1, <1>2, <3>1, <3>2 DEF HistoryTypeOK
    <3>4. e.seq = check.expected
      BY <2>5 DEF Linked
    <3>5. e.seq >= 1
      BY <1>1, <1>2, <2>1, <2>2 DEF EndOfChain
    <3>6. check'.prev = Digest(run, check'.expected - 1, check'.expected - 1) /\ check'.expected # 1
      BY <1>2, <2>2, <3>2, <3>4, <3>5
    <3>7. check'.prev = (Before(check.expected))'
      BY <1>2, <3>6 DEF Before
    <3>8. ~ check'.dropped => check'.expected = seq - Len(history) + check'.at
      BY <1>1, <1>2, <3>2 DEF OnTrack
    <3>9. OnTrack'
      BY <1>1, <1>2, <1>5, <3>2, <3>7, <3>8 DEF OnTrack
    <3> QED BY <1>1, <1>3, <3>1, <3>3, <3>9 DEF HistoryInv, IntactChainVerifies
  <2> QED BY <2>4, <2>5
<1> QED BY <1>1, <1>2, <1>4, <1>5

LEMMA HistoryStep == HistoryInv /\ [LedgerNext]_ledgerVars => HistoryInv'
<1> SUFFICES ASSUME HistoryInv, [LedgerNext]_ledgerVars PROVE HistoryInv'
  OBVIOUS
<1>1. ASSUME UNCHANGED <<run, seq, lastDigest, history, check, alarm>> PROVE HistoryInv'
  BY <1>1 DEF HistoryInv, HistoryTypeOK, EndOfChain, OnTrack, Before, IntactChainVerifies
<1>2. CASE RestartReceiver /\ UNCHANGED historyVars
  BY <1>1, <1>2 DEF RestartReceiver, senderVars, historyVars
<1>3. CASE (\E f \in frames : RecordIncoming(f)) /\ UNCHANGED historyVars
  BY <1>1, <1>3 DEF RecordIncoming, senderVars, historyVars
<1>4. CASE UNCHANGED ledgerVars
  BY <1>1, <1>4 DEF ledgerVars, linkVars, senderVars, historyVars
<1> QED BY <1>2, <1>3, <1>4, AppendKeepsHistory, DropKeepsHistory, RestartKeepsHistory,
           BeginKeepsHistory, VerifyKeepsHistory DEF LedgerNext

(* The inductive invariant of the history: it is the end of the chain, and *)
(* an undisturbed verification is on its track.                            *)
THEOREM HistoryInvariant == LedgerSpec => []HistoryInv
BY HistoryInitially, HistoryStep, PTL DEF LedgerSpec

(* However long the history and however it grows meanwhile, a verification *)
(* during which nothing is dropped finds an intact chain intact.           *)
THEOREM IntactChainVerifiesHolds == LedgerSpec => []IntactChainVerifies
<1>1. HistoryInv => IntactChainVerifies
  BY DEF HistoryInv
<1> QED BY <1>1, HistoryInvariant, PTL

-----------------------------------------------------------------------------
(* The transport's connections.  The lock makes the look at                *)
(* _connected_endpoints and the connect one step: an endpoint without a    *)
(* link may be in the set, left by an earlier socket, but not the reverse. *)
ConnectionInv ==
    /\ links \in [Endpoint -> {0, 1}]
    /\ \A e \in Endpoint : links[e] = 1 => e \in connected

LEMMA ConnectionInit == ASSUME ZmqInit PROVE ConnectionInv
  BY DEF ZmqInit, ConnectionInv

LEMMA ConnectionStep == ASSUME ConnectionInv, [ZmqNext]_zmqVars PROVE ConnectionInv'
  <1>1. ASSUME NEW th \in Thread, NEW e \in todo[th], Connect(th, e) PROVE ConnectionInv'
    <2>1. CASE e \in connected
      BY <1>1, <2>1 DEF Connect, ConnectionInv
    <2>2. CASE e \notin connected
      <3>1. connected' = connected \cup {e} /\ links' = [links EXCEPT ![e] = @ + 1]
        BY <1>1, <2>2 DEF Connect
      <3>2. ASSUME NEW a \in Endpoint
            PROVE  links'[a] \in {0, 1} /\ (links'[a] = 1 => a \in connected')
        <4>1. links[a] \in {0, 1} /\ (links[a] = 1 => a \in connected)
          BY DEF ConnectionInv
        <4>2. links'[a] = IF a = e THEN links[a] + 1 ELSE links[a]
          BY <3>1 DEF ConnectionInv
        <4>3. a = e => links[a] = 0
          BY <2>2, <4>1
        <4> QED  BY <3>1, <4>1, <4>2, <4>3
      <3>3. links' \in [Endpoint -> {0, 1}]
        <4>1. DOMAIN links' = Endpoint /\ links' = [a \in Endpoint |-> links'[a]]
          BY <3>1 DEF ConnectionInv
        <4> QED  BY <3>2, <4>1
      <3> QED  BY <3>2, <3>3 DEF ConnectionInv
    <2> QED  BY <2>1, <2>2
  <1>2. CASE Stop
    <2>1. links' = [e \in Endpoint |-> 0]
      BY <1>2 DEF Stop
    <2> QED  BY <2>1 DEF ConnectionInv
  <1>3. CASE UNCHANGED <<connected, links>>
    BY <1>3 DEF ConnectionInv
  <1> QED  BY <1>1, <1>2, <1>3 DEF ZmqNext, zmqVars, socketVars, AddDirectPeer, StartOpens,
             StartConnects, Daemon, SyncBegin, Receives, Discovers, Swarm

THEOREM ConnectionInvariant == ZmqSpec => []ConnectionInv
  <1>1. ZmqInit => ConnectionInv
    BY ConnectionInit
  <1>2. ConnectionInv /\ [ZmqNext]_zmqVars => ConnectionInv'
    BY ConnectionStep
  <1> QED  BY <1>1, <1>2, PTL DEF ZmqSpec

(* No socket is connected to one endpoint twice, however many threads race *)
(* to connect to what discovery found, and with copies of its table of     *)
(* whatever age.                                                           *)
THEOREM ConnectedOnceHolds == ZmqSpec => []ConnectedOnce
  <1>1. ConnectionInv => ConnectedOnce
    BY DEF ConnectionInv, ConnectedOnce
  <1> QED  BY <1>1, ConnectionInvariant, PTL

-----------------------------------------------------------------------------
(* The keys.  While the callback of a first beacon is on its way the       *)
(* listener hears no other, so that the table cannot have changed; whoever *)
(* asked discovery meanwhile has got the callback's key.  Of a peer that   *)
(* is not in the table nobody has a key.                                   *)
Asked(p) == lookup # Idle /\ lookup.from = p /\ lookup.known # NoKey

Key == Secret \cup {NoKey}
Place == [port : Port \cup {0}, key : Key]

Lookup == [from : Peer \cup {Stranger}, signed : Key, life : Nat, known : Key]

TrustTypeOK ==
    /\ trust \in [Peer -> Key]
    /\ table \in [Peer -> Place] /\ peer \in [Peer -> Place]
    /\ lives \in [Peer -> Nat]
    /\ beacons \subseteq [from : Peer, port : Port \cup {0}, key : Key]
    /\ lookup = Idle \/ lookup \in Lookup
    /\ lookup # Idle /\ lookup.known # NoKey => lookup.from # Stranger
    /\ found = Idle \/ found \in Peer \X Key

BeaconsTell == \A b \in beacons : [port |-> b.port, key |-> b.key] # Absent

KnownInTable ==
    \A p \in Peer : table[p] = Absent => trust[p] = NoKey /\ ~ Asked(p)

CallbackAgrees ==
    found # Idle =>
        /\ table[found[1]].key = found[2]
        /\ trust[found[1]] \in {NoKey, found[2]}
        /\ Asked(found[1]) => lookup.known = found[2]

TrustInv == TrustTypeOK /\ BeaconsTell /\ KnownInTable /\ CallbackAgrees

LEMMA TrustInit == ASSUME ZmqInit PROVE TrustInv
  <1>1. Absent \in Place
    BY DEF Absent, Place, Key
  <1>2. TrustTypeOK
    BY <1>1 DEF ZmqInit, DiscoveryInit, TrustTypeOK, Key, Idle
  <1> QED  BY <1>2 DEF ZmqInit, DiscoveryInit, TrustInv, BeaconsTell, KnownInTable,
             CallbackAgrees, Asked

(* The peers live, move and send. *)
LEMMA SwarmKeepsTrust == ASSUME TrustInv, Swarm PROVE TrustInv'
  <1>1. UNCHANGED <<trust, table, lookup, found>>
    BY DEF Swarm, PeerStarts, Announce, LoseBeacon, listenVars
  <1>2. KnownInTable' /\ CallbackAgrees'
    BY <1>1 DEF TrustInv, KnownInTable, CallbackAgrees, Asked
  <1>3. peer' \in [Peer -> Place] /\ lives' \in [Peer -> Nat]
    <2>1. ASSUME NEW p \in Peer, NEW port \in Port, NEW key \in Secret \cup {NoKey},
                 PeerStarts(p, port, key)
          PROVE  peer' \in [Peer -> Place] /\ lives' \in [Peer -> Nat]
      <3>1. [port |-> port, key |-> key] \in Place
        BY DEF Place, Key
      <3> QED  BY <2>1, <3>1 DEF PeerStarts, TrustInv, TrustTypeOK
    <2>2. CASE UNCHANGED <<peer, lives>>
      BY <2>2 DEF TrustInv, TrustTypeOK
    <2> QED  BY <2>1, <2>2 DEF Swarm, Announce, LoseBeacon
  <1> DEFINE Beacon == [from : Peer, port : Port \cup {0}, key : Key]
  <1>4. beacons' \subseteq Beacon /\ BeaconsTell'
    <2>1. ASSUME NEW p \in Peer, Announce(p) PROVE beacons' \subseteq Beacon /\ BeaconsTell'
      <3>1. peer[p] \in Place /\ peer[p] # Absent /\ beacons' = beacons \cup {BeaconOf(p)}
        BY <2>1 DEF TrustInv, TrustTypeOK, Announce
      <3>2. BeaconOf(p) \in Beacon /\ BeaconOf(p).port = peer[p].port /\ BeaconOf(p).key = peer[p].key
        BY <3>1 DEF BeaconOf, Place
      <3>3. [port |-> peer[p].port, key |-> peer[p].key] = peer[p]
        BY <3>1 DEF Place
      <3> QED  BY <3>1, <3>2, <3>3 DEF TrustInv, TrustTypeOK, BeaconsTell
    <2>2. CASE beacons' \subseteq beacons
      BY <2>2 DEF TrustInv, TrustTypeOK, BeaconsTell
    <2> QED  BY <2>1, <2>2 DEF Swarm, PeerStarts, LoseBeacon
  <1> QED  BY <1>1, <1>2, <1>3, <1>4 DEF TrustInv, TrustTypeOK

(* The listener takes a beacon: it has no callback under way, and begins   *)
(* one only for a peer of whom nobody has a key.                           *)
LEMMA ListenKeepsTrust ==
    ASSUME TrustInv, NEW b \in beacons, NEW again \in BOOLEAN, Listen(b, again)
    PROVE  TrustInv'
  <1> DEFINE place == [port |-> b.port, key |-> b.key]
  <1>1. /\ found = Idle /\ table' = [table EXCEPT ![b.from] = place]
        /\ found' = IF table[b.from] = Absent THEN <<b.from, b.key>> ELSE Idle
        /\ beacons' \subseteq beacons
        /\ UNCHANGED <<peer, lives, lookup, trust>>
    BY DEF Listen
  <1>2. /\ b.from \in Peer /\ b.key \in Key
        /\ place \in Place /\ place.key = b.key /\ place # Absent
    BY DEF TrustInv, TrustTypeOK, BeaconsTell, Place
  <1> HIDE DEF place
  <1>3. /\ table' \in [Peer -> Place] /\ table'[b.from] = place
        /\ \A p \in Peer : p # b.from => table'[p] = table[p]
    BY <1>1, <1>2 DEF TrustInv, TrustTypeOK
  <1>4. TrustTypeOK' /\ BeaconsTell'
    <2>1. found' = Idle \/ found' \in Peer \X Key
      BY <1>1, <1>2
    <2> QED  BY <1>1, <1>3, <2>1 DEF TrustInv, TrustTypeOK, BeaconsTell
  <1>5. CASE table[b.from] = Absent
    <2>1. trust[b.from] = NoKey /\ ~ Asked(b.from)
      BY <1>2, <1>5 DEF TrustInv, KnownInTable
    <2>2. found' = <<b.from, b.key>> /\ \A p : Asked(p)' <=> Asked(p)
      BY <1>1, <1>5 DEF Asked
    <2>3. CallbackAgrees'
      <3>1. found'[1] = b.from /\ found'[2] = b.key
        BY <2>2
      <3> QED  BY <1>1, <1>2, <1>3, <2>1, <2>2, <3>1 DEF CallbackAgrees
    <2>4. KnownInTable'
      BY <1>1, <1>3, <2>1, <2>2 DEF TrustInv, KnownInTable
    <2> QED  BY <1>4, <2>3, <2>4 DEF TrustInv
  <1>6. CASE table[b.from] # Absent
    <2>1. found' = Idle /\ \A p : Asked(p)' <=> Asked(p)
      BY <1>1, <1>6 DEF Asked
    <2>2. CallbackAgrees'
      BY <2>1 DEF CallbackAgrees
    <2>3. KnownInTable'
      BY <1>1, <1>2, <1>3, <2>1 DEF TrustInv, KnownInTable
    <2> QED  BY <1>4, <2>2, <2>3 DEF TrustInv
  <1> QED  BY <1>5, <1>6

(* A listener that starts, stops or takes note of a silence writes neither *)
(* table nor keys.                                                         *)
LEMMA QuietKeepsTrust ==
    ASSUME TrustInv, UNCHANGED <<peer, lives, beacons, table, found, trust, lookup>>
    PROVE  TrustInv'
  BY DEF TrustInv, TrustTypeOK, BeaconsTell, KnownInTable, CallbackAgrees, Asked

(* The callback: what it stores is what is stored already, or was asked.   *)
LEMMA PeerFoundKeepsTrust == ASSUME TrustInv, PeerFound PROVE TrustInv'
  <1> DEFINE p == found[1]
             k == found[2]
  <1>1. /\ found # Idle /\ found' = Idle /\ UNCHANGED <<peer, lives, beacons, table, lookup>>
        /\ trust' = IF k = NoKey THEN trust ELSE [trust EXCEPT ![p] = k]
    BY DEF PeerFound, peerVars
  <1>2. p \in Peer /\ k \in Key /\ table[p].key = k
    BY <1>1 DEF TrustInv, TrustTypeOK, CallbackAgrees
  <1>3. TrustTypeOK' /\ BeaconsTell' /\ CallbackAgrees'
    BY <1>1, <1>2 DEF TrustInv, TrustTypeOK, BeaconsTell, CallbackAgrees
  <1>4. table[p] = Absent => k = NoKey
    BY <1>2 DEF Absent
  <1>5. KnownInTable'
    <2>1. SUFFICES ASSUME NEW q \in Peer, table[q] = Absent
                   PROVE  trust'[q] = NoKey /\ ~ Asked(q)'
      BY <1>1 DEF KnownInTable
    <2>2. trust[q] = NoKey /\ ~ Asked(q)
      BY <2>1 DEF TrustInv, KnownInTable
    <2>3. ~ Asked(q)'
      BY <1>1, <2>2 DEF Asked
    <2>4. trust'[q] = trust[q]
      BY <1>1, <1>2, <1>4, <2>1 DEF TrustInv, TrustTypeOK
    <2> QED  BY <2>2, <2>3, <2>4
  <1> QED  BY <1>3, <1>5 DEF TrustInv

(* The receiver: a frame comes without a key, and its key comes from the   *)
(* table.                                                                  *)
LEMMA TakeFrameKeepsTrust ==
    ASSUME TrustInv, NEW p \in Peer, TakeFrame(p) PROVE TrustInv'
  <1>1. UNCHANGED <<peer, lives, beacons, table, found, trust>>
    BY DEF TakeFrame, peerVars, listenVars
  <1>2. CASE lookup' = lookup
    BY <1>1, <1>2, QuietKeepsTrust
  <1>3. CASE lookup' # lookup
    <2>1. lookup' = FrameOf(p)
      BY <1>3 DEF TakeFrame
    <2>2. peer[p] \in Place /\ lives[p] \in Nat
      BY DEF TrustInv, TrustTypeOK
    <2>3. /\ lookup' \in Lookup
          /\ lookup'.known = NoKey
      BY <2>1, <2>2 DEF FrameOf, Place, Key, Lookup
    <2>4. \A q : ~ Asked(q)'
      BY <2>3 DEF Asked
    <2>5. TrustTypeOK' /\ BeaconsTell'
      BY <1>1, <2>3 DEF TrustInv, TrustTypeOK, BeaconsTell
    <2>6. KnownInTable' /\ CallbackAgrees'
      BY <1>1, <2>4 DEF TrustInv, KnownInTable, CallbackAgrees
    <2> QED  BY <2>5, <2>6 DEF TrustInv
  <1> QED  BY <1>2, <1>3

LEMMA DropKeepsTrust ==
    ASSUME TrustInv, lookup' = Idle, UNCHANGED <<peer, lives, beacons, table, found, trust>>
    PROVE  TrustInv'
  BY DEF TrustInv, TrustTypeOK, BeaconsTell, KnownInTable, CallbackAgrees, Asked

LEMMA AskKeepsTrust == ASSUME TrustInv, AskDiscovery PROVE TrustInv'
  <1> DEFINE p == lookup.from
             k == IF p = Stranger THEN NoKey ELSE table[p].key
  <1>1. /\ lookup # Idle /\ UNCHANGED <<peer, lives, beacons, table, found, trust>>
        /\ lookup' = IF k = NoKey THEN Idle ELSE [lookup EXCEPT !.known = k]
    BY DEF AskDiscovery, peerVars, listenVars
  <1>2. CASE k = NoKey
    BY <1>1, <1>2, DropKeepsTrust
  <1>3. CASE k # NoKey
    <2>1. lookup \in Lookup
      BY <1>1 DEF TrustInv, TrustTypeOK
    <2>2. p \in Peer /\ table[p] \in Place /\ k = table[p].key
      BY <1>3, <2>1 DEF TrustInv, TrustTypeOK, Lookup
    <2>3. /\ lookup' \in Lookup
          /\ lookup'.from = p /\ lookup'.known = k
      BY <1>1, <1>3, <2>1, <2>2 DEF Place, Lookup
    <2> HIDE DEF k
    <2>4. table[p] # Absent
      BY <1>3, <2>2 DEF Absent
    <2>5. \A q : Asked(q)' => q = p
      BY <2>3 DEF Asked
    <2>6. TrustTypeOK' /\ BeaconsTell'
      BY <1>1, <1>3, <2>2, <2>3, DiscoveryAssumption DEF TrustInv, TrustTypeOK, BeaconsTell
    <2>7. KnownInTable'
      BY <1>1, <2>4, <2>5 DEF TrustInv, KnownInTable
    <2>8. CallbackAgrees'
      BY <1>1, <2>2, <2>3, <2>5 DEF TrustInv, CallbackAgrees
    <2> QED  BY <2>6, <2>7, <2>8 DEF TrustInv
  <1> QED  BY <1>2, <1>3

LEMMA CacheKeepsTrust == ASSUME TrustInv, CacheKey PROVE TrustInv'
  <1> DEFINE p == lookup.from
             k == lookup.known
  <1>1. /\ lookup # Idle /\ k # NoKey /\ trust' = [trust EXCEPT ![p] = k] /\ lookup' = Idle
        /\ UNCHANGED <<peer, lives, beacons, table, found>>
    BY DEF CacheKey, peerVars, listenVars
  <1>2. p \in Peer /\ k \in Key /\ Asked(p)
    BY <1>1 DEF TrustInv, TrustTypeOK, Asked, Lookup
  <1>3. table[p] # Absent
    BY <1>2 DEF TrustInv, KnownInTable
  <1>4. /\ trust' \in [Peer -> Key] /\ trust'[p] = k
        /\ \A q \in Peer : q # p => trust'[q] = trust[q]
    BY <1>1, <1>2 DEF TrustInv, TrustTypeOK
  <1>5. \A q : ~ Asked(q)'
    BY <1>1 DEF Asked
  <1>6. TrustTypeOK' /\ BeaconsTell'
    BY <1>1, <1>4 DEF TrustInv, TrustTypeOK, BeaconsTell
  <1>7. KnownInTable'
    BY <1>1, <1>3, <1>4, <1>5 DEF TrustInv, KnownInTable
  <1>8. CallbackAgrees'
    <2>1. SUFFICES ASSUME found # Idle
                   PROVE  table[found[1]].key = found[2] /\ trust'[found[1]] \in {NoKey, found[2]}
      BY <1>1, <1>5 DEF CallbackAgrees
    <2>2. found[1] \in Peer /\ CallbackAgrees
      BY <2>1 DEF TrustInv, TrustTypeOK
    <2>3. CASE found[1] = p
      BY <1>2, <1>4, <2>1, <2>2, <2>3 DEF CallbackAgrees
    <2>4. CASE found[1] # p
      BY <1>4, <2>1, <2>2, <2>4 DEF CallbackAgrees
    <2> QED  BY <2>3, <2>4
  <1> QED  BY <1>6, <1>7, <1>8 DEF TrustInv

LEMMA TrustStep == ASSUME TrustInv, [ZmqNext]_zmqVars PROVE TrustInv'
  <1>1. CASE Swarm
    BY <1>1, SwarmKeepsTrust
  <1>2. CASE Discovers
    <2>1. ASSUME NEW b \in beacons, NEW again \in BOOLEAN, Listen(b, again) PROVE TrustInv'
      BY <2>1, ListenKeepsTrust
    <2>2. ASSUME NEW p \in Peer, Silence(p) PROVE TrustInv'
      BY <2>2, QuietKeepsTrust DEF Silence, peerVars
    <2> QED  BY <1>2, <2>1, <2>2, PeerFoundKeepsTrust DEF Discovers
  <1>3. CASE Receives
    BY <1>3, TakeFrameKeepsTrust, AskKeepsTrust, CacheKeepsTrust DEF Receives
  <1>4. CASE Stop
    BY <1>4, DropKeepsTrust DEF Stop, peerVars, listenVars
  <1>5. CASE UNCHANGED <<peer, lives, beacons, table, found, trust, lookup>>
    BY <1>5, QuietKeepsTrust
  <1>6. ASSUME NEW p \in Peer, AddDirectPeer(p) PROVE TrustInv'
    BY <1>5, <1>6 DEF AddDirectPeer, discoveryVars, peerVars, listenVars
  <1>7. CASE StartOpens \/ StartConnects \/ Daemon
    BY <1>5, <1>7 DEF StartOpens, StartConnects, Daemon, StartListening, StopListening,
       discoveryVars, peerVars, listenVars
  <1>8. ASSUME NEW th \in Thread, SyncBegin(th) \/ \E e \in todo[th] : Connect(th, e)
        PROVE  TrustInv'
    BY <1>5, <1>8 DEF SyncBegin, Connect, discoveryVars, peerVars, listenVars
  <1>9. CASE UNCHANGED zmqVars
    BY <1>5, <1>9 DEF zmqVars, discoveryVars, peerVars, listenVars
  <1> QED  BY <1>1, <1>2, <1>3, <1>4, <1>6, <1>7, <1>8, <1>9 DEF ZmqNext

THEOREM TrustInvariant == ZmqSpec => []TrustInv
  <1>1. ZmqInit => TrustInv
    BY TrustInit
  <1>2. TrustInv /\ [ZmqNext]_zmqVars => TrustInv'
    BY TrustStep
  <1> QED  BY <1>1, <1>2, PTL DEF ZmqSpec

(* A step that gives a trusted peer another key is the receiver's, for a   *)
(* frame of that peer that it found no key for.                            *)
LEMMA StepPins ==
    ASSUME TrustInv, [ZmqNext]_zmqVars, NEW p \in Peer,
           trust[p] # NoKey, lookup = Idle \/ lookup.from # p
    PROVE  trust'[p] = trust[p]
  <1>1. CASE trust' = trust
    BY <1>1
  <1>2. CASE PeerFound
    <2>1. found # Idle /\ found[1] \in Peer /\ CallbackAgrees
      BY <1>2 DEF PeerFound, TrustInv, TrustTypeOK
    <2>2. CASE found[1] = p
      <3>1. trust[p] = found[2]
        BY <2>1, <2>2 DEF CallbackAgrees
      <3> QED  BY <1>2, <2>2, <3>1 DEF PeerFound, TrustInv, TrustTypeOK
    <2>3. CASE found[1] # p
      BY <1>2, <2>3 DEF PeerFound, TrustInv, TrustTypeOK
    <2> QED  BY <2>2, <2>3
  <1>3. CASE CacheKey
    BY <1>3 DEF CacheKey, TrustInv, TrustTypeOK
  <1> QED  BY <1>1, <1>2, <1>3 DEF ZmqNext, zmqVars, discoveryVars, peerVars, listenVars,
             AddDirectPeer, StartOpens, StartConnects, Stop, Daemon, StartListening,
             StopListening, SyncBegin, Connect, Receives, Discovers, Swarm, TakeFrame,
             AskDiscovery, Listen, Silence, PeerStarts, Announce, LoseBeacon

(* A key that is once trusted stays trusted, whatever beacons come late or *)
(* twice and whenever the callback of the first one is made; except by the *)
(* receiver itself, in the race that the property names.                   *)
THEOREM KeyPinnedHolds == ZmqSpec => KeyPinned
  <1>1. TrustInv /\ [ZmqNext]_zmqVars =>
            [\A p \in Peer :
                trust[p] # NoKey /\ (lookup = Idle \/ lookup.from # p) => trust'[p] = trust[p]]_trust
    BY StepPins
  <1> QED  BY <1>1, TrustInvariant, PTL DEF ZmqSpec, KeyPinned
=============================================================================
