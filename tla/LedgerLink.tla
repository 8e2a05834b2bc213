----------------------------- MODULE LedgerLink -----------------------------
(***************************************************************************)
(* The hash chain of crypto/hash_chain.py across the mesh: a sender's      *)
(* MicroLedger, the frames it goes out in, and the PeerLedgerTracker of    *)
(* one receiver.                                                           *)
(*                                                                         *)
(* A frame carries the low 14 bits of its sequence number (ccsds.py), but  *)
(* the sender hashes the whole number.  The receiver recomputes the digest *)
(* from the number it got, so from frame 2^14 on the two differ.           *)
(*                                                                         *)
(* Digest(e, i, s): the digest of the i-th frame of the sender's e-th run, *)
(* hashed with sequence number s.  Digests of different frames differ.     *)
(*                                                                         *)
(* UDP delivers any frame sent so far at any time, any number of times, or *)
(* never.                                                                  *)
(***************************************************************************)
EXTENDS Integers, FiniteSets

CONSTANTS SeqModulus,     \* 2^14 in the code
          MaxFrames,      \* bound: frames per run of the sender
          MaxRuns,        \* bound: runs of the sender
          MaxForgets      \* bound: restarts of the receiver

ASSUME LinkAssumption ==
    /\ SeqModulus \in Nat \ {0} /\ MaxFrames \in Nat
    /\ MaxRuns \in Nat \ {0} /\ MaxForgets \in Nat

VARIABLES run,           \* which run of the sender this is
          seq,           \* MicroLedger._seq
          lastDigest,    \* MicroLedger._last_digest
          frames,        \* the frames sent so far
          tracker,       \* PeerLedgerTracker._peer_state of this sender
          accepted,      \* history: frames accepted since the receiver started
          rejected,      \* history: frames rejected as forks since then
          missing,       \* history: numbers reported as missing since then
          first,         \* history: the index of the frame the tracker began with
          forgets        \* how often the receiver has restarted

senderVars   == <<run, seq, lastDigest, frames>>
receiverVars == <<tracker, accepted, rejected, missing, first,
                  forgets>>
linkVars     == <<senderVars, receiverVars>>

Digest(e, i, s) == <<e, i, s>>

(* What CCSDSFrame.pack leaves of a ledger entry. *)
Frame(e, i, prev) == [run |-> e, index |-> i, seq |-> i % SeqModulus, prev |-> prev]

Genesis         == <<0, 0, 0>>      \* GENESIS_HASH, the same for every run
NoPeer          == [lastSeq |-> -1, lastDigest |-> Genesis]

LinkInit ==
    /\ run = 1
    /\ seq = 0
    /\ lastDigest = Genesis
    /\ frames = {}
    /\ tracker = NoPeer
    /\ accepted = {} /\ rejected = {} /\ missing = {}
    /\ first = 0
    /\ forgets = 0

(* MicroLedger.append and the frame the transmit worker makes of the entry. *)
AppendFrame ==
    /\ seq < MaxFrames
    /\ seq' = seq + 1
    /\ lastDigest' = Digest(run, seq + 1, seq + 1)
    /\ frames' = frames \cup {Frame(run, seq + 1, lastDigest)}
    /\ UNCHANGED <<run, receiverVars>>

(* The sender's process starts again: its ledger is not persisted. *)
RestartSender ==
    /\ run < MaxRuns
    /\ run' = run + 1
    /\ seq' = 0
    /\ lastDigest' = Genesis
    /\ UNCHANGED <<frames, receiverVars>>

-----------------------------------------------------------------------------
(* record_incoming.  The frame's digest is the one the receiver computes,  *)
(* so the check for a corrupted digest always passes.                      *)

Advance(f) ==
    /\ tracker' = [lastSeq |-> f.seq, lastDigest |-> Digest(f.run, f.index, f.seq)]
    /\ accepted' = accepted \cup {f}

FirstFrame(f) ==
    /\ tracker = NoPeer
    /\ Advance(f)
    /\ first' = f.index
    /\ UNCHANGED <<rejected, missing>>

(* Mutant of OutOfOrderOrDuplicate: a late frame moves the tracker back. *)
LateMovesBack(f) ==
    /\ tracker # NoPeer /\ f.seq <= tracker.lastSeq
    /\ Advance(f)
    /\ UNCHANGED <<rejected, missing, first>>

OutOfOrderOrDuplicate(f) ==
    /\ tracker # NoPeer /\ f.seq <= tracker.lastSeq
    /\ accepted' = accepted \cup {f}
    /\ UNCHANGED <<tracker, rejected, missing, first>>

NextLink(f) ==
    /\ tracker # NoPeer /\ f.seq = tracker.lastSeq + 1
    /\ f.prev = tracker.lastDigest
    /\ Advance(f)
    /\ UNCHANGED <<rejected, missing, first>>

(* The tracker stays where it is. *)
ForkOrTamper(f) ==
    /\ tracker # NoPeer /\ f.seq = tracker.lastSeq + 1
    /\ f.prev # tracker.lastDigest
    /\ rejected' = rejected \cup {f}
    /\ UNCHANGED <<tracker, accepted, missing, first>>

(* Mutants of Gap: the digest of the frame is not kept; the reported range *)
(* starts one too high.                                                    *)
GapKeepsDigest(f) ==
    /\ tracker # NoPeer /\ f.seq > tracker.lastSeq + 1
    /\ tracker' = [tracker EXCEPT !.lastSeq = f.seq]
    /\ accepted' = accepted \cup {f}
    /\ missing' = missing \cup (tracker.lastSeq + 1)..(f.seq - 1)
    /\ UNCHANGED <<rejected, first>>
GapOffByOne(f) ==
    /\ tracker # NoPeer /\ f.seq > tracker.lastSeq + 1
    /\ Advance(f)
    /\ missing' = missing \cup (tracker.lastSeq + 2)..(f.seq - 1)
    /\ UNCHANGED <<rejected, first>>

Gap(f) ==
    /\ tracker # NoPeer /\ f.seq > tracker.lastSeq + 1
    /\ Advance(f)
    /\ missing' = missing \cup (tracker.lastSeq + 1)..(f.seq - 1)
    /\ UNCHANGED <<rejected, first>>

RecordIncoming(f) ==
    /\ \/ FirstFrame(f)
       \/ OutOfOrderOrDuplicate(f)
       \/ NextLink(f)
       \/ ForkOrTamper(f)
       \/ Gap(f)
    /\ UNCHANGED <<senderVars, forgets>>

(* The receiver's process starts again: the tracker is not persisted. *)
RestartReceiver ==
    /\ forgets < MaxForgets
    /\ forgets' = forgets + 1
    /\ tracker' = NoPeer
    /\ accepted' = {} /\ rejected' = {} /\ missing' = {}
    /\ first' = 0
    /\ UNCHANGED senderVars

LinkNext ==
    \/ AppendFrame
    \/ RestartSender
    \/ \E f \in frames : RecordIncoming(f)
    \/ RestartReceiver

LinkSpec == LinkInit /\ [][LinkNext]_linkVars

-----------------------------------------------------------------------------
Numbers(S) == {f.seq : f \in S}

(* The sender has had one run, and its numbers still fit the header. *)
Regular == run = 1 /\ seq < SeqModulus

(* In its first 2^14 - 1 frames no sender that stays up is taken for a     *)
(* forger: no loss, duplicate or late frame, and no restart of the         *)
(* receiver, makes the chain it tracks break.                              *)
NoFalseFork == Regular => rejected = {}

(* "Instant O(1) packet gap / dropped range detection" within that range:  *)
(* whatever lies between the frame the tracker started at and its last one *)
(* has been accepted or reported as missing.                               *)
GapsDetected ==
    Regular /\ accepted # {} =>
        first..tracker.lastSeq \subseteq missing \cup Numbers(accepted)

(* And no gap is reported that is none: when a number is reported, no      *)
(* frame of that number has been accepted.                                 *)
NoFalseGap ==
    [][Regular => \A i \in missing' \ missing : i \notin Numbers(accepted)]_linkVars
=============================================================================
