--------------------------- MODULE LedgerHistory ---------------------------
(***************************************************************************)
(* The sender's side of crypto/hash_chain.py in full: MicroLedger keeps    *)
(* its last entries in a list, to which the transmit thread appends and    *)
(* from which it drops the oldest, while the application verifies the      *)
(* chain.  Nothing locks the list, and Python's iteration over a list goes *)
(* by position: an entry dropped in front makes it pass over one.          *)
(***************************************************************************)
EXTENDS LedgerLink, Sequences

CONSTANT MaxHistory      \* _max_history, 100000 in the code

ASSUME HistoryAssumption == MaxHistory \in Nat \ {0}

VARIABLES history,       \* MicroLedger._history
          check,         \* a verification under way
          alarm          \* history: a verification failed and nothing had been dropped meanwhile

historyVars == <<history, check, alarm>>
ledgerVars  == <<linkVars, historyVars>>

NoCheck == [at |-> 0]

Entry(i, prev) == [seq |-> i, prev |-> prev, digest |-> Digest(run, i, i)]

LedgerInit ==
    /\ LinkInit
    /\ history = <<>>
    /\ check = NoCheck
    /\ alarm = FALSE

(* Mutant of AppendEntry: the entry gets the digest that _last_digest has  *)
(* after it.                                                               *)
AppendLate ==
    /\ Len(history) <= MaxHistory
    /\ AppendFrame
    /\ history' = history \o <<Entry(seq + 1, lastDigest')>>
    /\ UNCHANGED <<check, alarm>>

AppendEntry ==
    /\ Len(history) <= MaxHistory
    /\ AppendFrame
    /\ history' = history \o <<Entry(seq + 1, lastDigest)>>
    /\ UNCHANGED <<check, alarm>>

(* The end of MicroLedger.append: pop(0).  dropped is a history variable.  *)
DropOldest ==
    /\ Len(history) > MaxHistory
    /\ history' = Tail(history)
    /\ check' = IF check = NoCheck THEN NoCheck ELSE [check EXCEPT !.dropped = TRUE]
    /\ UNCHANGED <<linkVars, alarm>>

(* The verification dies with its process. *)
RestartLedger ==
    /\ RestartSender
    /\ history' = <<>>
    /\ check' = NoCheck
    /\ UNCHANGED alarm

(* verify_local_integrity up to the loop; an empty history verifies. *)
VerifyBegin ==
    /\ check = NoCheck /\ history # <<>>
    /\ LET entry == Head(history)
       IN  IF entry.seq = 1 /\ entry.prev # Genesis
           THEN alarm' = TRUE /\ UNCHANGED check
           ELSE /\ check' = [at |-> 1, prev |-> entry.prev, expected |-> entry.seq,
                             dropped |-> FALSE]
                /\ UNCHANGED alarm
    /\ UNCHANGED <<linkVars, history>>

Returns(ok) ==
    /\ alarm' = (alarm \/ (~ ok /\ ~ check.dropped))
    /\ check' = NoCheck

Linked(entry) ==
    /\ entry.seq = check.expected
    /\ entry.prev = check.prev
    /\ entry.digest = Digest(run, entry.seq, entry.seq)

(* One round of the loop, or its end. *)
VerifyEntry ==
    /\ check # NoCheck
    /\ IF check.at > Len(history) THEN Returns(TRUE)
       ELSE LET entry == history[check.at]
            IN  IF Linked(entry)
                THEN /\ check' = [check EXCEPT !.at = @ + 1, !.prev = entry.digest,
                                               !.expected = @ + 1]
                     /\ UNCHANGED alarm
                ELSE Returns(FALSE)
    /\ UNCHANGED <<linkVars, history>>

LedgerNext ==
    \/ AppendEntry \/ DropOldest \/ RestartLedger
    \/ VerifyBegin \/ VerifyEntry
    \/ /\ RestartReceiver \/ \E f \in frames : RecordIncoming(f)
       /\ UNCHANGED historyVars

LedgerSpec == LedgerInit /\ [][LedgerNext]_ledgerVars

-----------------------------------------------------------------------------
(* verify_chain only ever calls an intact chain broken if the transmit     *)
(* thread dropped an entry while it was looking: appends alone, at any     *)
(* moment, and drops before it began do not disturb it.                    *)
IntactChainVerifies == ~ alarm
=============================================================================
