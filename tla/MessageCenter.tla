---------------------------- MODULE MessageCenter ----------------------------
(***************************************************************************)
(* The message center of one user: messages are marked as read, one or all *)
(* of them, under idempotency keys that IdempotencyService.check claims.   *)
(*                                                                         *)
(* A request is one transaction at READ COMMITTED.  A key is claimed by    *)
(* inserting its record in a savepoint, where the unique constraint makes  *)
(* a second claim wait for the end of the first.                           *)
(***************************************************************************)
EXTENDS Naturals, FiniteSets

CONSTANTS
    Message,     \* messages that the user has or will have
    ReadKey,     \* idempotency keys of the user's requests
    Reader,      \* requests served at a time
    MaxReads     \* bound: times at which something is read

\* A request is for one message, or for all of them.
All == "ALL"

VARIABLES
    readAt,      \* readAt[m]: when message m was read; 0 if unread
    inbox,       \* the messages there are
    claim,       \* claim[k]: the committed record of key k
    reading,     \* reading[t]: the transaction of reader t
    reads,       \* times so far
    told         \* history: told[k]: the answers given under key k

messageVars == <<readAt, inbox, claim, reading, reads, told>>

Target == Message \cup {All}

\* An answer: the message as read at a time, or how many there were.
Answer == [of : Target, at : Nat, count : Nat]
NoClaim == [of |-> "NOTHING"]

\* A transaction that has claimed its key, and one that has loaded its message.
NoReading == [step |-> "NONE"]
Claimed == [step : {"CLAIMED"}, key : ReadKey, of : Target]
Loaded == [step : {"LOADED"}, key : ReadKey, of : Message, at : Nat]

MessageTypeOK ==
    /\ readAt \in [Message -> Nat] /\ reads \in Nat
    /\ inbox \subseteq Message /\ IsFiniteSet(inbox)
    /\ claim \in [ReadKey -> {NoClaim} \cup [of : Target, answer : Answer]]
    /\ reading \in [Reader -> {NoReading} \cup Claimed \cup Loaded]
    /\ told \in [ReadKey -> SUBSET Answer]

MessageInit ==
    /\ readAt = [m \in Message |-> 0]
    /\ inbox = {}
    /\ claim = [k \in ReadKey |-> NoClaim]
    /\ reading = [t \in Reader |-> NoReading]
    /\ reads = 0
    /\ told = [k \in ReadKey |-> {}]

-----------------------------------------------------------------------------
Arrive(m) ==
    /\ m \notin inbox
    /\ inbox' = inbox \cup {m}
    /\ UNCHANGED <<readAt, claim, reading, reads, told>>

EndReading(t) == reading' = [reading EXCEPT ![t] = NoReading]

\* Mutant: a claim does not wait for one that is not committed.
ClaimAtOnce(k) == TRUE

\* The insert of a claim waits for the transaction that has inserted one.
Claimable(k) == \A t \in Reader : reading[t].step # "NONE" => reading[t].key # k

\* The request of a key is the one it was claimed for.
Replays(k, x) == claim[k].of = x

\* IdempotencyService.check: a key with a record is answered from it, or
\* refused; the other one is claimed.
Check(t, k, x) ==
    /\ reading[t] = NoReading
    /\ IF claim[k] # NoClaim
       THEN /\ Replays(k, x)
            /\ told' = [told EXCEPT ![k] = @ \cup {claim[k].answer}]
            /\ UNCHANGED reading
       ELSE /\ Claimable(k)
            /\ reading' = [reading EXCEPT ![t] = [step |-> "CLAIMED", key |-> k, of |-> x]]
            /\ UNCHANGED told
    /\ UNCHANGED <<readAt, inbox, claim, reads>>

\* mark_read loads the message without a lock; there may be none.
LoadMessage(t) ==
    LET r == reading[t] IN
    /\ r.step = "CLAIMED" /\ r.of # All
    /\ IF r.of \in inbox
       THEN reading' = [reading EXCEPT ![t] = [step |-> "LOADED", key |-> r.key, of |-> r.of,
                                               at |-> readAt[r.of]]]
       ELSE EndReading(t)
    /\ UNCHANGED <<readAt, inbox, claim, reads, told>>

\* update_snapshot and the commit, after which the answer is sent.
Settle(t, answer) ==
    LET k == reading[t].key IN
    /\ claim' = [claim EXCEPT ![k] = [of |-> reading[t].of, answer |-> answer]]
    /\ told' = [told EXCEPT ![k] = @ \cup {answer}]
    /\ EndReading(t)

\* The rest of mark_read: a message that was unread when it was loaded.
MarkRead(t) ==
    LET r == reading[t]
        at == IF r.at = 0 THEN reads + 1 ELSE r.at IN
    /\ r.step = "LOADED"
    /\ reads < MaxReads
    /\ reads' = IF r.at = 0 THEN reads + 1 ELSE reads
    /\ readAt' = IF r.at = 0 THEN [readAt EXCEPT ![r.of] = at] ELSE readAt
    /\ Settle(t, [of |-> r.of, at |-> at, count |-> 1])
    /\ UNCHANGED inbox

\* mark_all_read: one UPDATE of what is unread.
MarkAllRead(t) ==
    LET unread == {m \in inbox : readAt[m] = 0} IN
    /\ reading[t].step = "CLAIMED" /\ reading[t].of = All
    /\ reads < MaxReads
    /\ reads' = reads + 1
    /\ readAt' = [m \in Message |-> IF m \in unread THEN reads + 1 ELSE readAt[m]]
    /\ Settle(t, [of |-> All, at |-> reads + 1, count |-> Cardinality(unread)])
    /\ UNCHANGED inbox

\* A crash: the claim goes with the transaction.
AbortReading(t) ==
    /\ reading[t] # NoReading
    /\ EndReading(t)
    /\ UNCHANGED <<readAt, inbox, claim, reads, told>>

MessageNext ==
    \/ \E m \in Message : Arrive(m)
    \/ \E t \in Reader, k \in ReadKey, x \in Target : Check(t, k, x)
    \/ \E t \in Reader : LoadMessage(t) \/ MarkRead(t) \/ MarkAllRead(t) \/ AbortReading(t)

MessageSpec == MessageInit /\ [][MessageNext]_messageVars

-----------------------------------------------------------------------------
\* A key has one answer: whoever repeats a request under it, at the same time
\* or later, is told what was told first, though messages arrive and are read
\* meanwhile and transactions that claimed it may have failed.
KeyHasOneAnswer == \A k \in ReadKey : Cardinality(told[k]) <= 1

\* The inductive invariant: what was told under a key is its record's answer;
\* a key that a transaction has claimed has no record, and one claimant.
MessageInv ==
    /\ MessageTypeOK
    /\ \A k \in ReadKey : told[k] = IF claim[k] = NoClaim THEN {} ELSE {claim[k].answer}
    /\ \A t \in Reader : reading[t] # NoReading => claim[reading[t].key] = NoClaim
    /\ \A t, u \in Reader :
          reading[t] # NoReading /\ reading[u] # NoReading /\ reading[t].key = reading[u].key
          => t = u
=============================================================================
