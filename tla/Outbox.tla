------------------------------- MODULE Outbox -------------------------------
(***************************************************************************)
(* The message outbox: rows of message_records, which business             *)
(* transactions insert, and the dispatchers of the backend processes,      *)
(* which send them in batches.  A batch is one transaction: its rows are   *)
(* locked when they are fetched, the transport is called for one after the *)
(* other, and what became of them is committed at the end, or not at all.  *)
(*                                                                         *)
(* The delay of a retry is the flag wait: set when updated_at is written,  *)
(* cleared when 2^retries * 2 seconds have passed.                         *)
(***************************************************************************)
EXTENDS Naturals, Sequences, FiniteSets, SequencesExt

CONSTANTS
    Msg,         \* messages
    Orphan,      \* those whose receiver is missing from the users table
    Dispatcher,  \* backend processes
    BatchSize,   \* BATCH_SIZE
    MaxRetry     \* MAX_RETRY_COUNT

OutboxAssumption ==
    /\ Orphan \subseteq Msg
    /\ BatchSize \in Nat \ {0} /\ MaxRetry \in Nat \ {0}

VARIABLES
    row,        \* the rows of message_records
    created,    \* the messages in the order of created_at
    batch,      \* batch[d]: the open transaction of dispatcher d
    ticket,     \* ticket[m]: handover tickets created for message m
    delivered   \* messages that the transport has accepted

outboxVars == <<row, created, batch, ticket, delivered>>

RowState == [status : {"NONE", "PENDING", "SENT", "FAILED"}, retries : 0..MaxRetry,
             wait : BOOLEAN, read : BOOLEAN]
NoRow == [status |-> "NONE", retries |-> 0, wait |-> FALSE, read |-> FALSE]

\* The rows an idle dispatcher has locked, those left to send, and the ones it
\* has marked so far.
Idle == [locked |-> {}, todo |-> {}, marked |-> <<>>]

TypeOK ==
    /\ row \in [Msg -> RowState]
    /\ IsInjective(created) /\ ToSet(created) = {m \in Msg : row[m].status # "NONE"}
    /\ \A d \in Dispatcher :
          /\ batch[d].locked \subseteq Msg
          /\ batch[d].todo \subseteq batch[d].locked
          /\ DOMAIN batch[d].marked \subseteq batch[d].locked
    /\ ticket \in [Msg -> Nat]
    /\ delivered \subseteq Msg

Init ==
    /\ row = [m \in Msg |-> NoRow]
    /\ created = <<>>
    /\ batch = [d \in Dispatcher |-> Idle]
    /\ ticket = [m \in Msg |-> 0]
    /\ delivered = {}

-----------------------------------------------------------------------------
Locked(m) == \E d \in Dispatcher : m \in batch[d].locked

\* MessageOutboxService.enqueue, in a business transaction that commits; a
\* second call with the same idempotency key finds the row and adds nothing.
Enqueue(m) ==
    /\ row[m].status = "NONE"
    /\ row' = [row EXCEPT ![m] = [NoRow EXCEPT !.status = "PENDING"]]
    /\ created' = Append(created, m)
    /\ UNCHANGED <<batch, ticket, delivered>>

\* The query: PENDING, oldest first, FOR UPDATE SKIP LOCKED, LIMIT.
Fetched ==
    LET open == {i \in DOMAIN created : row[created[i]].status = "PENDING" /\ ~Locked(created[i])}
    IN  {created[i] : i \in {j \in open : Cardinality({k \in open : k < j}) < BatchSize}}

\* A poll: the backoff is looked at after the limit, so rows that are not due
\* take their place in the batch, and stay locked with it.  A batch without a
\* due row is given up at once.
Claim(d) ==
    LET due == {m \in Fetched : ~row[m].wait}
    IN  /\ batch[d] = Idle
        /\ due # {}
        /\ batch' = [batch EXCEPT ![d] = [locked |-> Fetched, todo |-> due, marked |-> <<>>]]
        /\ UNCHANGED <<row, created, ticket, delivered>>

\* The oldest row that is left to send.
IsNext(m, d) ==
    /\ m \in batch[d].todo
    /\ \A i, j \in DOMAIN created : created[i] = m /\ created[j] \in batch[d].todo => i <= j

Marked(d) == DOMAIN batch[d].marked

\* It is marked; nothing is committed.
Mark(m, d, new) ==
    batch' = [batch EXCEPT ![d] =
        [locked |-> batch[d].locked, todo |-> batch[d].todo \ {m},
         marked |-> [n \in Marked(d) \cup {m} |-> IF n = m THEN new ELSE batch[d].marked[n]]]]

\* Mutant: a transport that answers False is taken at its word.
MarkSentAnyway(d) ==
    /\ \E m \in batch[d].todo :
          /\ IsNext(m, d) /\ Mark(m, d, [row[m] EXCEPT !.status = "SENT"])
          /\ delivered' = delivered \cup {m} \/ UNCHANGED delivered
    /\ UNCHANGED <<row, created, ticket>>

\* The transport accepts the message: _mark_sent.
Send(d) ==
    /\ \E m \in batch[d].todo :
          /\ IsNext(m, d) /\ Mark(m, d, [row[m] EXCEPT !.status = "SENT"])
          /\ delivered' = delivered \cup {m}
    /\ UNCHANGED <<row, created, ticket>>

\* Mutant: retries are never exhausted.
RefuseForEver(d) ==
    /\ \E m \in batch[d].todo :
          /\ IsNext(m, d)
          /\ Mark(m, d, [row[m] EXCEPT !.retries = IF @ = MaxRetry THEN @ ELSE @ + 1,
                                       !.wait = TRUE])
    /\ UNCHANGED <<row, created, ticket, delivered>>

\* The transport answers False or raises: _mark_retry.
Refuse(d) ==
    /\ \E m \in batch[d].todo :
          LET n == row[m].retries + 1 IN
          /\ IsNext(m, d)
          /\ Mark(m, d, [row[m] EXCEPT !.retries = n, !.wait = TRUE,
                                       !.status = IF n >= MaxRetry THEN "FAILED" ELSE @])
    /\ UNCHANGED <<row, created, ticket, delivered>>

\* _ensure_manual_handover, for the rows of the batch that have just failed:
\* one ticket each, none if there is one or if the receiver is missing.
HandedOver(d) == {m \in Marked(d) : /\ batch[d].marked[m].status = "FAILED"
                                    /\ ticket[m] = 0
                                    /\ m \notin Orphan}

\* Mutant: the ticket is created in a transaction that follows.
CommitWithoutTickets(d) ==
    /\ batch[d].todo = {} /\ batch[d] # Idle
    /\ row' = [m \in Msg |-> IF m \in Marked(d) THEN batch[d].marked[m] ELSE row[m]]
    /\ batch' = [batch EXCEPT ![d] = Idle]
    /\ UNCHANGED <<created, ticket, delivered>>

\* Every row of the batch is marked: rows and tickets are committed together.
Commit(d) ==
    /\ batch[d].todo = {} /\ batch[d] # Idle
    /\ row' = [m \in Msg |-> IF m \in Marked(d) THEN batch[d].marked[m] ELSE row[m]]
    /\ ticket' = [m \in Msg |-> IF m \in HandedOver(d) THEN ticket[m] + 1 ELSE ticket[m]]
    /\ batch' = [batch EXCEPT ![d] = Idle]
    /\ UNCHANGED <<created, delivered>>

\* Marking or committing raises, or the process dies: the transaction is rolled
\* back, what the transport has accepted is not.
Abort(d) ==
    /\ batch[d] # Idle
    /\ batch' = [batch EXCEPT ![d] = Idle]
    /\ UNCHANGED <<row, created, ticket, delivered>>

\* The delay of a retry is over.
BackoffEnds(m) ==
    /\ row[m].wait
    /\ row' = [row EXCEPT ![m].wait = FALSE]
    /\ UNCHANGED <<created, batch, ticket, delivered>>

\* mark_read and mark_all_read, of rows that no batch has locked.  Writing
\* read_at also writes updated_at, and the delay of a retry starts again.
Read(S) ==
    /\ S # {}
    /\ \A m \in S : row[m].status # "NONE" /\ ~row[m].read /\ ~Locked(m)
    /\ row' = [m \in Msg |-> IF m \in S THEN [row[m] EXCEPT !.read = TRUE,
                                                            !.wait = row[m].retries > 0]
                                        ELSE row[m]]
    /\ UNCHANGED <<created, batch, ticket, delivered>>

Next ==
    \/ \E m \in Msg : Enqueue(m) \/ BackoffEnds(m)
    \/ \E S \in SUBSET Msg : Read(S)
    \/ \E d \in Dispatcher :
          Claim(d) \/ Send(d) \/ Refuse(d) \/ Commit(d) \/ Abort(d)

Spec == Init /\ [][Next]_outboxVars

\* Dispatchers poll, time passes, a call of the transport returns; databases and
\* processes fail, but not for ever: from some point on batches go through.
Fairness ==
    /\ \A m \in Msg : WF_outboxVars(BackoffEnds(m))
    /\ \A d \in Dispatcher : WF_outboxVars(Claim(d) \/ Send(d) \/ Refuse(d) \/ Commit(d))
    /\ <>[][\A d \in Dispatcher : ~Abort(d)]_outboxVars

-----------------------------------------------------------------------------
\* What the row says of its message is true, though batches are rolled back,
\* interrupted and repeated by other dispatchers: one that is sent was accepted
\* by the transport; one that is given up was refused MaxRetry times and has
\* exactly one handover ticket (unless there is no receiver to name in it); no
\* other message has one.
OutcomesAreTrue ==
    \A m \in Msg :
        /\ row[m].status = "SENT" => m \in delivered
        /\ row[m].status = "FAILED" => row[m].retries = MaxRetry
        /\ ticket[m] = IF row[m].status = "FAILED" /\ m \notin Orphan THEN 1 ELSE 0

\* Every message is sent or given up, though the batch limit counts rows that
\* are not due: those before it settle first.
EveryMessageSettles ==
    \A m \in Msg : row[m].status = "PENDING" ~> row[m].status \in {"SENT", "FAILED"}
=============================================================================
