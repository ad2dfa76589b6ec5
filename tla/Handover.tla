------------------------------ MODULE Handover ------------------------------
(***************************************************************************)
(* WorkOrderService._hand_over_high_risk: a high-risk report makes a       *)
(* handover ticket, tells everyone on duty and answers with both.  It is   *)
(* one transaction at READ COMMITTED: it looks its key up, consumes the    *)
(* token under a row lock, adds the ticket and the messages, looks the key *)
(* up once more and inserts or overwrites the record.  Nothing in the      *)
(* tables says that a key has one ticket.                                  *)
(***************************************************************************)
EXTENDS Naturals, Sequences, FiniteSets

CONSTANTS Report,         \* reports, by the hash of their parameters
          ReportKey,      \* idempotency keys
          Receipt,        \* confirmation tokens
          TokenOf,        \* TokenOf[x]: the report token x was issued for
          Duty, Caller,   \* the staff; requests served at a time
          MaxReports      \* bound on tickets

HandoverAssumption == TokenOf \in [Receipt -> Report] /\ IsFiniteSet(Duty)

VARIABLES onDuty, tickets, records, consumed, handing, told
handoverVars == <<onDuty, tickets, records, consumed, handing, told>>

NoRecord == [hash |-> "none", ticket |-> 0, notified |-> 0]
Idle == [pc |-> "idle"]

\* Answers and tickets; a ticket keeps which tickets its request could see.
Answer == [hash : Report, ticket : Nat \ {0}, notified : Nat]
TicketRow == [hash : Report, key : ReportKey, token : Receipt, seen : SUBSET Nat,
              receivers : SUBSET Duty]
Opened == [pc : {"begun", "adding"}, key : ReportKey, hash : Report, token : Receipt,
           seen : SUBSET Nat]
Saving == [pc : {"saving"}, key : ReportKey, hash : Report, token : Receipt,
           seen : SUBSET Nat, receivers : SUBSET Duty, overwrites : BOOLEAN]

HandoverTypeOK ==
    /\ onDuty \subseteq Duty
    /\ tickets \in Seq(TicketRow)
    /\ records \in [ReportKey -> {NoRecord} \cup Answer]
    /\ consumed \subseteq Receipt
    /\ handing \in [Caller -> {Idle} \cup Opened \cup Saving]
    /\ told \subseteq Answer

HandoverInit ==
    /\ onDuty \in SUBSET Duty /\ tickets = <<>> /\ consumed = {} /\ told = {}
    /\ records = [k \in ReportKey |-> NoRecord] /\ handing = [t \in Caller |-> Idle]

-----------------------------------------------------------------------------
Goto(t, r) == handing' = [handing EXCEPT ![t] = r]
Finish(t) == Goto(t, Idle)

\* The token's row is locked by a request that has consumed it and not committed.
Locked(x) == \E t \in Caller : handing[t].pc \in {"adding", "saving"} /\ handing[t].token = x
\* Mutant: the token is not looked at.
UnusedOrNot(x) == TRUE
Unused(x) == x \notin consumed

\* The key is looked up: a replay answers with the ticket of the record, another
\* report under the key is a conflict.
HandOver(t, k, h, x) ==
    /\ handing[t] = Idle
    /\ IF records[k] = NoRecord
       THEN /\ Goto(t, [pc |-> "begun", key |-> k, hash |-> h, token |-> x,
                        seen |-> DOMAIN tickets])
            /\ UNCHANGED told
       ELSE /\ records[k].hash = h
            /\ told' = told \cup {[hash |-> h, ticket |-> records[k].ticket,
                                   notified |-> records[k].notified]}
            /\ UNCHANGED handing
    /\ UNCHANGED <<onDuty, tickets, records, consumed>>

\* House, attachments and token are checked; the token's row is locked.
Consume(t) ==
    /\ handing[t].pc = "begun" /\ ~Locked(handing[t].token)
    /\ Unused(handing[t].token) /\ TokenOf[handing[t].token] = handing[t].hash
    /\ Goto(t, [handing[t] EXCEPT !.pc = "adding"])
    /\ UNCHANGED <<onDuty, tickets, records, consumed, told>>

\* add looks the record up again, to overwrite it.
Overwrites(k) == records[k] # NoRecord

\* Who is on duty is read, and a message is enqueued for each.
Tell(t) ==
    /\ handing[t].pc = "adding"
    /\ Goto(t, [pc |-> "saving", key |-> handing[t].key, hash |-> handing[t].hash,
                token |-> handing[t].token, seen |-> handing[t].seen, receivers |-> onDuty,
                overwrites |-> Overwrites(handing[t].key)])
    /\ UNCHANGED <<onDuty, tickets, records, consumed, told>>

Ticket(r) == [hash |-> r.hash, key |-> r.key, token |-> r.token, seen |-> r.seen,
              receivers |-> r.receivers]

\* The record is inserted, unless another request has inserted one meanwhile, or
\* overwritten; the commit makes everything visible, and the answer is given.
Commit(t) ==
    LET r == handing[t]
        answer == [hash |-> r.hash, ticket |-> Len(tickets) + 1,
                   notified |-> Cardinality(r.receivers)]
    IN /\ r.pc = "saving" /\ Len(tickets) < MaxReports
       /\ r.overwrites \/ records[r.key] = NoRecord
       /\ tickets' = Append(tickets, Ticket(r))
       /\ records' = [records EXCEPT ![r.key] = answer]
       /\ consumed' = consumed \cup {r.token}
       /\ told' = told \cup {answer}
       /\ Finish(t)
       /\ UNCHANGED onDuty

\* A check fails, the token is used up, the insert violates the key, or the
\* service dies: the transaction is rolled back.
Rollback(t) ==
    /\ handing[t].pc # "idle" /\ Finish(t)
    /\ UNCHANGED <<onDuty, tickets, records, consumed, told>>

\* An account of the staff is enabled or disabled.
ChangeDuty(d) ==
    /\ onDuty' = IF d \in onDuty THEN onDuty \ {d} ELSE onDuty \cup {d}
    /\ UNCHANGED <<tickets, records, consumed, handing, told>>

HandoverNext ==
    \/ \E t \in Caller :
          \/ \E k \in ReportKey, h \in Report, x \in Receipt : HandOver(t, k, h, x)
          \/ Consume(t) \/ Tell(t) \/ Commit(t) \/ Rollback(t)
    \/ \E d \in Duty : ChangeDuty(d)

-----------------------------------------------------------------------------
(* A confirmation makes one ticket.  Two tickets under one key overlapped: *)
(* neither request could see the other's.  Whatever is answered, at once   *)
(* or to a retry, names a ticket of the same report and the number of      *)
(* people who were told of it.                                             *)
HandedOverOnce ==
    /\ \A i \in DOMAIN tickets : \A j \in 1 .. i - 1 :
          /\ tickets[i].token # tickets[j].token
          /\ tickets[i].key = tickets[j].key => j \notin tickets[i].seen
    /\ \A a \in told :
          /\ a.ticket \in DOMAIN tickets /\ tickets[a.ticket].hash = a.hash
          /\ a.notified = Cardinality(tickets[a.ticket].receivers)

\* The inductive invariant.  A token that a request has consumed is its own and
\* unused until the commit; a key with a ticket has a record, so that a request
\* that found none has seen no ticket of its key.
HandoverInv ==
    /\ HandoverTypeOK
    /\ HandedOverOnce
    /\ \A i \in DOMAIN tickets :
          tickets[i].token \in consumed /\ records[tickets[i].key] # NoRecord
    /\ \A k \in ReportKey : records[k] # NoRecord => records[k] \in told
    /\ \A t \in Caller : handing[t] # Idle =>
          \A j \in handing[t].seen : j \in DOMAIN tickets /\ tickets[j].key # handing[t].key
    /\ \A t \in Caller : handing[t].pc \in {"adding", "saving"} =>
          /\ handing[t].token \notin consumed
          /\ \A u \in Caller \ {t} :
                handing[u].pc \in {"adding", "saving"} => handing[u].token # handing[t].token
=============================================================================
