---------------------------- MODULE SecurityEvent ----------------------------
(***************************************************************************)
(* SecurityEventService: events are reported by anyone, by hand or through *)
(* the agent; a manager assigns one to a member of the security staff, who *)
(* submits a disposal, which a manager reviews.  A report of high risk is  *)
(* told to those on duty, or handed over if there is nobody.               *)
(*                                                                         *)
(* Requests are transactions as in InspectionTask.  The commit of a report *)
(* includes its messages (see Outbox for what becomes of them).            *)
(***************************************************************************)
EXTENDS Naturals, Sequences, FiniteSets

CONSTANTS
    Event,       \* rows of security_events
    Manager, Staff, Resident,   \* users by their roles: a user may have several
    Nobody,      \* not a user
    EventType,   \* what a report can be about
    Thread,      \* requests served at a time
    Key,         \* idempotency keys
    MaxVersion   \* bound: the version after which nothing is confirmed or returned

VARIABLES
    event,      \* event[e]: the row
    log,        \* log[e]: its status logs, in the order of their commits
    disposal,   \* disposal[e]: the handlers of its disposals
    told,       \* told[e][u]: messages HIGH_RISK_EVENT to u
    ticket,     \* ticket[e]: handover tickets
    active,     \* managers and staff who are ACTIVE
    request     \* request[t]: the transaction of thread t, with the checks it has passed

vars == <<event, log, disposal, told, ticket, active, request>>

User == Manager \cup Staff \cup Resident
Status == {"NONE", "REPORTED", "ASSIGNED", "PENDING_REVIEW", "CLOSED"}
Risk == {"LOW", "MEDIUM", "HIGH_RISK"}
\* How a report comes in: over the API, by hand or by a client of it, or through
\* the adapter of the agent's tools.
Way == {"API", "ADAPTER"}

\* EVENT_TRANSITIONS
TRANSITIONS ==
    {<<"REPORTED", "ASSIGN", "ASSIGNED">>, <<"ASSIGNED", "SUBMIT_DISPOSAL", "PENDING_REVIEW">>,
     <<"PENDING_REVIEW", "REVIEW_PASS", "CLOSED">>, <<"PENDING_REVIEW", "RETURN", "ASSIGNED">>}
Action == {m[2] : m \in TRANSITIONS} \cup {"GRADE_CONFIRM"}

\* A row; via is a history: the column report_source is what the caller says it is,
\* and decides nothing.
Row == [status : Status, type : EventType \cup {"NONE"}, risk : Risk, via : Way,
        by : User \cup {Nobody}, key : Key \cup {"NONE"}, assignee : Staff \cup {Nobody},
        confirmed : Manager \cup {Nobody}, version : Nat]
NoRow == [status |-> "NONE", type |-> "NONE", risk |-> "LOW", via |-> "API",
          by |-> Nobody, key |-> "NONE", assignee |-> Nobody, confirmed |-> Nobody,
          version |-> 0]

Entry == [action : Action \cup {"CREATE"}, by : User]
NoRequest == [action |-> "NONE"]
Pending == [action : Action \cup {"CREATE"}, by : User, event : Event, copy : Row,
            assignee : Staff \cup {Nobody}, duty : SUBSET (Manager \cup Staff)]

TypeOK ==
    /\ event \in [Event -> Row]
    /\ log \in [Event -> Seq(Entry)]
    /\ disposal \in [Event -> Seq(Staff)]
    /\ told \in [Event -> [Manager \cup Staff -> Nat]]
    /\ ticket \in [Event -> Nat]
    /\ active \subseteq Manager \cup Staff
    /\ request \in [Thread -> Pending \cup {NoRequest}]

Init ==
    /\ event = [e \in Event |-> NoRow]
    /\ log = [e \in Event |-> <<>>]
    /\ disposal = [e \in Event |-> <<>>]
    /\ told = [e \in Event |-> [u \in Manager \cup Staff |-> 0]]
    /\ ticket = [e \in Event |-> 0]
    /\ active = Manager \cup Staff
    /\ request = [t \in Thread |-> NoRequest]

-----------------------------------------------------------------------------
\* classify_security_event: the least risk of a type.
Dangerous == {"GAS_LEAK", "FIRE", "PERSONAL_SAFETY"}
Floor(type) == IF type \in Dangerous THEN "HIGH_RISK" ELSE "MEDIUM"

Rank(risk) == CASE risk = "LOW" -> 0 [] risk = "MEDIUM" -> 1 [] OTHER -> 2

\* Mutant: the caller's risk is taken if it names one.
TrustedRisk(type, requested) == requested

\* normalize_security_event: the caller can raise the risk only.
NormalizedRisk(type, requested) ==
    IF Rank(requested) > Rank(Floor(type)) THEN requested ELSE Floor(type)

\* The adapter normalizes the risk it was asked for, the service takes it as it is.
Reported(via, type, requested) ==
    IF via = "ADAPTER" THEN NormalizedRisk(type, requested) ELSE requested

\* list_duty_users: whoever manages or guards, and is not blocked.
DutyUsers == active

\* create_event, as far as the list of those on duty.
LoadCreate(t, u, e, key, type, requested, via) ==
    /\ request[t] = NoRequest
    /\ event[e] = NoRow /\ \A x \in Thread : request[x] # NoRequest => request[x].event # e
    /\ \A x \in Event : <<event[x].by, event[x].key>> # <<u, key>>   \* else it is replayed
    /\ LET risk == Reported(via, type, requested) IN
       request' = [request EXCEPT ![t] =
            [action |-> "CREATE", by |-> u, event |-> e, assignee |-> Nobody,
             duty |-> IF risk = "HIGH_RISK" THEN DutyUsers ELSE {},
             copy |-> [NoRow EXCEPT !.status = "REPORTED", !.type = type, !.risk = risk,
                                    !.via = via, !.by = u, !.key = key, !.version = 1]]]
    /\ UNCHANGED <<event, log, disposal, told, ticket, active>>

\* The unique constraint on reporter_id and create_idempotency_key.
Unique(q) == \A x \in Event : <<event[x].by, event[x].key>> # <<q.copy.by, q.copy.key>>

\* One message for each of those on duty, ...
Enqueued(count, q) == [u \in DOMAIN count |-> IF u \in q.duty THEN count[u] + 1 ELSE count[u]]

\* ... or a ticket if nobody is: escalate_high_risk.
Escalates(q) == q.copy.risk = "HIGH_RISK" /\ q.duty = {}

\* The report commits with the messages to those on duty, or a ticket.
WriteCreate(t) ==
    /\ request[t].action = "CREATE"
    /\ LET q == request[t]
           e == q.event IN
       /\ Unique(q)
       /\ event' = [event EXCEPT ![e] = q.copy]
       /\ log' = [log EXCEPT ![e] = Append(@, [action |-> "CREATE", by |-> q.by])]
       /\ told' = [told EXCEPT ![e] = Enqueued(@, q)]
       /\ ticket' = [ticket EXCEPT ![e] = IF Escalates(q) THEN @ + 1 ELSE @]
    /\ request' = [request EXCEPT ![t] = NoRequest]
    /\ UNCHANGED <<disposal, active>>

\* _get_authorized_event
Sees(u, row) ==
    \/ u \in Manager
    \/ u \in Staff /\ row.assignee = u
    \/ row.by = u

\* list_events
Listed(u) ==
    {e \in Event :
        /\ event[e] # NoRow
        /\ u \in Staff \ Manager => event[e].assignee = u \/ event[e].by = u
        /\ u \notin Staff \cup Manager => event[e].by = u}

\* Mutant: a high risk need not be confirmed.
MayUnconfirmed(u, row, action) ==
    /\ Sees(u, row)
    /\ action # "GRADE_CONFIRM" =>
           \E m \in TRANSITIONS : m[1] = row.status /\ m[2] = action
    /\ action = "SUBMIT_DISPOSAL" => u \in Staff /\ row.assignee = u
    /\ action # "SUBMIT_DISPOSAL" => u \in Manager
    /\ action = "GRADE_CONFIRM" => row.status = "PENDING_REVIEW" /\ row.risk = "HIGH_RISK"

\* Who may do what in which state: _apply_event_action with SecurityEvent's
\* transition.
May(u, row, action) ==
    /\ Sees(u, row)
    /\ action # "GRADE_CONFIRM" =>
           \E m \in TRANSITIONS : m[1] = row.status /\ m[2] = action
    /\ action = "SUBMIT_DISPOSAL" => u \in Staff /\ row.assignee = u
    /\ action # "SUBMIT_DISPOSAL" => u \in Manager
    /\ action = "GRADE_CONFIRM" => row.status = "PENDING_REVIEW" /\ row.risk = "HIGH_RISK"
    /\ action = "REVIEW_PASS" => row.risk # "HIGH_RISK" \/ row.confirmed # Nobody

\* Whether a review has to wait for the confirmation of a manager.
Unconfirmed(row) == row.risk = "HIGH_RISK" /\ row.confirmed = Nobody

\* available_event_actions
Offered(u, row) ==
    CASE row.status = "REPORTED" /\ u \in Manager -> {"ASSIGN"}
      [] row.status = "ASSIGNED" /\ u \in Staff /\ row.assignee = u -> {"SUBMIT_DISPOSAL"}
      [] row.status = "PENDING_REVIEW" /\ u \in Manager ->
             IF Unconfirmed(row) THEN {"GRADE_CONFIRM"} ELSE {"REVIEW_PASS", "RETURN"}
      [] OTHER -> {}

\* Mutant: whoever is named is assigned.
EnsureUser(u) == u # Nobody

\* ensure_security_staff, which only those who are active pass
EnsureSecurityStaff(u) == u \in Staff \cap active

\* execute_event_action, as far as its checks.
LoadAction(t, u, e, action, s) ==
    /\ request[t] = NoRequest
    /\ event[e] # NoRow
    /\ action \in {"GRADE_CONFIRM", "RETURN"} => event[e].version < MaxVersion
    /\ IF action = "ASSIGN" THEN EnsureSecurityStaff(s) ELSE s = Nobody
    /\ May(u, event[e], action)
    /\ request' = [request EXCEPT ![t] =
            [action |-> action, by |-> u, event |-> e, copy |-> event[e], assignee |-> s,
             duty |-> {}]]
    /\ UNCHANGED <<event, log, disposal, told, ticket, active>>

\* The row after an action: transition or touch.
Changed(row, q) ==
    [row EXCEPT
        !.status = IF q.action = "GRADE_CONFIRM" THEN @
                   ELSE (CHOOSE m \in TRANSITIONS : m[1] = @ /\ m[2] = q.action)[3],
        !.assignee = IF q.action = "ASSIGN" THEN q.assignee ELSE @,
        !.confirmed = IF q.action = "GRADE_CONFIRM" THEN q.by ELSE @,
        !.version = @ + 1]

\* Mutant: save_event does not compare the version.
SaveAnyway(q) == TRUE

\* save_event: the row has the version that was read.
Saves(q) == event[q.event].version = q.copy.version

\* The action is written with its log, and the disposal it submits.
WriteAction(t) ==
    /\ request[t].action \in Action
    /\ LET q == request[t]
           e == q.event IN
       /\ Saves(q)
       /\ event' = [event EXCEPT ![e] = Changed(q.copy, q)]
       /\ log' = [log EXCEPT ![e] = Append(@, [action |-> q.action, by |-> q.by])]
       /\ disposal' = [disposal EXCEPT ![e] =
                          IF q.action = "SUBMIT_DISPOSAL" THEN Append(@, q.by) ELSE @]
    /\ request' = [request EXCEPT ![t] = NoRequest]
    /\ UNCHANGED <<told, ticket, active>>

\* It is refused, or its process dies: all is rolled back.
Abort(t) ==
    /\ request[t] # NoRequest
    /\ request' = [request EXCEPT ![t] = NoRequest]
    /\ UNCHANGED <<event, log, disposal, told, ticket, active>>

\* Accounts are blocked and opened again.
SetActive(users) ==
    /\ active' = users
    /\ UNCHANGED <<event, log, disposal, told, ticket, request>>

Next ==
    \/ \E users \in SUBSET (Manager \cup Staff) : SetActive(users)
    \/ \E t \in Thread :
        \/ \E u \in User, e \in Event, key \in Key, type \in EventType, requested \in Risk,
              via \in Way : LoadCreate(t, u, e, key, type, requested, via)
        \/ \E u \in User, e \in Event, action \in Action, s \in User \cup {Nobody} :
               LoadAction(t, u, e, action, s)
        \/ WriteCreate(t)
        \/ WriteAction(t)
        \/ Abort(t)

Spec == Init /\ [][Next]_vars

-----------------------------------------------------------------------------
Stored == {e \in Event : event[e] # NoRow}

\* A report of high risk reaches someone once: those on duty by a message each,
\* or a ticket if nobody is; nothing is sent twice or for a report that was not
\* stored, and what is dangerous is of high risk if it came through the agent's
\* adapter, whatever risk the model named.
HighRiskReachesSomeone ==
    /\ \A e \in Event :
           LET reached == {u \in DOMAIN told[e] : told[e][u] > 0} IN
           /\ ticket[e] <= 1 /\ \A u \in reached : told[e][u] = 1
           /\ event[e].risk = "HIGH_RISK" <=> (reached # {} \/ ticket[e] = 1)
           /\ reached = {} \/ ticket[e] = 0
           /\ e \in Stored /\ event[e].via = "ADAPTER" /\ event[e].type \in Dangerous =>
                  event[e].risk = "HIGH_RISK"
    /\ \A d, e \in Stored : d # e => <<event[d].by, event[d].key>> # <<event[e].by, event[e].key>>

\* Where a log tells of an action.
Logged(line, action) == {i \in DOMAIN line : line[i].action = action}

\* However requests interleave, an event is closed as it was handled: every
\* change is in the log, each disposal is of the one who is assigned, every one
\* that was returned was followed by another, a manager passed the last of them,
\* and a high risk was confirmed by the manager the row names, after a disposal.
AsReviewed(row, line, handlers) ==
    LET closed == row.status = "CLOSED" IN
    /\ row.version = Len(line)
    /\ Len(handlers) = Cardinality(Logged(line, "SUBMIT_DISPOSAL"))
    /\ \A i \in DOMAIN handlers : handlers[i] = row.assignee
    /\ closed <=> Logged(line, "REVIEW_PASS") = {Len(line)}
    /\ closed => /\ Len(handlers) = Cardinality(Logged(line, "RETURN")) + 1
                 /\ line[Len(line)].by \in Manager
    /\ closed /\ row.risk = "HIGH_RISK" =>
           \E i \in Logged(line, "GRADE_CONFIRM") :
              /\ \A j \in Logged(line, "GRADE_CONFIRM") : j <= i
              /\ \E j \in Logged(line, "SUBMIT_DISPOSAL") : j < i
              /\ line[i].by = row.confirmed
ClosedAsReviewed == \A e \in Stored : AsReviewed(event[e], log[e], disposal[e])

\* What is listed for a user can be opened, and conversely; what is offered
\* would be accepted; what would be accepted is offered, except
\* to return what is of high risk before it is confirmed, and to confirm again.
OffersAgree ==
    \A e \in Stored, u \in User :
        LET accepted == {a \in Action : May(u, event[e], a)} IN
        /\ e \in Listed(u) <=> Sees(u, event[e])
        /\ Offered(u, event[e]) \subseteq accepted
        /\ accepted \ Offered(u, event[e]) \subseteq
               IF Unconfirmed(event[e]) THEN {"RETURN"} ELSE {"GRADE_CONFIRM"}
=============================================================================
