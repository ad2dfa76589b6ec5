---------------------------- MODULE Consultation ----------------------------
(***************************************************************************)
(* ConsultationService: a resident's question about a bill, from a draft   *)
(* to the answer of the staff, with an appeal that reopens it.             *)
(*                                                                         *)
(* A request is one transaction at READ COMMITTED.  A draft looks its key  *)
(* up, consumes the approval and the token under row locks, and adds the   *)
(* ticket; a transition loads the ticket, checks, and writes over the      *)
(* version it has read.  Between these steps other requests commit.  A     *)
(* refused request is rolled back and leaves no trace.                     *)
(***************************************************************************)
EXTENDS Naturals, Sequences, FiniteSets

CONSTANTS
    Resident, Staff, \* users; a user may be both
    Params,          \* subject, description and bill of a draft, by their hash
    OtherHouse,      \* those whose bill is not one of the caller's house
    Key,             \* idempotency keys
    Token,           \* confirmation tokens; each is issued for one user's params
    Approval,        \* approvals a draft of the agent refers to, all approved
    NoApproval,      \* a draft over HTTP names none
    Thread,          \* requests served at a time
    MaxTickets, MaxVersion  \* bounds: tickets made, versions of each

User == Resident \cup Staff

CONSTANT Issued   \* Issued[x]: what token or approval x is bound to

ConsultationAssumption ==
    /\ NoApproval \notin Token \cup Approval /\ Token \cap Approval = {}
    /\ OtherHouse \subseteq Params /\ "NONE" \notin User
    /\ Issued \in [Token \cup Approval -> [by : Resident, params : Params]]
    /\ MaxTickets \in Nat /\ MaxVersion \in Nat

VARIABLES
    ticket,     \* rows of billing_consultations, in the order they were added
    record,     \* record[u, k]: the row of idempotency_records
    spent,      \* tokens and approvals that are consumed
    audit,      \* audit[i]: the actions audited about ticket i
    request     \* request[t]: the transaction of thread t

vars == <<ticket, record, spent, audit, request>>

Status == {"DRAFT", "SUBMITTED", "PROCESSING", "ANSWERED", "APPEALED", "RESOLVED"}

\* CONSULTATION_ALLOWED_TRANSITIONS
Allowed == {<<"DRAFT", "SUBMITTED">>, <<"SUBMITTED", "PROCESSING">>, <<"PROCESSING", "ANSWERED">>,
            <<"ANSWERED", "RESOLVED">>, <<"ANSWERED", "APPEALED">>, <<"APPEALED", "PROCESSING">>}

\* submit and appeal are the owner's, the others the staff's.
OwnerOnly == {"SUBMITTED", "APPEALED"}
StaffOnly == {"PROCESSING", "ANSWERED", "RESOLVED"}

\* A row.  An answer is told apart by the number of appeals it was written
\* after; token is the one its draft consumed.
NoAnswer == [by |-> "NONE", round |-> 0]
Answer == {NoAnswer} \cup [by : User, round : Nat]
Ticket == [by : User, params : Params, key : Key, status : Status, answer : Answer,
           version : Nat \ {0}, token : Token, approval : Approval \cup {NoApproval}]

NoRecord == [ticket |-> 0]
NoRequest == [step |-> "NONE"]
Draft == [step : {"LOOKED_UP", "CONSUMED"}, by : Resident, params : Params, key : Key,
          token : Token, approval : Approval \cup {NoApproval}]
Move == [step : {"LOADED"}, by : User, ticket : Nat, copy : Ticket, target : Status]

TypeOK ==
    /\ ticket \in Seq(Ticket)
    /\ record \in [Resident \X Key -> {NoRecord} \cup [params : Params, ticket : Nat \ {0}]]
    /\ spent \subseteq Token \cup Approval
    /\ audit \in Seq(Seq({"CREATE"} \cup Status)) /\ Len(audit) = Len(ticket)
    /\ request \in [Thread -> {NoRequest} \cup Draft \cup Move]

Init ==
    /\ ticket = <<>> /\ audit = <<>>
    /\ record = [p \in Resident \X Key |-> NoRecord]
    /\ spent = {}
    /\ request = [t \in Thread |-> NoRequest]

-----------------------------------------------------------------------------
(* Drafts. *)

Idle(t) == request[t] = NoRequest
End(t) == request' = [request EXCEPT ![t] = NoRequest]

\* create_draft, up to _maybe_idempotent_replay: a key that has a record is
\* answered from it, or refused; here the draft goes on.
LookUp(t, d) ==
    /\ Idle(t) /\ Len(ticket) < MaxTickets
    /\ record[d.by, d.key] = NoRecord
    /\ request' = [request EXCEPT ![t] = d]
    /\ UNCHANGED <<ticket, record, spent, audit>>

\* The rows a transaction has locked with FOR UPDATE.
Locked(t) == IF request[t].step = "CONSUMED" THEN {request[t].token, request[t].approval} ELSE {}
Free(x) == \A t \in Thread : x \notin Locked(t) \ {NoApproval}

Bound(x, d) == Issued[x] = [by |-> d.by, params |-> d.params]

\* ApprovalService.consume: one that is consumed already is let through.
ApprovalHolds(d) == d.approval = NoApproval \/ Bound(d.approval, d)

\* Mutant: a token that was used before is let through as well.
TokenBound(d) == Bound(d.token, d)

\* ConfirmationService.consume
TokenHolds(d) == Bound(d.token, d) /\ d.token \notin spent

\* consume_consultation_approval
Consume(t) ==
    /\ request[t].step = "LOOKED_UP"
    /\ Free(request[t].token) /\ Free(request[t].approval)
    /\ IF ApprovalHolds(request[t]) /\ TokenHolds(request[t])
       THEN request' = [request EXCEPT ![t].step = "CONSUMED"]
       ELSE End(t)
    /\ UNCHANGED <<ticket, record, spent, audit>>

NewTicket(d) == [by |-> d.by, params |-> d.params, key |-> d.key, status |-> "DRAFT",
                 answer |-> NoAnswer, version |-> 1, token |-> d.token, approval |-> d.approval]

\* idempotency.add: a record that has appeared since the lookup must be of the
\* same params, and stays.
KeyHolds(d) == record[d.by, d.key] # NoRecord => record[d.by, d.key].params = d.params

Recorded(d) ==
    IF record[d.by, d.key] = NoRecord
    THEN [record EXCEPT ![<<d.by, d.key>>] = [params |-> d.params, ticket |-> Len(ticket) + 1]]
    ELSE record

\* What the transaction of the ticket consumes.
Spend(d) == {d.token, d.approval} \ {NoApproval}

\* create_draft, from validate_consultation_bill to the commit.
WriteDraft(t) ==
    LET d == request[t] IN
    /\ d.step = "CONSUMED"
    /\ d.params \notin OtherHouse
    /\ KeyHolds(d)
    /\ ticket' = Append(ticket, NewTicket(d))
    /\ audit' = Append(audit, <<"CREATE">>)
    /\ record' = Recorded(d)
    /\ spent' = spent \cup Spend(d)
    /\ End(t)

\* A bill of another house, a source of bills that is down, a key that was
\* taken since the lookup (by other params, or between the lookup of add and
\* its insert, which the unique constraint refuses), or a crash.
Abort(t) ==
    /\ ~Idle(t)
    /\ End(t)
    /\ UNCHANGED <<ticket, record, spent, audit>>

-----------------------------------------------------------------------------
(* Transitions. *)

Rounds(i) == Cardinality({n \in DOMAIN audit[i] : audit[i][n] = "APPEALED"})

May(u, i, target) ==
    /\ target \in OwnerOnly => u = ticket[i].by
    /\ target \in StaffOnly => u \in Staff

\* Mutant: a ticket that is appealed against is resolved as it stands.
TransitionToOrResolve(from, target) ==
    <<from, target>> \in Allowed \cup {<<"APPEALED", "RESOLVED">>}

\* transition_to
TransitionTo(from, target) == <<from, target>> \in Allowed

\* _transition, up to its checks; the caller has seen the current version.
Load(t, u, i, target) ==
    /\ Idle(t)
    /\ May(u, i, target)
    /\ TransitionTo(ticket[i].status, target)
    /\ ticket[i].version < MaxVersion
    /\ request' = [request EXCEPT ![t] =
                      [step |-> "LOADED", by |-> u, ticket |-> i, copy |-> ticket[i],
                       target |-> target]]
    /\ UNCHANGED <<ticket, record, spent, audit>>

\* apply_answer: the answer replaces the one before; it stays otherwise.
Answered(m) == IF m.target = "ANSWERED" THEN [by |-> m.by, round |-> Rounds(m.ticket)]
               ELSE m.copy.answer

\* Mutant: the row is written whatever its version is.
UpdateAnyway(m) == TRUE

\* SqlAlchemyConsultationRepository.update
Update(m) == ticket[m.ticket].version = m.copy.version

\* _transition, from the update to the commit.
WriteMove(t) ==
    LET m == request[t] IN
    /\ m.step = "LOADED"
    /\ IF Update(m)
       THEN /\ ticket' = [ticket EXCEPT ![m.ticket] = [m.copy EXCEPT
                             !.status = m.target, !.answer = Answered(m), !.version = @ + 1]]
            /\ audit' = [audit EXCEPT ![m.ticket] = Append(@, m.target)]
       ELSE UNCHANGED <<ticket, audit>>
    /\ End(t)
    /\ UNCHANGED <<record, spent>>

-----------------------------------------------------------------------------
LookUpNext == \E t \in Thread, d \in Draft : d.step = "LOOKED_UP" /\ LookUp(t, d)
LoadNext == \E t \in Thread, u \in User, i \in 1..Len(ticket), s \in Status : Load(t, u, i, s)

Next ==
    \/ LookUpNext
    \/ LoadNext
    \/ \E t \in Thread : Consume(t) \/ WriteDraft(t) \/ WriteMove(t) \/ Abort(t)

Spec == Init /\ [][Next]_vars

-----------------------------------------------------------------------------
(* Properties. *)

\* A token is consumed exactly when a ticket was made with it, and makes one
\* ticket only, whatever requests present it at once and wherever one of them
\* fails; an approval is consumed with the first ticket made under it.
ConsumedWithItsTicket ==
    /\ \A x \in Token : Cardinality({i \in DOMAIN ticket : ticket[i].token = x})
                           = IF x \in spent THEN 1 ELSE 0
    /\ \A x \in Approval : x \in spent <=> \E i \in DOMAIN ticket : ticket[i].approval = x

\* The audited actions of a ticket are a path of its state machine that ends
\* in its status, with one version for each: no transition is lost under
\* another that was made from the same copy.
AuditIsThePath ==
    \A i \in DOMAIN ticket :
        /\ Len(audit[i]) = ticket[i].version
        /\ ticket[i].status = IF Len(audit[i]) = 1 THEN "DRAFT" ELSE audit[i][Len(audit[i])]
        /\ \A n \in 2..Len(audit[i]) :
              <<IF n = 2 THEN "DRAFT" ELSE audit[i][n - 1], audit[i][n]>> \in Allowed

\* What an answered or resolved ticket shows was written after the last
\* appeal: the answer that was appealed against stays in the row until then,
\* but is never what the ticket is closed with.
ClosedOnTheLastAppeal ==
    \A i \in DOMAIN ticket :
        ticket[i].status \in {"ANSWERED", "RESOLVED"} =>
            ticket[i].answer # NoAnswer /\ ticket[i].answer.round = Rounds(i)

\* The inductive invariant.  A token that a draft has consumed is its own and
\* unspent until the commit; the copy of a transition that is not outdated is
\* the row itself.
ConsultationInv ==
    /\ TypeOK
    /\ \A i \in DOMAIN ticket : Spend(ticket[i]) \subseteq spent
    /\ \A x \in spent : \E i \in DOMAIN ticket : x \in Spend(ticket[i])
    /\ \A i, j \in DOMAIN ticket : ticket[i].token = ticket[j].token => i = j
    /\ \A t \in Thread : request[t].step = "CONSUMED" =>
          /\ request[t].token \notin spent
          /\ \A u \in Thread \ {t} :
                request[u].step = "CONSUMED" => request[u].token # request[t].token
    /\ \A t \in Thread : request[t].step = "LOADED" =>
          LET m == request[t] IN
          /\ m.ticket \in DOMAIN ticket /\ m.copy.version <= ticket[m.ticket].version
          /\ Update(m) => m.copy = ticket[m.ticket]
          /\ TransitionTo(m.copy.status, m.target)
    /\ AuditIsThePath
    /\ ClosedOnTheLastAppeal

=============================================================================
