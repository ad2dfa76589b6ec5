---------------------------- MODULE Announcement ----------------------------
(***************************************************************************)
(* AnnouncementService: announcements are drafted, reviewed and published  *)
(* by requests of the staff, or published by the scheduler of a backend    *)
(* process when the time has come that a manager has set for them.         *)
(*                                                                         *)
(* A request is a transaction: it checks a copy of the announcement and    *)
(* writes it over the row, which must still have the version of the copy.  *)
(* The scheduler locks the rows it fetches and passes over those that are  *)
(* locked.  A refused request leaves no trace here; the lookup of its key  *)
(* and its repetition are those of RepairService.                          *)
(***************************************************************************)
EXTENDS Naturals, Sequences, FiniteSets, FiniteSetsExt

CONSTANTS
    Ann,         \* announcements
    Resident,    \* those who may be addressed
    Thread,      \* requests served at a time
    Limit,       \* how many due announcements publish_due fetches
    MaxTime,     \* bound: when the clock stops
    MaxDraft,    \* bound: the version after which no draft is edited or submitted
    MaxVersion   \* bound: the version after which nothing is scheduled

ASSUME AnnouncementAssumption ==
    /\ Limit \in Nat \ {0} /\ MaxTime \in Nat \ {0} /\ MaxDraft \in Nat /\ MaxVersion \in Nat
    /\ MaxDraft < MaxVersion

VARIABLES
    ann,        \* ann[a]: the row of announcements
    review,     \* review[a]: rows of announcement_reviews, with the version they led to
    snapshot,   \* snapshot[a]: the members of the latest audience snapshot
    message,    \* message[a][r]: the events of a that messages to r tell of
    request,    \* request[t]: the transaction of thread t
    clock

vars == <<ann, review, snapshot, message, request, clock>>

Status == {"NONE", "DRAFT", "PENDING_REVIEW", "APPROVED", "REJECTED", "PUBLISHED", "WITHDRAWN"}

\* TRANSITIONS, with edit and schedule, which leave the status alone
Moves ==
    {<<"DRAFT", "EDIT", "DRAFT">>,
     <<"REJECTED", "EDIT", "REJECTED">>,
     <<"DRAFT", "SUBMIT_REVIEW", "PENDING_REVIEW">>,
     <<"REJECTED", "SUBMIT_REVIEW", "PENDING_REVIEW">>,
     <<"PENDING_REVIEW", "APPROVE", "APPROVED">>,
     <<"PENDING_REVIEW", "REJECT", "REJECTED">>,
     <<"APPROVED", "SCHEDULE", "APPROVED">>,
     <<"APPROVED", "PUBLISH", "PUBLISHED">>,
     <<"PUBLISHED", "WITHDRAW", "WITHDRAWN">>}
Action == {m[2] : m \in Moves}

\* Actions that resolve the audience, and those that are recorded as reviews.
Resolving == {"SUBMIT_REVIEW", "SCHEDULE", "PUBLISH"}
Reviewing == Action \ {"EDIT", "WITHDRAW"}

\* A row: scheduled_at is 0 for NULL, edited is the version of its last edit.
\* What can be repeated is bounded; at most a publication and a withdrawal
\* follow.
Version == 0..MaxVersion + 2
Row == [status : Status, version : Version, edited : Version, scheduled : 0..MaxTime]
NoRow == [status |-> "NONE", version |-> 0, edited |-> 0, scheduled |-> 0]

\* A transaction that has passed its checks, or none.
Pending == [ann : Ann, action : Action, copy : Row, at : 0..MaxTime,
            audience : SUBSET Resident]
NoRequest == [action |-> "NONE"]

TypeOK ==
    /\ ann \in [Ann -> Row]
    /\ review \in [Ann -> SUBSET ((Reviewing \cup {"SCHEDULED_EXECUTION"}) \X Version)]
    /\ snapshot \in [Ann -> SUBSET Resident]
    /\ message \in [Ann -> [Resident -> Seq({"PUBLISHED", "WITHDRAWN"})]]
    /\ request \in [Thread -> Pending \cup {NoRequest}]
    /\ clock \in 1..MaxTime

Init ==
    /\ ann = [a \in Ann |-> NoRow]
    /\ review = [a \in Ann |-> {}]
    /\ snapshot = [a \in Ann |-> {}]
    /\ message = [a \in Ann |-> [r \in Resident |-> <<>>]]
    /\ request = [t \in Thread |-> NoRequest]
    /\ clock = 1

-----------------------------------------------------------------------------
\* create_draft: a time may be named in it, which schedules nothing.
Create(a, at) ==
    /\ ann[a] = NoRow
    /\ ann' = [ann EXCEPT ![a] = [status |-> "DRAFT", version |-> 1, edited |-> 1,
                                  scheduled |-> at]]
    /\ UNCHANGED <<review, snapshot, message, request, clock>>

\* What an action may ask for: a time that is to come, an audience with members.
Times(action) == IF action = "SCHEDULE" THEN clock + 1..MaxTime ELSE {0}
Audiences(action) == IF action \in Resolving THEN SUBSET Resident \ {{}} ELSE {{}}

\* A request, as far as its checks: the version the client has seen is that of
\* the row and the action is legal.
Load(t, a) ==
    /\ request[t] = NoRequest
    /\ \E m \in Moves :
          /\ m[1] = ann[a].status
          /\ m[2] \in {"EDIT", "SUBMIT_REVIEW"} => ann[a].version < MaxDraft
          /\ m[2] = "SCHEDULE" => ann[a].version < MaxVersion
          /\ \E at \in Times(m[2]), audience \in Audiences(m[2]) :
                request' = [request EXCEPT ![t] =
                    [ann |-> a, action |-> m[2], copy |-> ann[a], at |-> at,
                     audience |-> audience]]
    /\ UNCHANGED <<ann, review, snapshot, message, clock>>

\* The row after an action.
Changed(row, m, at) ==
    [row EXCEPT !.status = m[3], !.version = row.version + 1,
                !.edited = IF m[2] = "EDIT" THEN row.version + 1 ELSE row.edited,
                !.scheduled = IF m[2] = "SCHEDULE" THEN at ELSE row.scheduled]

\* Messages about a to those in an audience, one of a kind to each.
Told(a, audience, event) ==
    [r \in Resident |-> IF r \in audience /\ event \notin {message[a][r][i] : i \in DOMAIN message[a][r]}
                        THEN Append(message[a][r], event) ELSE message[a][r]]

\* save: the row has the version that the transaction has checked.
Fresh(q) == ann[q.ann].version = q.copy.version

\* Mutant: a withdrawal is told to those who live there by now.
AddressedAnew(q) == IF q.action = "WITHDRAW" THEN Resident ELSE q.audience

\* A withdrawal is told to those the publication was told to.
Addressed(q) == IF q.action = "WITHDRAW" THEN snapshot[q.ann] ELSE q.audience

\* What a request writes, over the version that it has checked.
Write(t) ==
    /\ request[t] # NoRequest
    /\ LET q == request[t]
           a == q.ann IN
       /\ Fresh(q)
       /\ \E m \in Moves :
             /\ m[1] = q.copy.status /\ m[2] = q.action
             /\ ann' = [ann EXCEPT ![a] = Changed(q.copy, m, q.at)]
       /\ review' = [review EXCEPT ![a] =
                        IF q.action \in Reviewing THEN @ \cup {<<q.action, q.copy.version + 1>>}
                        ELSE @]
       /\ snapshot' = [snapshot EXCEPT ![a] = IF q.action \in Resolving THEN q.audience ELSE @]
       /\ message' = [message EXCEPT ![a] =
                        CASE q.action = "PUBLISH" -> Told(a, Addressed(q), "PUBLISHED")
                          [] q.action = "WITHDRAW" -> Told(a, Addressed(q), "WITHDRAWN")
                          [] OTHER -> @]
    /\ request' = [request EXCEPT ![t] = NoRequest]
    /\ UNCHANGED clock

\* Another version was committed meanwhile, a port refuses, the connection or
\* the process dies: the transaction is rolled back.
Abort(t) ==
    /\ request[t] # NoRequest
    /\ request' = [request EXCEPT ![t] = NoRequest]
    /\ UNCHANGED <<ann, review, snapshot, message, clock>>

-----------------------------------------------------------------------------
\* Mutant: what is due now is not fetched until later.
DueLater == {a \in Ann : ann[a].status = "APPROVED" /\ ann[a].scheduled \in 1..clock - 1}

Due == {a \in Ann : ann[a].status = "APPROVED" /\ ann[a].scheduled \in 1..clock}
Writing == {request[t].ann : t \in {u \in Thread : request[u] # NoRequest}}
Scheduled(a) == \E v \in Version : <<"SCHEDULE", v>> \in review[a]

\* list_due_scheduled, if others have locked the given rows
Fetched(batch, locked) ==
    LET free == Due \ locked IN
    /\ batch \subseteq free
    /\ Cardinality(batch) = IF Cardinality(free) < Limit THEN Cardinality(free) ELSE Limit
    /\ \A a \in batch, b \in free \ batch : ann[a].scheduled <= ann[b].scheduled

\* Mutant: the authorization of the manager is not looked up.
PublishAnyway(batch) == {a \in batch : snapshot[a] # {}}

\* Those of a batch that a manager has scheduled, for members known by now.
Publishable(batch) == {a \in batch : Scheduled(a) /\ snapshot[a] # {}}

\* publish_due: one transaction, or nothing.
PublishDue(batch) ==
    LET out == Publishable(batch)
        moved == [a \in Ann |-> Changed(ann[a], <<"APPROVED", "PUBLISH", "PUBLISHED">>, 0)] IN
    /\ \E locked \in SUBSET Writing : Fetched(batch, locked)
    /\ out # {}
    /\ ann' = [a \in Ann |-> IF a \in out THEN moved[a] ELSE ann[a]]
    /\ review' = [a \in Ann |-> IF a \in out
                                THEN review[a] \cup {<<"SCHEDULED_EXECUTION", ann[a].version + 1>>}
                                ELSE review[a]]
    /\ message' = [a \in Ann |-> IF a \in out THEN Told(a, snapshot[a], "PUBLISHED")
                                 ELSE message[a]]
    /\ UNCHANGED <<snapshot, request, clock>>

Tick ==
    /\ clock < MaxTime
    /\ clock' = clock + 1
    /\ UNCHANGED <<ann, review, snapshot, message, request>>

Next ==
    \/ Tick
    \/ \E a \in Ann, at \in 0..MaxTime : Create(a, at)
    \/ \E t \in Thread : (\E a \in Ann : Load(t, a)) \/ Write(t) \/ Abort(t)
    \/ \E batch \in SUBSET Due : PublishDue(batch)

Spec == Init /\ [][Next]_vars

\* Time passes.  The scheduler scans every few seconds, and requests hold a row
\* locked for a moment only: it does not miss a row in every scan.
FairSpec ==
    /\ Spec
    /\ WF_vars(Tick)
    /\ \A a \in Ann : SF_vars(\E batch \in SUBSET Due : a \in batch /\ PublishDue(batch))

-----------------------------------------------------------------------------
\* What a resident finds: search, and get by _ensure_resident_visibility.
Visible(r, a) == ann[a].status = "PUBLISHED" /\ r \in snapshot[a]

\* Those who can read an announcement are those who were told of it, once; and
\* once they are told that it is withdrawn, by whatever way it went out and
\* whoever has moved in or out since.
ReadersWereTold ==
    \A a \in Ann, r \in Resident :
        message[a][r] =
            IF Visible(r, a) THEN <<"PUBLISHED">>
            ELSE IF ann[a].status = "WITHDRAWN" /\ r \in snapshot[a]
            THEN <<"PUBLISHED", "WITHDRAWN">>
            ELSE <<>>

\* What goes out was approved as it is, and a manager wanted it out, now or by
\* the time that was set.
PublishedWasAuthorized ==
    \A a \in Ann : ann[a].status \in {"PUBLISHED", "WITHDRAWN"} =>
        \E v, w \in Version :
            /\ ann[a].edited < v /\ v < w /\ <<"APPROVE", v>> \in review[a]
            /\ \/ <<"PUBLISH", w>> \in review[a]
               \/ /\ <<"SCHEDULE", w>> \in review[a] /\ ann[a].scheduled <= clock
                  /\ \E x \in w + 1..ann[a].version : <<"SCHEDULED_EXECUTION", x>> \in review[a]

\* Approved announcements with a time nobody has scheduled them for stay in the
\* way of the scheduler; while there is room for another one, what is
\* scheduled goes out, unless it goes out otherwise.
InTheWay == {a \in Ann : ann[a].status = "APPROVED" /\ ann[a].scheduled > 0 /\ ~Scheduled(a)}
ScheduledGoesOut ==
    [](Cardinality(InTheWay) < Limit) =>
        \A a \in Ann : ann[a].status = "APPROVED" /\ Scheduled(a) ~> ann[a].status # "APPROVED"
=============================================================================
