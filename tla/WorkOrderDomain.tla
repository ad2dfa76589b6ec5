--------------------------- MODULE WorkOrderDomain ---------------------------
(***************************************************************************)
(* The repair domain: the state machine of a work order and who may do     *)
(* what with it.  All work orders here belong to one house.                *)
(***************************************************************************)
EXTENDS Naturals

CONSTANTS
    Order,       \* work orders
    Manager,     \* users with the role MANAGER, System among them
    Clerk,       \* users with the role CUSTOMER_SERVICE
    Worker,      \* active users with the role REPAIR_WORKER
    Resident,    \* users with the role RESIDENT
    Tenant,      \* those residents who are bound to the house
    System,      \* SYSTEM_DISPATCHER_ID
    NoWorker,    \* nobody is assigned
    Key,         \* idempotency keys of clients
    NoOrigin     \* no request has created the work order

Actor == Manager \cup Clerk \cup Worker \cup Resident

\* reporter_id and create_idempotency_key
Origin == Actor \X Key

ASSUME DomainAssumption ==
    /\ System \in Manager /\ System \notin Clerk \cup Worker \cup Resident
    /\ Tenant \subseteq Resident
    /\ NoWorker \notin Worker /\ NoOrigin \notin Origin

Status == {"PENDING_ASSIGNMENT", "PENDING_ACCEPTANCE", "PROCESSING",
           "PENDING_VERIFICATION", "REWORKING", "CLOSED"}

\* <<from, action, to>>
TRANSITIONS ==
    {<<"PENDING_ASSIGNMENT", "ASSIGN", "PENDING_ACCEPTANCE">>,
     <<"PENDING_ACCEPTANCE", "ACCEPT", "PROCESSING">>,
     <<"PENDING_ACCEPTANCE", "REJECT", "PENDING_ASSIGNMENT">>,
     <<"PROCESSING", "SUBMIT_COMPLETION", "PENDING_VERIFICATION">>,
     <<"PENDING_VERIFICATION", "VERIFY_PASS", "CLOSED">>,
     <<"PENDING_VERIFICATION", "REQUEST_REWORK", "REWORKING">>,
     <<"REWORKING", "SUBMIT_REWORK_COMPLETION", "PENDING_VERIFICATION">>}

\* touch: recording progress leaves the status alone.
Touches == {<<s, "RECORD_PROGRESS", s>> : s \in {"PROCESSING", "REWORKING"}}

Moves == TRANSITIONS \cup Touches
WorkerAction == {"ACCEPT", "REJECT", "RECORD_PROGRESS", "SUBMIT_COMPLETION",
                 "SUBMIT_REWORK_COMPLETION"}
ActionCode == WorkerAction \cup {"ASSIGN", "VERIFY_PASS", "REQUEST_REWORK"}

\* A row of work_orders: NONE if it is not there.
Row == [status : Status \cup {"NONE"}, assignee : Worker \cup {NoWorker},
        version : Nat, origin : Origin \cup {NoOrigin}]
NoRow == [status |-> "NONE", assignee |-> NoWorker, version |-> 0, origin |-> NoOrigin]
NewRow(origin) == [status |-> "PENDING_ASSIGNMENT", assignee |-> NoWorker, version |-> 1,
                   origin |-> origin]

\* An entry of the timeline: status log and process records.
Entry == [action : ActionCode \cup {"CREATE"}, actor : Actor,
          from : Status \cup {"NONE"}, to : Status, assignee : Worker \cup {NoWorker}]

-----------------------------------------------------------------------------
\* _get_authorized
Sees(who, w) ==
    /\ who \in Resident \ (Manager \cup Clerk) => who \in Tenant
    /\ who \in Worker \ (Manager \cup Clerk) => w.assignee = who

\* CREATE_ROLES, and the house access of the shared ports
MayCreate(who) == who \in Manager \cup Clerk \cup Tenant

\* Those whose role the action takes at all; anyone else is refused at once.
Takes(action) ==
    IF action = "ASSIGN" THEN Manager \cup Clerk
    ELSE IF action \in WorkerAction THEN Worker ELSE Manager \cup Resident

\* _require_role, _require_assignee and _require_verifier
May(who, action, w) ==
    \/ action = "ASSIGN" /\ who \in Manager \cup Clerk
    \/ action \in WorkerAction /\ who \in Worker /\ w.assignee = who
    \/ action \in {"VERIFY_PASS", "REQUEST_REWORK"} /\ who \in Manager \cup Tenant

\* The row after a move m; p is the worker named by an assignment.
Moved(w, m, p) ==
    [w EXCEPT !.status = m[3], !.version = w.version + 1,
              !.assignee = IF m[2] = "ASSIGN" THEN p
                           ELSE IF m[2] = "REJECT" THEN NoWorker ELSE w.assignee]

Written(who, action, w, moved) ==
    [action |-> action, actor |-> who, from |-> w.status, to |-> moved.status,
     assignee |-> moved.assignee]
=============================================================================
