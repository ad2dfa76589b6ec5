--------------------------- MODULE InspectionTask ---------------------------
(***************************************************************************)
(* InspectionTaskService: tasks are planned, assigned to a member of the   *)
(* security staff, executed, and completed by a manager; suggestions of a  *)
(* model are added on the way, and confirmed by a manager.                 *)
(*                                                                         *)
(* A request is a transaction at READ COMMITTED: it reads and checks, and  *)
(* writes later, over the version it has read.  What it checks a new plan  *)
(* against may be out of date by then, and no constraint of the database   *)
(* makes up for it.  A refused request leaves no trace; the lookup of an   *)
(* action's key is that of RepairService, and what the agent consumes to   *)
(* write is in AgentTurn.                                                  *)
(***************************************************************************)
EXTENDS Naturals, Sequences, FiniteSets

CONSTANTS
    Task,        \* rows of inspection_tasks
    Manager,     \* users with the role MANAGER, ...
    Staff,       \* ... and with SECURITY_STAFF: a user may have both
    Nobody,      \* not a user
    Point,       \* points a route can visit
    MaxTime,     \* bound: plans name times in 1..MaxTime
    Plan,        \* bound: the plans that are made
    Thread,      \* requests served at a time
    Key,         \* idempotency keys
    MaxAdded     \* bound: how many records and suggestions are added, and confirmations made

\* What _validate_create asks of a plan; a time of 0 is None.
ValidPlan == {p \in [points : SUBSET Point \ {{}}, planned : 0..MaxTime, due : 0..MaxTime] :
                 p.planned = 0 \/ p.due = 0 \/ p.planned <= p.due}
NoPlan == [points |-> {}, planned |-> 0, due |-> 0]

ASSUME TaskAssumption ==
    /\ Plan \subseteq ValidPlan
    /\ Nobody \notin Manager \cup Staff
    /\ MaxTime \in Nat \ {0} /\ MaxAdded \in Nat

VARIABLES
    task,       \* task[k]: the row
    timeline,   \* timeline[k]: status logs and records, in the order of their commits
    request     \* request[t]: the transaction of thread t, with the checks it has passed

vars == <<task, timeline, request>>

User == Manager \cup Staff
Status == {"NONE", "PLANNED", "ASSIGNED", "IN_PROGRESS", "SUBMITTED", "COMPLETED"}

\* TASK_TRANSITIONS
TRANSITIONS ==
    {<<"PLANNED", "ASSIGN", "ASSIGNED">>, <<"ASSIGNED", "START", "IN_PROGRESS">>,
     <<"IN_PROGRESS", "SUBMIT_RECORDS", "SUBMITTED">>, <<"SUBMITTED", "COMPLETE", "COMPLETED">>}

\* Actions that leave the status alone.
Additions == {"ADD_RECORD", "AI_SUGGESTION", "AI_CONFIRM"}
TaskAction == {m[2] : m \in TRANSITIONS} \cup {"ADD_RECORD"}
Action == TaskAction \cup Additions

\* A row.  before: the tasks that were stored when its request made its checks.
Row == [status : Status, by : User \cup {Nobody}, key : Key \cup {"NONE"},
        plan : Plan \cup {NoPlan}, assignee : Staff \cup {Nobody}, version : Nat,
        sugg : Seq(BOOLEAN), pending : BOOLEAN, before : SUBSET Task]
NoRow == [status |-> "NONE", by |-> Nobody, key |-> "NONE", plan |-> NoPlan,
          assignee |-> Nobody, version |-> 0, sugg |-> <<>>, pending |-> FALSE, before |-> {}]

Entry == [type : {"STATUS", "RECORD"}, action : Action \cup {"CREATE"}, by : User]

NoRequest == [action |-> "NONE"]
Pending == [action : Action \cup {"CREATE"}, by : User, task : Task, copy : Row,
            assignee : Staff \cup {Nobody}]

TypeOK ==
    /\ task \in [Task -> Row]
    /\ timeline \in [Task -> Seq(Entry)]
    /\ request \in [Thread -> Pending \cup {NoRequest}]

Init ==
    /\ task = [k \in Task |-> NoRow]
    /\ timeline = [k \in Task |-> <<>>]
    /\ request = [t \in Thread |-> NoRequest]

-----------------------------------------------------------------------------
Stored == {k \in Task : task[k] # NoRow}

\* find_active_tasks
Active(k) == task[k].status \in {"PLANNED", "ASSIGNED", "IN_PROGRESS"}

\* Mutant: a missing end is taken for the earliest time.
TimeOverlapsWhenGiven(p, q) ==
    /\ ~(p.planned > 0 /\ p.planned > q.due)
    /\ ~(q.planned > 0 /\ q.planned > p.due)

\* _time_overlaps: a missing end is infinite.
TimeOverlaps(p, q) ==
    /\ ~(p.planned > 0 /\ q.due > 0 /\ p.planned > q.due)
    /\ ~(q.planned > 0 /\ p.due > 0 /\ q.planned > p.due)

\* _validate_plan_conflict: a plan without times is not checked.
PlanConflict(p) ==
    /\ p.planned > 0 \/ p.due > 0
    /\ \E k \in Task : Active(k) /\ p.points \cap task[k].plan.points # {}
                       /\ TimeOverlaps(p, task[k].plan)

\* create_task, as far as its checks.
LoadCreate(t, u, k, key, p) ==
    /\ request[t] = NoRequest
    /\ task[k] = NoRow /\ \A x \in Thread : request[x] # NoRequest => request[x].task # k
    /\ \A x \in Stored : <<task[x].by, task[x].key>> # <<u, key>>   \* else it is replayed
    /\ ~PlanConflict(p)
    /\ request' = [request EXCEPT ![t] =
            [action |-> "CREATE", by |-> u, task |-> k, assignee |-> Nobody,
             copy |-> [NoRow EXCEPT !.status = "PLANNED", !.by = u, !.key = key, !.plan = p,
                                    !.version = 1, !.before = Stored]]]
    /\ UNCHANGED <<task, timeline>>

\* _get_authorized_task: staff who do not also manage see their own tasks only.
Sees(u, row) == u \in Manager \/ row.assignee = u

\* list_tasks, and what aggregate_task_statuses counts
Listed(u) ==
    {k \in Task : task[k] # NoRow /\ (u \in Staff /\ u \notin Manager => task[k].assignee = u)}

\* _require_task_assignee
IsAssignee(u, row) == u \in Staff /\ row.assignee = u

\* Who may do what in which state: the checks of _apply_task_action,
\* add_ai_suggestion and confirm_ai_suggestions.
May(u, row, action) ==
    /\ Sees(u, row)
    /\ action \in TaskAction \ {"ADD_RECORD"} =>
           \E m \in TRANSITIONS : m[1] = row.status /\ m[2] = action
    /\ action \in {"ASSIGN", "COMPLETE", "AI_CONFIRM"} => u \in Manager
    /\ action \in {"START", "SUBMIT_RECORDS", "ADD_RECORD"} => IsAssignee(u, row)
    /\ action = "ADD_RECORD" => row.status \in {"IN_PROGRESS", "SUBMITTED"}
    /\ action = "AI_CONFIRM" => row.pending

\* available_task_actions
Offered(u, row) ==
    CASE row.status = "PLANNED" /\ u \in Manager -> {"ASSIGN"}
      [] row.status = "ASSIGNED" /\ IsAssignee(u, row) -> {"START"}
      [] row.status = "IN_PROGRESS" /\ IsAssignee(u, row) -> {"SUBMIT_RECORDS", "ADD_RECORD"}
      [] row.status = "SUBMITTED" /\ IsAssignee(u, row) -> {"ADD_RECORD"}
      [] row.status = "SUBMITTED" /\ u \in Manager /\ ~IsAssignee(u, row) -> {"COMPLETE"}
      [] OTHER -> {}

\* All that is added, or is about to be.
Added ==
    Cardinality({x \in Task \X (1..MaxAdded + 6) :
                    /\ x[2] \in DOMAIN timeline[x[1]]
                    /\ timeline[x[1]][x[2]].action \in Additions})
    + Cardinality({t \in Thread : request[t].action \in Additions})

\* A request for an action on a task, as far as its checks.
Load(t, u, k, action, s) ==
    /\ request[t] = NoRequest
    /\ task[k] # NoRow
    /\ action \in Additions => Added < MaxAdded
    /\ May(u, task[k], action)
    /\ request' = [request EXCEPT ![t] =
            [action |-> action, by |-> u, task |-> k, copy |-> task[k], assignee |-> s]]
    /\ UNCHANGED <<task, timeline>>

\* execute_task_action: an assignment names a member of the staff.
ExecuteTaskAction(t, u, k, action, s) ==
    /\ action \in TaskAction
    /\ action = "ASSIGN" <=> s # Nobody
    /\ Load(t, u, k, action, s)

\* Suggestions can be added whatever the status is, also when all is completed.
AddAiSuggestion(t, u, k) == Load(t, u, k, "AI_SUGGESTION", Nobody)

\* All suggestions there are by now are confirmed, whatever the client has seen.
ConfirmAiSuggestions(t, u, k) == Load(t, u, k, "AI_CONFIRM", Nobody)

\* The row after an action: transition, touch, add_ai_suggestion or
\* confirm_ai_suggestions, each of which counts the version.
Changed(row, action, s) ==
    [row EXCEPT
        !.status = IF action \in Additions THEN @
                   ELSE (CHOOSE m \in TRANSITIONS : m[1] = @ /\ m[2] = action)[3],
        !.assignee = IF action = "ASSIGN" THEN s ELSE @,
        !.version = @ + 1,
        !.sugg = CASE action = "AI_SUGGESTION" -> Append(@, TRUE)
                   [] action = "AI_CONFIRM" -> [i \in DOMAIN @ |-> FALSE]
                   [] OTHER -> @,
        !.pending = IF action = "AI_SUGGESTION" THEN TRUE
                    ELSE action # "AI_CONFIRM" /\ @]

\* What an action adds to the timeline: a submission is a record and a
\* transition, an added record is no transition.
Entries(action, u) ==
    LET e(type) == [type |-> type, action |-> action, by |-> u] IN
    CASE action = "SUBMIT_RECORDS" -> <<e("RECORD"), e("STATUS")>>
      [] action = "ADD_RECORD" -> <<e("RECORD")>>
      [] OTHER -> <<e("STATUS")>>

\* Mutant: save_task does not compare the version.
SaveAnyway(q) == TRUE

\* save_task: the row has the version that was read.
Saves(q) == task[q.task].version = q.copy.version

\* The unique constraint on created_by and create_idempotency_key.
Unique(q) == \A k \in Stored : <<task[k].by, task[k].key>> # <<q.copy.by, q.copy.key>>

\* create_task writes and commits.
WriteCreate(t) ==
    /\ request[t].action = "CREATE"
    /\ LET q == request[t] IN
       /\ Unique(q)
       /\ task' = [task EXCEPT ![q.task] = q.copy]
       /\ timeline' = [timeline EXCEPT ![q.task] = @ \o Entries("CREATE", q.by)]
    /\ request' = [request EXCEPT ![t] = NoRequest]

\* Any other request writes and commits.
WriteAction(t) ==
    /\ request[t].action \in Action
    /\ LET q == request[t] IN
       /\ Saves(q)
       /\ task' = [task EXCEPT ![q.task] = Changed(q.copy, q.action, q.assignee)]
       /\ timeline' = [timeline EXCEPT ![q.task] = @ \o Entries(q.action, q.by)]
    /\ request' = [request EXCEPT ![t] = NoRequest]

\* It is refused, or its process dies: all is rolled back.
Abort(t) ==
    /\ request[t] # NoRequest
    /\ request' = [request EXCEPT ![t] = NoRequest]
    /\ UNCHANGED <<task, timeline>>

Next ==
    \E t \in Thread :
        \/ \E u \in User, k \in Task, key \in Key, p \in Plan : LoadCreate(t, u, k, key, p)
        \/ \E u \in User, k \in Task, action \in TaskAction, s \in Staff \cup {Nobody} :
               ExecuteTaskAction(t, u, k, action, s)
        \/ \E u \in User, k \in Task : AddAiSuggestion(t, u, k) \/ ConfirmAiSuggestions(t, u, k)
        \/ WriteCreate(t)
        \/ WriteAction(t)
        \/ Abort(t)

Spec == Init /\ [][Next]_vars

-----------------------------------------------------------------------------
\* The instants a plan covers.
Covers(p) == {i \in 1..MaxTime : p.planned <= i /\ (p.due = 0 \/ i <= p.due)}

\* Two tasks that are to be executed share a point at some instant only if
\* neither was stored when the other was checked (overlapping requests are the
\* gap of the check), or the later one was planned without a time.
PlansClashOnlyUnseen ==
    \A j, k \in Task :
        /\ Active(j) /\ Active(k)
        /\ j \in task[k].before
        /\ task[j].plan.points \cap task[k].plan.points # {}
        /\ Covers(task[j].plan) \cap Covers(task[k].plan) # {}
        => task[k].plan.planned = 0 /\ task[k].plan.due = 0

\* Where a timeline logs that an action was done.
Done(line, action) == {i \in DOMAIN line : line[i].type = "STATUS" /\ line[i].action = action}

\* However requests interleave, what the timeline says was done to a task is in
\* its row: each change has counted one version, no suggestion is lost, those
\* that no manager has confirmed are pending and the flag says so, and the
\* records were submitted by the one who is assigned and who has started.
Agrees(row, line) ==
    /\ row.version + Cardinality(Done(line, "SUBMIT_RECORDS")) = Len(line)
    /\ Len(row.sugg) = Cardinality(Done(line, "AI_SUGGESTION"))
    /\ row.pending <=> \E i \in DOMAIN row.sugg : row.sugg[i]
    /\ row.pending <=> \E i \in Done(line, "AI_SUGGESTION") :
                           \A j \in Done(line, "AI_CONFIRM") : j < i
    /\ \A i \in Done(line, "START") \cup Done(line, "SUBMIT_RECORDS") :
           line[i].by = row.assignee
TimelineAgrees == \A k \in Task : Agrees(task[k], timeline[k])

\* What is listed for a user can be opened, and conversely; what is offered
\* would be accepted; what would be accepted is
\* offered, except that one who both manages and is assigned is not offered to
\* complete, and suggestions are confirmed by a way of their own.
OffersAgree ==
    \A k \in Stored, u \in User :
        LET accepted == {a \in TaskAction : May(u, task[k], a)} IN
        /\ k \in Listed(u) <=> Sees(u, task[k])
        /\ Offered(u, task[k]) \subseteq accepted
        /\ accepted \ Offered(u, task[k]) \subseteq
               IF u \in Manager /\ IsAssignee(u, task[k]) THEN {"COMPLETE"} ELSE {}
=============================================================================
