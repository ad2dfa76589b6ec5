---------------------------- MODULE RepairService ----------------------------
(***************************************************************************)
(* WorkOrderService: requests of the backend's threads, each a transaction *)
(* at READ COMMITTED that looks the idempotency key up, loads and checks   *)
(* the work order, and writes; other transactions commit in between.  What *)
(* protects the work order is the comparison of its version in save, the   *)
(* unique constraints, and nothing else.  Clients send requests again,     *)
(* under the same key or another, whatever became of them.                 *)
(*                                                                         *)
(* The create requests of the agent go on to assign the new order to the   *)
(* least loaded worker, in a transaction of its own.                       *)
(***************************************************************************)
EXTENDS WorkOrderDomain, Sequences, FiniteSets

CONSTANTS
    Thread,      \* requests served at a time
    NoOrder,     \* not a work order
    MaxVersion   \* bound: the highest version reached

ASSUME ServiceAssumption == NoOrder \notin Order /\ MaxVersion \in Nat /\ Key # {}

VARIABLES
    order, timeline, review,   \* see WorkOrder
    idem,       \* rows of idempotency_records
    thread,     \* thread[t]: the request that t is serving
    answer      \* the answer that the last step has given

orderVars == <<order, timeline, review>>
vars == <<order, timeline, review, idem, thread, answer>>

Op == ActionCode \cup {"CREATE", "CREATE_REVIEW"}
Request == [op : Op, actor : Actor, key : Key \cup Order, order : Order \cup {NoOrder},
            version : Nat, assignee : Worker \cup {NoWorker}, agent : BOOLEAN]
NoRequest == [op |-> "CREATE", actor |-> System, key |-> CHOOSE k \in Key : TRUE,
              order |-> NoOrder, version |-> 0, assignee |-> NoWorker, agent |-> FALSE]

\* What the request hash is made of.
Hash(q) == <<q.order, q.version, q.assignee>>

IdempotencyRecord ==
    [op : Op, actor : Actor, key : Key \cup Order,
     hash : (Order \cup {NoOrder}) \X Nat \X (Worker \cup {NoWorker}),
     id : Order, copy : Row]

Phase == {"idle", "lookup", "load", "write", "select", "get"}

\* A request that is being served, with the order it has loaded or got.
ThreadState == [phase : Phase, req : Request, id : Order \cup {NoOrder}, copy : Row]
Idle == [phase |-> "idle", req |-> NoRequest, id |-> NoOrder, copy |-> NoRow]

Code == {"NONE", "OK", "CURRENT", "REFUSED", "VERSION_CONFLICT", "IDEMPOTENCY_CONFLICT"}
AnswerState == [code : Code, req : Request, id : Order \cup {NoOrder}, copy : Row]
NoAnswer == [code |-> "NONE", req |-> NoRequest, id |-> NoOrder, copy |-> NoRow]

TypeOK ==
    /\ order \in [Order -> Row]
    /\ timeline \in [Order -> Seq(Entry)]
    /\ review \subseteq [order : Order, by : Actor]
    /\ idem \subseteq IdempotencyRecord
    /\ thread \in [Thread -> ThreadState]
    /\ answer \in AnswerState

Init ==
    /\ order = [o \in Order |-> NoRow]
    /\ timeline = [o \in Order |-> <<>>]
    /\ review = {}
    /\ idem = {}
    /\ thread = [t \in Thread |-> Idle]
    /\ answer = NoAnswer

-----------------------------------------------------------------------------
At(t, phase) == thread[t].phase = phase
Become(t, state) == thread' = [thread EXCEPT ![t] = state] /\ answer' = NoAnswer
Goto(t, phase) == Become(t, [thread[t] EXCEPT !.phase = phase])

\* The request is answered with a work order, ...
Reply(t, code, id, copy) ==
    /\ thread' = [thread EXCEPT ![t] = Idle]
    /\ answer' = [code |-> code, req |-> thread[t].req, id |-> id, copy |-> copy]

\* ... or refused.
Refuse(t, code) ==
    /\ thread' = [thread EXCEPT ![t] = Idle]
    /\ answer' = [NoAnswer EXCEPT !.code = code, !.req.agent = thread[t].req.agent]

\* Success: after a create of the agent the order is assigned.
Succeed(t, id, copy) ==
    IF thread[t].req.op = "CREATE" /\ thread[t].req.agent
    THEN Become(t, [thread[t] EXCEPT !.phase = "select", !.id = id, !.copy = copy])
    ELSE Reply(t, "OK", id, copy)

\* Another version than the expected one; the automatic assignment then
\* answers with the order as it is.
VersionConflict(t) ==
    IF thread[t].req.agent THEN Goto(t, "get") ELSE Refuse(t, "VERSION_CONFLICT")

Ask(t, q) ==
    /\ At(t, "idle")
    /\ Become(t, [Idle EXCEPT !.phase = "lookup", !.req = q])
    /\ UNCHANGED <<orderVars, idem>>

\* A client, or the agent, asks for a new order; ...
AskCreate(t, who, k, agent) ==
    Ask(t, [NoRequest EXCEPT !.actor = who, !.key = k, !.agent = agent])

\* ... for an action on an order in a version it has seen; ...
AskAction(t, who, k, o, action, version, p) ==
    /\ version <= order[o].version
    /\ who \in Takes(action)
    /\ action = "ASSIGN" <=> p # NoWorker
    /\ Ask(t, [op |-> action, actor |-> who, key |-> k, order |-> o,
               version |-> version, assignee |-> p, agent |-> FALSE])

\* ... or to review one.
AskReview(t, who, k, o) ==
    /\ order[o] # NoRow
    /\ Ask(t, [NoRequest EXCEPT !.op = "CREATE_REVIEW", !.actor = who, !.key = k,
                                !.order = o])

\* Mutant: keys are not kept apart by operation and actor.
RecordsOfKey(q) == {r \in idem : r.key = q.key}

\* The records under the key of a request: one at most.
Records(q) == {r \in idem : r.op = q.op /\ r.actor = q.actor /\ r.key = q.key}

\* _idempotent_replay
Lookup(t) ==
    LET q == thread[t].req IN
    /\ At(t, "lookup")
    /\ \/ Records(q) = {} /\ Goto(t, "load")
       \/ \E r \in Records(q) :
             \/ r.hash = Hash(q) /\ Succeed(t, r.id, r.copy)
             \/ r.hash # Hash(q) /\ Refuse(t, "IDEMPOTENCY_CONFLICT")
    /\ UNCHANGED <<orderVars, idem>>

\* create: the checks before anything is written.
CheckCreate(t) ==
    LET q == thread[t].req IN
    /\ At(t, "load") /\ q.op = "CREATE"
    /\ IF MayCreate(q.actor) THEN Goto(t, "write") ELSE Refuse(t, "REFUSED")
    /\ UNCHANGED <<orderVars, idem>>

\* execute_action: the order is loaded, and everything checked on this copy.
Applies(q, w) == May(q.actor, q.op, w) /\ \E m \in Moves : m[1] = w.status /\ m[2] = q.op

Load(t) ==
    LET q == thread[t].req
        w == order[q.order] IN
    /\ At(t, "load") /\ q.op \in ActionCode
    /\ \/ /\ Sees(q.actor, w) /\ w.version = q.version /\ Applies(q, w)
          /\ Become(t, [thread[t] EXCEPT !.phase = "write", !.copy = w])
       \/ /\ Sees(q.actor, w) /\ w.version # q.version
          /\ VersionConflict(t)
       \/ /\ Sees(q.actor, w) => w.version = q.version /\ ~Applies(q, w)
          /\ Refuse(t, "REFUSED")
    /\ UNCHANGED <<orderVars, idem>>

Reviewed(o) == \E r \in review : r.order = o

\* create_review: the same, without a version.
CheckReview(t) ==
    LET q == thread[t].req
        w == order[q.order] IN
    /\ At(t, "load") /\ q.op = "CREATE_REVIEW"
    /\ IF Sees(q.actor, w) /\ w.status = "CLOSED" /\ q.actor \in Tenant /\ ~Reviewed(q.order)
       THEN Become(t, [thread[t] EXCEPT !.phase = "write", !.copy = w])
       ELSE Refuse(t, "REFUSED")
    /\ UNCHANGED <<orderVars, idem>>

-----------------------------------------------------------------------------
(* The write, from the idempotency record to commit: what a concurrent     *)
(* transaction has not committed makes this one wait.                      *)

\* idempotency.add overwrites a record that has appeared since the lookup.
Record(q, id, copy) ==
    idem' = (idem \ Records(q)) \cup
            {[op |-> q.op, actor |-> q.actor, key |-> q.key, hash |-> Hash(q),
              id |-> id, copy |-> copy]}

\* Mutant: work_orders has no unique constraint on reporter and key.
WriteDuplicate(t) ==
    LET q == thread[t].req
        new == NewRow(<<q.actor, q.key>>) IN
    /\ At(t, "write") /\ q.op = "CREATE"
    /\ \E o \in Order :
          /\ order[o] = NoRow
          /\ order' = [order EXCEPT ![o] = new]
          /\ timeline' = [timeline EXCEPT ![o] = <<Written(q.actor, "CREATE", NoRow, new)>>]
          /\ Record(q, o, new)
          /\ Succeed(t, o, new)
    /\ UNCHANGED review

\* A new order, under the unique constraint on reporter and key.
WriteCreate(t) ==
    LET q == thread[t].req
        new == NewRow(<<q.actor, q.key>>) IN
    /\ At(t, "write") /\ q.op = "CREATE"
    /\ \A o \in Order : order[o].origin # new.origin
    /\ \E o \in Order :
          /\ order[o] = NoRow
          /\ order' = [order EXCEPT ![o] = new]
          /\ timeline' = [timeline EXCEPT ![o] = <<Written(q.actor, "CREATE", NoRow, new)>>]
          /\ Record(q, o, new)
          /\ Succeed(t, o, new)
    /\ UNCHANGED review

\* Mutant: save does not compare the version.
SaveAnyway(t) ==
    LET q == thread[t].req
        w == thread[t].copy IN
    /\ At(t, "write") /\ q.op \in ActionCode
    /\ \E m \in Moves :
          LET moved == Moved(w, m, q.assignee) IN
          /\ m[1] = w.status /\ m[2] = q.op
          /\ order' = [order EXCEPT ![q.order] = moved]
          /\ timeline' = [timeline EXCEPT ![q.order] =
                             Append(@, Written(q.actor, q.op, w, moved))]
          /\ Record(q, q.order, moved)
          /\ Succeed(t, q.order, moved)
    /\ UNCHANGED review

\* The copy moves, and save writes it over the row of the version it was
\* loaded from.
Save(t) ==
    LET q == thread[t].req
        w == thread[t].copy IN
    /\ At(t, "write") /\ q.op \in ActionCode
    /\ order[q.order].version = w.version
    /\ \E m \in Moves :
          LET moved == Moved(w, m, q.assignee) IN
          /\ m[1] = w.status /\ m[2] = q.op
          /\ order' = [order EXCEPT ![q.order] = moved]
          /\ timeline' = [timeline EXCEPT ![q.order] =
                             Append(@, Written(q.actor, q.op, w, moved))]
          /\ Record(q, q.order, moved)
          /\ Succeed(t, q.order, moved)
    /\ UNCHANGED review

\* The version has moved on since Load.
SaveConflict(t) ==
    LET q == thread[t].req IN
    /\ At(t, "write") /\ q.op \in ActionCode
    /\ order[q.order].version # thread[t].copy.version
    /\ VersionConflict(t)
    /\ UNCHANGED <<orderVars, idem>>

\* The review, under the unique constraint on its work order.
WriteReview(t) ==
    LET q == thread[t].req IN
    /\ At(t, "write") /\ q.op = "CREATE_REVIEW"
    /\ ~Reviewed(q.order)
    /\ review' = review \cup {[order |-> q.order, by |-> q.actor]}
    /\ Record(q, q.order, thread[t].copy)
    /\ Succeed(t, q.order, thread[t].copy)
    /\ UNCHANGED <<order, timeline>>

\* The database, a port or a unique constraint refuses, or the process dies:
\* the transaction is rolled back.
Fail(t) ==
    /\ ~At(t, "idle")
    /\ Become(t, Idle)
    /\ UNCHANGED <<orderVars, idem>>

-----------------------------------------------------------------------------
(* AutoAssignmentService.assign, after a create of the agent.              *)

\* Assigned orders of a worker that are still open.
Workload(p) ==
    Cardinality({o \in Order : /\ order[o].assignee = p
                               /\ order[o].status \in {"PENDING_ACCEPTANCE", "PROCESSING",
                                                       "REWORKING"}})

\* _select_candidate, and the request that assigns the worker; no worker may be
\* in charge of the building.
Select(t) ==
    /\ At(t, "select")
    /\ \/ Reply(t, "OK", thread[t].id, thread[t].copy)
       \/ \E p \in Worker :
             /\ \A other \in Worker : Workload(p) <= Workload(other)
             /\ Become(t, [Idle EXCEPT
                   !.phase = "lookup",
                   !.req = [op |-> "ASSIGN", actor |-> System, key |-> thread[t].id,
                            order |-> thread[t].id, version |-> thread[t].copy.version,
                            assignee |-> p, agent |-> TRUE]])
    /\ UNCHANGED <<orderVars, idem>>

\* After VERSION_CONFLICT: get.
Get(t) ==
    /\ At(t, "get")
    /\ Reply(t, "CURRENT", thread[t].req.order, order[thread[t].req.order])
    /\ UNCHANGED <<orderVars, idem>>

Next ==
    \E t \in Thread :
        \/ \E who \in Actor \ {System}, k \in Key :
              \/ \E agent \in BOOLEAN : AskCreate(t, who, k, agent)
              \/ \E o \in Order, version \in 1..(MaxVersion - 1), action \in ActionCode,
                    p \in Worker \cup {NoWorker} :
                       AskAction(t, who, k, o, action, version, p)
              \/ \E o \in Order : AskReview(t, who, k, o)
        \/ Lookup(t) \/ CheckCreate(t) \/ Load(t) \/ CheckReview(t)
        \/ WriteCreate(t) \/ Save(t) \/ SaveConflict(t) \/ WriteReview(t)
        \/ Fail(t) \/ Select(t) \/ Get(t)

Spec == Init /\ [][Next]_vars

-----------------------------------------------------------------------------
(* What holds however transactions interleave, fail and are sent again.    *)

\* The timeline tells what happened: one entry per version, each from where the
\* one before it left the order, the last one up to where the order is now.
TimelineIsTheHistory ==
    \A o \in Order :
        LET line == timeline[o] IN
        /\ Len(line) = order[o].version
        /\ \A i \in 2..Len(line) :
              <<line[i].from, line[i].action, line[i].to>> \in Moves /\ line[i].from = line[i-1].to
        /\ line # <<>> => /\ line[Len(line)].to = order[o].status
                          /\ line[Len(line)].assignee = order[o].assignee

\* However often a create is sent, one work order comes of it.
OneOrderPerRequest ==
    \A o1, o2 \in Order :
        order[o1] # NoRow /\ order[o1].origin = order[o2].origin => o1 = o2

\* A success is answered, at once or from the idempotency record, only to who
\* really did what is answered.
AnswersAreTrue ==
    answer.code = "OK" =>
        IF answer.req.op = "CREATE_REVIEW"
        THEN [order |-> answer.id, by |-> answer.req.actor] \in review
        ELSE LET e == timeline[answer.id][answer.copy.version] IN
             e.action = answer.req.op /\ e.actor = answer.req.actor /\ e.to = answer.copy.status

\* The service implements the work order: what is committed is a move that was
\* allowed of the order as it was, although it was checked on a copy.
WO == INSTANCE WorkOrder
ImplementsWorkOrder == WO!Spec

=============================================================================
