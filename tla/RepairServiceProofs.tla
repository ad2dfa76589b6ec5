------------------------- MODULE RepairServiceProofs -------------------------
(***************************************************************************)
(* The repair service implements the work order, for any number of         *)
(* threads, orders, users and keys.                                        *)
(*                                                                         *)
(* The argument: a transaction checks its request on a copy of the row and *)
(* writes the moved copy, guarded only by the version.  Versions grow with *)
(* every change of the row (MOVES), so a copy of the current version is    *)
(* the current row (Current below), and what was checked on it holds of    *)
(* the row when save succeeds.  A review has no version to compare; it     *)
(* relies on CLOSED being final.                                           *)
(***************************************************************************)
EXTENDS RepairService, SequenceTheorems, TLAPS

LEMMA MovesTyped ==
    \A m \in Moves : m[1] \in Status /\ m[2] \in ActionCode /\ m[3] \in Status
  BY DEF Moves, TRANSITIONS, Touches, Status, ActionCode, WorkerAction

\* Nothing leaves CLOSED.
LEMMA ClosedHasNoMoves == \A m \in Moves : m[1] # "CLOSED" /\ m[1] # "NONE"
  BY DEF Moves, TRANSITIONS, Touches

LEMMA RowsTyped ==
    /\ NoRow \in Row
    /\ \A origin \in Origin : NewRow(origin) \in Row
    /\ \A w \in Row, m \in Moves, p \in Worker \cup {NoWorker} : Moved(w, m, p) \in Row
<1>1. NoRow \in Row
  BY DEF NoRow, Row
<1>2. ASSUME NEW origin \in Origin PROVE NewRow(origin) \in Row
  BY <1>2 DEF NewRow, Row, Status
<1>3. ASSUME NEW w \in Row, NEW m \in Moves, NEW p \in Worker \cup {NoWorker}
      PROVE  Moved(w, m, p) \in Row
  <2>1. m[3] \in Status \cup {"NONE"} /\ w.version + 1 \in Nat
    BY <1>3, MovesTyped DEF Row
  <2>2. w.assignee \in Worker \cup {NoWorker}
    BY <1>3 DEF Row
  <2> QED
    BY <1>3, <2>1, <2>2 DEF Row, Moved
<1> QED
  BY <1>1, <1>2, <1>3

LEMMA NoRequestTyped == NoRequest \in Request
  BY DomainAssumption, ServiceAssumption DEF NoRequest, Request, Op, Actor

LEMMA IdleTyped ==
    /\ Idle \in ThreadState
    /\ NoAnswer \in AnswerState
  BY NoRequestTyped, RowsTyped DEF Idle, NoAnswer, ThreadState, AnswerState, Phase, Code

-----------------------------------------------------------------------------
\* What a request that is being served looks like.
WellFormed(q) ==
    /\ q.op = "CREATE" => q.key \in Key
    /\ q.op # "CREATE" => q.order \in Order
    /\ q.op = "ASSIGN" => q.assignee \in Worker

\* What holds of a transaction that is about to write.
Checked(t) ==
    LET q == thread[t].req
        w == thread[t].copy IN
    /\ q.op = "CREATE" => MayCreate(q.actor)
    /\ q.op \in ActionCode =>
          /\ w.version <= order[q.order].version
          /\ w.version = order[q.order].version => w = order[q.order]
          /\ May(q.actor, q.op, w)
    /\ q.op = "CREATE_REVIEW" => q.actor \in Tenant /\ order[q.order].status = "CLOSED"

\* The inductive invariant.
Inv ==
    /\ TypeOK
    /\ \A t \in Thread : thread[t].phase # "idle" => WellFormed(thread[t].req)
    /\ \A t \in Thread : thread[t].phase = "select" => thread[t].id \in Order
    /\ \A t \in Thread : thread[t].phase = "get" => thread[t].req.order \in Order
    /\ \A t \in Thread : thread[t].phase = "write" => Checked(t)

LEMMA InvInit == Init => Inv
  BY IdleTyped, RowsTyped
  DEF Init, Inv, TypeOK, Idle, ThreadState, AnswerState

-----------------------------------------------------------------------------
\* A step of thread t that leaves it in one of some phases.
Serves(t, phases) ==
    /\ thread' \in [Thread -> ThreadState]
    /\ answer' \in AnswerState
    /\ \A u \in Thread : u # t => thread'[u] = thread[u]
    /\ thread'[t].phase \in phases
    /\ thread'[t].phase # "idle" => thread'[t].req = thread[t].req

LEMMA BecomeServes ==
  ASSUME TypeOK, NEW t \in Thread, NEW s \in ThreadState, Become(t, s)
  PROVE  /\ thread' \in [Thread -> ThreadState]
         /\ answer' \in AnswerState
         /\ \A u \in Thread : u # t => thread'[u] = thread[u]
         /\ thread'[t] = s
  BY IdleTyped DEF Become, TypeOK

LEMMA GotoServes ==
  ASSUME TypeOK, NEW t \in Thread, NEW phase \in Phase, Goto(t, phase)
  PROVE  Serves(t, {phase})
<1>1. [thread[t] EXCEPT !.phase = phase] \in ThreadState
  BY DEF TypeOK, ThreadState
<1> QED
  BY <1>1, BecomeServes DEF Goto, Serves, ThreadState, TypeOK

LEMMA ReplyServes ==
  ASSUME TypeOK, NEW t \in Thread, NEW code \in Code, NEW id \in Order \cup {NoOrder},
         NEW copy \in Row, Reply(t, code, id, copy)
  PROVE  Serves(t, {"idle"})
  BY IdleTyped DEF Reply, Serves, TypeOK, ThreadState, AnswerState, Idle

LEMMA RefuseServes ==
  ASSUME TypeOK, NEW t \in Thread, NEW code \in Code, Refuse(t, code)
  PROVE  Serves(t, {"idle"})
<1>1. [NoAnswer EXCEPT !.code = code, !.req.agent = thread[t].req.agent] \in AnswerState
  BY IdleTyped, NoRequestTyped DEF TypeOK, AnswerState, ThreadState, Request, NoAnswer
<1> QED
  BY <1>1, IdleTyped DEF Refuse, Serves, TypeOK, Idle

LEMMA SucceedServes ==
  ASSUME TypeOK, NEW t \in Thread, NEW id \in Order, NEW copy \in Row, Succeed(t, id, copy)
  PROVE  /\ Serves(t, {"idle", "select"})
         /\ thread'[t].phase = "select" => thread'[t].id = id
<1>1. CASE thread[t].req.op = "CREATE" /\ thread[t].req.agent
  <2> DEFINE s == [thread[t] EXCEPT !.phase = "select", !.id = id, !.copy = copy]
  <2>1. /\ s \in ThreadState
        /\ s.phase = "select" /\ s.id = id /\ s.req = thread[t].req
    BY DEF TypeOK, ThreadState, Phase
  <2>2. Become(t, s)
    BY <1>1 DEF Succeed
  <2> HIDE DEF s
  <2> QED
    BY <2>1, <2>2, BecomeServes DEF Serves
<1>2. CASE ~(thread[t].req.op = "CREATE" /\ thread[t].req.agent)
  BY <1>2, ReplyServes DEF Succeed, Serves, Code
<1> QED
  BY <1>1, <1>2

LEMMA VersionConflictServes ==
  ASSUME TypeOK, NEW t \in Thread, VersionConflict(t)
  PROVE  Serves(t, {"idle", "get"})
  BY GotoServes, RefuseServes DEF VersionConflict, Serves, Phase, Code

-----------------------------------------------------------------------------
\* A step that writes nothing, and does not prepare to.
LEMMA QuietStep ==
  ASSUME Inv, NEW t \in Thread, UNCHANGED <<order, timeline, review>>,
         idem' \subseteq IdempotencyRecord,
         Serves(t, Phase \ {"write"}),
         thread'[t].phase # "idle" => thread[t].phase # "idle",
         thread'[t].phase = "select" => thread'[t].id \in Order,
         thread'[t].phase = "get" => thread[t].req.order \in Order
  PROVE  Inv'
<1>1. TypeOK'
  BY DEF Inv, TypeOK, Serves
<1>2. ASSUME NEW u \in Thread, thread'[u].phase # "idle"
      PROVE  WellFormed(thread'[u].req)
  BY <1>2 DEF Inv, Serves
<1>3. ASSUME NEW u \in Thread
      PROVE  /\ thread'[u].phase = "select" => thread'[u].id \in Order
             /\ thread'[u].phase = "get" => thread'[u].req.order \in Order
  BY DEF Inv, Serves
<1>4. ASSUME NEW u \in Thread, thread'[u].phase = "write"
      PROVE  Checked(u)'
  <2>1. u # t /\ thread'[u] = thread[u]
    BY <1>4 DEF Serves
  <2>2. Checked(u)
    BY <1>4, <2>1 DEF Inv
  <2> QED
    BY <2>1, <2>2 DEF Checked
<1> QED
  BY <1>1, <1>2, <1>3, <1>4 DEF Inv, WellFormed

\* A step that takes a new request.
LEMMA AskStep ==
  ASSUME Inv, NEW t \in Thread, NEW q \in Request, WellFormed(q),
         UNCHANGED <<order, timeline, review, idem>>,
         Become(t, [Idle EXCEPT !.phase = "lookup", !.req = q])
  PROVE  Inv'
<1> DEFINE s == [Idle EXCEPT !.phase = "lookup", !.req = q]
<1>1. s \in ThreadState /\ s.phase = "lookup" /\ s.req = q
  BY IdleTyped DEF ThreadState, Phase, Idle
<1>2. Become(t, s)
  OBVIOUS
<1> HIDE DEF s
<1>3. /\ thread' \in [Thread -> ThreadState]
      /\ answer' \in AnswerState
      /\ \A u \in Thread : u # t => thread'[u] = thread[u]
      /\ thread'[t] = s
  BY <1>1, <1>2, BecomeServes DEF Inv
<1>4. TypeOK'
  BY <1>3 DEF Inv, TypeOK
<1>5. ASSUME NEW u \in Thread
      PROVE  /\ thread'[u].phase # "idle" => WellFormed(thread'[u].req)
             /\ thread'[u].phase = "select" => thread'[u].id \in Order
             /\ thread'[u].phase = "get" => thread'[u].req.order \in Order
             /\ thread'[u].phase = "write" => Checked(u)'
  <2>1. CASE u = t
    BY <2>1, <1>1, <1>3
  <2>2. CASE u # t
    BY <2>2, <1>3 DEF Inv, Checked
  <2> QED
    BY <2>1, <2>2
<1> QED
  BY <1>4, <1>5 DEF Inv, WellFormed

\* A step that prepares to write: what the thread has checked holds of its copy.
LEMMA PrepareStep ==
  ASSUME Inv, NEW t \in Thread, UNCHANGED <<order, timeline, review, idem>>,
         thread[t].phase # "idle",
         Serves(t, {"write"}), Checked(t)'
  PROVE  Inv'
<1>1. TypeOK'
  BY DEF Inv, TypeOK, Serves
<1>2. ASSUME NEW u \in Thread
      PROVE  /\ thread'[u].phase # "idle" => WellFormed(thread'[u].req)
             /\ thread'[u].phase = "select" => thread'[u].id \in Order
             /\ thread'[u].phase = "get" => thread'[u].req.order \in Order
             /\ thread'[u].phase = "write" => Checked(u)'
  <2>1. CASE u = t
    BY <2>1 DEF Inv, Serves
  <2>2. CASE u # t
    BY <2>2 DEF Inv, Serves, Checked
  <2> QED
    BY <2>1, <2>2
<1> QED
  BY <1>1, <1>2 DEF Inv, WellFormed

-----------------------------------------------------------------------------
\* A step that writes row o: its version grows and it was not closed, so what
\* the others have checked still holds.
LEMMA WriteStep ==
  ASSUME Inv, NEW t \in Thread, NEW o \in Order, NEW new \in Row,
         order' = [order EXCEPT ![o] = new],
         new.version = order[o].version + 1, order[o].status # "CLOSED",
         timeline' \in [Order -> Seq(Entry)], review' = review,
         idem' \subseteq IdempotencyRecord,
         thread[t].phase # "idle",
         Serves(t, {"idle", "select"}),
         thread'[t].phase = "select" => thread'[t].id = o
  PROVE  Inv'
<1>1. TypeOK'
  BY DEF Inv, TypeOK, Serves
<1>2. ASSUME NEW u \in Thread, thread'[u].phase = "write"
      PROVE  Checked(u)'
  <2>1. u # t /\ thread'[u] = thread[u]
    BY <1>2 DEF Serves
  <2>2. Checked(u) /\ WellFormed(thread[u].req)
    BY <1>2, <2>1 DEF Inv
  <2>3. thread[u].copy.version \in Nat /\ order[o].version \in Nat
    BY DEF Inv, TypeOK, ThreadState, Row
  <2>4. order'[o] = new /\ \A p \in Order : p # o => order'[p] = order[p]
    BY DEF Inv, TypeOK
  <2>5. thread[u].req.op \in ActionCode \cup {"CREATE_REVIEW"} => thread[u].req.order \in Order
    BY <2>2 DEF WellFormed, ActionCode, WorkerAction
  <2>6. thread[u].req.op \in ActionCode /\ thread[u].req.order = o
           => thread[u].copy.version < order'[o].version
    BY <2>2, <2>3, <2>4 DEF Checked
  <2> QED
    BY <2>1, <2>2, <2>3, <2>4, <2>5, <2>6 DEF Checked
<1>3. ASSUME NEW u \in Thread
      PROVE  /\ thread'[u].phase # "idle" => WellFormed(thread'[u].req)
             /\ thread'[u].phase = "select" => thread'[u].id \in Order
             /\ thread'[u].phase = "get" => thread'[u].req.order \in Order
  <2>1. CASE u = t
    BY <2>1 DEF Inv, Serves
  <2>2. CASE u # t
    BY <2>2 DEF Inv, Serves
  <2> QED
    BY <2>1, <2>2
<1> QED
  BY <1>1, <1>2, <1>3 DEF Inv, WellFormed

-----------------------------------------------------------------------------
LEMMA RequestTyped ==
  ASSUME Inv, NEW t \in Thread
  PROVE  /\ thread[t] \in ThreadState /\ thread[t].req \in Request
         /\ thread[t].id \in Order \cup {NoOrder} /\ thread[t].copy \in Row
         /\ thread[t].phase # "idle" => WellFormed(thread[t].req)
  BY DEF Inv, TypeOK, ThreadState

\* The requests of clients are well formed.
LEMMA AskInv ==
  ASSUME Inv, NEW t \in Thread, NEW who \in Actor \ {System}, NEW k \in Key,
         \/ \E agent \in BOOLEAN : AskCreate(t, who, k, agent)
         \/ \E o \in Order, version \in 1..(MaxVersion - 1), action \in ActionCode,
              p \in Worker \cup {NoWorker} :
                 AskAction(t, who, k, o, action, version, p)
         \/ \E o \in Order : AskReview(t, who, k, o)
  PROVE  Inv'
<1>1. ASSUME NEW agent \in BOOLEAN, AskCreate(t, who, k, agent) PROVE Inv'
  <2> DEFINE q == [NoRequest EXCEPT !.actor = who, !.key = k, !.agent = agent]
  <2>1. q \in Request /\ q.op = "CREATE" /\ q.key \in Key
    BY NoRequestTyped DEF Request, NoRequest
  <2>2. Ask(t, q)
    BY <1>1 DEF AskCreate
  <2> HIDE DEF q
  <2> QED
    BY <2>1, <2>2, AskStep DEF Ask, WellFormed, orderVars
<1>2. ASSUME NEW o \in Order,
             NEW version \in 1..(MaxVersion - 1), NEW action \in ActionCode,
             NEW p \in Worker \cup {NoWorker}, AskAction(t, who, k, o, action, version, p)
      PROVE  Inv'
  <2> DEFINE q == [op |-> action, actor |-> who, key |-> k, order |-> o,
                   version |-> version, assignee |-> p, agent |-> FALSE]
  <2>1. q \in Request
    BY ServiceAssumption DEF Request, Op
  <2>2. q.op \in ActionCode /\ q.order \in Order /\ (q.op = "ASSIGN" => q.assignee \in Worker)
    BY <1>2 DEF AskAction
  <2>3. Ask(t, q)
    BY <1>2 DEF AskAction
  <2> HIDE DEF q
  <2>4. WellFormed(q)
    BY <2>2 DEF WellFormed, ActionCode, WorkerAction
  <2> QED
    BY <2>1, <2>3, <2>4, AskStep DEF Ask, orderVars
<1>3. ASSUME NEW o \in Order, AskReview(t, who, k, o) PROVE Inv'
  <2> DEFINE q == [NoRequest EXCEPT !.op = "CREATE_REVIEW", !.actor = who, !.key = k,
                                    !.order = o]
  <2>1. q \in Request /\ q.op = "CREATE_REVIEW" /\ q.order \in Order
    BY NoRequestTyped DEF Request, NoRequest, Op
  <2>2. Ask(t, q)
    BY <1>3 DEF AskReview
  <2> HIDE DEF q
  <2> QED
    BY <2>1, <2>2, AskStep DEF Ask, WellFormed, orderVars
<1> QED
  BY <1>1, <1>2, <1>3

\* Looking up, refusing and answering write nothing.
LEMMA LookupInv == ASSUME Inv, NEW t \in Thread, Lookup(t) PROVE Inv'
<1>1. Serves(t, Phase \ {"write", "get"})
  <2>1. CASE Goto(t, "load")
    BY <2>1, GotoServes DEF Serves, Phase, Inv
  <2>2. ASSUME NEW r \in Records(thread[t].req), Succeed(t, r.id, r.copy)
        PROVE  Serves(t, Phase \ {"write", "get"})
    <3>1. r.id \in Order /\ r.copy \in Row
      BY DEF Records, Inv, TypeOK, IdempotencyRecord
    <3> QED
      BY <2>2, <3>1, SucceedServes DEF Serves, Phase, Inv
  <2>3. CASE Refuse(t, "IDEMPOTENCY_CONFLICT")
    BY <2>3, RefuseServes DEF Serves, Phase, Inv, Code
  <2> QED
    BY <2>1, <2>2, <2>3 DEF Lookup
<1>2. thread'[t].phase = "select" => thread'[t].id \in Order
  <2>1. CASE Goto(t, "load")
    BY <2>1, GotoServes DEF Serves, Phase, Inv
  <2>2. ASSUME NEW r \in Records(thread[t].req), Succeed(t, r.id, r.copy)
        PROVE  thread'[t].phase = "select" => thread'[t].id \in Order
    <3>1. r.id \in Order /\ r.copy \in Row
      BY DEF Records, Inv, TypeOK, IdempotencyRecord
    <3> QED
      BY <2>2, <3>1, SucceedServes DEF Inv
  <2>3. CASE Refuse(t, "IDEMPOTENCY_CONFLICT")
    BY <2>3, RefuseServes DEF Serves, Inv, Code
  <2> QED
    BY <2>1, <2>2, <2>3 DEF Lookup
<1>3. thread[t].phase # "idle" /\ UNCHANGED <<order, timeline, review, idem>>
  BY DEF Lookup, At, orderVars
<1> QED
  BY <1>1, <1>2, <1>3, QuietStep DEF Inv, TypeOK, Serves

LEMMA CheckCreateInv == ASSUME Inv, NEW t \in Thread, CheckCreate(t) PROVE Inv'
<1>1. thread[t].phase # "idle" /\ UNCHANGED <<order, timeline, review, idem>>
  BY DEF CheckCreate, At, orderVars
<1>2. CASE Goto(t, "write") /\ MayCreate(thread[t].req.actor)
  <2>1. Serves(t, {"write"})
    BY <1>2, GotoServes DEF Phase, Inv
  <2>2. thread'[t].req = thread[t].req /\ thread[t].req.op = "CREATE"
    BY <2>1 DEF Serves, CheckCreate
  <2>3. Checked(t)'
    BY <1>2, <2>2 DEF Checked, ActionCode, WorkerAction, MayCreate
  <2> QED
    BY <1>1, <2>1, <2>3, PrepareStep
<1>3. CASE Refuse(t, "REFUSED")
  BY <1>1, <1>3, RefuseServes, QuietStep DEF Serves, Phase, Code, Inv, TypeOK
<1> QED
  BY <1>2, <1>3 DEF CheckCreate

LEMMA LoadInv == ASSUME Inv, NEW t \in Thread, Load(t) PROVE Inv'
<1> DEFINE q == thread[t].req
           w == order[q.order]
<1>1. thread[t].phase # "idle" /\ UNCHANGED <<order, timeline, review, idem>>
  BY DEF Load, At, orderVars
<1>2. q.op \in ActionCode /\ q.order \in Order /\ w \in Row
  BY <1>1, RequestTyped DEF Load, WellFormed, ActionCode, WorkerAction, Inv, TypeOK
<1>3. CASE /\ Sees(q.actor, w) /\ w.version = q.version /\ Applies(q, w)
           /\ Become(t, [thread[t] EXCEPT !.phase = "write", !.copy = w])
  <2> DEFINE s == [thread[t] EXCEPT !.phase = "write", !.copy = w]
  <2>1. s \in ThreadState /\ s.phase = "write" /\ s.copy = w /\ s.req = q
    BY <1>2, RequestTyped DEF ThreadState, Phase
  <2>2. thread' \in [Thread -> ThreadState] /\ answer' \in AnswerState
        /\ (\A u \in Thread : u # t => thread'[u] = thread[u]) /\ thread'[t] = s
    BY <1>3, <2>1, BecomeServes DEF Inv
  <2> HIDE DEF s
  <2>3. Serves(t, {"write"})
    BY <2>1, <2>2 DEF Serves
  <2>4. w.version \in Nat /\ May(q.actor, q.op, w)
    BY <1>2, <1>3 DEF Row, Applies
  <2>5. q.op # "CREATE" /\ q.op # "CREATE_REVIEW"
    BY <1>2 DEF ActionCode, WorkerAction
  <2>6. Checked(t)'
    BY <1>1, <2>1, <2>2, <2>4, <2>5 DEF Checked, May
  <2> QED
    BY <1>1, <2>3, <2>6, PrepareStep
<1>4. CASE VersionConflict(t)
  BY <1>1, <1>2, <1>4, VersionConflictServes, QuietStep DEF Serves, Phase, Inv, TypeOK
<1>5. CASE Refuse(t, "REFUSED")
  BY <1>1, <1>5, RefuseServes, QuietStep DEF Serves, Phase, Code, Inv, TypeOK
<1> QED
  BY <1>3, <1>4, <1>5 DEF Load

LEMMA CheckReviewInv == ASSUME Inv, NEW t \in Thread, CheckReview(t) PROVE Inv'
<1> DEFINE q == thread[t].req
           w == order[q.order]
<1>1. thread[t].phase # "idle" /\ UNCHANGED <<order, timeline, review, idem>>
  BY DEF CheckReview, At, orderVars
<1>2. q.op = "CREATE_REVIEW" /\ q.order \in Order /\ w \in Row
  BY <1>1, RequestTyped DEF CheckReview, WellFormed, Inv, TypeOK
<1>3. CASE /\ w.status = "CLOSED" /\ q.actor \in Tenant
           /\ Become(t, [thread[t] EXCEPT !.phase = "write", !.copy = w])
  <2> DEFINE s == [thread[t] EXCEPT !.phase = "write", !.copy = w]
  <2>1. s \in ThreadState /\ s.phase = "write" /\ s.copy = w /\ s.req = q
    BY <1>2, RequestTyped DEF ThreadState, Phase
  <2>2. thread' \in [Thread -> ThreadState] /\ answer' \in AnswerState
        /\ (\A u \in Thread : u # t => thread'[u] = thread[u]) /\ thread'[t] = s
    BY <1>3, <2>1, BecomeServes DEF Inv
  <2> HIDE DEF s
  <2>3. Serves(t, {"write"})
    BY <2>1, <2>2 DEF Serves
  <2>4. Checked(t)'
    BY <1>1, <1>2, <1>3, <2>1, <2>2 DEF Checked, ActionCode, WorkerAction
  <2> QED
    BY <1>1, <2>3, <2>4, PrepareStep
<1>4. CASE Refuse(t, "REFUSED")
  BY <1>1, <1>4, RefuseServes, QuietStep DEF Serves, Phase, Code, Inv, TypeOK
<1> QED
  BY <1>3, <1>4 DEF CheckReview

-----------------------------------------------------------------------------
(* The writes.  What each does to the work order is stated first: the      *)
(* invariant and the refinement both follow from it.                       *)

LEMMA WrittenTyped ==
  ASSUME NEW who \in Actor, NEW action \in ActionCode \cup {"CREATE"},
         NEW w \in Row, NEW moved \in Row, moved.status \in Status
  PROVE  Written(who, action, w, moved) \in Entry
  BY DEF Written, Entry, Row, Status

LEMMA RecordTyped ==
  ASSUME Inv, NEW q \in Request, NEW id \in Order, NEW copy \in Row, Record(q, id, copy)
  PROVE  idem' \subseteq IdempotencyRecord
<1> DEFINE r == [op |-> q.op, actor |-> q.actor, key |-> q.key, hash |-> Hash(q),
                 id |-> id, copy |-> copy]
<1>1. Hash(q) \in (Order \cup {NoOrder}) \X Nat \X (Worker \cup {NoWorker})
  BY DEF Hash, Request
<1>2. r \in IdempotencyRecord
  BY <1>1 DEF IdempotencyRecord, Request
<1>3. idem' = (idem \ Records(q)) \cup {r}
  BY DEF Record
<1> HIDE DEF r
<1> QED
  BY <1>2, <1>3 DEF Inv, TypeOK

\* The row that save replaces is the copy that was checked.
LEMMA SaveWrites ==
  ASSUME Inv, NEW t \in Thread, Save(t)
  PROVE  LET q == thread[t].req
             o == thread[t].req.order IN
         /\ o \in Order /\ q.actor \in Actor /\ q.assignee \in Worker \cup {NoWorker}
         /\ q.op = "ASSIGN" => q.assignee \in Worker
         /\ May(q.actor, q.op, order[o])
         /\ \E m \in Moves :
               /\ m[1] = order[o].status /\ m[2] = q.op
               /\ order' = [order EXCEPT ![o] = Moved(order[o], m, q.assignee)]
               /\ timeline' = [timeline EXCEPT ![o] = Append(timeline[o],
                     Written(q.actor, q.op, order[o], Moved(order[o], m, q.assignee)))]
               /\ Record(q, o, Moved(order[o], m, q.assignee))
               /\ Succeed(t, o, Moved(order[o], m, q.assignee))
         /\ review' = review
<1> DEFINE q == thread[t].req
<1>1. /\ thread[t].phase = "write" /\ q.op \in ActionCode
      /\ order[q.order].version = thread[t].copy.version
  BY DEF Save, At
<1>2. WellFormed(q) /\ Checked(t) /\ q \in Request
  BY <1>1, RequestTyped DEF Inv
<1>3. q.op # "CREATE"
  BY <1>1 DEF ActionCode, WorkerAction
<1>4. thread[t].copy = order[q.order] /\ May(q.actor, q.op, order[q.order])
  BY <1>1, <1>2 DEF Checked
<1>5. q.order \in Order /\ q.actor \in Actor /\ q.assignee \in Worker \cup {NoWorker}
      /\ (q.op = "ASSIGN" => q.assignee \in Worker)
  BY <1>2, <1>3 DEF WellFormed, Request
<1> QED
  BY <1>4, <1>5 DEF Save

LEMMA SaveInv == ASSUME Inv, NEW t \in Thread, Save(t) PROVE Inv'
<1> DEFINE q == thread[t].req
           o == q.order
<1>1. PICK m \in Moves :
         /\ m[1] = order[o].status /\ m[2] = q.op
         /\ order' = [order EXCEPT ![o] = Moved(order[o], m, q.assignee)]
         /\ timeline' = [timeline EXCEPT ![o] = Append(timeline[o],
               Written(q.actor, q.op, order[o], Moved(order[o], m, q.assignee)))]
         /\ Record(q, o, Moved(order[o], m, q.assignee))
         /\ Succeed(t, o, Moved(order[o], m, q.assignee))
  BY SaveWrites
<1>2. /\ o \in Order /\ q.actor \in Actor /\ q.assignee \in Worker \cup {NoWorker}
      /\ review' = review /\ thread[t].phase # "idle" /\ q \in Request
      /\ q.op \in ActionCode /\ order[o] \in Row
  BY SaveWrites, RequestTyped DEF Save, At, Inv, TypeOK
<1> DEFINE new == Moved(order[o], m, q.assignee)
<1>3. new \in Row /\ new.version = order[o].version + 1 /\ new.status = m[3]
  BY ZenonT(60), <1>2, RowsTyped DEF Moved, Row
<1>4. order[o].status # "CLOSED" /\ m[3] \in Status
  BY <1>1, ClosedHasNoMoves, MovesTyped
<1> HIDE DEF new
<1>5. Written(q.actor, q.op, order[o], new) \in Entry
  BY <1>2, <1>3, <1>4, WrittenTyped
<1>6. timeline' \in [Order -> Seq(Entry)]
  BY <1>1, <1>2, <1>5 DEF Inv, TypeOK, new
<1>7. idem' \subseteq IdempotencyRecord
  BY <1>1, <1>2, <1>3, RecordTyped DEF new
<1>8. Serves(t, {"idle", "select"}) /\ (thread'[t].phase = "select" => thread'[t].id = o)
  BY <1>1, <1>2, <1>3, SucceedServes DEF new, Inv
<1>9. order' = [order EXCEPT ![o] = new]
  BY <1>1 DEF new
<1> QED
  BY <1>2, <1>3, <1>4, <1>6, <1>7, <1>8, <1>9, WriteStep

LEMMA WriteCreateInv == ASSUME Inv, NEW t \in Thread, WriteCreate(t) PROVE Inv'
<1> DEFINE q == thread[t].req
           new == NewRow(<<q.actor, q.key>>)
<1>1. PICK o \in Order :
         /\ order[o] = NoRow
         /\ order' = [order EXCEPT ![o] = new]
         /\ timeline' = [timeline EXCEPT ![o] = <<Written(q.actor, "CREATE", NoRow, new)>>]
         /\ Record(q, o, new)
         /\ Succeed(t, o, new)
  BY DEF WriteCreate
<1>2. /\ review' = review /\ thread[t].phase # "idle" /\ q \in Request /\ q.actor \in Actor
      /\ q.key \in Key
  BY RequestTyped DEF WriteCreate, At, WellFormed, Request
<1>3. <<q.actor, q.key>> \in Origin
  BY <1>2 DEF Origin
<1>4. /\ new \in Row /\ NoRow \in Row
      /\ new.status \in Status /\ new.version = order[o].version + 1
      /\ order[o].status # "CLOSED"
  BY <1>1, <1>3, RowsTyped DEF NewRow, NoRow, Status
<1> HIDE DEF new
<1>5. Written(q.actor, "CREATE", NoRow, new) \in Entry
  BY <1>2, <1>4, WrittenTyped
<1>6. timeline' \in [Order -> Seq(Entry)]
  BY <1>1, <1>5 DEF Inv, TypeOK
<1>7. idem' \subseteq IdempotencyRecord
  BY <1>1, <1>2, <1>4, RecordTyped
<1>8. Serves(t, {"idle", "select"}) /\ (thread'[t].phase = "select" => thread'[t].id = o)
  BY <1>1, <1>4, SucceedServes DEF Inv
<1> QED
  BY <1>1, <1>2, <1>4, <1>6, <1>7, <1>8, WriteStep

LEMMA WriteReviewInv == ASSUME Inv, NEW t \in Thread, WriteReview(t) PROVE Inv'
<1> DEFINE q == thread[t].req
<1>1. /\ thread[t].phase # "idle" /\ q \in Request /\ q.actor \in Actor /\ q.order \in Order
      /\ thread[t].copy \in Row
  BY RequestTyped DEF WriteReview, At, WellFormed, Request
<1>2. /\ review' = review \cup {[order |-> q.order, by |-> q.actor]}
      /\ Record(q, q.order, thread[t].copy)
      /\ Succeed(t, q.order, thread[t].copy)
      /\ UNCHANGED <<order, timeline>>
  BY DEF WriteReview
<1>3. idem' \subseteq IdempotencyRecord
  BY <1>1, <1>2, RecordTyped
<1>4. Serves(t, {"idle", "select"}) /\ (thread'[t].phase = "select" => thread'[t].id = q.order)
  BY <1>1, <1>2, SucceedServes DEF Inv
<1>5. TypeOK'
  BY <1>1, <1>2, <1>3, <1>4 DEF Inv, TypeOK, Serves
<1>6. ASSUME NEW u \in Thread
      PROVE  /\ thread'[u].phase # "idle" => WellFormed(thread'[u].req)
             /\ thread'[u].phase = "select" => thread'[u].id \in Order
             /\ thread'[u].phase = "get" => thread'[u].req.order \in Order
             /\ thread'[u].phase = "write" => Checked(u)'
  <2>1. CASE u = t
    BY <2>1, <1>1, <1>4 DEF Inv, Serves
  <2>2. CASE u # t
    BY <2>2, <1>2, <1>4 DEF Inv, Serves, Checked
  <2> QED
    BY <2>1, <2>2
<1> QED
  BY <1>5, <1>6 DEF Inv, WellFormed

-----------------------------------------------------------------------------
LEMMA SaveConflictInv == ASSUME Inv, NEW t \in Thread, SaveConflict(t) PROVE Inv'
<1>1. thread[t].phase # "idle" /\ UNCHANGED <<order, timeline, review, idem>>
  BY DEF SaveConflict, At, orderVars
<1>2. Serves(t, {"idle", "get"}) /\ thread[t].req.order \in Order
  BY <1>1, RequestTyped, VersionConflictServes
  DEF SaveConflict, Inv, WellFormed, ActionCode, WorkerAction
<1> QED
  BY <1>1, <1>2, QuietStep DEF Serves, Phase, Inv, TypeOK

LEMMA FailInv == ASSUME Inv, NEW t \in Thread, Fail(t) PROVE Inv'
<1>1. thread[t].phase # "idle" /\ UNCHANGED <<order, timeline, review, idem>>
  BY DEF Fail, At, orderVars
<1>2. Serves(t, {"idle"})
  BY IdleTyped, BecomeServes DEF Fail, Inv, Serves, Idle
<1> QED
  BY <1>1, <1>2, QuietStep DEF Serves, Phase, Inv, TypeOK

LEMMA SelectInv == ASSUME Inv, NEW t \in Thread, Select(t) PROVE Inv'
<1>1. /\ thread[t].phase = "select" /\ UNCHANGED <<order, timeline, review, idem>>
      /\ thread[t].id \in Order /\ thread[t].copy \in Row
  BY RequestTyped DEF Select, At, orderVars, Inv
<1>2. CASE Reply(t, "OK", thread[t].id, thread[t].copy)
  <2>1. Serves(t, {"idle"})
    BY <1>1, <1>2, ReplyServes DEF Inv, Code
  <2> QED
    BY <1>1, <2>1, QuietStep DEF Serves, Phase, Inv, TypeOK
<1>3. ASSUME NEW p \in Worker,
             Become(t, [Idle EXCEPT
               !.phase = "lookup",
               !.req = [op |-> "ASSIGN", actor |-> System, key |-> thread[t].id,
                        order |-> thread[t].id, version |-> thread[t].copy.version,
                        assignee |-> p, agent |-> TRUE]])
      PROVE  Inv'
  <2> DEFINE q == [op |-> "ASSIGN", actor |-> System, key |-> thread[t].id,
                   order |-> thread[t].id, version |-> thread[t].copy.version,
                   assignee |-> p, agent |-> TRUE]
  <2>1. thread[t].copy.version \in Nat /\ System \in Actor
    BY <1>1, DomainAssumption DEF Row, Actor
  <2>2. q \in Request /\ WellFormed(q)
    BY <1>1, <2>1 DEF Request, Op, ActionCode, WellFormed
  <2>3. Become(t, [Idle EXCEPT !.phase = "lookup", !.req = q])
    BY <1>3
  <2> HIDE DEF q
  <2> QED
    BY <1>1, <2>2, <2>3, AskStep
<1> QED
  BY <1>2, <1>3 DEF Select

LEMMA GetInv == ASSUME Inv, NEW t \in Thread, Get(t) PROVE Inv'
<1>1. thread[t].phase # "idle" /\ UNCHANGED <<order, timeline, review, idem>>
  BY DEF Get, At, orderVars
<1>2. thread[t].req.order \in Order /\ order[thread[t].req.order] \in Row
  BY DEF Get, At, Inv, TypeOK
<1>3. Serves(t, {"idle"})
  BY <1>2, ReplyServes DEF Get, Inv, Code
<1> QED
  BY <1>1, <1>3, QuietStep DEF Serves, Phase, Inv, TypeOK

LEMMA InvStep == Inv /\ [Next]_vars => Inv'
<1> SUFFICES ASSUME Inv, [Next]_vars PROVE Inv'
  OBVIOUS
<1>1. CASE UNCHANGED vars
  BY <1>1 DEF Inv, TypeOK, Checked, vars
<1>2. ASSUME NEW t \in Thread, NEW who \in Actor \ {System}, NEW k \in Key,
         \/ \E agent \in BOOLEAN : AskCreate(t, who, k, agent)
         \/ \E o \in Order, version \in 1..(MaxVersion - 1), action \in ActionCode,
              p \in Worker \cup {NoWorker} :
                 AskAction(t, who, k, o, action, version, p)
         \/ \E o \in Order : AskReview(t, who, k, o)
      PROVE  Inv'
  BY <1>2, AskInv
<1>3. ASSUME NEW t \in Thread,
             \/ Lookup(t) \/ CheckCreate(t) \/ Load(t) \/ CheckReview(t)
             \/ WriteCreate(t) \/ Save(t) \/ SaveConflict(t) \/ WriteReview(t)
             \/ Fail(t) \/ Select(t) \/ Get(t)
      PROVE  Inv'
  BY <1>3, LookupInv, CheckCreateInv, LoadInv, CheckReviewInv, WriteCreateInv, SaveInv,
     SaveConflictInv, WriteReviewInv, FailInv, SelectInv, GetInv
<1> QED
  BY <1>1, <1>2, <1>3 DEF Next

\* The inductive invariant: requests are well formed, and what a transaction has
\* checked before it writes holds of its copy, which is the row if no version
\* came in between.
THEOREM ServiceInvariant == Spec => []Inv
  BY InvInit, InvStep, PTL DEF Spec

\* Type correctness of rows, timelines, idempotency records and requests.
THEOREM ServiceTypeCorrect == Spec => []TypeOK
<1>1. Inv => TypeOK
  BY DEF Inv
<1> QED
  BY <1>1, ServiceInvariant, PTL

-----------------------------------------------------------------------------
\* The two modules mean the same by the words of the domain.
LEMMA SameDomain ==
    /\ WO!Moves = Moves /\ WO!Actor = Actor /\ WO!NoRow = NoRow /\ WO!Origin = Origin
    /\ \A w, m, p : WO!Moved(w, m, p) = Moved(w, m, p)
    /\ \A who, action, w : WO!May(who, action, w) = May(who, action, w)
    /\ \A who, action, w, v : WO!Written(who, action, w, v) = Written(who, action, w, v)
    /\ \A origin : WO!NewRow(origin) = NewRow(origin)
    /\ \A who : WO!MayCreate(who) = MayCreate(who)
<1>1. WO!Moves = Moves
  BY DEF WO!Moves, Moves, WO!TRANSITIONS, TRANSITIONS, WO!Touches, Touches
<1>2. WO!Actor = Actor /\ WO!Origin = Origin
  BY DEF WO!Actor, Actor, WO!Origin, Origin
<1>3. WO!WorkerAction = WorkerAction
  BY DEF WO!WorkerAction, WorkerAction
<1>4. \A who, action, w : WO!May(who, action, w) = May(who, action, w)
  BY <1>3, Zenon DEF WO!May, May
<1>5. \A who : WO!MayCreate(who) = MayCreate(who)
  BY Zenon DEF WO!MayCreate, MayCreate
<1>6. /\ WO!NoRow = NoRow
      /\ \A origin : WO!NewRow(origin) = NewRow(origin)
  BY Zenon DEF WO!NoRow, NoRow, WO!NewRow, NewRow
<1>7. \A w, m, p : WO!Moved(w, m, p) = Moved(w, m, p)
  BY Zenon DEF WO!Moved, Moved
<1>8. \A who, action, w, v : WO!Written(who, action, w, v) = Written(who, action, w, v)
  BY Zenon DEF WO!Written, Written
<1> QED
  BY <1>1, <1>2, <1>4, <1>5, <1>6, <1>7, <1>8

\* Every step is a move of the abstract work order, or none.
LEMMA StepImplements == Inv /\ [Next]_vars => [WO!Next]_<<order, timeline, review>>
<1> SUFFICES ASSUME Inv, [Next]_vars, ~UNCHANGED <<order, timeline, review>> PROVE WO!Next
  OBVIOUS
<1>1. ASSUME NEW t \in Thread, Save(t) PROVE WO!Next
  <2> DEFINE q == thread[t].req
             o == q.order
  <2>1. PICK m \in Moves :
           /\ m[1] = order[o].status /\ m[2] = q.op
           /\ order' = [order EXCEPT ![o] = Moved(order[o], m, q.assignee)]
           /\ timeline' = [timeline EXCEPT ![o] = Append(timeline[o],
                 Written(q.actor, q.op, order[o], Moved(order[o], m, q.assignee)))]
    BY <1>1, SaveWrites
  <2>2. /\ o \in Order /\ q.actor \in Actor /\ q.assignee \in Worker \cup {NoWorker}
        /\ q.op = "ASSIGN" => q.assignee \in Worker
        /\ May(q.actor, q.op, order[o]) /\ review' = review
    BY <1>1, SaveWrites
  <2>3. WO!Move(o, q.actor, m, q.assignee)
    BY <2>1, <2>2, SameDomain DEF WO!Move
  <2> QED
    BY <2>2, <2>3, SameDomain DEF WO!Next
<1>2. ASSUME NEW t \in Thread, WriteCreate(t) PROVE WO!Next
  <2> DEFINE q == thread[t].req
             origin == <<q.actor, q.key>>
  <2>1. q.actor \in Actor /\ q.key \in Key /\ MayCreate(q.actor)
    BY <1>2, RequestTyped DEF WriteCreate, At, WellFormed, Request, Inv, Checked
  <2>2. PICK o \in Order :
           /\ order[o] = NoRow
           /\ order' = [order EXCEPT ![o] = NewRow(origin)]
           /\ timeline' = [timeline EXCEPT
                 ![o] = <<Written(q.actor, "CREATE", NoRow, NewRow(origin))>>]
    BY <1>2 DEF WriteCreate
  <2>3. review' = review /\ \A p \in Order : order[p].origin # origin
    BY <1>2 DEF WriteCreate, NewRow
  <2>4. origin[1] = q.actor /\ origin \in Origin
    BY <2>1 DEF Origin
  <2> HIDE DEF origin, q
  <2>5. WO!Create(o, origin)
    BY <2>1, <2>2, <2>3, <2>4, SameDomain DEF WO!Create
  <2> QED
    BY <2>4, <2>5, SameDomain DEF WO!Next
<1>3. ASSUME NEW t \in Thread, WriteReview(t) PROVE WO!Next
  <2> DEFINE q == thread[t].req
  <2>1. /\ q.actor \in Actor /\ q.order \in Order /\ q.actor \in Tenant
        /\ order[q.order].status = "CLOSED"
    BY <1>3, RequestTyped DEF WriteReview, At, WellFormed, Request, Inv, Checked
  <2>2. WO!Review(q.order, q.actor)
    BY <1>3, <2>1 DEF WriteReview, WO!Review, Reviewed
  <2> QED
    BY <2>1, <2>2, SameDomain DEF WO!Next
<1>4. ASSUME NEW t \in Thread, NEW q, Ask(t, q) PROVE FALSE
  BY <1>4 DEF Ask, orderVars
<1>5. ASSUME NEW t \in Thread,
             \/ Lookup(t) \/ CheckCreate(t) \/ Load(t) \/ CheckReview(t)
             \/ SaveConflict(t) \/ Fail(t) \/ Select(t) \/ Get(t)
      PROVE  FALSE
  BY <1>5
  DEF Lookup, CheckCreate, Load, CheckReview, SaveConflict, Fail, Select, Get, orderVars
<1>6. ASSUME NEW t \in Thread, NEW who \in Actor, NEW k \in Key,
         \/ \E agent \in BOOLEAN : AskCreate(t, who, k, agent)
         \/ \E o \in Order, version \in 1..(MaxVersion - 1), action \in ActionCode,
              p \in Worker \cup {NoWorker} :
                 AskAction(t, who, k, o, action, version, p)
         \/ \E o \in Order : AskReview(t, who, k, o)
      PROVE  FALSE
  BY <1>4, <1>6, Zenon DEF AskCreate, AskAction, AskReview
<1>7. CASE UNCHANGED vars
  BY <1>7 DEF vars
<1> QED
  BY <1>1, <1>2, <1>3, <1>5, <1>6, <1>7 DEF Next

\* The service implements the abstract work order: whatever is committed is an
\* allowed move of the row as it was, by somebody who may make it.
THEOREM ServiceImplementsWorkOrder == Spec => ImplementsWorkOrder
<1>1. Init => WO!Init
  BY SameDomain DEF Init, WO!Init
<1> QED
  BY <1>1, StepImplements, ServiceInvariant, PTL DEF Spec, ImplementsWorkOrder, WO!Spec

-----------------------------------------------------------------------------
(* What follows for the rows and the timeline.                             *)

\* What a step does to one row and its timeline; the others stay as they are.
Grows(o, e, new) ==
    /\ order' = [order EXCEPT ![o] = new]
    /\ timeline' = [timeline EXCEPT ![o] = Append(timeline[o], e)]
    /\ e \in Entry /\ new \in Row /\ new.version = order[o].version + 1
    /\ e.to = new.status /\ e.assignee = new.assignee

LEMMA StepGrows ==
  ASSUME Inv, TimelineIsTheHistory, WO!Next
  PROVE  \/ UNCHANGED <<order, timeline>>
         \/ \E o \in Order, e \in Entry, new \in Row :
               /\ Grows(o, e, new)
               /\ \/ /\ order[o] = NoRow /\ timeline[o] = <<>>
                     /\ new.origin \in Origin /\ \A p \in Order : order[p].origin # new.origin
                  \/ /\ order[o] # NoRow /\ new.origin = order[o].origin
                     /\ <<e.from, e.action, e.to>> \in Moves /\ e.from = order[o].status
<1>1. ASSUME NEW o \in Order, NEW origin \in Origin, WO!Create(o, origin)
      PROVE  \E e \in Entry, new \in Row :
               /\ Grows(o, e, new)
               /\ order[o] = NoRow /\ timeline[o] = <<>>
               /\ new.origin \in Origin /\ \A p \in Order : order[p].origin # new.origin
  <2> DEFINE new == NewRow(origin)
             e == Written(origin[1], "CREATE", NoRow, new)
  <2>1. /\ order[o] = NoRow /\ \A p \in Order : order[p].origin # origin
        /\ order' = [order EXCEPT ![o] = new]
        /\ timeline' = [timeline EXCEPT ![o] = <<e>>]
    BY <1>1, SameDomain DEF WO!Create
  <2>2. new \in Row /\ NoRow \in Row /\ origin[1] \in Actor
    BY RowsTyped DEF Origin
  <2>3. new.origin = origin /\ new.version = NoRow.version + 1 /\ new.status \in Status
    BY DEF NewRow, NoRow, Status
  <2>4. e.to = new.status /\ e.assignee = new.assignee
    BY DEF Written
  <2>5. timeline[o] = <<>>
    BY <2>1 DEF TimelineIsTheHistory, NoRow, Inv, TypeOK
  <2> HIDE DEF new
  <2>6. e \in Entry
    BY <2>2, <2>3, WrittenTyped
  <2> HIDE DEF e
  <2>7. <<e>> = Append(timeline[o], e)
    BY <2>5, <2>6
  <2> QED
    BY <2>1, <2>2, <2>3, <2>4, <2>5, <2>6, <2>7 DEF Grows
<1>2. ASSUME NEW o \in Order, NEW who \in Actor, NEW m \in Moves,
             NEW p \in Worker \cup {NoWorker}, WO!Move(o, who, m, p)
      PROVE  \E e \in Entry, new \in Row :
               /\ Grows(o, e, new)
               /\ order[o] # NoRow /\ new.origin = order[o].origin
               /\ <<e.from, e.action, e.to>> \in Moves /\ e.from = order[o].status
  <2> DEFINE new == Moved(order[o], m, p)
             e == Written(who, m[2], order[o], new)
  <2>1. /\ order[o].status = m[1]
        /\ order' = [order EXCEPT ![o] = new]
        /\ timeline' = [timeline EXCEPT ![o] = Append(timeline[o], e)]
    BY <1>2, SameDomain DEF WO!Move
  <2>2. order[o] \in Row /\ new \in Row
    BY RowsTyped DEF Inv, TypeOK
  <2>3. /\ new.version = order[o].version + 1 /\ new.status = m[3]
        /\ new.origin = order[o].origin
    BY <2>2 DEF Moved, Row
  <2>4. m[2] \in ActionCode /\ m[3] \in Status /\ m[1] # "NONE"
    BY MovesTyped, ClosedHasNoMoves
  <2>5. <<m[1], m[2], m[3]>> \in Moves
    BY DEF Moves, TRANSITIONS, Touches
  <2>6. order[o] # NoRow
    BY <2>1, <2>4 DEF NoRow
  <2>7. /\ e.from = order[o].status /\ e.action = m[2]
        /\ e.to = new.status /\ e.assignee = new.assignee
    BY DEF Written
  <2> HIDE DEF new
  <2>8. e \in Entry
    BY <2>2, <2>3, <2>4, WrittenTyped
  <2> HIDE DEF e
  <2> QED
    BY <2>1, <2>2, <2>3, <2>5, <2>6, <2>7, <2>8 DEF Grows
<1>3. ASSUME NEW o \in Order, NEW who \in Actor, WO!Review(o, who)
      PROVE  UNCHANGED <<order, timeline>>
  BY <1>3 DEF WO!Review
<1> QED
  BY <1>1, <1>2, <1>3, SameDomain DEF WO!Next

LEMMA HistoryStep == Inv /\ TimelineIsTheHistory /\ [Next]_vars => TimelineIsTheHistory'
<1> SUFFICES ASSUME Inv, TimelineIsTheHistory, [Next]_vars PROVE TimelineIsTheHistory'
  OBVIOUS
<1>1. CASE UNCHANGED <<order, timeline>>
  BY <1>1 DEF TimelineIsTheHistory
<1>2. ASSUME NEW o \in Order, NEW e \in Entry, NEW new \in Row, Grows(o, e, new),
             \/ timeline[o] = <<>>
             \/ <<e.from, e.action, e.to>> \in Moves /\ e.from = order[o].status
      PROVE  TimelineIsTheHistory'
  <2> DEFINE line == timeline[o]
             n == Len(line)
  <2>1. /\ line \in Seq(Entry) /\ n \in Nat /\ n = order[o].version
        /\ timeline'[o] = Append(line, e) /\ order'[o] = new
        /\ \A p \in Order : p # o => timeline'[p] = timeline[p] /\ order'[p] = order[p]
    BY <1>2 DEF Grows, Inv, TypeOK, TimelineIsTheHistory
  <2>2. /\ \A i \in 2..n : /\ <<line[i].from, line[i].action, line[i].to>> \in Moves
                           /\ line[i].from = line[i-1].to
        /\ line # <<>> => line[n].to = order[o].status
    BY DEF TimelineIsTheHistory
  <2> HIDE DEF line
  <2> DEFINE longer == Append(line, e)
  <2>3. /\ Len(longer) = n + 1 /\ longer[n + 1] = e /\ longer # <<>>
        /\ \A i \in 1..n : longer[i] = line[i]
    BY <2>1
  <2>4. line = <<>> <=> n = 0
    BY <2>1
  <2>5. ASSUME NEW i \in 2..(n + 1)
        PROVE  /\ <<longer[i].from, longer[i].action, longer[i].to>> \in Moves
               /\ longer[i].from = longer[i-1].to
    <3> HIDE DEF longer, n
    <3>1. CASE i \in 2..n
      <4>1. n \in Nat /\ i \in 1..n /\ i - 1 \in 1..n
        BY <3>1, <2>1
      <4>2. longer[i] = line[i] /\ longer[i-1] = line[i-1]
        BY <4>1, <2>3
      <4> QED
        BY <3>1, <4>2, <2>2
    <3>2. CASE i = n + 1
      <4>1. n \in 1..n /\ line # <<>>
        BY <3>2, <2>1, <2>4
      <4>2. e.from = order[o].status /\ <<e.from, e.action, e.to>> \in Moves
        BY <1>2, <4>1 DEF line
      <4>3. longer[i] = e /\ longer[i-1] = line[n] /\ line[n].to = order[o].status
        BY <3>2, <4>1, <2>1, <2>2, <2>3
      <4> QED
        BY <4>2, <4>3
    <3> QED
      BY <3>1, <3>2, <2>1
  <2> HIDE DEF longer
  <2>6. ASSUME NEW p \in Order
        PROVE  /\ Len(timeline'[p]) = order'[p].version
               /\ \A i \in 2..Len(timeline'[p]) :
                     /\ <<timeline'[p][i].from, timeline'[p][i].action, timeline'[p][i].to>> \in Moves
                     /\ timeline'[p][i].from = timeline'[p][i-1].to
               /\ timeline'[p] # <<>> =>
                     /\ timeline'[p][Len(timeline'[p])].to = order'[p].status
                     /\ timeline'[p][Len(timeline'[p])].assignee = order'[p].assignee
    <3>1. CASE p = o
      <4>1. timeline'[o] = longer
        BY <2>1 DEF longer
      <4> QED
        BY <3>1, <4>1, <2>1, <2>3, <2>5, <1>2 DEF Grows
    <3>2. CASE p # o
      BY <3>2, <2>1 DEF TimelineIsTheHistory
    <3> QED
      BY <3>1, <3>2
  <2> QED
    BY <2>6 DEF TimelineIsTheHistory
<1> QED
  BY <1>1, <1>2, StepGrows, StepImplements

\* The timeline of every order is its history, whatever threads race for it.
THEOREM TimelineTold == Spec => []TimelineIsTheHistory
<1>1. Init => TimelineIsTheHistory
  <2> SUFFICES ASSUME Init, NEW o \in Order
               PROVE  /\ Len(timeline[o]) = order[o].version
                      /\ 2..Len(timeline[o]) = {}
                      /\ timeline[o] = <<>>
    BY DEF TimelineIsTheHistory
  <2>1. timeline[o] = <<>> /\ order[o].version = 0
    BY DEF Init, NoRow
  <2>2. Len(<<>>) = 0 /\ 2..0 = {}
    OBVIOUS
  <2> QED
    BY <2>1, <2>2
<1> QED
  BY <1>1, HistoryStep, ServiceInvariant, PTL DEF Spec

\* Orders that exist have an origin; it is theirs alone.
Originated == OneOrderPerRequest /\ \A o \in Order : order[o] # NoRow => order[o].origin \in Origin

LEMMA OriginatedStep ==
  Inv /\ TimelineIsTheHistory /\ Originated /\ [Next]_vars => Originated'
<1> SUFFICES ASSUME Inv, TimelineIsTheHistory, Originated, [Next]_vars PROVE Originated'
  OBVIOUS
<1>1. CASE UNCHANGED <<order, timeline>>
  BY <1>1 DEF Originated, OneOrderPerRequest
<1>2. ASSUME NEW o \in Order, NEW e \in Entry, NEW new \in Row, Grows(o, e, new),
             \/ new.origin \in Origin /\ \A p \in Order : order[p].origin # new.origin
             \/ order[o] # NoRow /\ new.origin = order[o].origin
      PROVE  Originated'
  <2>1. order'[o] = new /\ \A p \in Order : p # o => order'[p] = order[p]
    BY <1>2 DEF Grows, Inv, TypeOK
  <2>2. new.origin \in Origin
    BY <1>2 DEF Originated
  <2>3. ASSUME NEW p \in Order,
               p # o, order'[p] = order[p] PROVE order[p].origin # new.origin
    <3>1. CASE order[o] # NoRow /\ new.origin = order[o].origin
      BY <3>1, <2>3 DEF Originated, OneOrderPerRequest
    <3> QED
      BY <1>2, <3>1, <2>3
  <2>4. \A p \in Order : order'[p] # NoRow => order'[p].origin \in Origin
    BY <2>1, <2>2 DEF Originated
  <2>5. ASSUME NEW o1 \in Order, NEW o2 \in Order,
               order'[o1] # NoRow, order'[o1].origin = order'[o2].origin
        PROVE  o1 = o2
    <3>1. CASE o1 # o /\ o2 # o
      BY <3>1, <2>1, <2>5 DEF Originated, OneOrderPerRequest
    <3>2. CASE o1 = o \/ o2 = o
      BY <3>2, <2>1, <2>3, <2>5
    <3> QED
      BY <3>1, <3>2
  <2> QED
    BY <2>4, <2>5 DEF Originated, OneOrderPerRequest
<1> QED
  BY <1>1, <1>2, StepGrows, StepImplements

\* However often and concurrently a create is sent, it makes one work order.
THEOREM OneOrder == Spec => []OneOrderPerRequest
<1>1. Init => Originated
  BY DEF Init, Originated, OneOrderPerRequest, NoRow
<1>2. Originated => OneOrderPerRequest
  BY DEF Originated
<1> QED
  BY <1>1, <1>2, OriginatedStep, TimelineTold, ServiceInvariant, PTL DEF Spec

-----------------------------------------------------------------------------
(* What is answered as a success is what happened: every copy that may be  *)
(* answered (in an idempotency record, or held until the order has been    *)
(* assigned) is told by the timeline or by a review, and both only grow.   *)

\* Somebody did what a copy of an order was answered for.
Told(lines, reviews, op, who, id, copy) ==
    /\ id \in Order
    /\ IF op = "CREATE_REVIEW"
       THEN [order |-> id, by |-> who] \in reviews
       ELSE /\ copy.version \in 1..Len(lines[id])
            /\ lines[id][copy.version].action = op
            /\ lines[id][copy.version].actor = who
            /\ lines[id][copy.version].to = copy.status

RecordsTold ==
    \A r \in idem : Told(timeline, review, r.op, r.actor, r.id, r.copy)

\* A thread that still has to assign the order it has created.
SelectingTold ==
    \A t \in Thread : thread[t].phase = "select" =>
        /\ thread[t].req.op = "CREATE"
        /\ Told(timeline, review, "CREATE", thread[t].req.actor, thread[t].id, thread[t].copy)

AnswerTold ==
    answer.code = "OK" =>
        Told(timeline, review, answer.req.op, answer.req.actor, answer.id, answer.copy)

CopiesTold == RecordsTold /\ SelectingTold /\ AnswerTold

\* What has been told stays told.
LEMMA ToldStays ==
  ASSUME Inv, TimelineIsTheHistory, [Next]_vars, NEW op, NEW who, NEW id, NEW copy,
         Told(timeline, review, op, who, id, copy)
  PROVE  Told(timeline', review', op, who, id, copy)
<1>1. CASE UNCHANGED <<order, timeline, review>>
  BY <1>1
<1>2. CASE WO!Next
  <2>1. review \subseteq review'
    BY <1>2 DEF WO!Next, WO!Create, WO!Move, WO!Review
  <2>2. \A i \in 1..Len(timeline[id]) :
           /\ i \in 1..Len(timeline'[id])
           /\ timeline'[id][i] = timeline[id][i]
    <3>1. CASE UNCHANGED <<order, timeline>>
      BY <3>1
    <3>2. ASSUME NEW o \in Order, NEW e \in Entry, NEW new \in Row, Grows(o, e, new)
          PROVE  \A i \in 1..Len(timeline[id]) :
                    /\ i \in 1..Len(timeline'[id])
                    /\ timeline'[id][i] = timeline[id][i]
      <4>1. timeline[o] \in Seq(Entry) /\ id \in Order
        BY DEF Inv, TypeOK, Told
      <4>2. CASE id = o
        <5>1. timeline'[id] = Append(timeline[o], e)
          BY <3>2, <4>2 DEF Grows, Inv, TypeOK
        <5> QED
          BY <4>1, <4>2, <5>1
      <4>3. CASE id # o
        BY <3>2, <4>1, <4>3 DEF Grows, Inv, TypeOK
      <4> QED
        BY <4>2, <4>3
    <3> QED
      BY <1>2, <3>1, <3>2, StepGrows
  <2> QED
    BY <2>1, <2>2 DEF Told
<1> QED
  BY <1>1, <1>2, StepImplements

\* A step of thread t that answers no success and leaves no order to assign.
Quiet(t) ==
    /\ \A u \in Thread : u # t => thread'[u] = thread[u]
    /\ thread'[t].phase # "select"
    /\ answer'.code # "OK"

LEMMA QuietMoves ==
  ASSUME TypeOK, NEW t \in Thread
  PROVE  /\ \A s \in ThreadState : Become(t, s) /\ s.phase # "select" => Quiet(t)
         /\ \A phase \in Phase \ {"select"} : Goto(t, phase) => Quiet(t)
         /\ \A code \in Code \ {"OK"} : Refuse(t, code) => Quiet(t)
         /\ VersionConflict(t) => Quiet(t)
         /\ \A code \in Code \ {"OK"} : \A id, copy : Reply(t, code, id, copy) => Quiet(t)
<1>1. ASSUME NEW s \in ThreadState, Become(t, s), s.phase # "select" PROVE Quiet(t)
  BY <1>1, BecomeServes DEF Become, Quiet, NoAnswer
<1>2. ASSUME NEW phase \in Phase \ {"select"}, Goto(t, phase) PROVE Quiet(t)
  <2>1. [thread[t] EXCEPT !.phase = phase] \in ThreadState
    BY DEF TypeOK, ThreadState
  <2>2. [thread[t] EXCEPT !.phase = phase].phase # "select"
    BY DEF TypeOK, ThreadState
  <2> QED
    BY <1>1, <1>2, <2>1, <2>2 DEF Goto
<1>3. ASSUME NEW code \in Code \ {"OK"}, Refuse(t, code) PROVE Quiet(t)
  <2>1. [NoAnswer EXCEPT !.code = code, !.req.agent = thread[t].req.agent].code = code
    BY DEF NoAnswer
  <2> QED
    BY <1>3, <2>1 DEF Refuse, Quiet, Idle, TypeOK
<1>4. ASSUME VersionConflict(t) PROVE Quiet(t)
  BY <1>2, <1>3, <1>4 DEF VersionConflict, Phase, Code
<1>5. ASSUME NEW code \in Code \ {"OK"}, NEW id, NEW copy, Reply(t, code, id, copy)
      PROVE  Quiet(t)
  BY <1>5 DEF Reply, Quiet, Idle, TypeOK
<1> QED
  BY <1>1, <1>2, <1>3, <1>4, <1>5

\* A quiet step keeps what threads and answers say true.
LEMMA QuietTold ==
  ASSUME Inv, TimelineIsTheHistory, [Next]_vars, CopiesTold, NEW t \in Thread, Quiet(t)
  PROVE  SelectingTold' /\ AnswerTold'
<1>1. SelectingTold'
  BY ToldStays DEF CopiesTold, SelectingTold, Quiet
<1>2. AnswerTold'
  BY DEF AnswerTold, Quiet
<1> QED
  BY <1>1, <1>2

\* So does a success with a copy that is told.
LEMMA SuccessTold ==
  ASSUME Inv, TimelineIsTheHistory, [Next]_vars, CopiesTold, NEW t \in Thread,
         NEW id \in Order, NEW copy \in Row, Succeed(t, id, copy),
         Told(timeline', review', thread[t].req.op, thread[t].req.actor, id, copy)
  PROVE  SelectingTold' /\ AnswerTold'
<1>1. CASE thread[t].req.op = "CREATE" /\ thread[t].req.agent
  <2> DEFINE s == [thread[t] EXCEPT !.phase = "select", !.id = id, !.copy = copy]
  <2>1. s \in ThreadState /\ s.id = id /\ s.copy = copy /\ s.req = thread[t].req
    BY DEF Inv, TypeOK, ThreadState, Phase
  <2>2. Become(t, s)
    BY <1>1 DEF Succeed
  <2> HIDE DEF s
  <2>3. /\ \A u \in Thread : u # t => thread'[u] = thread[u]
        /\ thread'[t] = s /\ answer' = NoAnswer
    BY <2>1, <2>2, BecomeServes DEF Inv, Become
  <2>4. SelectingTold'
    <3> SUFFICES ASSUME NEW u \in Thread, thread'[u].phase = "select"
                 PROVE  /\ thread'[u].req.op = "CREATE"
                        /\ Told(timeline', review', "CREATE", thread'[u].req.actor,
                                thread'[u].id, thread'[u].copy)
      BY DEF SelectingTold
    <3>1. CASE u = t
      BY <1>1, <2>1, <2>3, <3>1
    <3>2. CASE u # t
      BY <2>3, <3>2, ToldStays DEF CopiesTold, SelectingTold
    <3> QED
      BY <3>1, <3>2
  <2>5. AnswerTold'
    BY <2>3 DEF AnswerTold, NoAnswer
  <2> QED
    BY <2>4, <2>5
<1>2. CASE ~(thread[t].req.op = "CREATE" /\ thread[t].req.agent)
  <2>1. Reply(t, "OK", id, copy)
    BY <1>2 DEF Succeed
  <2>2. /\ \A u \in Thread : u # t => thread'[u] = thread[u]
        /\ thread'[t].phase # "select"
    BY <2>1 DEF Reply, Idle, Inv, TypeOK
  <2>3. SelectingTold'
    BY <2>2, ToldStays DEF CopiesTold, SelectingTold
  <2>4. AnswerTold'
    BY <2>1 DEF Reply, AnswerTold
  <2> QED
    BY <2>3, <2>4
<1> QED
  BY <1>1, <1>2

\* What is recorded with a copy that is told.
LEMMA RecordTold ==
  ASSUME Inv, TimelineIsTheHistory, [Next]_vars, CopiesTold, NEW q, NEW id, NEW copy,
         Record(q, id, copy), Told(timeline', review', q.op, q.actor, id, copy)
  PROVE  RecordsTold'
<1> SUFFICES ASSUME NEW r \in idem'
             PROVE  Told(timeline', review', r.op, r.actor, r.id, r.copy)
  BY DEF RecordsTold
<1>1. CASE r \in idem
  BY <1>1, ToldStays DEF CopiesTold, RecordsTold
<1>2. CASE r \notin idem
  BY <1>2 DEF Record
<1> QED
  BY <1>1, <1>2

\* The writes tell the timeline what they answer.
LEMMA WritesTold ==
  ASSUME Inv, TimelineIsTheHistory, [Next]_vars, CopiesTold, NEW t \in Thread,
         WriteCreate(t) \/ Save(t) \/ WriteReview(t)
  PROVE  CopiesTold'
<1> DEFINE q == thread[t].req
<1>1. SUFFICES \E id \in Order, copy \in Row :
                  /\ Record(q, id, copy) /\ Succeed(t, id, copy)
                  /\ Told(timeline', review', q.op, q.actor, id, copy)
  BY RecordTold, SuccessTold DEF CopiesTold
<1>2. CASE WriteCreate(t)
  <2> DEFINE new == NewRow(<<q.actor, q.key>>)
             e == Written(q.actor, "CREATE", NoRow, new)
  <2>1. PICK o \in Order :
           /\ timeline' = [timeline EXCEPT ![o] = <<e>>]
           /\ Record(q, o, new) /\ Succeed(t, o, new)
    BY <1>2 DEF WriteCreate
  <2>2. q.op = "CREATE" /\ <<q.actor, q.key>> \in Origin
    BY <1>2, RequestTyped DEF WriteCreate, At, WellFormed, Request, Origin
  <2>3. new \in Row /\ new.version = 1
    BY <2>2, RowsTyped DEF NewRow
  <2>4. e.action = "CREATE" /\ e.actor = q.actor /\ e.to = new.status
    BY DEF Written
  <2>5. timeline'[o] = <<e>>
    BY <2>1 DEF Inv, TypeOK
  <2> HIDE DEF e, new
  <2>6. Len(<<e>>) = 1 /\ <<e>>[1] = e
    OBVIOUS
  <2>7. Told(timeline', review', q.op, q.actor, o, new)
    BY <2>2, <2>3, <2>4, <2>5, <2>6 DEF Told
  <2> QED
    BY <2>1, <2>3, <2>7
<1>3. CASE Save(t)
  <2> DEFINE o == q.order
  <2>1. PICK m \in Moves :
           /\ timeline' = [timeline EXCEPT ![o] = Append(timeline[o],
                 Written(q.actor, q.op, order[o], Moved(order[o], m, q.assignee)))]
           /\ Record(q, o, Moved(order[o], m, q.assignee))
           /\ Succeed(t, o, Moved(order[o], m, q.assignee))
    BY <1>3, SaveWrites
  <2>2. /\ o \in Order /\ q.assignee \in Worker \cup {NoWorker} /\ q.op \in ActionCode
        /\ order[o] \in Row /\ timeline[o] \in Seq(Entry)
    BY <1>3, SaveWrites DEF Save, Inv, TypeOK
  <2> DEFINE new == Moved(order[o], m, q.assignee)
             e == Written(q.actor, q.op, order[o], new)
  <2>3. new \in Row /\ order[o].version \in Nat
    BY <2>2, RowsTyped DEF Row
  <2>4. new.version = order[o].version + 1
    BY <2>2 DEF Moved, Row
  <2>5. e.action = q.op /\ e.actor = q.actor /\ e.to = new.status
    BY DEF Written
  <2>6. /\ timeline'[o] = Append(timeline[o], e)
        /\ Record(q, o, new) /\ Succeed(t, o, new)
    BY <2>1, <2>2 DEF Inv, TypeOK
  <2>7. Len(timeline[o]) = order[o].version /\ q.op # "CREATE_REVIEW"
    BY <2>2 DEF TimelineIsTheHistory, ActionCode, WorkerAction
  <2> HIDE DEF e, new
  <2>8. /\ Len(timeline'[o]) = Len(timeline[o]) + 1
        /\ timeline'[o][Len(timeline[o]) + 1] = e
    BY SMTT(60), <2>2, <2>6
  <2>9. new.version \in 1..Len(timeline'[o]) /\ timeline'[o][new.version] = e
    <3>1. Len(timeline[o]) \in Nat
      BY <2>2, LenProperties
    <3> QED
      BY <3>1, <2>3, <2>4, <2>7, <2>8
  <2>10. Told(timeline', review', q.op, q.actor, o, new)
    BY <2>2, <2>5, <2>7, <2>9 DEF Told
  <2> QED
    BY <2>2, <2>3, <2>6, <2>10
<1>4. CASE WriteReview(t)
  <2>1. /\ Record(q, q.order, thread[t].copy) /\ Succeed(t, q.order, thread[t].copy)
        /\ [order |-> q.order, by |-> q.actor] \in review' /\ q.op = "CREATE_REVIEW"
    BY <1>4 DEF WriteReview
  <2>2. q.order \in Order /\ thread[t].copy \in Row
    BY <1>4, RequestTyped DEF WriteReview, At, WellFormed
  <2>3. Told(timeline', review', q.op, q.actor, q.order, thread[t].copy)
    BY <2>1, <2>2 DEF Told
  <2> QED
    BY <2>1, <2>2, <2>3
<1> QED
  BY <1>2, <1>3, <1>4

\* Steps that write nothing answer a success only from a record, or with the
\* order that could not be assigned.
LEMMA ReadsTold ==
  ASSUME Inv, TimelineIsTheHistory, [Next]_vars, CopiesTold, NEW t \in Thread,
         \/ \E q \in Request : Ask(t, q)
         \/ Lookup(t) \/ CheckCreate(t) \/ Load(t) \/ CheckReview(t)
         \/ SaveConflict(t) \/ Fail(t) \/ Select(t) \/ Get(t)
  PROVE  CopiesTold'
<1>1. UNCHANGED idem
  BY DEF Ask, Lookup, CheckCreate, Load, CheckReview, SaveConflict, Fail, Select, Get
<1>2. RecordsTold'
  BY <1>1, ToldStays DEF CopiesTold, RecordsTold
<1>3. CASE Quiet(t)
  BY <1>2, <1>3, QuietTold DEF CopiesTold
<1>4. TypeOK
  BY DEF Inv
<1>5. ASSUME NEW q \in Request, Ask(t, q) PROVE CopiesTold'
  <2> DEFINE s == [Idle EXCEPT !.phase = "lookup", !.req = q]
  <2>1. s \in ThreadState /\ s.phase # "select"
    BY IdleTyped DEF ThreadState, Phase, Idle
  <2>2. Become(t, s)
    BY <1>5 DEF Ask
  <2> HIDE DEF s
  <2> QED
    BY <1>3, <1>4, <2>1, <2>2, QuietMoves
<1>6. ASSUME Lookup(t) PROVE CopiesTold'
  <2>1. CASE Goto(t, "load")
    BY <1>3, <1>4, <2>1, QuietMoves DEF Phase
  <2>2. CASE Refuse(t, "IDEMPOTENCY_CONFLICT")
    BY <1>3, <1>4, <2>2, QuietMoves DEF Code
  <2>3. ASSUME NEW r \in Records(thread[t].req), Succeed(t, r.id, r.copy) PROVE CopiesTold'
    <3>1. r \in idem /\ r.op = thread[t].req.op /\ r.actor = thread[t].req.actor
      BY DEF Records
    <3>2. r.id \in Order /\ r.copy \in Row
      BY <3>1 DEF Inv, TypeOK, IdempotencyRecord
    <3>3. Told(timeline', review', r.op, r.actor, r.id, r.copy)
      BY <3>1, ToldStays DEF CopiesTold, RecordsTold
    <3> QED
      BY <1>2, <2>3, <3>1, <3>2, <3>3, SuccessTold DEF CopiesTold
  <2> QED
    BY <1>6, <2>1, <2>2, <2>3 DEF Lookup
<1>7. ASSUME CheckCreate(t) PROVE CopiesTold'
  <2>1. Goto(t, "write") \/ Refuse(t, "REFUSED")
    BY <1>7 DEF CheckCreate
  <2> QED
    BY <1>3, <1>4, <2>1, QuietMoves DEF Phase, Code
<1>8. ASSUME NEW w \in Row, Become(t, [thread[t] EXCEPT !.phase = "write", !.copy = w])
      PROVE  CopiesTold'
  <2> DEFINE s == [thread[t] EXCEPT !.phase = "write", !.copy = w]
  <2>1. s \in ThreadState /\ s.phase # "select"
    BY DEF Inv, TypeOK, ThreadState, Phase
  <2>2. Become(t, s)
    BY <1>8
  <2> HIDE DEF s
  <2> QED
    BY <1>3, <1>4, <2>1, <2>2, QuietMoves
<1>9. ASSUME Load(t) \/ CheckReview(t) PROVE CopiesTold'
  <2>1. thread[t].req.order \in Order /\ order[thread[t].req.order] \in Row
    BY <1>9, RequestTyped DEF Load, CheckReview, At, WellFormed, ActionCode, WorkerAction,
       Inv, TypeOK
  <2>2. \/ Become(t, [thread[t] EXCEPT !.phase = "write", !.copy = order[thread[t].req.order]])
        \/ VersionConflict(t) \/ Refuse(t, "REFUSED")
    BY <1>9 DEF Load, CheckReview
  <2> QED
    BY <1>3, <1>4, <1>8, <2>1, <2>2, QuietMoves DEF Code
<1>10. ASSUME SaveConflict(t) PROVE CopiesTold'
  BY <1>3, <1>4, <1>10, QuietMoves DEF SaveConflict
<1>11. ASSUME Fail(t) PROVE CopiesTold'
  BY <1>3, <1>4, <1>11, QuietMoves, IdleTyped DEF Fail, Idle
<1>12. ASSUME Get(t) PROVE CopiesTold'
  BY <1>3, <1>4, <1>12, QuietMoves DEF Get, Code
<1>13. ASSUME Select(t) PROVE CopiesTold'
  <2>1. CASE Reply(t, "OK", thread[t].id, thread[t].copy)
    <3>1. /\ thread[t].req.op = "CREATE"
          /\ Told(timeline', review', "CREATE", thread[t].req.actor, thread[t].id, thread[t].copy)
      BY <1>13, ToldStays DEF Select, At, CopiesTold, SelectingTold
    <3>2. AnswerTold'
      BY <2>1, <3>1 DEF Reply, AnswerTold
    <3>3. SelectingTold'
      BY <2>1, ToldStays DEF Reply, Idle, Inv, TypeOK, CopiesTold, SelectingTold
    <3> QED
      BY <1>2, <3>2, <3>3 DEF CopiesTold
  <2>2. ASSUME NEW p \in Worker,
               Become(t, [Idle EXCEPT
                 !.phase = "lookup",
                 !.req = [op |-> "ASSIGN", actor |-> System, key |-> thread[t].id,
                          order |-> thread[t].id, version |-> thread[t].copy.version,
                          assignee |-> p, agent |-> TRUE]])
        PROVE  CopiesTold'
    <3>1. /\ \A u \in Thread : u # t => thread'[u] = thread[u]
          /\ thread'[t].phase = "lookup" /\ answer'.code = "NONE"
      BY <2>2 DEF Become, NoAnswer, Idle, Inv, TypeOK
    <3> QED
      BY <1>3, <3>1 DEF Quiet
  <2> QED
    BY <1>13, <2>1, <2>2 DEF Select
<1> QED
  BY <1>5, <1>6, <1>7, <1>9, <1>10, <1>11, <1>12, <1>13

\* Clients ask for well-typed requests.
LEMMA AskTyped ==
  ASSUME Inv, NEW t \in Thread, NEW who \in Actor, NEW k \in Key,
         \/ \E agent \in BOOLEAN : AskCreate(t, who, k, agent)
         \/ \E o \in Order, version \in 1..(MaxVersion - 1), action \in ActionCode,
              p \in Worker \cup {NoWorker} :
                 AskAction(t, who, k, o, action, version, p)
         \/ \E o \in Order : AskReview(t, who, k, o)
  PROVE  \E q \in Request : Ask(t, q)
<1>1. ASSUME NEW agent \in BOOLEAN,
             AskCreate(t, who, k, agent) PROVE \E q \in Request : Ask(t, q)
  <2>1. [NoRequest EXCEPT !.actor = who, !.key = k, !.agent = agent] \in Request
    BY NoRequestTyped DEF Request, NoRequest
  <2> QED
    BY <1>1, <2>1 DEF AskCreate
<1>2. ASSUME NEW o \in Order,
             NEW version \in 1..(MaxVersion - 1), NEW action \in ActionCode,
             NEW p \in Worker \cup {NoWorker}, AskAction(t, who, k, o, action, version, p)
      PROVE  \E q \in Request : Ask(t, q)
  <2>1. [op |-> action, actor |-> who, key |-> k, order |-> o,
         version |-> version, assignee |-> p, agent |-> FALSE] \in Request
    BY ServiceAssumption DEF Request, Op
  <2> QED
    BY <1>2, <2>1 DEF AskAction
<1>3. ASSUME NEW o \in Order, AskReview(t, who, k, o) PROVE \E q \in Request : Ask(t, q)
  <2>1. [NoRequest EXCEPT !.op = "CREATE_REVIEW", !.actor = who, !.key = k, !.order = o] \in Request
    BY NoRequestTyped DEF Request, NoRequest, Op
  <2> QED
    BY <1>3, <2>1 DEF AskReview
<1> QED
  BY <1>1, <1>2, <1>3

LEMMA CopiesToldStep == Inv /\ TimelineIsTheHistory /\ CopiesTold /\ [Next]_vars => CopiesTold'
<1> SUFFICES ASSUME Inv, TimelineIsTheHistory, CopiesTold, [Next]_vars PROVE CopiesTold'
  OBVIOUS
<1>1. CASE UNCHANGED vars
  BY <1>1 DEF vars, CopiesTold, RecordsTold, SelectingTold, AnswerTold
<1>2. CASE Next
  BY <1>2, AskTyped, WritesTold, ReadsTold DEF Next
<1> QED
  BY <1>1, <1>2

\* A success is answered, at once, from the idempotency record or after the
\* automatic assignment, only to who really did what is answered.
THEOREM AnswersTold == Spec => []AnswersAreTrue
<1>1. Init => CopiesTold
  BY DEF Init, CopiesTold, RecordsTold, SelectingTold, AnswerTold, Idle, NoAnswer
<1>2. CopiesTold => AnswersAreTrue
  BY DEF CopiesTold, AnswerTold, Told, AnswersAreTrue
<1> QED
  BY <1>1, <1>2, CopiesToldStep, TimelineTold, ServiceInvariant, PTL DEF Spec
=============================================================================
