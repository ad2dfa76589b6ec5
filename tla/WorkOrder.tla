------------------------------ MODULE WorkOrder ------------------------------
(***************************************************************************)
(* What the repair service promises: no request creates two work orders,   *)
(* and each order moves along the state machine, one move of one           *)
(* authorised user after the other, its timeline growing by one entry with *)
(* each.  There are no transactions, stale reads or retries here.          *)
(***************************************************************************)
EXTENDS WorkOrderDomain, Sequences

VARIABLES
    order,      \* order[o]: the row of work_orders
    timeline,   \* timeline[o]: its entries
    review      \* rows of work_order_reviews

Init ==
    /\ order = [o \in Order |-> NoRow]
    /\ timeline = [o \in Order |-> <<>>]
    /\ review = {}

Create(o, origin) ==
    LET new == NewRow(origin) IN
    /\ order[o] = NoRow
    /\ MayCreate(origin[1])
    /\ \A q \in Order : order[q].origin # origin
    /\ order' = [order EXCEPT ![o] = new]
    /\ timeline' = [timeline EXCEPT ![o] = <<Written(origin[1], "CREATE", NoRow, new)>>]
    /\ UNCHANGED review

Move(o, who, m, p) ==
    LET moved == Moved(order[o], m, p) IN
    /\ order[o].status = m[1]
    /\ m[2] = "ASSIGN" => p \in Worker
    /\ May(who, m[2], order[o])
    /\ order' = [order EXCEPT ![o] = moved]
    /\ timeline' = [timeline EXCEPT ![o] = Append(@, Written(who, m[2], order[o], moved))]
    /\ UNCHANGED review

Review(o, who) ==
    /\ order[o].status = "CLOSED"
    /\ who \in Tenant
    /\ \A r \in review : r.order # o
    /\ review' = review \cup {[order |-> o, by |-> who]}
    /\ UNCHANGED <<order, timeline>>

Next ==
    \E o \in Order :
        \/ \E origin \in Origin : Create(o, origin)
        \/ \E m \in Moves, who \in Actor, p \in Worker \cup {NoWorker} : Move(o, who, m, p)
        \/ \E who \in Actor : Review(o, who)

Spec == Init /\ [][Next]_<<order, timeline, review>>
=============================================================================
