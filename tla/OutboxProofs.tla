---------------------------- MODULE OutboxProofs ----------------------------
(***************************************************************************)
(* What the outbox says of a message is true, for any number of messages   *)
(* and dispatchers, any batch size and any number of retries.              *)
(*                                                                         *)
(* The argument: dispatchers skip what others have locked, so that a row   *)
(* is in one batch at most, and while it is there it stays PENDING with    *)
(* the retries it had.  What a batch marks is therefore made of the row    *)
(* that its commit overwrites (Due below), and the ticket of a row that is *)
(* given up has not been made before.                                      *)
(***************************************************************************)
EXTENDS Outbox, TLAPS

Marks == UNION {[S -> RowState] : S \in SUBSET Msg}
Batch == [locked : SUBSET Msg, todo : SUBSET Msg, marked : Marks]

\* What a row may be marked with.
Due(m, new, sent) ==
    /\ new.status \in {"PENDING", "SENT", "FAILED"}
    /\ new.status = "SENT" => m \in sent
    /\ new.status = "FAILED" => new.retries = MaxRetry
    /\ new.status = "PENDING" => new.retries < MaxRetry

\* A batch holds rows that are PENDING, and marks those it holds.
Holds(d) ==
    /\ batch[d].todo \subseteq batch[d].locked
    /\ DOMAIN batch[d].marked \subseteq batch[d].locked
    /\ \A m \in batch[d].locked : row[m].status = "PENDING"
    /\ \A m \in DOMAIN batch[d].marked : Due(m, batch[d].marked[m], delivered)

\* What a row says is true of its message and its ticket.
True(m) ==
    /\ row[m].status = "SENT" => m \in delivered
    /\ row[m].status = "FAILED" => row[m].retries = MaxRetry
    /\ row[m].status = "PENDING" => row[m].retries < MaxRetry
    /\ ticket[m] = IF row[m].status = "FAILED" /\ m \notin Orphan THEN 1 ELSE 0

\* The inductive invariant.
Inv ==
    /\ row \in [Msg -> RowState] /\ ticket \in [Msg -> Nat] /\ created \in Seq(Msg)
    /\ batch \in [Dispatcher -> Batch]
    /\ \A d \in Dispatcher : Holds(d)
    /\ \A d, e \in Dispatcher : d # e => batch[d].locked \cap batch[e].locked = {}
    /\ \A m \in Msg : True(m)

LEMMA InitInv ==
  ASSUME OutboxAssumption, Init
  PROVE  Inv
  <1>1. row \in [Msg -> RowState] /\ ticket \in [Msg -> Nat] /\ created \in Seq(Msg)
    BY DEF Init, OutboxAssumption, RowState, NoRow
  <1>2. Idle \in Batch
    <2>1. <<>> \in [{} -> RowState]
      OBVIOUS
    <2> QED BY <2>1 DEF Batch, Marks, Idle
  <1>3. \A d \in Dispatcher : batch[d] = Idle
    BY DEF Init
  <1>4. \A d \in Dispatcher : Holds(d)
    <2>1. Idle.locked = {} /\ Idle.todo = {} /\ DOMAIN Idle.marked = {}
      BY DEF Idle
    <2> QED BY <1>3, <2>1 DEF Holds
  <1>5. \A d, e \in Dispatcher : d # e => batch[d].locked \cap batch[e].locked = {}
    BY <1>3 DEF Idle
  <1>6. \A m \in Msg : True(m)
    BY DEF Init, NoRow, True
  <1> QED BY <1>1, <1>2, <1>3, <1>4, <1>5, <1>6 DEF Inv, Init

\* A message is enqueued.
LEMMA EnqueueInv ==
  ASSUME OutboxAssumption, Inv, NEW m \in Msg, Enqueue(m)
  PROVE  Inv'
  <1> DEFINE new == [NoRow EXCEPT !.status = "PENDING"]
  <1>1. /\ row[m].status = "NONE" /\ row' = [row EXCEPT ![m] = new]
        /\ created' = Append(created, m)
        /\ UNCHANGED <<batch, ticket, delivered>>
    BY DEF Enqueue
  <1>2. /\ new \in RowState /\ new.status = "PENDING" /\ new.retries < MaxRetry
    <2>1. MaxRetry \in Nat /\ 0 < MaxRetry /\ 0 \in 0..MaxRetry
      BY DEF OutboxAssumption
    <2>2. new.status = "PENDING" /\ new.retries = 0
      BY DEF NoRow
    <2>3. new \in RowState
      BY <2>1 DEF RowState, NoRow
    <2> QED BY <2>1, <2>2, <2>3
  <1> HIDE DEF new
  <1>3. row' \in [Msg -> RowState] /\ row'[m] = new /\ \A n \in Msg \ {m} : row'[n] = row[n]
    BY <1>1, <1>2 DEF Inv
  <1>4. created' \in Seq(Msg)
    BY <1>1 DEF Inv
  <1>5. \A d \in Dispatcher : batch[d].locked \subseteq Msg
    BY DEF Inv, Batch
  <1>6. \A d \in Dispatcher : Holds(d)'
    BY <1>1, <1>2, <1>3, <1>5 DEF Inv, Holds, Due
  <1>7. \A n \in Msg : True(n)'
    BY <1>1, <1>2, <1>3 DEF Inv, True
  <1> QED BY <1>1, <1>3, <1>4, <1>6, <1>7 DEF Inv

\* A dispatcher takes rows that nobody holds.
LEMMA ClaimInv ==
  ASSUME Inv, NEW d \in Dispatcher, Claim(d)
  PROVE  Inv'
  <1> DEFINE due == {m \in Fetched : ~row[m].wait}
             new == [locked |-> Fetched, todo |-> due, marked |-> <<>>]
  <1>1. /\ batch' = [batch EXCEPT ![d] = new]
        /\ UNCHANGED <<row, created, ticket, delivered>>
    BY DEF Claim
  <1>2. \A m \in Fetched : m \in Msg /\ row[m].status = "PENDING" /\ ~Locked(m)
    <2>1. \A i \in DOMAIN created : created[i] \in Msg
      BY DEF Inv
    <2> QED BY <2>1 DEF Fetched
  <1>3. <<>> \in Marks /\ DOMAIN <<>> = {}
    <2>1. <<>> \in [{} -> RowState]
      OBVIOUS
    <2> QED BY <2>1 DEF Marks
  <1>4. new \in Batch /\ new.locked = Fetched /\ new.todo \subseteq Fetched /\ DOMAIN new.marked = {}
    BY <1>2, <1>3 DEF Batch
  <1> HIDE DEF new
  <1>5. /\ batch' \in [Dispatcher -> Batch] /\ batch'[d] = new
        /\ \A e \in Dispatcher \ {d} : batch'[e] = batch[e]
    BY <1>1, <1>4 DEF Inv
  <1>6. \A e \in Dispatcher : Holds(e)'
    BY <1>1, <1>2, <1>4, <1>5 DEF Inv, Holds, Due
  <1>7. \A e, f \in Dispatcher : e # f => batch'[e].locked \cap batch'[f].locked = {}
    BY <1>2, <1>4, <1>5 DEF Inv, Locked
  <1>8. \A m \in Msg : True(m)'
    BY <1>1 DEF Inv, True
  <1> QED BY <1>1, <1>5, <1>6, <1>7, <1>8 DEF Inv

\* A row of the batch is marked.
LEMMA MarkInv ==
  ASSUME Inv, NEW d \in Dispatcher, NEW m \in batch[d].todo,
         NEW new \in RowState, Mark(m, d, new), Due(m, new, delivered'),
         UNCHANGED <<row, created, ticket>>, delivered \subseteq delivered'
  PROVE  Inv'
  <1> DEFINE b == batch[d]
             marks == [n \in DOMAIN b.marked \cup {m} |-> IF n = m THEN new ELSE b.marked[n]]
             after == [locked |-> b.locked, todo |-> b.todo \ {m}, marked |-> marks]
  <1>1. /\ b \in Batch /\ b.todo \subseteq b.locked /\ DOMAIN b.marked \subseteq b.locked
        /\ m \in b.locked /\ b.locked \subseteq Msg
    BY DEF Inv, Holds, Batch
  <1>2. DOMAIN marks = DOMAIN b.marked \cup {m}
        /\ \A n \in DOMAIN marks : marks[n] = IF n = m THEN new ELSE b.marked[n]
    OBVIOUS
  <1>3. marks \in Marks
    <2>1. PICK S \in SUBSET Msg : b.marked \in [S -> RowState]
      BY <1>1 DEF Batch, Marks
    <2>2. marks \in [S \cup {m} -> RowState]
      BY <2>1
    <2> QED BY <1>1, <2>2 DEF Marks
  <1> HIDE DEF marks
  <1>4. /\ batch' \in [Dispatcher -> Batch]
        /\ batch'[d].locked = b.locked /\ batch'[d].todo \subseteq b.todo
        /\ batch'[d].marked = marks
        /\ \A e \in Dispatcher \ {d} : batch'[e] = batch[e]
    <2>1. after \in Batch /\ after.locked = b.locked /\ after.todo \subseteq b.todo
          /\ after.marked = marks
      BY <1>1, <1>3 DEF Batch
    <2>2. batch' = [batch EXCEPT ![d] = after]
      BY DEF Mark, Marked, marks
    <2> HIDE DEF after
    <2> QED BY <2>1, <2>2 DEF Inv
  <1>5. \A e \in Dispatcher : Holds(e)'
    <2>1. \A n \in DOMAIN marks : n \in b.locked /\ Due(n, marks[n], delivered')
      <3>1. ASSUME NEW n \in DOMAIN b.marked PROVE n \in b.locked /\ Due(n, b.marked[n], delivered')
        BY <1>1 DEF Inv, Holds, Due
      <3> QED BY <1>1, <1>2, <3>1 DEF Due
    <2>2. Holds(d)'
      <3>1. /\ batch'[d].todo \subseteq batch'[d].locked
            /\ DOMAIN batch'[d].marked \subseteq batch'[d].locked
            /\ \A n \in batch'[d].locked : row'[n].status = "PENDING"
        BY <1>1, <1>4, <2>1 DEF Inv, Holds
      <3> QED BY <1>4, <2>1, <3>1 DEF Holds, Due
    <2>3. \A e \in Dispatcher \ {d} : Holds(e)'
      BY <1>4 DEF Inv, Holds, Due
    <2> QED BY <2>2, <2>3
  <1>6. \A e, f \in Dispatcher : e # f => batch'[e].locked \cap batch'[f].locked = {}
    BY <1>4 DEF Inv
  <1>7. \A n \in Msg : True(n)'
    BY DEF Inv, True
  <1> QED BY <1>4, <1>5, <1>6, <1>7 DEF Inv

\* The transport accepts a row, or refuses it.
LEMMA SendInv ==
  ASSUME Inv, NEW d \in Dispatcher, Send(d)
  PROVE  Inv'
  <1>1. PICK m \in batch[d].todo :
          /\ Mark(m, d, [row[m] EXCEPT !.status = "SENT"])
          /\ delivered' = delivered \cup {m}
    BY DEF Send
  <1> DEFINE new == [row[m] EXCEPT !.status = "SENT"]
  <1>2. row[m] \in RowState
    BY DEF Inv, Holds, Batch
  <1>3. new \in RowState /\ new.status = "SENT"
    BY <1>2 DEF RowState
  <1>4. Mark(m, d, new) /\ UNCHANGED <<row, created, ticket>>
    BY <1>1 DEF Send
  <1> HIDE DEF new
  <1>5. Due(m, new, delivered') /\ delivered \subseteq delivered'
    BY <1>1, <1>3 DEF Due
  <1> QED BY <1>3, <1>4, <1>5, MarkInv

LEMMA RefuseInv ==
  ASSUME OutboxAssumption, Inv, NEW d \in Dispatcher, Refuse(d)
  PROVE  Inv'
  <1>1. PICK m \in batch[d].todo :
          Mark(m, d, [row[m] EXCEPT !.retries = row[m].retries + 1, !.wait = TRUE,
                          !.status = IF row[m].retries + 1 >= MaxRetry THEN "FAILED" ELSE @])
    BY DEF Refuse
  <1> DEFINE n == row[m].retries + 1
             new == [row[m] EXCEPT !.retries = n, !.wait = TRUE,
                                   !.status = IF n >= MaxRetry THEN "FAILED" ELSE @]
  <1>2. /\ row[m] \in RowState /\ row[m].status = "PENDING" /\ True(m)
        /\ MaxRetry \in Nat
    BY DEF Inv, Holds, Batch, OutboxAssumption
  <1>3. n \in 0..MaxRetry
    BY <1>2 DEF RowState, True
  <1>4. /\ new.retries = n
        /\ new.status = IF n >= MaxRetry THEN "FAILED" ELSE "PENDING"
    BY <1>2 DEF RowState
  <1>5. new \in RowState
    BY <1>2, <1>3 DEF RowState
  <1>6. Mark(m, d, new) /\ UNCHANGED <<row, created, ticket, delivered>>
    BY <1>1 DEF Refuse
  <1> HIDE DEF new
  <1>7. Due(m, new, delivered')
    BY <1>2, <1>3, <1>4 DEF Due
  <1> HIDE DEF n
  <1> QED BY <1>5, <1>6, <1>7, MarkInv

\* A batch is committed over the rows it holds.
LEMMA CommitInv ==
  ASSUME Inv, NEW d \in Dispatcher, Commit(d)
  PROVE  Inv'
  <1> DEFINE marks == batch[d].marked
  <1>1. /\ row' = [m \in Msg |-> IF m \in Marked(d) THEN marks[m] ELSE row[m]]
        /\ ticket' = [m \in Msg |-> IF m \in HandedOver(d) THEN ticket[m] + 1 ELSE ticket[m]]
        /\ batch' = [batch EXCEPT ![d] = Idle]
        /\ UNCHANGED <<created, delivered>>
    BY DEF Commit
  <1>2. Idle \in Batch /\ Idle.locked = {} /\ Idle.todo = {} /\ DOMAIN Idle.marked = {}
    <2>1. <<>> \in [{} -> RowState]
      OBVIOUS
    <2> QED BY <2>1 DEF Batch, Marks, Idle
  <1>3. /\ batch' \in [Dispatcher -> Batch] /\ batch'[d] = Idle
        /\ \A e \in Dispatcher \ {d} : batch'[e] = batch[e]
    BY <1>1, <1>2 DEF Inv
  <1>4. \A m \in Marked(d) : /\ m \in batch[d].locked /\ m \in Msg /\ row[m].status = "PENDING"
                             /\ marks[m] \in RowState /\ Due(m, marks[m], delivered)
    <2>1. batch[d] \in Batch /\ Holds(d)
      BY DEF Inv
    <2>2. \A m \in Marked(d) : marks[m] \in RowState
      BY <2>1 DEF Batch, Marks, Marked
    <2> QED BY <2>1, <2>2 DEF Batch, Holds, Marked
  <1>5. row' \in [Msg -> RowState] /\ ticket' \in [Msg -> Nat]
    BY <1>1, <1>4 DEF Inv
  <1>6. \A e \in Dispatcher : Holds(e)'
    <2>1. Holds(d)'
      BY <1>2, <1>3 DEF Holds
    <2>2. ASSUME NEW e \in Dispatcher \ {d} PROVE Holds(e)'
      <3>1. \A m \in batch[e].locked : m \in Msg /\ m \notin Marked(d)
        BY <1>4 DEF Inv, Batch
      <3>2. \A m \in batch[e].locked : row'[m] = row[m]
        BY <1>1, <3>1
      <3>3. Holds(e) /\ batch'[e] = batch[e] /\ delivered' = delivered
        BY <1>1, <1>3 DEF Inv
      <3>4. \A m \in batch'[e].locked : row'[m].status = "PENDING"
        BY <3>2, <3>3 DEF Holds
      <3>5. \A m \in DOMAIN batch'[e].marked : Due(m, batch'[e].marked[m], delivered')
        BY <3>3 DEF Holds
      <3> QED BY <3>3, <3>4, <3>5 DEF Holds
    <2> QED BY <2>1, <2>2
  <1>7. \A e, f \in Dispatcher : e # f => batch'[e].locked \cap batch'[f].locked = {}
    BY <1>2, <1>3 DEF Inv
  <1>8. \A m \in Msg : True(m)'
    <2>1. ASSUME NEW m \in Msg PROVE True(m)'
      <3>1. True(m) /\ ticket[m] \in Nat
        BY DEF Inv
      <3>2. CASE m \in Marked(d)
        <4>1. row'[m] = marks[m] /\ ticket[m] = 0 /\ Due(m, marks[m], delivered)
          BY <1>1, <1>4, <3>1, <3>2 DEF True
        <4>2. ticket'[m] = IF marks[m].status = "FAILED" /\ m \notin Orphan THEN 1 ELSE 0
          BY <1>1, <3>2, <4>1 DEF HandedOver
        <4> QED BY <1>1, <4>1, <4>2 DEF True, Due
      <3>3. CASE m \notin Marked(d)
        <4>1. row'[m] = row[m] /\ ticket'[m] = ticket[m]
          BY <1>1, <3>3 DEF HandedOver
        <4> QED BY <1>1, <3>1, <4>1 DEF True
      <3> QED BY <3>2, <3>3
    <2> QED BY <2>1
  <1> QED BY <1>1, <1>3, <1>5, <1>6, <1>7, <1>8 DEF Inv

\* A batch is rolled back.
LEMMA AbortInv ==
  ASSUME Inv, NEW d \in Dispatcher, Abort(d)
  PROVE  Inv'
  <1>1. /\ batch' = [batch EXCEPT ![d] = Idle]
        /\ UNCHANGED <<row, created, ticket, delivered>>
    BY DEF Abort
  <1>2. Idle \in Batch /\ Idle.locked = {} /\ Idle.todo = {} /\ DOMAIN Idle.marked = {}
    <2>1. <<>> \in [{} -> RowState]
      OBVIOUS
    <2> QED BY <2>1 DEF Batch, Marks, Idle
  <1>3. /\ batch' \in [Dispatcher -> Batch] /\ batch'[d] = Idle
        /\ \A e \in Dispatcher \ {d} : batch'[e] = batch[e]
    BY <1>1, <1>2 DEF Inv
  <1>4. \A e \in Dispatcher : Holds(e)'
    <2>1. Holds(d)'
      BY <1>2, <1>3 DEF Holds
    <2>2. \A e \in Dispatcher \ {d} : Holds(e)'
      BY <1>1, <1>3 DEF Inv, Holds
    <2> QED BY <2>1, <2>2
  <1>5. \A e, f \in Dispatcher : e # f => batch'[e].locked \cap batch'[f].locked = {}
    BY <1>2, <1>3 DEF Inv
  <1> QED BY <1>1, <1>3, <1>4, <1>5 DEF Inv, True

\* A row changes in what the outbox says nothing of.
LEMMA TouchInv ==
  ASSUME Inv, row' \in [Msg -> RowState],
         \A m \in Msg : row'[m].status = row[m].status /\ row'[m].retries = row[m].retries,
         UNCHANGED <<created, batch, ticket, delivered>>
  PROVE  Inv'
  <1>1. \A d \in Dispatcher : Holds(d)'
    BY DEF Inv, Holds, Batch
  <1>2. \A m \in Msg : True(m)'
    BY DEF Inv, True
  <1> QED BY <1>1, <1>2 DEF Inv

LEMMA DelayInv ==
  ASSUME Inv, NEW m \in Msg, BackoffEnds(m)
  PROVE  Inv'
  <1>1. row' = [row EXCEPT ![m].wait = FALSE] /\ UNCHANGED <<created, batch, ticket, delivered>>
    BY DEF BackoffEnds
  <1>2. /\ row' \in [Msg -> RowState]
        /\ \A n \in Msg : row'[n].status = row[n].status /\ row'[n].retries = row[n].retries
    BY <1>1 DEF Inv, RowState
  <1> QED BY <1>1, <1>2, TouchInv

LEMMA ReadInv ==
  ASSUME Inv, NEW S \in SUBSET Msg, Read(S)
  PROVE  Inv'
  <1>1. /\ row' = [m \in Msg |-> IF m \in S THEN [row[m] EXCEPT !.read = TRUE,
                                                               !.wait = row[m].retries > 0]
                                           ELSE row[m]]
        /\ UNCHANGED <<created, batch, ticket, delivered>>
    BY DEF Read
  <1>2. ASSUME NEW m \in Msg
        PROVE  /\ row'[m] \in RowState
               /\ row'[m].status = row[m].status /\ row'[m].retries = row[m].retries
    <2>1. row[m] \in RowState /\ (row[m].retries > 0) \in BOOLEAN
      BY DEF Inv
    <2> QED BY <1>1, <2>1 DEF RowState
  <1>3. row' \in [Msg -> RowState]
    BY <1>1, <1>2
  <1> QED BY <1>1, <1>2, <1>3, TouchInv

-----------------------------------------------------------------------------
\* Dispatchers, readers and business transactions keep the invariant.
THEOREM OutboxInvariant ==
  ASSUME OutboxAssumption
  PROVE  Spec => []Inv
  <1>1. Init => Inv
    BY InitInv
  <1>2. Inv /\ [Next]_outboxVars => Inv'
    <2> SUFFICES ASSUME Inv, [Next]_outboxVars PROVE Inv'
      OBVIOUS
    <2>1. CASE \E m \in Msg : Enqueue(m) \/ BackoffEnds(m)
      BY <2>1, EnqueueInv, DelayInv
    <2>2. CASE \E S \in SUBSET Msg : Read(S)
      BY <2>2, ReadInv
    <2>3. CASE \E d \in Dispatcher :
                 Claim(d) \/ Send(d) \/ Refuse(d) \/ Commit(d) \/ Abort(d)
      BY <2>3, ClaimInv, SendInv, RefuseInv, CommitInv, AbortInv
    <2>4. CASE UNCHANGED outboxVars
      BY <2>4 DEF outboxVars, Inv, Holds, True
    <2> QED BY <2>1, <2>2, <2>3, <2>4 DEF Next
  <1> QED BY <1>1, <1>2, PTL DEF Spec

\* Whatever batches are rolled back, interrupted and repeated by other
\* dispatchers: a message that is sent was accepted by the transport, one that
\* is given up was refused as often as allowed and has one ticket, and no other
\* message has one.
THEOREM OutcomesTrue ==
  ASSUME OutboxAssumption
  PROVE  Spec => []OutcomesAreTrue
  <1>1. Inv => OutcomesAreTrue
    BY DEF Inv, True, OutcomesAreTrue
  <1> QED BY <1>1, OutboxInvariant, PTL
=============================================================================
