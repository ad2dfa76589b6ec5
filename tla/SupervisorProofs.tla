-------------------------- MODULE SupervisorProofs --------------------------
(***************************************************************************)
(* Theorems about Supervisor, for every catalogue, request, policy and     *)
(* plan of any length: SupervisorInv is inductive.                         *)
(*                                                                         *)
(* Three parts: what holds of every AgentState that is passed on or        *)
(* accepted (StateInv), what the next node may rely on (NodeInv), and how  *)
(* the history of calls and answers fits the grant of the turn (GrantInv,  *)
(* CallsInv).  A plan that validation lets through can be ordered by how   *)
(* much hangs below each step; each action is then reduced to the fields   *)
(* that it changes (Becomes), and to one step of the plan that moves on    *)
(* (MovesOn).  Induction along the search of the validator and along the   *)
(* steps that are skipped goes over sets of numbers (Least, UpTo).         *)
(***************************************************************************)
EXTENDS Supervisor, SequenceTheorems, FiniteSetTheorems, WellFoundedInduction, TLAPS

(***************************************************************************)
(* Counting up: what the library's induction theorems say of an operator   *)
(* is said here of a set.                                                  *)
(***************************************************************************)
\* A set of numbers that is not empty has a least element.
LEMMA Least ==
  ASSUME NEW T, T \subseteq Nat, T # {}
  PROVE  \E n \in T : \A m \in T : n <= m
<1>1. PICK n \in T : \A m \in T : <<m, n>> \notin OpToRel(<, Nat)
  BY NatLessThanWellFounded, WFMin
<1>2. \A m \in T : ~(m < n)
  BY <1>1 DEF OpToRel
<1> QED
  BY <1>2

\* A set that holds 0 and, with each number, the next one up to N.
LEMMA UpTo ==
  ASSUME NEW N \in Nat, NEW P, 0 \in P, \A n \in 1..N : n - 1 \in P => n \in P
  PROVE  0..N \subseteq P
<1> DEFINE T == (0..N) \ P
<1> SUFFICES ASSUME T # {} PROVE FALSE
  OBVIOUS
<1>1. T \subseteq Nat
  OBVIOUS
<1>2. PICK n \in T : \A m \in T : n <= m
  <2> HIDE DEF T
  <2> QED
    BY <1>1, Least
<1>3. n \in 1..N /\ n - 1 \notin T /\ n - 1 \in 0..N
  BY <1>2
<1> QED
  BY <1>2, <1>3

\* What a function that is applied again and again makes of a, in 0..N steps.
Iterates(g, S, a, F, N) ==
    /\ g \in [0..N -> S]
    /\ \A n \in 0..N : g[n] = IF n = 0 THEN a ELSE F[g[n - 1]]

\* A function can be iterated, and its iterates stay in the set it maps to
\* itself.
LEMMA Iterated ==
  ASSUME NEW S, NEW a \in S, NEW F \in [S -> S], NEW N \in Nat
  PROVE  \E g : Iterates(g, S, a, F, N)
<1> DEFINE P == {k \in 0..N : \E g : Iterates(g, S, a, F, k)}
<1>1. 0 \in P
  <2>1. Iterates([n \in 0..0 |-> a], S, a, F, 0)
    BY DEF Iterates
  <2> QED
    BY <2>1
<1>2. ASSUME NEW k \in 1..N, k - 1 \in P PROVE k \in P
  <2>1. PICK g : Iterates(g, S, a, F, k - 1)
    BY <1>2
  <2> DEFINE h == [n \in 0..k |-> IF n = k THEN F[g[k - 1]] ELSE g[n]]
  <2>2. h \in [0..k -> S]
    BY <2>1 DEF Iterates
  <2>3. ASSUME NEW n \in 0..k PROVE h[n] = IF n = 0 THEN a ELSE F[h[n - 1]]
    <3>1. CASE n = k
      BY <3>1
    <3>2. CASE n # k
      <4>1. n \in 0..k-1 /\ h[n] = g[n] /\ (n # 0 => h[n-1] = g[n-1])
        BY <3>2
      <4> QED
        BY <2>1, <4>1 DEF Iterates
    <3> QED
      BY <3>1, <3>2
  <2>4. Iterates(h, S, a, F, k)
    BY <2>2, <2>3 DEF Iterates
  <2> QED
    BY <2>4
<1>3. N \in P
  <2>1. 0..N \subseteq P
    <3> HIDE DEF P
    <3> QED
      BY <1>1, <1>2, UpTo
  <2> QED
    BY <2>1
<1> QED
  BY <1>3

(***************************************************************************)
(* The inductive invariant.                                                *)
(***************************************************************************)
\* What a step of an active plan may be.
Handled == {"PENDING", "FAILED"} \cup Settled

\* The plan: distinct identifiers, known dependencies and capabilities, and
\* an order to work it through.
UniqueIds(steps) == \A i, j \in DOMAIN steps : steps[i].id = steps[j].id => i = j
KnownDeps(steps) == \A i \in DOMAIN steps : steps[i].deps \subseteq Ids(steps)
KnownCaps(steps) == \A i \in DOMAIN steps : steps[i].cap \in Capability
PlanOK(steps) ==
    UniqueIds(steps) /\ KnownDeps(steps) /\ KnownCaps(steps) /\ CanBeOrdered(steps)

\* One level of what NothingPassesAFailure says of all of them.
DepsSettled(steps, i) ==
    \A j \in DOMAIN steps : steps[j].id \in steps[i].deps => steps[j].status \in Settled
InOrder(steps) ==
    \A i \in DOMAIN steps : steps[i].status # "PENDING" => DepsSettled(steps, i)

\* The outcome that is kept of a step fits its status; a step that the user
\* turned down is skipped and counts as failed.
Accounted(steps, outcomes) ==
    \A i \in DOMAIN steps :
        /\ steps[i].status \in Settled =>
             /\ steps[i].id \in DOMAIN outcomes
             /\ outcomes[steps[i].id] \in NonFailures \cup {"FAILED"}
        /\ steps[i].status = "FAILED" =>
             /\ steps[i].id \in DOMAIN outcomes
             /\ outcomes[steps[i].id] = "FAILED"

\* A plan and its outcomes as the supervisor may find them.
Sound(steps, outcomes) == PlanOK(steps) /\ InOrder(steps) /\ Accounted(steps, outcomes)

\* The steps of a plan that goes on, of one that ended well, and of one that
\* waits at step i for the user.
AllHandled(steps) == \A i \in DOMAIN steps : steps[i].status \in Handled
AllWell(steps, outcomes) ==
    \A i \in DOMAIN steps :
        steps[i].id \in DOMAIN outcomes /\ outcomes[steps[i].id] \in NonFailures
WaitsAt(steps, i, id) ==
    /\ steps[i].id = id /\ steps[i].status = "PENDING_CONFIRMATION"
    /\ \A j \in DOMAIN steps : j # i => steps[j].status \in Handled

\* What the status of the plan says of its steps.
StatusFits(st) ==
    /\ st.status = "ACTIVE" => AllHandled(st.steps)
    /\ st.status = "WAITING_CONFIRMATION" =>
         /\ \E i \in DOMAIN st.steps : WaitsAt(st.steps, i, st.current)
         /\ st.pending # None
    /\ st.status = "COMPLETED" => AllWell(st.steps, st.outcomes)
    /\ st.status = "NONE" => st = NewState
    /\ st.class = "GENERAL_HELP" => st.steps = <<>>

\* What is on offer to the user was not done.
OfferOpen(pending, outcomes) ==
    pending # None => pending.id \in DOMAIN outcomes /\ outcomes[pending.id] # "COMPLETED"

\* A step reported as done was done: cs are the calls that were made.
DoneIn(outcomes, cs) ==
    \A x \in DOMAIN outcomes : outcomes[x] = "COMPLETED" =>
        \E i \in DOMAIN cs : cs[i].id = x /\ cs[i].done

\* The deadline was never extended and nothing exceeds the policy.
WithinBudget(st) ==
    /\ st.status # "NONE" => st.deadline <= st.started + Duration
    /\ st.visits <= MaxVisits /\ st.delegations <= MaxDelegations /\ st.cross <= MaxCross

\* What holds of an AgentState, the accepted one and the current one, with
\* the calls cs that were made so far.
StateInv(st, cs) ==
    /\ st \in AgentState
    /\ Sound(st.steps, st.outcomes) /\ StatusFits(st) /\ WithinBudget(st)
    /\ OfferOpen(st.pending, st.outcomes) /\ DoneIn(st.outcomes, cs)

\* Where a specialist runs, the current step may be tried, and no call of this
\* plan was late yet.
Ready(st) ==
    /\ st.status = "ACTIVE"
    /\ \E i \in DOMAIN st.steps :
         /\ st.steps[i].id = st.current /\ st.steps[i].status = "PENDING"
         /\ DepsSettled(st.steps, i)
NoneLate(started, cs) == \A i \in DOMAIN cs : cs[i].late => cs[i].started # started

\* What the node that runs next may rely on.
NodeInv ==
    /\ node = "specialist" => Ready(s) /\ NoneLate(s.started, calls)
    /\ node \in {"await", "accept", "cancel"} => s.status = "WAITING_CONFIRMATION"
    /\ saved # None => saved.status = "WAITING_CONFIRMATION"

\* A grant is what the last answer said yes to, and once it was used its
\* fingerprint is known.
GrantFits(g, ds, cs, seen) ==
    /\ Len(ds) > 0
    /\ LET d == ds[Len(ds)] IN d.yes /\ d.id = g.id /\ d.cap = g.cap /\ d.args = g.args
    /\ \A i \in DOMAIN cs : cs[i].turn = Len(ds) /\ Writes(cs[i].cap) =>
         Fingerprint(g.cap, g.args) \in seen
GrantInv == granted # None => GrantFits(granted, decided, calls, s.invocation.seen)

\* The history: one late call for each plan, and with no crash as many calls
\* as were counted.
CallsInv ==
    /\ \A i \in DOMAIN calls :
         /\ calls[i].turn <= Len(decided)
         /\ calls[i].late => calls[i].started + Duration <= now
    /\ \A i, j \in DOMAIN calls :
         calls[i].late /\ calls[j].late /\ calls[i].started = calls[j].started => i = j
    /\ crashes = 0 => Len(calls) <= s.invocation.calls /\ Len(calls) <= MaxCalls

\* The inductive invariant.
SupervisorInv ==
    /\ TypeOK /\ NodeInv /\ GrantInv /\ CallsInv /\ WritesAsConfirmed
    /\ StateInv(s, calls) /\ (saved # None => StateInv(saved, calls))

(***************************************************************************)
(* Plans that can be ordered.                                              *)
(***************************************************************************)
\* A step is found by its identifier.
LEMMA Found ==
  ASSUME NEW steps, UniqueIds(steps)
  PROVE  /\ \A i \in DOMAIN steps : At(steps, steps[i].id) = i
         /\ \A id \in Ids(steps) :
              At(steps, id) \in DOMAIN steps /\ steps[At(steps, id)].id = id
  BY DEF UniqueIds, At, Ids

\* What hangs below a step: those it depends on, and what is below these.
LEMMA BelowOne ==
  ASSUME NEW steps, UniqueIds(steps), KnownDeps(steps), NEW id \in Ids(steps)
  PROVE  /\ DepsOf(steps, id) \subseteq Below(steps, id)
         /\ Closed(steps, Below(steps, id))
         /\ \A d \in DepsOf(steps, id) : Below(steps, d) \subseteq Below(steps, id)
         /\ Below(steps, id) \subseteq
              DepsOf(steps, id) \cup UNION {Below(steps, d) : d \in DepsOf(steps, id)}
<1>1. ASSUME NEW x \in Ids(steps) PROVE DepsOf(steps, x) \subseteq Ids(steps)
  BY Found DEF DepsOf, KnownDeps
<1>2. ASSUME NEW x \in Ids(steps)
      PROVE  DepsOf(steps, x) \subseteq Below(steps, x) /\ Closed(steps, Below(steps, x))
  BY <1>1 DEF Below, Closed
<1>3. ASSUME NEW d \in DepsOf(steps, id) PROVE Below(steps, d) \subseteq Below(steps, id)
  <2>1. Below(steps, id) \in SUBSET Ids(steps)
    BY DEF Below
  <2>2. DepsOf(steps, d) \subseteq Below(steps, id)
    BY <1>2 DEF Closed
  <2> QED
    BY <1>2, <2>1, <2>2 DEF Below
<1> DEFINE all == DepsOf(steps, id) \cup UNION {Below(steps, d) : d \in DepsOf(steps, id)}
<1>4. all \in SUBSET Ids(steps)
  BY <1>1 DEF Below
<1>5. Closed(steps, all)
  <2> SUFFICES ASSUME NEW x \in all, NEW y \in DepsOf(steps, x) PROVE y \in all
    BY DEF Closed
  <2>1. CASE x \in DepsOf(steps, id)
    BY <1>1, <1>2, <2>1
  <2>2. ASSUME NEW d \in DepsOf(steps, id), x \in Below(steps, d) PROVE y \in all
    BY <1>1, <1>2, <2>2 DEF Closed
  <2> QED
    BY <2>1, <2>2
<1>6. Below(steps, id) \subseteq all
  <2>1. DepsOf(steps, id) \subseteq all
    OBVIOUS
  <2> HIDE DEF all
  <2> QED
    BY <1>4, <1>5, <2>1 DEF Below
<1> QED
  BY <1>2, <1>3, <1>6

\* What the search finds, n levels deep: a function of the plan, of the step
\* and of the steps that are being visited.
LEMMA VisitsMeans ==
  ASSUME NEW steps, Len(steps) \in Nat, UniqueIds(steps), KnownDeps(steps)
  PROVE  \A n \in 0..Len(steps) + 1, id \in Ids(steps), V \in SUBSET Ids(steps) :
           Visits(steps)[n][id][V] <=>
             /\ id \notin V /\ n > 0
             /\ \A d \in DepsOf(steps, id) : Visits(steps)[n - 1][d][V \cup {id}]
<1> DEFINE I == Ids(steps)
           L == Len(steps) + 1
           S == [I -> [SUBSET I -> BOOLEAN]]
           a == [id \in I |-> [V \in SUBSET I |-> FALSE]]
           goOn(v, id, V) == id \notin V /\ \A d \in DepsOf(steps, id) : v[d][V \cup {id}]
           F == [v \in S |-> [id \in I |-> [V \in SUBSET I |-> goOn(v, id, V)]]]
           Body(h) == [n \in 0..L |-> [id \in I |-> [V \in SUBSET I |->
                         /\ id \notin V
                         /\ n > 0 /\ \A d \in DepsOf(steps, id) : h[n - 1][d][V \cup {id}]]]]
<1>1. F \in [S -> S]
  OBVIOUS
<1>2. a \in S /\ L \in Nat
  OBVIOUS
<1>3. PICK g : Iterates(g, S, a, F, L)
  <2> HIDE DEF S, a, F, L
  <2> QED
    BY <1>1, <1>2, Iterated
<1>4. ASSUME NEW n \in 0..L
      PROVE  g[n] = [id \in I |-> [V \in SUBSET I |->
                       /\ id \notin V
                       /\ n > 0 /\ \A d \in DepsOf(steps, id) : g[n - 1][d][V \cup {id}]]]
  <2>1. CASE n = 0
    <3>1. g[n] = a
      BY <1>3, <2>1 DEF Iterates
    <3> QED
      BY <2>1, <3>1
  <2>2. CASE n # 0
    <3>1. n > 0 /\ n - 1 \in 0..L
      BY <1>2, <2>2
    <3>2. g[n] = F[g[n - 1]] /\ g[n - 1] \in S
      BY <1>3, <2>2, <3>1 DEF Iterates
    <3>3. F[g[n - 1]] = [id \in I |-> [V \in SUBSET I |-> goOn(g[n - 1], id, V)]]
      BY <3>2
    <3> QED
      BY <3>1, <3>2, <3>3
  <2> QED
    BY <2>1, <2>2
<1>5. g = Body(g)
  <2>1. g = [n \in 0..L |-> g[n]]
    BY <1>3 DEF Iterates
  <2> QED
    BY <1>4, <2>1
<1>6. Visits(steps) = CHOOSE h : h = Body(h)
  BY DEF Visits
<1>7. Visits(steps) = Body(Visits(steps))
  <2> HIDE DEF Body
  <2> QED
    BY <1>5, <1>6
<1> HIDE DEF Body
<1>8. ASSUME NEW n \in 0..L, NEW id \in I, NEW V \in SUBSET I
      PROVE  Body(Visits(steps))[n][id][V] <=>
               /\ id \notin V /\ n > 0
               /\ \A d \in DepsOf(steps, id) : Visits(steps)[n - 1][d][V \cup {id}]
  BY DEF Body
<1> QED
  BY <1>7, <1>8

\* A step that the search clears is below none of those being visited, nor
\* below itself.
LEMMA Cleared ==
  ASSUME NEW steps, Len(steps) \in Nat, UniqueIds(steps), KnownDeps(steps)
  PROVE  \A n \in 0..Len(steps) + 1, id \in Ids(steps), V \in SUBSET Ids(steps) :
           Visits(steps)[n][id][V] => Below(steps, id) \cap (V \cup {id}) = {}
<1> DEFINE I == Ids(steps)
           Clear(n) == \A id \in I, V \in SUBSET I :
               Visits(steps)[n][id][V] => id \notin V /\ Below(steps, id) \cap (V \cup {id}) = {}
           P == {n \in 0..Len(steps) + 1 : Clear(n)}
<1>1. 0 \in P
  <2>1. 0 \in 0..Len(steps) + 1 /\ ~(0 > 0)
    OBVIOUS
  <2>2. \A id \in I, V \in SUBSET I : ~Visits(steps)[0][id][V]
    BY <2>1, VisitsMeans
  <2> QED
    BY <2>1, <2>2
<1>2. ASSUME NEW n \in 1..Len(steps) + 1, n - 1 \in P PROVE n \in P
  <2> SUFFICES ASSUME NEW id \in I, NEW V \in SUBSET I, Visits(steps)[n][id][V]
               PROVE  id \notin V /\ Below(steps, id) \cap (V \cup {id}) = {}
    OBVIOUS
  <2>1. /\ id \notin V
        /\ \A d \in DepsOf(steps, id) : Visits(steps)[n - 1][d][V \cup {id}]
    <3>1. n \in 0..Len(steps) + 1
      OBVIOUS
    <3> QED
      BY <3>1, VisitsMeans
  <2>2. \A d \in DepsOf(steps, id) :
          d \in I /\ d \notin V \cup {id} /\ Below(steps, d) \cap (V \cup {id} \cup {d}) = {}
    <3>1. DepsOf(steps, id) \subseteq I
      BY Found DEF DepsOf, KnownDeps
    <3> QED
      BY <1>2, <2>1, <3>1
  <2> QED
    BY <2>1, <2>2, BelowOne
<1>3. 0..Len(steps) + 1 \subseteq P
  <2>1. Len(steps) + 1 \in Nat
    OBVIOUS
  <2> HIDE DEF P
  <2> QED
    BY <1>1, <1>2, <2>1, UpTo
<1> QED
  BY <1>3

\* A plan without a cycle can be ordered: by how much is below each step.
LEMMA AcyclicCanBeOrdered ==
  ASSUME NEW steps \in Seq(PlanStep), UniqueIds(steps), KnownDeps(steps), Acyclic(steps)
  PROVE  CanBeOrdered(steps)
<1> DEFINE I == Ids(steps)
           N == Len(steps)
           rank == [i \in DOMAIN steps |-> Cardinality(Below(steps, steps[i].id)) + 1]
<1>1. N \in Nat /\ DOMAIN steps = 1..N
  OBVIOUS
<1>2. IsFiniteSet(I) /\ Cardinality(I) <= N
  <2>1. IsFiniteSet(1..N) /\ Cardinality(1..N) = N
    BY <1>1, FS_Interval
  <2>2. [i \in 1..N |-> steps[i].id] \in Surjection(1..N, I)
    BY <1>1 DEF Ids, Surjection
  <2>3. ExistsSurjection(1..N, I)
    BY <2>2 DEF ExistsSurjection
  <2>4. IsFiniteSet(I)
    BY <1>1, <2>3, FS_NatSurjection
  <2>5. Cardinality(I) <= N
    BY <1>1, <2>3, FS_SurjCardinalityBound
  <2> QED
    BY <2>4, <2>5
<1>3. ASSUME NEW x \in I PROVE x \notin Below(steps, x)
  BY Cleared DEF Acyclic
<1>4. ASSUME NEW x \in I
      PROVE  /\ IsFiniteSet(Below(steps, x))
             /\ Cardinality(Below(steps, x)) \in Nat /\ Cardinality(Below(steps, x)) < N
  <2>1. Below(steps, x) \subseteq I /\ Below(steps, x) # I
    BY <1>3 DEF Below
  <2>2. Cardinality(I) \in Nat
    BY <1>2, FS_CardinalityType
  <2>3. IsFiniteSet(Below(steps, x)) /\ Cardinality(Below(steps, x)) < Cardinality(I)
    <3>1. /\ IsFiniteSet(Below(steps, x)) /\ Cardinality(Below(steps, x)) <= Cardinality(I)
          /\ Cardinality(Below(steps, x)) # Cardinality(I)
      BY <1>2, <2>1, FS_Subset
    <3>2. Cardinality(Below(steps, x)) \in Nat
      BY <3>1, FS_CardinalityType
    <3> QED
      BY <2>2, <3>1, <3>2
  <2>4. Cardinality(Below(steps, x)) \in Nat
    BY <2>3, FS_CardinalityType
  <2> QED
    BY <1>1, <1>2, <2>2, <2>3, <2>4
<1>5. ASSUME NEW i \in DOMAIN steps, NEW j \in DOMAIN steps, steps[j].id \in steps[i].deps
      PROVE  rank[j] < rank[i]
  <2> DEFINE x == steps[i].id
             y == steps[j].id
  <2>1. x \in I /\ y \in I /\ y \in DepsOf(steps, x)
    BY <1>5, Found DEF Ids, DepsOf
  <2>2. Below(steps, y) \subseteq Below(steps, x) /\ y \in Below(steps, x)
    BY <2>1, BelowOne
  <2>3. y \notin Below(steps, y)
    BY <2>1, <1>3
  <2>4. Cardinality(Below(steps, y)) < Cardinality(Below(steps, x))
    <3>1. /\ IsFiniteSet(Below(steps, x)) /\ Below(steps, y) \in SUBSET Below(steps, x)
          /\ Below(steps, x) # Below(steps, y)
      BY <1>4, <2>1, <2>2, <2>3
    <3>2. /\ Cardinality(Below(steps, y)) <= Cardinality(Below(steps, x))
          /\ Cardinality(Below(steps, y)) # Cardinality(Below(steps, x))
      BY <3>1, FS_Subset
    <3>3. Cardinality(Below(steps, x)) \in Nat /\ Cardinality(Below(steps, y)) \in Nat
      BY <1>4, <2>1
    <3> QED
      BY <3>2, <3>3
  <2>5. Cardinality(Below(steps, x)) \in Nat /\ Cardinality(Below(steps, y)) \in Nat
    BY <1>4, <2>1
  <2> QED
    BY <2>4, <2>5
<1>6. rank \in [DOMAIN steps -> 1..N]
  <2> SUFFICES ASSUME NEW i \in DOMAIN steps PROVE rank[i] \in 1..N
    OBVIOUS
  <2>1. steps[i].id \in I
    BY DEF Ids
  <2> QED
    BY <1>1, <1>4, <2>1
<1> QED
  BY <1>5, <1>6 DEF CanBeOrdered

\* A plan that can be ordered is cleared: the search never meets a step again,
\* as it only ever goes to steps of a lower rank.
LEMMA OrderedIsAcyclic ==
  ASSUME NEW steps \in Seq(PlanStep), UniqueIds(steps), KnownDeps(steps), CanBeOrdered(steps)
  PROVE  Acyclic(steps)
<1> DEFINE I == Ids(steps)
           N == Len(steps)
<1>1. N \in Nat /\ DOMAIN steps = 1..N
  OBVIOUS
<1>2. PICK rank \in [DOMAIN steps -> 1..N] : \A i, j \in DOMAIN steps :
        steps[j].id \in steps[i].deps => rank[j] < rank[i]
  BY DEF CanBeOrdered
<1> DEFINE R(id) == rank[At(steps, id)]
           Above(id, V) == \A v \in V : R(id) < R(v)
           P == {n \in 0..N + 1 : \A id \in I, V \in SUBSET I :
                   R(id) <= n /\ Above(id, V) => Visits(steps)[n][id][V]}
<1>3. ASSUME NEW id \in I PROVE R(id) \in 1..N
  BY <1>2, Found
<1>4. ASSUME NEW id \in I, NEW d \in DepsOf(steps, id) PROVE d \in I /\ R(d) < R(id)
  <2>1. At(steps, id) \in DOMAIN steps /\ d \in steps[At(steps, id)].deps
    BY Found DEF DepsOf
  <2>2. d \in I
    BY <2>1 DEF KnownDeps
  <2>3. At(steps, d) \in DOMAIN steps /\ steps[At(steps, d)].id = d
    BY <2>2, Found
  <2> QED
    BY <1>2, <2>1, <2>2, <2>3
<1> HIDE DEF R
<1>5. 0 \in P
  <2>1. \A id \in I : ~(R(id) <= 0)
    BY <1>1, <1>3
  <2> QED
    BY <1>1, <2>1
<1>6. ASSUME NEW n \in 1..N + 1, n - 1 \in P PROVE n \in P
  <2> SUFFICES ASSUME NEW id \in I, NEW V \in SUBSET I, R(id) <= n, Above(id, V)
               PROVE  Visits(steps)[n][id][V]
    BY <1>1
  <2>1. R(id) \in 1..N /\ \A v \in V : R(v) \in 1..N
    BY <1>3
  <2>2. id \notin V
    BY <2>1
  <2>3. ASSUME NEW d \in DepsOf(steps, id) PROVE Visits(steps)[n - 1][d][V \cup {id}]
    <3>1. d \in I /\ R(d) < R(id) /\ R(d) \in 1..N
      BY <1>3, <1>4
    <3>2. R(d) <= n - 1
      BY <1>1, <2>1, <3>1
    <3>3. Above(d, V \cup {id})
      <4>1. \A v \in V : R(d) < R(v)
        BY <1>1, <2>1, <3>1
      <4> QED
        BY <3>1, <4>1
    <3>4. V \cup {id} \in SUBSET I
      OBVIOUS
    <3> HIDE DEF Above
    <3> QED
      BY <1>6, <3>1, <3>2, <3>3, <3>4
  <2>4. n \in 0..N + 1 /\ n > 0
    BY <1>1
  <2> QED
    BY <2>2, <2>3, <2>4, <1>1, VisitsMeans
<1>7. 0..N + 1 \subseteq P
  <2>1. N + 1 \in Nat
    BY <1>1
  <2> HIDE DEF P
  <2> QED
    BY <1>5, <1>6, <2>1, UpTo
<1>8. ASSUME NEW id \in I PROVE Visits(steps)[N + 1][id][{}]
  <2>1. R(id) <= N + 1 /\ Above(id, {}) /\ N + 1 \in 0..N + 1
    BY <1>1, <1>3
  <2>2. N + 1 \in P
    BY <1>7, <2>1
  <2> HIDE DEF Above
  <2> QED
    BY <2>1, <2>2
<1> QED
  BY <1>8 DEF Acyclic

\* PlanValidator._reject_cycles is exact, for plans of any length: it rejects
\* every plan that goes in circles and no other.
THEOREM CyclesAreFound ==
  ASSUME NEW steps \in Seq(PlanStep), UniqueIds(steps), KnownDeps(steps)
  PROVE  Acyclic(steps) <=> CanBeOrdered(steps)
BY AcyclicCanBeOrdered, OrderedIsAcyclic

(***************************************************************************)
(* The plan that is made of a request.                                     *)
(***************************************************************************)
\* What any of the planner's sources proposes has the form of a plan.
LEMMA ProposalsTyped ==
  ASSUME NEW r, IsRequest(r)
  PROVE  Proposed(r) \in PlanProposal
<1>1. ASSUME NEW d \in Name, NEW c \in Name, NEW a \in Argument
      PROVE  Single("guided", d, c, a) \in PlanProposal
  <2> DEFINE step == Step("guided", d, c, a, {}, "")
  <2>1. "guided" \in StepId /\ "PENDING" \in StepStatus /\ {} \in SUBSET StepId
    BY SupervisorAssumption DEF StepStatus
  <2>2. "" \in Name
    BY SupervisorAssumption DEF ListedNames
  <2>3. step = [id |-> "guided", domain |-> d, specialist |-> d, cap |-> c, args |-> a,
                deps |-> {}, cond |-> "", status |-> "PENDING"]
    BY DEF Step
  <2> HIDE DEF step
  <2>4. step \in PlanStep
    BY <2>2, <2>1, <2>3 DEF PlanStep
  <2>5. step.status = "PENDING"
    BY <2>3
  <2>6. step \in NewStep
    BY <2>4, <2>5 DEF NewStep
  <2>7. <<step>> \in Seq(NewStep)
    BY <2>6
  <2>8. Proposal("SINGLE_DOMAIN", <<step>>) \in PlanProposal
    BY <2>7 DEF Proposal, PlanProposal, PlanClass
  <2> QED
    BY <2>8 DEF Single, step
<1>2. r.filled \in Argument /\ ListArgs \in Argument /\ r.model \in PlanProposal
  BY SupervisorAssumption DEF IsRequest
<1>3. /\ Single("guided", "announcement", "announcement_create_draft", r.filled) \in PlanProposal
      /\ Single("guided", "inspection", "inspection_create", r.filled) \in PlanProposal
      /\ Single("guided", "inspection", "inspection_list", ListArgs) \in PlanProposal
      /\ Single("guided", "repair", "repair_create", r.filled) \in PlanProposal
  <2>1. /\ {"announcement", "inspection", "repair"} \subseteq Name
        /\ {"announcement_create_draft", "inspection_create", "inspection_list",
            "repair_create"} \subseteq Name
    BY SupervisorAssumption DEF ListedNames
  <2> QED
    BY <1>1, <1>2, <2>1
<1> QED
  BY <1>2, <1>3, Zenon DEF Proposed, SemanticProposal

\* The plan that is kept is sound: nothing of it was tried yet.
LEMMA CreatedPlanSound ==
  ASSUME NEW r, IsRequest(r), NEW p, p = CreatedPlan(r)
  PROVE  /\ p \in PlanProposal
         /\ \A outcomes : Sound(p.steps, outcomes)
         /\ AllHandled(p.steps)
         /\ p.class = "GENERAL_HELP" => p.steps = <<>>
<1> DEFINE q == Normalized(Proposed(r))
<1>1. q \in PlanProposal /\ (q.class = "GENERAL_HELP" => q.steps = <<>>)
  <2>1. CASE {Proposed(r).steps[i].domain : i \in DOMAIN Proposed(r).steps} = {}
    <3>1. q = Proposed(r)
      BY <2>1 DEF Normalized
    <3>2. Proposed(r).steps = <<>>
      <4>1. Proposed(r).steps \in Seq(NewStep)
        BY ProposalsTyped DEF PlanProposal
      <4>2. DOMAIN Proposed(r).steps = {}
        BY <2>1, Zenon
      <4>3. ASSUME NEW S, NEW e \in Seq(S), DOMAIN e = {} PROVE e = <<>>
        <5>1. Len(e) \in Nat /\ DOMAIN e = 1..Len(e)
          OBVIOUS
        <5>2. Len(e) = 0
          <6>1. Len(e) # 0 => 1 \in 1..Len(e)
            BY <5>1
          <6> QED
            BY <4>3, <5>1, <6>1
        <5> QED
          BY <5>2
      <4> QED
        BY <4>1, <4>2, <4>3
    <3> QED
      BY <3>1, <3>2, ProposalsTyped
  <2>2. CASE {Proposed(r).steps[i].domain : i \in DOMAIN Proposed(r).steps} # {}
    BY <2>2, ProposalsTyped DEF Normalized, Proposal, PlanProposal, PlanClass
  <2> QED
    BY <2>1, <2>2
<1>2. p \in PlanProposal /\ (p.class = "GENERAL_HELP" => p.steps = <<>>)
  BY <1>1 DEF CreatedPlan, Uncertain, Proposal, PlanProposal, PlanClass
<1>3. PlanOK(p.steps)
  <2>1. CASE p = Uncertain
    <3>1. p.steps = <<>> /\ DOMAIN p.steps = {}
      BY <2>1 DEF Uncertain, Proposal
    <3>2. [i \in {} |-> 1] \in [DOMAIN p.steps -> 1..Len(p.steps)]
      BY <3>1
    <3> QED
      BY <3>1, <3>2 DEF PlanOK, UniqueIds, KnownDeps, KnownCaps, CanBeOrdered
  <2>2. CASE p # Uncertain
    <3>1. Valid(p)
      BY <2>2 DEF CreatedPlan
    <3>2. UniqueIds(p.steps) /\ KnownDeps(p.steps) /\ KnownCaps(p.steps) /\ Acyclic(p.steps)
      BY ZenonT(60), <3>1 DEF Valid, ValidStep, UniqueIds, KnownDeps, KnownCaps
    <3>3. p.steps \in Seq(PlanStep)
      BY <1>2 DEF PlanProposal, NewStep
    <3> QED
      BY <3>2, <3>3, AcyclicCanBeOrdered DEF PlanOK
  <2> QED
    BY <2>1, <2>2
<1>4. \A i \in DOMAIN p.steps : p.steps[i].status = "PENDING"
  BY <1>2 DEF PlanProposal, NewStep
<1>5. \A outcomes : InOrder(p.steps) /\ Accounted(p.steps, outcomes)
  BY <1>4 DEF InOrder, Accounted, Settled
<1>6. AllHandled(p.steps)
  BY <1>4 DEF AllHandled, Handled
<1> QED
  BY <1>2, <1>3, <1>5, <1>6 DEF Sound

(***************************************************************************)
(* What becomes of a plan when the status of one of its steps changes.     *)
(***************************************************************************)
Marked(steps, i, v) == [steps EXCEPT ![i].status = v]
Recorded(outcomes, id, o) ==
    [x \in DOMAIN outcomes \cup {id} |-> IF x = id THEN o ELSE outcomes[x]]

\* Only that changes.
LEMMA MarkedOne ==
  ASSUME NEW steps \in Seq(PlanStep), NEW i \in DOMAIN steps, NEW v \in StepStatus
  PROVE  /\ Marked(steps, i, v) \in Seq(PlanStep)
         /\ DOMAIN Marked(steps, i, v) = DOMAIN steps
         /\ Len(Marked(steps, i, v)) = Len(steps)
         /\ \A j \in DOMAIN steps :
              /\ Marked(steps, i, v)[j].id = steps[j].id
              /\ Marked(steps, i, v)[j].deps = steps[j].deps
              /\ Marked(steps, i, v)[j].cap = steps[j].cap
              /\ Marked(steps, i, v)[j].status = IF j = i THEN v ELSE steps[j].status
<1>1. steps[i] \in PlanStep
  OBVIOUS
<1>2. [steps[i] EXCEPT !.status = v] \in PlanStep
  BY <1>1 DEF PlanStep
<1> QED
  BY <1>1, <1>2 DEF Marked, PlanStep

\* A plan that has the same identifiers, capabilities and dependencies can be
\* ordered as before.
LEMMA SameShape ==
  ASSUME NEW steps, NEW other, PlanOK(steps), DOMAIN other = DOMAIN steps,
         Len(other) = Len(steps), KnownCaps(other),
         \A j \in DOMAIN steps : other[j].id = steps[j].id /\ other[j].deps = steps[j].deps
  PROVE  PlanOK(other) /\ Ids(other) = Ids(steps)
<1>1. Ids(other) = Ids(steps)
  BY DEF Ids
<1> QED
  BY <1>1 DEF PlanOK, UniqueIds, KnownDeps, CanBeOrdered

\* A step whose dependencies are settled, and that was not, may become what
\* its outcome says; or it goes back to where it was.
LEMMA MarkedSound ==
  ASSUME NEW steps \in Seq(PlanStep), NEW outcomes, Sound(steps, outcomes),
         NEW i \in DOMAIN steps, steps[i].status \notin Settled,
         NEW v \in StepStatus, v # "PENDING" => DepsSettled(steps, i),
         NEW after,
         \A j \in DOMAIN steps : j # i /\ steps[j].id \in DOMAIN outcomes =>
             steps[j].id \in DOMAIN after /\ after[steps[j].id] = outcomes[steps[j].id],
         v \in Settled =>
             /\ steps[i].id \in DOMAIN after
             /\ after[steps[i].id] \in NonFailures \cup {"FAILED"},
         v = "FAILED" => steps[i].id \in DOMAIN after /\ after[steps[i].id] = "FAILED"
  PROVE  Sound(Marked(steps, i, v), after)
<1> DEFINE m == Marked(steps, i, v)
<1>1. /\ DOMAIN m = DOMAIN steps /\ Len(m) = Len(steps)
      /\ \A j \in DOMAIN steps :
           /\ m[j].id = steps[j].id /\ m[j].deps = steps[j].deps /\ m[j].cap = steps[j].cap
           /\ m[j].status = IF j = i THEN v ELSE steps[j].status
  BY MarkedOne
<1> HIDE DEF m
<1>2. PlanOK(m)
  BY <1>1, SameShape DEF Sound, PlanOK, KnownCaps
<1>3. ASSUME NEW j \in DOMAIN steps, DepsSettled(steps, j) PROVE DepsSettled(m, j)
  BY <1>1, <1>3 DEF DepsSettled
<1>4. InOrder(m)
  BY <1>1, <1>3 DEF InOrder, Sound
<1>5. Accounted(m, after)
  BY <1>1 DEF Accounted, Sound
<1> QED
  BY <1>2, <1>4, <1>5 DEF Sound, m

(***************************************************************************)
(* What the operations on the AgentState do.                               *)
(***************************************************************************)
OutcomeMap == UNION {[ids -> StepOutcome] : ids \in SUBSET StepId}

\* The fields that say what a plan has used up.
SameSpent(st, r) ==
    /\ r.class = st.class /\ r.started = st.started /\ r.deadline = st.deadline
    /\ r.visits = st.visits /\ r.delegations = st.delegations /\ r.cross = st.cross
    /\ r.invocation = st.invocation

\* r is st with these steps, outcomes, current step, status and offer.
Becomes(st, r, steps, outcomes, current, status, pending) ==
    /\ r \in AgentState
    /\ r.steps = steps /\ r.outcomes = outcomes /\ r.current = current
    /\ r.status = status /\ r.pending = pending
    /\ SameSpent(st, r)

\* An outcome that is recorded replaces the one before, of that step only.
LEMMA RecordedTyped ==
  ASSUME NEW outcomes \in OutcomeMap, NEW id \in StepId, NEW o \in StepOutcome
  PROVE  /\ Recorded(outcomes, id, o) \in OutcomeMap
         /\ DOMAIN Recorded(outcomes, id, o) = DOMAIN outcomes \cup {id}
         /\ Recorded(outcomes, id, o)[id] = o
         /\ \A x \in DOMAIN outcomes : x # id => Recorded(outcomes, id, o)[x] = outcomes[x]
<1>1. PICK ids \in SUBSET StepId : outcomes \in [ids -> StepOutcome]
  BY DEF OutcomeMap
<1>2. Recorded(outcomes, id, o) \in [ids \cup {id} -> StepOutcome]
  BY <1>1 DEF Recorded
<1>3. ids \cup {id} \in SUBSET StepId
  BY <1>1
<1>4. Recorded(outcomes, id, o) \in OutcomeMap
  BY <1>2, <1>3 DEF OutcomeMap
<1> QED
  BY <1>4 DEF Recorded

\* The types of the fields.
LEMMA Fields ==
  ASSUME NEW st \in AgentState
  PROVE  /\ st.steps \in Seq(PlanStep) /\ st.outcomes \in OutcomeMap
         /\ st.current \in StepId \cup {""} /\ st.status \in PlanStatus
         /\ st.pending \in Shown \cup {None} /\ st.results \in Seq(Result)
         /\ st.class \in PlanClass \cup {"NONE"}
         /\ st.started \in Nat /\ st.deadline \in Nat /\ st.visits \in Nat
         /\ st.replans \in Nat /\ st.delegations \in Nat /\ st.cross \in Nat
         /\ st.clarifications \in Nat
         /\ st.invocation \in [calls : Nat, seen : SUBSET (Name \X CallArgs)]
  BY DEF AgentState, OutcomeMap

\* New steps leave the rest of the state alone.
LEMMA SetSteps ==
  ASSUME NEW st \in AgentState, NEW steps \in Seq(PlanStep)
  PROVE  Becomes(st, [st EXCEPT !.steps = steps], steps, st.outcomes, st.current,
                 st.status, st.pending)
  BY DEF AgentState, Becomes, SameSpent

\* New outcomes leave the rest of the state alone.
LEMMA SetOutcomes ==
  ASSUME NEW st \in AgentState, NEW outcomes \in OutcomeMap
  PROVE  Becomes(st, [st EXCEPT !.outcomes = outcomes], st.steps, outcomes, st.current,
                 st.status, st.pending)
  BY DEF AgentState, Becomes, SameSpent, OutcomeMap

\* A new status leaves the rest of the state alone.
LEMMA SetStatus ==
  ASSUME NEW st \in AgentState, NEW status \in PlanStatus
  PROVE  Becomes(st, [st EXCEPT !.status = status], st.steps, st.outcomes, st.current,
                 status, st.pending)
  BY DEF AgentState, Becomes, SameSpent

\* A new offer leaves the rest of the state alone.
LEMMA SetPending ==
  ASSUME NEW st \in AgentState, NEW pending \in Shown \cup {None}
  PROVE  Becomes(st, [st EXCEPT !.pending = pending], st.steps, st.outcomes, st.current,
                 st.status, pending)
  BY DEF AgentState, Becomes, SameSpent

\* Another current step leaves the rest of the state alone.
LEMMA SetCurrent ==
  ASSUME NEW st \in AgentState, NEW current \in StepId \cup {""}
  PROVE  Becomes(st, [st EXCEPT !.current = current], st.steps, st.outcomes, current,
                 st.status, st.pending)
  BY DEF AgentState, Becomes, SameSpent

\* Two such changes are one.
LEMMA Twice ==
  ASSUME NEW st, NEW r, NEW t, NEW s1, NEW o1, NEW c1, NEW u1, NEW p1,
         NEW s2, NEW o2, NEW c2, NEW u2, NEW p2,
         Becomes(st, r, s1, o1, c1, u1, p1), Becomes(r, t, s2, o2, c2, u2, p2)
  PROVE  Becomes(st, t, s2, o2, c2, u2, p2)
  BY DEF Becomes, SameSpent

\* Mark changes the status of the one step it names, as the identifiers of
\* a plan are distinct (replace_step).
LEMMA MarkDoes ==
  ASSUME NEW st \in AgentState, UniqueIds(st.steps), NEW i \in DOMAIN st.steps,
         NEW v \in StepStatus
  PROVE  Becomes(st, Mark(st, st.steps[i].id, v), Marked(st.steps, i, v), st.outcomes,
                 st.current, st.status, st.pending)
<1>1. Mark(st, st.steps[i].id, v) = [st EXCEPT !.steps = Marked(st.steps, i, v)]
  <2>1. At(st.steps, st.steps[i].id) = i
    BY Found
  <2> QED
    BY <2>1 DEF Mark, Marked, AgentState
<1>2. Marked(st.steps, i, v) \in Seq(PlanStep)
  BY Fields, MarkedOne
<1> QED
  BY <1>1, <1>2, SetSteps

\* Record keeps one more outcome, or another one of the same step.
LEMMA RecordDoes ==
  ASSUME NEW st \in AgentState, NEW id \in StepId, NEW o \in StepOutcome
  PROVE  Becomes(st, Record(st, id, o), st.steps, Recorded(st.outcomes, id, o),
                 st.current, st.status, st.pending)
<1>1. Record(st, id, o) = [st EXCEPT !.outcomes = Recorded(st.outcomes, id, o)]
  BY DEF Record, Recorded, AgentState
<1>2. Recorded(st.outcomes, id, o) \in OutcomeMap
  BY Fields, RecordedTyped
<1> QED
  BY <1>1, <1>2, SetOutcomes

\* A step of a plan has a known identifier.
LEMMA StepTyped ==
  ASSUME NEW st \in AgentState, NEW i \in DOMAIN st.steps
  PROVE  /\ st.steps[i] \in PlanStep /\ st.steps[i].id \in StepId /\ st.steps[i].id # ""
         /\ st.steps[i].cap \in Name /\ st.steps[i].args \in Argument
         /\ st.steps[i].domain \in Name /\ st.steps[i].status \in StepStatus
<1>1. st.steps \in Seq(PlanStep)
  BY Fields
<1>2. st.steps[i] \in PlanStep
  BY <1>1
<1> QED
  BY <1>2, SupervisorAssumption DEF PlanStep

\* Every answer of a specialist is a Mark and a Record of the same step.
LEMMA MarkRecordDoes ==
  ASSUME NEW st \in AgentState, UniqueIds(st.steps), NEW i \in DOMAIN st.steps,
         NEW v \in StepStatus, NEW o \in StepOutcome
  PROVE  Becomes(st, Record(Mark(st, st.steps[i].id, v), st.steps[i].id, o),
                 Marked(st.steps, i, v), Recorded(st.outcomes, st.steps[i].id, o),
                 st.current, st.status, st.pending)
<1> DEFINE m == Mark(st, st.steps[i].id, v)
<1>1. Becomes(st, m, Marked(st.steps, i, v), st.outcomes, st.current, st.status, st.pending)
  BY MarkDoes
<1>2. st.steps[i].id \in StepId
  BY StepTyped
<1> HIDE DEF m
<1>3. /\ m \in AgentState /\ m.steps = Marked(st.steps, i, v) /\ m.outcomes = st.outcomes
      /\ m.current = st.current /\ m.status = st.status /\ m.pending = st.pending
  BY <1>1 DEF Becomes
<1>4. Becomes(m, Record(m, st.steps[i].id, o), Marked(st.steps, i, v),
              Recorded(st.outcomes, st.steps[i].id, o), st.current, st.status, st.pending)
  BY <1>2, <1>3, RecordDoes
<1>5. Becomes(st, Record(m, st.steps[i].id, o), Marked(st.steps, i, v),
              Recorded(st.outcomes, st.steps[i].id, o), st.current, st.status, st.pending)
  BY <1>1, <1>4, Twice
<1> QED
  BY <1>5 DEF m

(***************************************************************************)
(* How the parts of the invariant fare.                                    *)
(***************************************************************************)
\* A step that was not settled moves on with an outcome that fits, or is put
\* back: the plan stays sound.
LEMMA StaysSound ==
  ASSUME NEW st \in AgentState, Sound(st.steps, st.outcomes), NEW i \in DOMAIN st.steps,
         st.steps[i].status \notin Settled, DepsSettled(st.steps, i),
         NEW v \in StepStatus, NEW o \in StepOutcome,
         v \in Settled => o \in NonFailures \cup {"FAILED"}, v = "FAILED" => o = "FAILED"
  PROVE  Sound(Marked(st.steps, i, v), Recorded(st.outcomes, st.steps[i].id, o))
<1> DEFINE after == Recorded(st.outcomes, st.steps[i].id, o)
<1>1. /\ st.steps \in Seq(PlanStep) /\ st.outcomes \in OutcomeMap /\ st.steps[i].id \in StepId
      /\ UniqueIds(st.steps)
  BY Fields, StepTyped DEF Sound, PlanOK
<1>2. /\ DOMAIN after = DOMAIN st.outcomes \cup {st.steps[i].id}
      /\ after[st.steps[i].id] = o
      /\ \A x \in DOMAIN st.outcomes : x # st.steps[i].id => after[x] = st.outcomes[x]
  BY DEF Recorded
<1> HIDE DEF after
<1>3. \A j \in DOMAIN st.steps : j # i => st.steps[j].id # st.steps[i].id
  BY <1>1 DEF UniqueIds
<1>4. Sound(Marked(st.steps, i, v), after)
  BY <1>1, <1>2, <1>3, MarkedSound
<1> QED
  BY <1>4 DEF after

\* What was recorded of other steps stays true as calls are added.
LEMMA StaysDone ==
  ASSUME NEW outcomes \in OutcomeMap, NEW cs, DoneIn(outcomes, cs),
         NEW id \in StepId, NEW o \in StepOutcome,
         NEW more, \A i \in DOMAIN cs : i \in DOMAIN more /\ more[i] = cs[i],
         o = "COMPLETED" => \E i \in DOMAIN more : more[i].id = id /\ more[i].done
  PROVE  DoneIn(Recorded(outcomes, id, o), more)
<1> DEFINE after == Recorded(outcomes, id, o)
<1>1. /\ DOMAIN after = DOMAIN outcomes \cup {id} /\ after[id] = o
      /\ \A x \in DOMAIN outcomes : x # id => after[x] = outcomes[x]
  BY DEF Recorded
<1> HIDE DEF after
<1>2. DoneIn(after, more)
  BY <1>1 DEF DoneIn
<1> QED
  BY <1>2 DEF after

\* What is on offer was not done as long as nothing is recorded as done.
LEMMA StaysOpen ==
  ASSUME NEW outcomes \in OutcomeMap, NEW pending, OfferOpen(pending, outcomes),
         NEW id \in StepId, NEW o \in StepOutcome, o # "COMPLETED"
  PROVE  OfferOpen(pending, Recorded(outcomes, id, o))
<1> DEFINE after == Recorded(outcomes, id, o)
<1>1. /\ DOMAIN after = DOMAIN outcomes \cup {id} /\ after[id] = o
      /\ \A x \in DOMAIN outcomes : x # id => after[x] = outcomes[x]
  BY DEF Recorded
<1> HIDE DEF after
<1>2. OfferOpen(pending, after)
  BY <1>1 DEF OfferOpen
<1> QED
  BY <1>2 DEF after

(***************************************************************************)
(* The supervisor node.                                                    *)
(***************************************************************************)
\* A step may be next if those it depends on directly are settled.
LEMMA EligibleSteps ==
  ASSUME NEW st \in AgentState, PlanOK(st.steps)
  PROVE  Eligible(st) = {i \in DOMAIN st.steps :
                           st.steps[i].status = "PENDING" /\ DepsSettled(st.steps, i)}
<1> SUFFICES ASSUME NEW i \in DOMAIN st.steps
             PROVE  DependenciesCompleted(st, st.steps[i]) <=> DepsSettled(st.steps, i)
  BY DEF Eligible
<1>1. /\ \A j \in DOMAIN st.steps : At(st.steps, st.steps[j].id) = j
      /\ \A d \in st.steps[i].deps :
           At(st.steps, d) \in DOMAIN st.steps /\ st.steps[At(st.steps, d)].id = d
  BY Found DEF PlanOK, KnownDeps
<1>2. ASSUME DependenciesCompleted(st, st.steps[i]) PROVE DepsSettled(st.steps, i)
  BY <1>1, <1>2 DEF DependenciesCompleted, DepsSettled, StepOf
<1>3. ASSUME DepsSettled(st.steps, i) PROVE DependenciesCompleted(st, st.steps[i])
  BY <1>1, <1>3 DEF DependenciesCompleted, DepsSettled, StepOf
<1> QED
  BY <1>2, <1>3

\* The first of them is one of them.
LEMMA FirstIsEligible ==
  ASSUME NEW st \in AgentState, PlanOK(st.steps), Eligible(st) # {}
  PROVE  \E i \in DOMAIN st.steps :
           /\ FirstEligible(st) = st.steps[i]
           /\ st.steps[i].status = "PENDING" /\ DepsSettled(st.steps, i)
<1>1. Eligible(st) \subseteq DOMAIN st.steps /\ DOMAIN st.steps \subseteq Nat
  <2>1. st.steps \in Seq(PlanStep)
    BY Fields
  <2>2. DOMAIN st.steps = 1..Len(st.steps) /\ Len(st.steps) \in Nat
    BY <2>1
  <2> QED
    BY <2>2 DEF Eligible
<1>2. \E i \in Eligible(st) : \A j \in Eligible(st) : i <= j
  BY <1>1, Least
<1>3. Min(Eligible(st)) \in Eligible(st)
  BY <1>2 DEF Min
<1> QED
  BY <1>1, <1>3, EligibleSteps DEF FirstEligible

\* The states that skipping goes through.
Selectable(st, cs) ==
    {x \in AgentState :
        /\ SameSpent(st, x) /\ x.status = "ACTIVE"
        /\ Sound(x.steps, x.outcomes) /\ AllHandled(x.steps)
        /\ OfferOpen(x.pending, x.outcomes) /\ DoneIn(x.outcomes, cs)}

\* A step that is skipped was eligible, so that what was selectable stays so.
LEMMA SkipKeeps ==
  ASSUME NEW st, NEW cs, NEW x \in Selectable(st, cs), NEW judge
  PROVE  Skip(x, judge) \in Selectable(st, cs)
<1>1. /\ x \in AgentState /\ SameSpent(st, x) /\ x.status = "ACTIVE"
      /\ Sound(x.steps, x.outcomes) /\ AllHandled(x.steps)
      /\ OfferOpen(x.pending, x.outcomes) /\ DoneIn(x.outcomes, cs)
  BY DEF Selectable
<1>2. CASE Skip(x, judge) = x
  BY <1>2
<1>3. CASE Eligible(x) # {} /\ Skip(x, judge) # x
  <2>1. PICK i \in DOMAIN x.steps :
          /\ FirstEligible(x) = x.steps[i]
          /\ x.steps[i].status = "PENDING" /\ DepsSettled(x.steps, i)
    BY <1>1, <1>3, FirstIsEligible DEF Sound
  <2> DEFINE id == x.steps[i].id
             m == Marked(x.steps, i, "SKIPPED")
             after == Recorded(x.outcomes, id, "CONDITION_NOT_MET")
             r == Record(Mark(x, id, "SKIPPED"), id, "CONDITION_NOT_MET")
  <2>2. Skip(x, judge) = r
    BY <1>3, <2>1 DEF Skip
  <2>3. /\ "SKIPPED" \in StepStatus /\ "CONDITION_NOT_MET" \in StepOutcome
        /\ "CONDITION_NOT_MET" \in NonFailures /\ x.steps[i].status \notin Settled
        /\ "SKIPPED" \in Handled
    BY <2>1 DEF StepStatus, StepOutcome, NonFailures, Settled, Handled
  <2>4. Becomes(x, r, m, after, x.current, x.status, x.pending)
    BY <1>1, <2>3, MarkRecordDoes DEF Sound, PlanOK
  <2>5. Sound(m, after)
    BY <1>1, <2>1, <2>3, StaysSound
  <2>6. AllHandled(m)
    <3>1. x.steps \in Seq(PlanStep)
      BY <1>1, Fields
    <3>2. /\ DOMAIN m = DOMAIN x.steps
          /\ \A j \in DOMAIN x.steps :
               m[j].status = IF j = i THEN "SKIPPED" ELSE x.steps[j].status
      BY <2>3, <3>1, MarkedOne
    <3> HIDE DEF m
    <3> QED
      BY <1>1, <2>3, <3>2 DEF AllHandled
  <2>7. x.outcomes \in OutcomeMap /\ id \in StepId
    BY <1>1, Fields, StepTyped
  <2>8. OfferOpen(x.pending, after)
    BY <1>1, <2>3, <2>7, StaysOpen
  <2>9. DoneIn(after, cs)
    BY <1>1, <2>3, <2>7, StaysDone
  <2> HIDE DEF r, m, after
  <2> QED
    BY <1>1, <2>2, <2>4, <2>5, <2>6, <2>8, <2>9 DEF Selectable, Becomes, SameSpent
<1> QED
  BY <1>2, <1>3 DEF Skip

\* However many steps are skipped, what is left can be selected from.
LEMMA SkipsKeep ==
  ASSUME NEW st, NEW cs, st \in Selectable(st, cs), NEW judge
  PROVE  Skips(st, judge)[Len(st.steps)] \in Selectable(st, cs)
<1> DEFINE S == Selectable(st, cs)
           N == Len(st.steps)
           F == [x \in S |-> Skip(x, judge)]
           Body(h) == [n \in 0..N |-> IF n = 0 THEN st ELSE Skip(h[n - 1], judge)]
<1>1. F \in [S -> S]
  BY SkipKeeps
<1>2. N \in Nat
  <2>1. st.steps \in Seq(PlanStep)
    BY Fields DEF Selectable
  <2> QED
    BY <2>1
<1>3. PICK g : Iterates(g, S, st, F, N)
  <2> HIDE DEF S, F, N
  <2> QED
    BY <1>1, <1>2, Iterated DEF S
<1>4. g = Body(g)
  <2>1. g = [n \in 0..N |-> g[n]]
    BY <1>3 DEF Iterates
  <2>2. ASSUME NEW n \in 0..N
        PROVE  g[n] = IF n = 0 THEN st ELSE Skip(g[n - 1], judge)
    <3>1. CASE n = 0
      BY <1>3, <3>1 DEF Iterates
    <3>2. CASE n # 0
      <4>1. n - 1 \in 0..N
        BY <1>2, <3>2
      <4>2. g[n - 1] \in S /\ g[n] = F[g[n - 1]]
        BY <1>3, <3>2, <4>1 DEF Iterates
      <4> QED
        BY <3>2, <4>2
    <3> QED
      BY <3>1, <3>2
  <2> QED
    BY <2>1, <2>2
<1>5. Skips(st, judge) = Body(Skips(st, judge))
  <2>1. Skips(st, judge) = CHOOSE h : h = Body(h)
    BY DEF Skips
  <2> HIDE DEF Body
  <2> QED
    BY <1>4, <2>1
<1> DEFINE h == Skips(st, judge)
           P == {n \in 0..N : h[n] \in S}
<1>6. \A n \in 0..N : h[n] = IF n = 0 THEN st ELSE Skip(h[n - 1], judge)
  <2>1. \A n \in 0..N : Body(h)[n] = IF n = 0 THEN st ELSE Skip(h[n - 1], judge)
    OBVIOUS
  <2> HIDE DEF Body
  <2> QED
    BY <1>5, <2>1
<1>7. 0 \in P
  BY <1>2, <1>6
<1>8. ASSUME NEW n \in 1..N, n - 1 \in P PROVE n \in P
  BY <1>2, <1>6, <1>8, SkipKeeps
<1>9. 0..N \subseteq P
  <2> HIDE DEF P
  <2> QED
    BY <1>2, <1>7, <1>8, UpTo
<1> QED
  BY <1>2, <1>9

\* When nothing is left to try and nothing failed, everything went well: a
\* step that is left would wait for another one that is left, without end.
LEMMA FinishedWell ==
  ASSUME NEW st \in AgentState, Sound(st.steps, st.outcomes), AllHandled(st.steps),
         Eligible(st) = {}, "FAILED" \notin Outcomes(st)
  PROVE  AllWell(st.steps, st.outcomes)
<1>1. PICK rank \in [DOMAIN st.steps -> 1..Len(st.steps)] :
        \A i, j \in DOMAIN st.steps : st.steps[j].id \in st.steps[i].deps => rank[j] < rank[i]
  BY DEF Sound, PlanOK, CanBeOrdered
<1>2. \A i \in DOMAIN st.steps : st.steps[i].status # "FAILED"
  BY DEF Sound, Accounted, Outcomes
<1>3. \A i \in DOMAIN st.steps : st.steps[i].status # "PENDING"
  <2> DEFINE Left == {rank[i] : i \in {i \in DOMAIN st.steps : st.steps[i].status = "PENDING"}}
  <2> SUFFICES ASSUME Left # {} PROVE FALSE
    OBVIOUS
  <2>1. Left \subseteq Nat
    BY <1>1
  <2>2. PICK n \in Left : \A m \in Left : n <= m
    <3> HIDE DEF Left
    <3> QED
      BY <2>1, Least
  <2>3. PICK i \in DOMAIN st.steps : st.steps[i].status = "PENDING" /\ n = rank[i]
    OBVIOUS
  <2>4. ASSUME NEW j \in DOMAIN st.steps, st.steps[j].id \in st.steps[i].deps
        PROVE  st.steps[j].status \in Settled
    <3>1. rank[j] < rank[i] /\ rank[j] \in Nat /\ rank[i] \in Nat
      BY <1>1, <2>1, <2>3, <2>4
    <3>2. rank[j] \notin Left
      <4> HIDE DEF Left
      <4> QED
        BY <2>2, <2>3, <3>1
    <3>3. st.steps[j].status # "PENDING"
      BY <3>2
    <3> QED
      BY <1>2, <3>3 DEF AllHandled, Handled
  <2>5. i \in Eligible(st)
    BY <2>3, <2>4, EligibleSteps DEF Sound, DepsSettled
  <2> QED
    BY <2>5
<1>4. \A i \in DOMAIN st.steps : st.steps[i].status \in Settled
  BY <1>2, <1>3 DEF AllHandled, Handled
<1> QED
  BY <1>4 DEF AllWell, Sound, Accounted, Outcomes

\* A plan that is given up, or handed on, keeps what was true of it.
LEMMA StatusKeeps ==
  ASSUME NEW st, NEW cs, StateInv(st, cs), st.status # "NONE", NEW r, NEW current, NEW status,
         status \in {"FAILED", "PARTIAL", "NEEDS_CLARIFICATION", "HANDOVER"},
         Becomes(st, r, st.steps, st.outcomes, current, status, st.pending)
  PROVE  StateInv(r, cs)
<1>1. WithinBudget(r)
  BY DEF StateInv, WithinBudget, Becomes, SameSpent
<1>2. StatusFits(r)
  BY DEF StateInv, StatusFits, Becomes, SameSpent
<1> QED
  BY <1>1, <1>2 DEF StateInv, Becomes

\* The end of a plan sets its status and leaves no current step.
LEMMA SetStatusCurrent ==
  ASSUME NEW st \in AgentState, NEW status \in PlanStatus
  PROVE  Becomes(st, [st EXCEPT !.status = status, !.current = ""], st.steps, st.outcomes,
                 "", status, st.pending)
  BY DEF AgentState, Becomes, SameSpent

\* _select_next_eligible ends in a step that may be tried, or in an end of
\* the plan that is what its outcomes say.
LEMMA SelectedKeeps ==
  ASSUME NEW st, NEW cs, st \in Selectable(st, cs), WithinBudget(st),
         st.class # "GENERAL_HELP", NEW judge, NEW r, r = Selected(st, judge)
  PROVE  /\ StateInv(r, cs) /\ SameSpent(st, r) /\ r.status # "WAITING_CONFIRMATION"
         /\ r.status = "ACTIVE" => Ready(r)
<1> DEFINE k == Skips(st, judge)[Len(st.steps)]
<1>1. k \in Selectable(st, cs)
  BY SkipsKeep
<1> HIDE DEF k
<1>2. /\ k \in AgentState /\ SameSpent(st, k) /\ k.status = "ACTIVE"
      /\ Sound(k.steps, k.outcomes) /\ AllHandled(k.steps)
      /\ OfferOpen(k.pending, k.outcomes) /\ DoneIn(k.outcomes, cs)
  BY <1>1 DEF Selectable
<1>3. WithinBudget(k) /\ k.class # "GENERAL_HELP"
  BY <1>2 DEF WithinBudget, SameSpent, Selectable
<1>4. StateInv(k, cs)
  BY <1>2, <1>3 DEF StateInv, StatusFits
<1>5. CASE Eligible(k) = {}
  <2>1. r = [k EXCEPT !.status = FinalStatus(k), !.current = ""]
    BY <1>5 DEF Selected, k
  <2>2. FinalStatus(k) \in {"COMPLETED", "PARTIAL", "FAILED"}
    BY DEF FinalStatus
  <2>3. Becomes(k, r, k.steps, k.outcomes, "", FinalStatus(k), k.pending)
    BY <1>2, <2>1, <2>2, SetStatusCurrent DEF PlanStatus
  <2>4. SameSpent(st, r) /\ r.status = FinalStatus(k)
    BY <1>2, <2>3 DEF Becomes, SameSpent
  <2>5. CASE FinalStatus(k) = "COMPLETED"
    <3>1. "FAILED" \notin Outcomes(k)
      BY <2>5 DEF FinalStatus
    <3>2. AllWell(r.steps, r.outcomes)
      BY <1>2, <1>5, <2>3, <3>1, FinishedWell DEF Becomes
    <3>3. StatusFits(r) /\ WithinBudget(r)
      BY <1>3, <2>3, <2>5, <3>2, <1>2 DEF StatusFits, WithinBudget, Becomes, SameSpent
    <3> QED
      BY <1>2, <2>3, <2>4, <2>5, <3>3 DEF StateInv, Becomes
  <2>6. CASE FinalStatus(k) # "COMPLETED"
    <3>1. StateInv(r, cs)
      BY <1>2, <1>4, <2>2, <2>3, <2>6, StatusKeeps
    <3> QED
      BY <2>2, <2>4, <3>1
  <2> QED
    BY <2>5, <2>6
<1>6. CASE Eligible(k) # {}
  <2>1. PICK i \in DOMAIN k.steps :
          /\ FirstEligible(k) = k.steps[i]
          /\ k.steps[i].status = "PENDING" /\ DepsSettled(k.steps, i)
    BY <1>2, <1>6, FirstIsEligible DEF Sound
  <2>2. k.steps[i].id \in StepId
    BY <1>2, StepTyped
  <2>3. r = [k EXCEPT !.current = k.steps[i].id]
    BY <1>6, <2>1 DEF Selected, k
  <2>4. Becomes(k, r, k.steps, k.outcomes, k.steps[i].id, k.status, k.pending)
    BY <1>2, <2>2, <2>3, SetCurrent
  <2>5. SameSpent(st, r) /\ r.status = "ACTIVE"
    BY <1>2, <2>4 DEF Becomes, SameSpent
  <2>6. StatusFits(r) /\ WithinBudget(r)
    BY <1>2, <1>3, <2>4 DEF StatusFits, WithinBudget, Becomes, SameSpent
  <2>7. StateInv(r, cs)
    BY <1>2, <2>4, <2>6 DEF StateInv, Becomes
  <2>8. Ready(r)
    BY <1>2, <2>1, <2>4 DEF Ready, Becomes
  <2> QED
    BY <2>5, <2>7, <2>8
<1> QED
  BY <1>5, <1>6

\* The limits are numbers.
LEMMA Bounds ==
  /\ MaxVisits \in Nat /\ MaxDelegations \in Nat /\ MaxCross \in Nat
  /\ Duration \in Nat /\ MaxCalls \in Nat
<1>1. \A n \in {MaxSteps, MaxVisits, MaxDelegations, MaxReplans, MaxCross, MaxClarifications,
                Duration, MaxTime, MaxCrashes} : n \in Nat
  BY SupervisorAssumption
<1>2. MaxVisits \in Nat /\ MaxDelegations \in Nat /\ MaxCross \in Nat /\ Duration \in Nat
  BY <1>1
<1> QED
  BY <1>2, CapabilityAssumption

\* A request starts without plan and without spending.
LEMMA NewStateKeeps ==
  ASSUME NEW cs
  PROVE  StateInv(NewState, cs)
<1>1. NewState \in AgentState
  <2>1. [x \in {} |-> ""] \in OutcomeMap
    <3>1. [x \in {} |-> ""] \in [{} -> StepOutcome] /\ {} \in SUBSET StepId
      OBVIOUS
    <3> QED
      BY <3>1 DEF OutcomeMap
  <2>2. Fresh \in [calls : Nat, seen : SUBSET (Name \X CallArgs)]
    BY DEF Fresh
  <2>3. <<>> \in Seq(PlanStep) /\ <<>> \in Seq(Result) /\ "NONE" \in PlanStatus
    BY DEF PlanStatus
  <2> QED
    BY <2>1, <2>2, <2>3 DEF NewState, AgentState, OutcomeMap
<1>2. /\ NewState.steps = <<>> /\ NewState.status = "NONE" /\ NewState.class = "NONE"
      /\ NewState.outcomes = [x \in {} |-> ""] /\ NewState.pending = None
      /\ NewState.visits = 0 /\ NewState.delegations = 0 /\ NewState.cross = 0
  BY DEF NewState
<1>3. PlanOK(<<>>)
  <2>1. DOMAIN <<>> = {} /\ [i \in {} |-> 1] \in [{} -> 1..Len(<<>>)]
    OBVIOUS
  <2> QED
    BY <2>1 DEF PlanOK, UniqueIds, KnownDeps, KnownCaps, CanBeOrdered
<1>4. Sound(NewState.steps, NewState.outcomes)
  BY <1>2, <1>3 DEF Sound, InOrder, Accounted
<1>5. StatusFits(NewState) /\ OfferOpen(NewState.pending, NewState.outcomes)
  BY <1>2 DEF StatusFits, OfferOpen
<1>6. DoneIn(NewState.outcomes, cs)
  BY <1>2 DEF DoneIn
<1>7. WithinBudget(NewState)
  BY <1>2, Bounds DEF WithinBudget
<1> QED
  BY <1>1, <1>4, <1>5, <1>6, <1>7 DEF StateInv

\* A state whose plan begins.
Begun(st, class, steps, current, start, end) ==
    [st EXCEPT !.class = class, !.steps = steps, !.status = "ACTIVE",
               !.current = current, !.started = start, !.deadline = end]

\* What that means for its fields.
BeginsAt(st, r, class, steps, start, end) ==
    /\ r \in AgentState /\ r.class = class /\ r.steps = steps /\ r.status = "ACTIVE"
    /\ r.started = start /\ r.deadline = end /\ r.visits = st.visits
    /\ r.delegations = st.delegations /\ r.cross = st.cross
    /\ r.outcomes = st.outcomes /\ r.pending = st.pending
    /\ r.invocation = st.invocation

\* The plan and its budget begin together, and nothing else changes.
LEMMA BegunDoes ==
  ASSUME NEW st, NEW class, NEW steps, NEW current, NEW start, NEW end,
         st \in AgentState, class \in PlanClass \cup {"NONE"}, steps \in Seq(PlanStep),
         current \in StepId \cup {""}, start \in Nat, end \in Nat
  PROVE  BeginsAt(st, Begun(st, class, steps, current, start, end), class, steps, start, end)
<1>1. "ACTIVE" \in PlanStatus
  BY DEF PlanStatus
<1> QED
  BY <1>1 DEF AgentState, Begun, BeginsAt

\* A plan is begun with the time it has, and with nothing spent.
LEMMA PlannedKeeps ==
  ASSUME IsRequest(request), now \in Nat, NEW cs, NEW r, r = Planned(NewState)
  PROVE  /\ StateInv(r, cs) /\ r.status = "ACTIVE"
         /\ r.invocation = NewState.invocation /\ r.deadline = r.started + Duration
<1> DEFINE p == CreatedPlan(request)
           first == IF p.steps = <<>> THEN "" ELSE p.steps[1].id
<1>1. /\ p \in PlanProposal /\ \A outcomes : Sound(p.steps, outcomes)
      /\ AllHandled(p.steps) /\ (p.class = "GENERAL_HELP" => p.steps = <<>>)
  BY CreatedPlanSound
<1>2. p.class \in PlanClass /\ p.steps \in Seq(PlanStep)
  BY <1>1 DEF PlanProposal, NewStep
<1>3. first \in StepId \cup {""}
  <2>1. CASE p.steps # <<>>
    <3>1. p.steps[1] \in PlanStep
      BY <1>2, <2>1
    <3> QED
      BY <2>1, <3>1 DEF PlanStep
  <2> QED
    BY <2>1
<1> HIDE DEF p, first
<1>4. StateInv(NewState, cs) /\ NewState \in AgentState
  BY NewStateKeeps DEF StateInv
<1>5. r = [NewState EXCEPT !.class = p.class, !.steps = p.steps, !.status = "ACTIVE",
                           !.current = first, !.started = now, !.deadline = now + Duration]
  BY Zenon DEF Planned, p, first
<1>6. /\ r \in AgentState /\ r.class = p.class /\ r.steps = p.steps /\ r.status = "ACTIVE"
      /\ r.started = now /\ r.deadline = now + Duration /\ r.visits = NewState.visits
      /\ r.delegations = NewState.delegations /\ r.cross = NewState.cross
      /\ r.outcomes = NewState.outcomes /\ r.pending = NewState.pending
      /\ r.invocation = NewState.invocation
  <2>1. now + Duration \in Nat /\ "ACTIVE" \in PlanStatus /\ p.class \in PlanClass \cup {"NONE"}
    BY <1>2, Bounds DEF PlanStatus
  <2>2. r = Begun(NewState, p.class, p.steps, first, now, now + Duration)
    BY <1>5 DEF Begun
  <2> QED
    <3>1. BeginsAt(NewState, r, p.class, p.steps, now, now + Duration)
      BY <1>2, <1>3, <1>4, <2>1, <2>2, BegunDoes
    <3> QED
      BY <3>1 DEF BeginsAt
<1>7. Sound(r.steps, r.outcomes) /\ StatusFits(r)
  BY <1>1, <1>6 DEF StatusFits
<1>8. WithinBudget(r)
  BY <1>4, <1>6, Bounds DEF StateInv, WithinBudget
<1>9. OfferOpen(r.pending, r.outcomes) /\ DoneIn(r.outcomes, cs)
  BY <1>4, <1>6 DEF StateInv
<1> QED
  BY <1>6, <1>7, <1>8, <1>9 DEF StateInv

\* The supervisor keeps what is true of a plan, and picks a step only if it
\* may be tried and there is time left.
LEMMA PreparedKeeps ==
  ASSUME IsRequest(request), now \in Nat, NEW st, NEW cs, StateInv(st, cs),
         NEW stale, NEW judge, NEW r, r = Prepared(st, stale, judge)
  PROVE  /\ StateInv(r, cs) /\ r.invocation = st.invocation
         /\ r.status = "ACTIVE" => Ready(r) /\ now < r.started + Duration
<1> DEFINE begun == IF st.status = "NONE" THEN Planned(st)
                    ELSE [st EXCEPT !.deadline = ResumedDeadline(@),
                                    !.status = IF stale THEN "NEEDS_CLARIFICATION" ELSE @]
           counted == [begun EXCEPT !.visits = @ + 1]
<1>1. /\ StateInv(begun, cs) /\ begun.status # "NONE" /\ begun.invocation = st.invocation
  <2>1. CASE st.status = "NONE"
    <3>1. st = NewState
      BY <2>1 DEF StateInv, StatusFits
    <3> QED
      BY <2>1, <3>1, PlannedKeeps
  <2>2. CASE st.status # "NONE"
    <3> DEFINE status == IF stale THEN "NEEDS_CLARIFICATION" ELSE st.status
    <3>1. begun = [st EXCEPT !.deadline = ResumedDeadline(st.deadline), !.status = status]
      BY <2>2
    <3>2. /\ st \in AgentState /\ st.deadline \in Nat /\ st.started \in Nat
          /\ st.status \in PlanStatus
      BY Fields DEF StateInv
    <3>3. ResumedDeadline(st.deadline) \in Nat /\ ResumedDeadline(st.deadline) <= st.deadline
      BY <3>2, Bounds DEF ResumedDeadline
    <3>4. status \in PlanStatus /\ status # "NONE"
      BY <2>2, <3>2 DEF PlanStatus
    <3> HIDE DEF begun, counted
    <3>5. /\ begun \in AgentState /\ begun.steps = st.steps /\ begun.outcomes = st.outcomes
          /\ begun.current = st.current /\ begun.pending = st.pending /\ begun.class = st.class
          /\ begun.started = st.started /\ begun.visits = st.visits
          /\ begun.delegations = st.delegations /\ begun.cross = st.cross
          /\ begun.invocation = st.invocation
          /\ begun.deadline = ResumedDeadline(st.deadline) /\ begun.status = status
      BY <3>1, <3>2, <3>3, <3>4 DEF AgentState
    <3>6. WithinBudget(begun)
      BY <2>2, <3>2, <3>3, <3>5, Bounds DEF StateInv, WithinBudget
    <3>7. StatusFits(begun)
      BY <2>2, <3>5 DEF StateInv, StatusFits
    <3> QED
      BY <3>4, <3>5, <3>6, <3>7 DEF StateInv
  <2> QED
    BY <2>1, <2>2
<1>2. r = IF now >= begun.deadline \/ begun.visits >= MaxVisits
          THEN [begun EXCEPT !.status = "FAILED"]
          ELSE IF counted.status # "ACTIVE" THEN counted
          ELSE IF counted.class = "GENERAL_HELP"
          THEN [counted EXCEPT !.status = "COMPLETED", !.current = ""]
          ELSE IF counted.class = "UNCERTAIN"
          THEN [counted EXCEPT !.status = "NEEDS_CLARIFICATION", !.current = ""]
          ELSE Selected(counted, judge)
  BY Zenon DEF Prepared
<1> HIDE DEF begun
<1>3. /\ begun \in AgentState /\ begun.deadline \in Nat /\ begun.visits \in Nat
      /\ begun.started \in Nat
  BY <1>1, Fields DEF StateInv
<1>4. /\ counted \in AgentState /\ counted.steps = begun.steps
      /\ counted.outcomes = begun.outcomes /\ counted.current = begun.current
      /\ counted.pending = begun.pending /\ counted.class = begun.class
      /\ counted.started = begun.started /\ counted.deadline = begun.deadline
      /\ counted.visits = begun.visits + 1 /\ counted.delegations = begun.delegations
      /\ counted.cross = begun.cross /\ counted.invocation = begun.invocation
      /\ counted.status = begun.status
  <2>1. begun.visits + 1 \in Nat /\ counted = [begun EXCEPT !.visits = begun.visits + 1]
    BY <1>3
  <2> HIDE DEF counted
  <2> QED
    BY <1>3, <2>1 DEF AgentState
<1> HIDE DEF counted
<1>5. CASE now >= begun.deadline \/ begun.visits >= MaxVisits
  <2>1. Becomes(begun, r, begun.steps, begun.outcomes, begun.current, "FAILED", begun.pending)
    BY <1>2, <1>3, <1>5, SetStatus DEF PlanStatus
  <2>2. StateInv(r, cs)
    BY <1>1, <2>1, StatusKeeps
  <2> QED
    BY <1>1, <2>1, <2>2 DEF Becomes, SameSpent
<1>6. CASE ~(now >= begun.deadline \/ begun.visits >= MaxVisits)
  <2>1. WithinBudget(counted)
    BY <1>1, <1>3, <1>4, <1>6, Bounds DEF StateInv, WithinBudget
  <2>2. StateInv(counted, cs)
    <3>1. StatusFits(counted)
      BY <1>1, <1>4 DEF StateInv, StatusFits
    <3> QED
      BY <1>1, <1>4, <2>1, <3>1 DEF StateInv
  <2>3. now < counted.started + Duration
    <3>1. begun.deadline <= begun.started + Duration
      BY <1>1 DEF StateInv, WithinBudget
    <3> QED
      BY <1>3, <1>4, <1>6, <3>1, Bounds
  <2>4. CASE counted.status # "ACTIVE"
    <3>1. r = counted
      BY <1>2, <1>6, <2>4
    <3> QED
      BY <1>1, <1>4, <2>2, <2>4, <3>1
  <2>5. CASE counted.status = "ACTIVE" /\ counted.class = "GENERAL_HELP"
    <3>1. r = [counted EXCEPT !.status = "COMPLETED", !.current = ""]
      BY <1>2, <1>6, <2>5
    <3>2. Becomes(counted, r, counted.steps, counted.outcomes, "", "COMPLETED", counted.pending)
      BY <1>4, <3>1, SetStatusCurrent DEF PlanStatus
    <3>3. counted.steps = <<>>
      BY <2>2, <2>5 DEF StateInv, StatusFits
    <3>4. AllWell(<<>>, r.outcomes)
      <4>1. DOMAIN <<>> = {}
        OBVIOUS
      <4> QED
        BY <4>1 DEF AllWell
    <3>5. r.steps = <<>>
      BY <3>2, <3>3 DEF Becomes
    <3>6. StatusFits(r) /\ WithinBudget(r)
      BY <2>1, <2>5, <3>2, <3>4, <3>5 DEF StatusFits, WithinBudget, Becomes, SameSpent
    <3>7. StateInv(r, cs)
      BY <2>2, <3>2, <3>6 DEF StateInv, Becomes
    <3> QED
      BY <1>1, <1>4, <3>2, <3>7 DEF Becomes, SameSpent
  <2>6. CASE counted.status = "ACTIVE" /\ counted.class = "UNCERTAIN"
    <3>1. r = [counted EXCEPT !.status = "NEEDS_CLARIFICATION", !.current = ""]
      BY <1>2, <1>6, <2>6
    <3>2. Becomes(counted, r, counted.steps, counted.outcomes, "", "NEEDS_CLARIFICATION",
                  counted.pending)
      BY <1>4, <3>1, SetStatusCurrent DEF PlanStatus
    <3>3. StateInv(r, cs)
      BY <2>2, <2>6, <3>2, StatusKeeps
    <3> QED
      BY <1>1, <1>4, <3>2, <3>3 DEF Becomes, SameSpent
  <2>7. CASE /\ counted.status = "ACTIVE"
             /\ counted.class # "GENERAL_HELP" /\ counted.class # "UNCERTAIN"
    <3>1. r = Selected(counted, judge)
      BY <1>2, <1>6, <2>7
    <3>2. counted \in Selectable(counted, cs)
      BY <2>2, <2>7 DEF Selectable, StateInv, StatusFits, SameSpent
    <3>3. /\ StateInv(r, cs) /\ SameSpent(counted, r)
          /\ r.status = "ACTIVE" => Ready(r)
      BY <2>1, <2>7, <3>1, <3>2, SelectedKeeps
    <3> QED
      BY <1>1, <1>4, <2>3, <3>3 DEF SameSpent
  <2> QED
    BY <2>4, <2>5, <2>6, <2>7
<1> QED
  BY <1>5, <1>6

(***************************************************************************)
(* The specialist nodes and the answer of the user.                        *)
(***************************************************************************)
\* A step that may move on, and one that does: its outcome is recorded, and
\* the plan is active, waits or ends with it.
Movable(st, i) ==
    /\ i \in DOMAIN st.steps /\ st.steps[i].status \notin Settled /\ DepsSettled(st.steps, i)
    /\ \A j \in DOMAIN st.steps : j # i => st.steps[j].status \in Handled

\* r is st after step i got status v and outcome o.
MovesTo(st, i, v, o, status, pending, r) ==
    /\ v \in StepStatus /\ o \in StepOutcome
    /\ v \in Settled => o \in NonFailures \cup {"FAILED"}
    /\ v = "FAILED" => o = "FAILED"
    /\ \/ status = "ACTIVE" /\ v \in Handled
       \/ /\ status = "WAITING_CONFIRMATION" /\ v = "PENDING_CONFIRMATION"
          /\ st.steps[i].id = st.current /\ pending # None
       \/ status \in {"FAILED", "NEEDS_CLARIFICATION", "HANDOVER"}
    /\ Becomes(st, r, Marked(st.steps, i, v), Recorded(st.outcomes, st.steps[i].id, o),
               st.current, status, pending)
    /\ OfferOpen(pending, Recorded(st.outcomes, st.steps[i].id, o))

\* The calls that were made, and perhaps one more.
Extends(cs, more) == \A k \in DOMAIN cs : k \in DOMAIN more /\ more[k] = cs[k]
CalledIn(id, cs) == \E k \in DOMAIN cs : cs[k].id = id /\ cs[k].done

\* One step moves on: the plan stays sound whatever the step ends in, as
\* long as only a step whose dependencies are settled moves, and it is
\* recorded as done only after a call of it was done.
LEMMA MovesOn ==
  ASSUME NEW st, NEW cs, NEW more, NEW i, NEW v, NEW o, NEW status, NEW pending, NEW r,
         StateInv(st, cs), st.status # "NONE", Movable(st, i),
         MovesTo(st, i, v, o, status, pending, r),
         Extends(cs, more), o = "COMPLETED" => CalledIn(st.steps[i].id, more)
  PROVE  StateInv(r, more)
<1> DEFINE m == Marked(st.steps, i, v)
           after == Recorded(st.outcomes, st.steps[i].id, o)
<1>1. /\ st \in AgentState /\ Sound(st.steps, st.outcomes) /\ DoneIn(st.outcomes, cs)
      /\ StatusFits(st) /\ WithinBudget(st)
      /\ i \in DOMAIN st.steps /\ v \in StepStatus /\ o \in StepOutcome
  BY DEF StateInv, Movable, MovesTo
<1>2. /\ st.steps \in Seq(PlanStep) /\ st.outcomes \in OutcomeMap
      /\ st.steps[i].id \in StepId
  BY <1>1, Fields, StepTyped
<1>3. Sound(m, after)
  BY <1>1, StaysSound DEF Movable, MovesTo
<1>4. DoneIn(after, more)
  BY <1>1, <1>2, StaysDone DEF Extends, CalledIn
<1>5. /\ DOMAIN m = DOMAIN st.steps
      /\ \A j \in DOMAIN st.steps :
           m[j].id = st.steps[j].id /\ m[j].status = IF j = i THEN v ELSE st.steps[j].status
  BY <1>1, <1>2, MarkedOne
<1> HIDE DEF m, after
<1>6. /\ r \in AgentState /\ r.steps = m /\ r.outcomes = after /\ r.current = st.current
      /\ r.status = status /\ r.pending = pending /\ SameSpent(st, r)
  BY DEF MovesTo, Becomes, m, after
<1>7. status = "ACTIVE" => AllHandled(m)
  BY <1>5 DEF AllHandled, Movable, MovesTo
<1>8. status = "WAITING_CONFIRMATION" => WaitsAt(m, i, st.current) /\ pending # None
  BY <1>1, <1>5 DEF WaitsAt, Movable, MovesTo
<1>9. st.class # "GENERAL_HELP"
  <2>1. DOMAIN <<>> = {}
    OBVIOUS
  <2> QED
    BY <1>1, <2>1 DEF StatusFits
<1>10. StatusFits(r)
  <2>1. status \in {"ACTIVE", "WAITING_CONFIRMATION", "FAILED", "NEEDS_CLARIFICATION", "HANDOVER"}
    BY DEF MovesTo
  <2>2. i \in DOMAIN m
    BY <1>1, <1>5
  <2> QED
    BY <2>1, <2>2, <1>6, <1>7, <1>8, <1>9 DEF StatusFits, SameSpent
<1>11. WithinBudget(r)
  BY <1>1, <1>6 DEF WithinBudget, SameSpent
<1>12. OfferOpen(r.pending, r.outcomes)
  BY <1>6 DEF after, MovesTo
<1> QED
  BY <1>3, <1>4, <1>6, <1>10, <1>11, <1>12 DEF StateInv

\* The current step of a plan that is ready is one that may move on.
LEMMA ReadyStep ==
  ASSUME NEW st, NEW cs, StateInv(st, cs), Ready(st)
  PROVE  \E i \in DOMAIN st.steps :
           /\ StepOf(st, st.current) = st.steps[i] /\ st.steps[i].id = st.current
           /\ st.steps[i].status = "PENDING" /\ Movable(st, i)
<1>1. UniqueIds(st.steps) /\ AllHandled(st.steps)
  BY DEF StateInv, Sound, PlanOK, StatusFits, Ready
<1>2. PICK i \in DOMAIN st.steps :
        /\ st.steps[i].id = st.current /\ st.steps[i].status = "PENDING"
        /\ DepsSettled(st.steps, i)
  BY DEF Ready
<1>3. StepOf(st, st.current) = st.steps[i]
  BY <1>1, <1>2, Found DEF StepOf
<1> QED
  BY <1>1, <1>2, <1>3 DEF AllHandled, Movable, Settled

\* The step that waits for the user is one that may move on.
LEMMA WaitingStep ==
  ASSUME NEW st, NEW cs, StateInv(st, cs), st.status = "WAITING_CONFIRMATION"
  PROVE  \E i \in DOMAIN st.steps :
           /\ StepOf(st, st.current) = st.steps[i] /\ st.steps[i].id = st.current
           /\ st.steps[i].status = "PENDING_CONFIRMATION" /\ Movable(st, i)
<1>1. UniqueIds(st.steps) /\ InOrder(st.steps)
  BY DEF StateInv, Sound, PlanOK
<1>2. PICK i \in DOMAIN st.steps : WaitsAt(st.steps, i, st.current)
  BY DEF StateInv, StatusFits
<1>3. StepOf(st, st.current) = st.steps[i]
  BY <1>1, <1>2, Found DEF StepOf, WaitsAt
<1> QED
  BY <1>1, <1>2, <1>3 DEF WaitsAt, InOrder, Movable, Settled

\* What a specialist calls with is among the arguments of calls.
LEMMA ProjectedTyped ==
  ASSUME NEW st \in AgentState, NEW i \in DOMAIN st.steps
  PROVE  Projected(st, st.steps[i]) \in CallArgs
<1>1. st.steps[i].args \in Argument
  BY StepTyped
<1>2. CASE st.results # <<>>
  <2>1. st.results \in Seq(Result)
    BY Fields
  <2>2. Last(st.results) \in Result
    BY <1>2, <2>1 DEF Last
  <2>3. Last(st.results).data \in Data
    BY <2>2 DEF Result
  <2> QED
    BY <1>1, <2>3 DEF Projected, CallArgs
<1> QED
  BY <1>1, <1>2 DEF Projected, CallArgs

\* The status and the offer, set in either order, leave the others alone.
LEMMA SetStatusPending ==
  ASSUME NEW st \in AgentState, NEW status \in PlanStatus, NEW pending \in Shown \cup {None}
  PROVE  /\ Becomes(st, [st EXCEPT !.status = status, !.pending = pending], st.steps,
                    st.outcomes, st.current, status, pending)
         /\ Becomes(st, [st EXCEPT !.pending = pending, !.status = status], st.steps,
                    st.outcomes, st.current, status, pending)
  BY DEF AgentState, Becomes, SameSpent

\* A question to the user is counted and sets the status.
LEMMA SetStatusAsked ==
  ASSUME NEW st \in AgentState, NEW status \in PlanStatus
  PROVE  Becomes(st, [st EXCEPT !.status = status, !.clarifications = @ + 1], st.steps,
                 st.outcomes, st.current, status, st.pending)
<1>1. st.clarifications \in Nat
  BY Fields
<1>2. st.clarifications + 1 \in Nat
  BY <1>1
<1> QED
  BY <1>2 DEF AgentState, Becomes, SameSpent

\* A read that is replaced stays where it is in the plan.
Replaced(steps, i, cap) == [steps EXCEPT ![i].cap = cap, ![i].args = ListArgs]

\* A step that is replanned gets another capability and no other
\* dependencies.
LEMMA ReplacedOne ==
  ASSUME NEW steps \in Seq(PlanStep), NEW i \in DOMAIN steps, NEW cap, cap \in Capability
  PROVE  /\ Replaced(steps, i, cap) \in Seq(PlanStep)
         /\ DOMAIN Replaced(steps, i, cap) = DOMAIN steps
         /\ Len(Replaced(steps, i, cap)) = Len(steps)
         /\ \A j \in DOMAIN steps :
              /\ Replaced(steps, i, cap)[j].id = steps[j].id
              /\ Replaced(steps, i, cap)[j].deps = steps[j].deps
              /\ Replaced(steps, i, cap)[j].cap = IF j = i THEN cap ELSE steps[j].cap
              /\ Replaced(steps, i, cap)[j].status = steps[j].status
<1>1. steps[i] \in PlanStep /\ cap \in Name /\ ListArgs \in Argument
  <2>1. cap \in Name
    BY SupervisorAssumption
  <2>2. ListArgs \in Argument
    BY SupervisorAssumption
  <2> QED
    BY <2>1, <2>2
<1>2. Replaced(steps, i, cap) =
        [steps EXCEPT ![i] = [steps[i] EXCEPT !.cap = cap, !.args = ListArgs]]
  BY <1>1 DEF Replaced, PlanStep
<1>3. [steps[i] EXCEPT !.cap = cap, !.args = ListArgs] \in PlanStep
  BY <1>1 DEF PlanStep
<1> QED
  BY <1>1, <1>2, <1>3 DEF PlanStep

\* Replanning keeps the invariant: the plan keeps its shape and the
\* capability that lists is one that the registry knows (_replan).
LEMMA ReplanKeeps ==
  ASSUME NEW st, NEW cs, StateInv(st, cs), NEW i \in DOMAIN st.steps,
         st.steps[i].cap \in ByIdentifier, st.status = "ACTIVE",
         NEW r, r = Replanned(st, st.steps[i])
  PROVE  StateInv(r, cs) /\ r.invocation = st.invocation
<1>1. st \in AgentState /\ st.steps \in Seq(PlanStep) /\ UniqueIds(st.steps)
  BY Fields DEF StateInv, Sound, PlanOK
<1>2. CASE r = Failed(st)
  <2>1. Becomes(st, r, st.steps, st.outcomes, st.current, "FAILED", st.pending)
    BY <1>1, <1>2, SetStatus DEF Failed, PlanStatus
  <2> QED
    BY <2>1, StatusKeeps DEF Becomes, SameSpent
<1>3. CASE r # Failed(st)
  <2> DEFINE cap == ListOf[st.steps[i].cap]
             m == Replaced(st.steps, i, cap)
  <2>1. cap \in Capability
    BY CapabilityAssumption
  <2> HIDE DEF cap
  <2>2. /\ m \in Seq(PlanStep) /\ DOMAIN m = DOMAIN st.steps /\ Len(m) = Len(st.steps)
        /\ \A j \in DOMAIN st.steps :
             /\ m[j].id = st.steps[j].id /\ m[j].deps = st.steps[j].deps
             /\ m[j].cap = IF j = i THEN cap ELSE st.steps[j].cap
             /\ m[j].status = st.steps[j].status
    BY <1>1, <2>1, ReplacedOne
  <2>3. At(st.steps, st.steps[i].id) = i
    BY <1>1, Found
  <2>4. r = [st EXCEPT !.replans = @ + 1, !.steps[i].cap = cap, !.steps[i].args = ListArgs]
    BY <1>3, <2>3 DEF Replanned, cap
  <2>5. st.replans + 1 \in Nat
    <3>1. st.replans \in Nat
      BY <1>1, Fields
    <3> QED
      BY <3>1
  <2>6. r = [st EXCEPT !.replans = st.replans + 1, !.steps = m]
    BY <1>1, <2>4 DEF Replaced, AgentState
  <2> HIDE DEF m
  <2>7. Becomes(st, r, m, st.outcomes, st.current, st.status, st.pending)
    BY <1>1, <2>2, <2>5, <2>6 DEF AgentState, Becomes, SameSpent
  <2>8. PlanOK(m)
    BY <2>1, <2>2, SameShape DEF StateInv, Sound, PlanOK, KnownCaps
  <2>9. InOrder(m) /\ Accounted(m, st.outcomes) /\ AllHandled(m)
    BY <2>2 DEF StateInv, Sound, InOrder, DepsSettled, Accounted, StatusFits, AllHandled
  <2>10. st.class # "GENERAL_HELP"
    <3>1. DOMAIN <<>> = {}
      OBVIOUS
    <3> QED
      BY <3>1 DEF StateInv, StatusFits
  <2>11. StatusFits(r) /\ WithinBudget(r)
    BY <2>7, <2>9, <2>10 DEF StateInv, StatusFits, WithinBudget, Becomes, SameSpent
  <2> QED
    BY <2>7, <2>8, <2>9, <2>11 DEF StateInv, Sound, Becomes, SameSpent
<1> QED
  BY <1>2, <1>3

\* Whatever the specialist makes of an answer, the plan keeps what is true of
\* it; a step is reported as done only if it was.
LEMMA AppliedKeeps ==
  ASSUME NEW st, NEW cs, NEW more, NEW i, NEW outcome, NEW r,
         StateInv(st, cs), st.status = "ACTIVE", Movable(st, i), st.steps[i].id = st.current,
         outcome \in Reading,
         outcome = "REPLAN" => st.steps[i].cap \in ByIdentifier,
         Extends(cs, more), outcome = "SUCCESS" => CalledIn(st.steps[i].id, more),
         r = Applied(st, st.steps[i], outcome)
  PROVE  StateInv(r, more) /\ r.invocation = st.invocation
<1> DEFINE step == st.steps[i]
           id == step.id
           m(v) == Marked(st.steps, i, v)
           after(o) == Recorded(st.outcomes, id, o)
           x(v, o) == Record(Mark(st, id, v), id, o)
<1>1. /\ st \in AgentState /\ UniqueIds(st.steps) /\ st.outcomes \in OutcomeMap /\ id \in StepId
      /\ OfferOpen(st.pending, st.outcomes) /\ i \in DOMAIN st.steps
  BY Fields, StepTyped DEF StateInv, Sound, PlanOK, Movable
<1>2. ASSUME NEW v \in StepStatus, NEW o \in StepOutcome
      PROVE  Becomes(st, x(v, o), m(v), after(o), st.current, st.status, st.pending)
  BY <1>1, MarkRecordDoes
<1>3. StateInv(st, more)
  BY DEF StateInv, DoneIn, Extends
<1>4. CASE outcome = "SUCCESS"
  <2>1. "COMPLETED" \in StepStatus /\ "COMPLETED" \in StepOutcome /\ "COMPLETED" \in NonFailures
        /\ "COMPLETED" \in Handled
    BY DEF StepStatus, StepOutcome, NonFailures, Handled, Settled
  <2> DEFINE y == x("COMPLETED", "COMPLETED")
  <2>2. Becomes(st, y, m("COMPLETED"), after("COMPLETED"), st.current, "ACTIVE", st.pending)
    BY <1>2, <2>1
  <2>3. r = [y EXCEPT !.pending = None]
    BY <1>4 DEF Applied, Completed
  <2> HIDE DEF y
  <2>4. Becomes(y, r, y.steps, y.outcomes, y.current, y.status, None)
    BY <2>2, <2>3, SetPending DEF Becomes
  <2>5. Becomes(st, r, m("COMPLETED"), after("COMPLETED"), st.current, "ACTIVE", None)
    BY <2>2, <2>4 DEF Becomes, SameSpent
  <2>6. OfferOpen(None, after("COMPLETED"))
    BY DEF OfferOpen
  <2>7. MovesTo(st, i, "COMPLETED", "COMPLETED", "ACTIVE", None, r)
    BY <2>1, <2>5, <2>6 DEF MovesTo
  <2>8. StateInv(r, more)
    BY <1>4, <2>7, MovesOn
  <2> QED
    BY <2>5, <2>8 DEF Becomes, SameSpent
<1>5. CASE outcome = "HITL_REQUIRED"
  <2>1. /\ "PENDING_CONFIRMATION" \in StepStatus /\ "PENDING_CONFIRMATION" \in StepOutcome
        /\ "PENDING_CONFIRMATION" \notin Settled /\ "WAITING_CONFIRMATION" \in PlanStatus
    BY DEF StepStatus, StepOutcome, Settled, PlanStatus
  <2> DEFINE y == x("PENDING_CONFIRMATION", "PENDING_CONFIRMATION")
             pending == [id |-> id, cap |-> step.cap, args |-> Projected(st, step)]
  <2>2. Becomes(st, y, m("PENDING_CONFIRMATION"), after("PENDING_CONFIRMATION"), st.current,
                "ACTIVE", st.pending)
    BY <1>2, <2>1
  <2>3. r = [y EXCEPT !.status = "WAITING_CONFIRMATION", !.pending = pending]
    BY <1>5 DEF Applied, Waiting
  <2>4. pending \in Shown /\ pending # None /\ pending.id = id
    <3>1. step.cap \in Name /\ Projected(st, step) \in CallArgs
      BY <1>1, StepTyped, ProjectedTyped
    <3>2. pending \in Shown /\ pending.id = id
      BY <1>1, <3>1 DEF Shown
    <3>3. pending # None
      BY DEF None
    <3> QED
      BY <3>2, <3>3
  <2> HIDE DEF y, pending
  <2>5. Becomes(y, r, y.steps, y.outcomes, y.current, "WAITING_CONFIRMATION", pending)
    <3>1. y \in AgentState
      BY <2>2 DEF Becomes
    <3> QED
      BY ZenonT(60), <2>1, <2>3, <2>4, <3>1, SetStatusPending
  <2>6. Becomes(st, r, m("PENDING_CONFIRMATION"), after("PENDING_CONFIRMATION"), st.current,
                "WAITING_CONFIRMATION", pending)
    BY <2>2, <2>5 DEF Becomes, SameSpent
  <2>7. OfferOpen(pending, after("PENDING_CONFIRMATION"))
    BY <2>4 DEF OfferOpen, Recorded
  <2>8. MovesTo(st, i, "PENDING_CONFIRMATION", "PENDING_CONFIRMATION", "WAITING_CONFIRMATION",
                pending, r)
    BY <2>1, <2>4, <2>6, <2>7 DEF MovesTo
  <2>9. StateInv(r, more)
    BY <2>8, MovesOn
  <2> QED
    BY <2>6, <2>9 DEF Becomes, SameSpent
<1>6. CASE outcome = "REPLAN"
  <2>1. r = Replanned(st, st.steps[i])
    BY <1>6 DEF Applied
  <2> QED
    BY <1>1, <1>3, <1>6, <2>1, ReplanKeeps
<1>7. CASE outcome = "NEEDS_CLARIFICATION"
  <2>1. r = Clarifying(st, step)
    BY <1>7 DEF Applied
  <2>2. CASE st.clarifications >= MaxClarifications
    <3>1. Becomes(st, r, st.steps, st.outcomes, st.current, "FAILED", st.pending)
      BY <1>1, <2>1, <2>2, SetStatus DEF Clarifying, Failed, PlanStatus
    <3> QED
      BY <1>3, <3>1, StatusKeeps DEF Becomes, SameSpent
  <2>3. CASE ~(st.clarifications >= MaxClarifications)
    <3>1. /\ "NEEDS_CLARIFICATION" \in StepStatus /\ "NEEDS_CLARIFICATION" \in StepOutcome
          /\ "NEEDS_CLARIFICATION" \notin Settled /\ "NEEDS_CLARIFICATION" \in PlanStatus
      BY DEF StepStatus, StepOutcome, Settled, PlanStatus
    <3> DEFINE y == x("NEEDS_CLARIFICATION", "NEEDS_CLARIFICATION")
    <3>2. Becomes(st, y, m("NEEDS_CLARIFICATION"), after("NEEDS_CLARIFICATION"), st.current,
                  "ACTIVE", st.pending)
      BY <1>2, <3>1
    <3>3. r = [y EXCEPT !.status = "NEEDS_CLARIFICATION", !.clarifications = @ + 1]
      BY <2>1, <2>3 DEF Clarifying
    <3> HIDE DEF y
    <3>4. Becomes(y, r, y.steps, y.outcomes, y.current, "NEEDS_CLARIFICATION", y.pending)
      <4>1. y \in AgentState
        BY <3>2 DEF Becomes
      <4> QED
        BY <3>1, <3>3, <4>1, SetStatusAsked
    <3>5. Becomes(st, r, m("NEEDS_CLARIFICATION"), after("NEEDS_CLARIFICATION"), st.current,
                  "NEEDS_CLARIFICATION", st.pending)
      BY <3>2, <3>4 DEF Becomes, SameSpent
    <3>6. OfferOpen(st.pending, after("NEEDS_CLARIFICATION"))
      BY <1>1, <3>1, StaysOpen
    <3>7. MovesTo(st, i, "NEEDS_CLARIFICATION", "NEEDS_CLARIFICATION", "NEEDS_CLARIFICATION",
                  st.pending, r)
      BY <3>1, <3>5, <3>6 DEF MovesTo
    <3>8. StateInv(r, more)
      BY <3>7, MovesOn
    <3> QED
      BY <3>5, <3>8 DEF Becomes, SameSpent
  <2> QED
    BY <2>2, <2>3
<1>8. CASE outcome = "HANDOVER"
  <2>1. /\ "HANDOVER" \in StepStatus /\ "HANDOVER" \in StepOutcome
        /\ "HANDOVER" \notin Settled /\ "HANDOVER" \in PlanStatus
    BY DEF StepStatus, StepOutcome, Settled, PlanStatus
  <2> DEFINE y == x("HANDOVER", "HANDOVER")
  <2>2. Becomes(st, y, m("HANDOVER"), after("HANDOVER"), st.current, "ACTIVE", st.pending)
    BY <1>2, <2>1
  <2>3. r = [y EXCEPT !.status = "HANDOVER"]
    BY <1>8 DEF Applied
  <2> HIDE DEF y
  <2>4. Becomes(y, r, y.steps, y.outcomes, y.current, "HANDOVER", y.pending)
    BY <2>1, <2>2, <2>3, SetStatus DEF Becomes
  <2>5. Becomes(st, r, m("HANDOVER"), after("HANDOVER"), st.current, "HANDOVER", st.pending)
    BY <2>2, <2>4 DEF Becomes, SameSpent
  <2>6. OfferOpen(st.pending, after("HANDOVER"))
    BY <1>1, <2>1, StaysOpen
  <2>7. MovesTo(st, i, "HANDOVER", "HANDOVER", "HANDOVER", st.pending, r)
    BY <2>1, <2>5, <2>6 DEF MovesTo
  <2>8. StateInv(r, more)
    BY <2>7, MovesOn
  <2> QED
    BY <2>5, <2>8 DEF Becomes, SameSpent
<1>9. CASE outcome = "CAPABILITY_ERROR"
  <2>1. /\ "FAILED" \in StepStatus /\ "FAILED" \in StepOutcome /\ "FAILED" \notin Settled
        /\ "FAILED" \in Handled
    BY DEF StepStatus, StepOutcome, Settled, Handled
  <2>2. r = x("FAILED", "FAILED")
    BY <1>9 DEF Applied
  <2>3. Becomes(st, r, m("FAILED"), after("FAILED"), st.current, "ACTIVE", st.pending)
    BY <1>2, <2>1, <2>2
  <2>4. OfferOpen(st.pending, after("FAILED"))
    BY <1>1, <2>1, StaysOpen
  <2>5. MovesTo(st, i, "FAILED", "FAILED", "ACTIVE", st.pending, r)
    BY <2>1, <2>3, <2>4 DEF MovesTo
  <2>6. StateInv(r, more)
    BY <2>5, MovesOn
  <2> QED
    BY <2>3, <2>6 DEF Becomes, SameSpent
<1> QED
  BY <1>4, <1>5, <1>6, <1>7, <1>8, <1>9 DEF Reading

(***************************************************************************)
(* The actions keep the invariant.                                         *)
(***************************************************************************)

\* The invariant holds before the first node runs.
LEMMA InitEstablishes ==
  ASSUME Init
  PROVE  SupervisorInv
<1>1. TypeOK
  <2>1. IsRequest(request)
    BY SupervisorAssumption DEF Init
  <2>2. s \in AgentState
    BY NewStateKeeps DEF Init, StateInv
  <2> QED
    BY <2>1, <2>2 DEF Init, TypeOK
<1>2. StateInv(s, calls)
  BY NewStateKeeps DEF Init
<1>3. NodeInv /\ GrantInv
  BY DEF Init, NodeInv, GrantInv
<1>4. CallsInv /\ WritesAsConfirmed
  <2>1. calls = <<>> /\ DOMAIN calls = {} /\ Len(calls) = 0
    BY DEF Init
  <2>2. s.invocation.calls = 0
    BY DEF Init, NewState, Fresh
  <2> QED
    BY <2>1, <2>2, Bounds DEF CallsInv, WritesAsConfirmed
<1> QED
  BY <1>1, <1>2, <1>3, <1>4 DEF SupervisorInv, Init

\* What was true of a state stays true as calls are added.
LEMMA MoreCalls ==
  ASSUME NEW st, NEW cs, NEW more, StateInv(st, cs), Extends(cs, more)
  PROVE  StateInv(st, more)
  BY DEF StateInv, DoneIn, Extends

\* The history as a step finds it: typed, with every write as confirmed.
LEMMA HistoryTyped ==
  ASSUME SupervisorInv
  PROVE  /\ calls \in Seq(Call) /\ Len(calls) \in Nat /\ DOMAIN calls = 1..Len(calls)
         /\ decided \in Seq(Decision) /\ Len(decided) \in Nat
         /\ DOMAIN decided = 1..Len(decided)
         /\ s \in AgentState /\ now \in Nat /\ crashes \in Nat /\ IsRequest(request)
  BY DEF SupervisorInv, TypeOK

\* A call was made in a turn that has begun, and is late only after its
\* plan's deadline has passed.
LEMMA CallsTyped ==
  ASSUME SupervisorInv, NEW i \in DOMAIN calls
  PROVE  /\ calls[i] \in Call /\ calls[i].turn \in Nat /\ calls[i].started \in Nat
         /\ calls[i].turn <= Len(decided)
         /\ calls[i].late => calls[i].started + Duration <= now
<1>1. calls[i] \in Call
  BY HistoryTyped
<1>2. /\ calls[i].turn <= Len(decided)
      /\ calls[i].late => calls[i].started + Duration <= now
  BY DEF SupervisorInv, CallsInv
<1> QED
  BY <1>1, <1>2 DEF Call

\* The supervisor node: a late plan ends before it calls anything, so that a
\* specialist that runs has no late call behind it.
LEMMA SuperviseKeeps ==
  ASSUME SupervisorInv, Supervise
  PROVE  SupervisorInv'
<1>1. PICK stale \in BOOLEAN,
           judge \in [{x \in StepId : \E i \in DOMAIN s.steps :
                         s.steps[i].id = x /\ s.steps[i].cond = "relevantIssue"} -> BOOLEAN] :
        s' = Prepared(s, stale, judge)
  BY DEF Supervise
<1>2. /\ node' = Route(s') /\ saved' = (IF node' = "await" THEN s' ELSE saved)
      /\ granted' = (IF node' = "await" THEN None ELSE granted)
      /\ UNCHANGED <<request, now, crashes, calls, decided>>
  BY DEF Supervise
<1>3. /\ StateInv(s', calls) /\ s'.invocation = s.invocation
      /\ s'.status = "ACTIVE" => Ready(s') /\ now < s'.started + Duration
  BY <1>1, HistoryTyped, PreparedKeeps DEF SupervisorInv
<1>4. s' \in AgentState
  BY <1>3 DEF StateInv
<1>5. node' \in {"await", "specialist", "synthesize"}
  BY <1>2 DEF Route
<1>6. (node' = "await" => s'.status = "WAITING_CONFIRMATION")
      /\ (node' = "specialist" => s'.status = "ACTIVE")
  BY <1>2 DEF Route
<1>7. TypeOK'
  BY <1>2, <1>4, <1>5 DEF SupervisorInv, TypeOK
<1>8. NodeInv'
  <2>1. ASSUME node' = "specialist" PROVE NoneLate(s'.started, calls')
    <3>1. now < s'.started + Duration /\ s'.started \in Nat
      BY <1>3, <1>4, <1>6, <2>1, Fields
    <3> SUFFICES ASSUME NEW i \in DOMAIN calls, calls[i].late, calls[i].started = s'.started
                 PROVE  FALSE
      BY <1>2 DEF NoneLate
    <3>2. s'.started + Duration <= now
      BY DEF SupervisorInv, CallsInv
    <3> QED
      BY <3>1, <3>2, HistoryTyped, Bounds
  <2>2. node' = "specialist" => Ready(s') /\ NoneLate(s'.started, calls')
    BY <1>3, <1>6, <2>1
  <2>3. saved' # None => saved'.status = "WAITING_CONFIRMATION"
    BY <1>2, <1>6 DEF SupervisorInv, NodeInv
  <2> QED
    BY <1>5, <1>6, <2>2, <2>3 DEF NodeInv
<1>9. GrantInv'
  BY <1>2, <1>3 DEF SupervisorInv, GrantInv
<1>10. CallsInv' /\ WritesAsConfirmed'
  BY <1>2, <1>3 DEF SupervisorInv, CallsInv, WritesAsConfirmed
<1>11. StateInv(s', calls') /\ (saved' # None => StateInv(saved', calls'))
  BY <1>2, <1>3 DEF SupervisorInv
<1> QED
  BY <1>7, <1>8, <1>9, <1>10, <1>11 DEF SupervisorInv

\* The step that waited is to be tried again, and it was tried before: what it
\* depends on is settled.
LEMMA AcceptKeeps ==
  ASSUME SupervisorInv, AcceptConfirmation
  PROVE  SupervisorInv'
<1>1. s.status = "WAITING_CONFIRMATION" /\ StateInv(s, calls) /\ s \in AgentState
  BY DEF SupervisorInv, NodeInv, AcceptConfirmation, StateInv
<1>2. PICK i \in DOMAIN s.steps :
        /\ StepOf(s, s.current) = s.steps[i] /\ s.steps[i].id = s.current
        /\ s.steps[i].status = "PENDING_CONFIRMATION" /\ Movable(s, i)
  BY <1>1, WaitingStep
<1> DEFINE m == Marked(s.steps, i, "PENDING")
           y == Mark(s, s.current, "PENDING")
<1>3. UniqueIds(s.steps) /\ "PENDING" \in StepStatus /\ "ACTIVE" \in PlanStatus
  BY <1>1 DEF StateInv, Sound, PlanOK, StepStatus, PlanStatus
<1>4. Becomes(s, y, m, s.outcomes, s.current, s.status, s.pending)
  BY <1>1, <1>2, <1>3, MarkDoes
<1>5. s' = [y EXCEPT !.status = "ACTIVE"]
  BY DEF AcceptConfirmation
<1> HIDE DEF y
<1>6. Becomes(y, s', y.steps, y.outcomes, y.current, "ACTIVE", y.pending)
  BY <1>3, <1>4, <1>5, SetStatus DEF Becomes
<1>7. Becomes(s, s', m, s.outcomes, s.current, "ACTIVE", s.pending)
  BY <1>4, <1>6 DEF Becomes, SameSpent
<1>8. s.steps \in Seq(PlanStep)
  BY <1>1, Fields
<1>9. Sound(m, s.outcomes)
  BY ZenonT(60), <1>1, <1>2, <1>3, <1>8, MarkedSound DEF StateInv, Movable, Settled
<1>10. AllHandled(m)
  <2>1. /\ DOMAIN m = DOMAIN s.steps
        /\ \A j \in DOMAIN s.steps :
             m[j].status = IF j = i THEN "PENDING" ELSE s.steps[j].status
    BY <1>2, <1>3, <1>8, MarkedOne
  <2> HIDE DEF m
  <2> QED
    BY <1>2, <2>1 DEF AllHandled, Movable, Handled
<1>11. s.class # "GENERAL_HELP"
  <2>1. DOMAIN <<>> = {}
    OBVIOUS
  <2> QED
    BY <1>1, <1>2, <2>1 DEF StateInv, StatusFits
<1> HIDE DEF m
<1>12. StatusFits(s') /\ WithinBudget(s')
  BY <1>1, <1>7, <1>10, <1>11 DEF StateInv, StatusFits, WithinBudget, Becomes, SameSpent
<1>13. StateInv(s', calls) /\ s'.invocation = s.invocation /\ s' \in AgentState
  BY <1>1, <1>7, <1>9, <1>12 DEF StateInv, Becomes, SameSpent
<1>14. node' = "supervisor" /\ UNCHANGED <<request, saved, granted, now, crashes, calls, decided>>
  BY DEF AcceptConfirmation
<1>15. TypeOK' /\ NodeInv'
  BY <1>13, <1>14 DEF SupervisorInv, TypeOK, NodeInv
<1>16. GrantInv' /\ CallsInv' /\ WritesAsConfirmed'
  BY <1>13, <1>14 DEF SupervisorInv, GrantInv, CallsInv, WritesAsConfirmed
<1> QED
  BY <1>13, <1>14, <1>15, <1>16 DEF SupervisorInv

\* The step that is turned down is skipped and counts as failed.
LEMMA CancelKeeps ==
  ASSUME SupervisorInv, Cancel
  PROVE  SupervisorInv'
<1>1. s.status = "WAITING_CONFIRMATION" /\ StateInv(s, calls) /\ s \in AgentState
  BY DEF SupervisorInv, NodeInv, Cancel, StateInv
<1>2. PICK i \in DOMAIN s.steps :
        /\ StepOf(s, s.current) = s.steps[i] /\ s.steps[i].id = s.current
        /\ s.steps[i].status = "PENDING_CONFIRMATION" /\ Movable(s, i)
  BY <1>1, WaitingStep
<1> DEFINE id == s.steps[i].id
           y == Record(Mark(s, id, "SKIPPED"), id, "FAILED")
<1>3. /\ UniqueIds(s.steps) /\ "SKIPPED" \in StepStatus /\ "FAILED" \in StepOutcome
      /\ "ACTIVE" \in PlanStatus /\ "SKIPPED" \in Handled
  BY <1>1 DEF StateInv, Sound, PlanOK, StepStatus, StepOutcome, PlanStatus, Handled, Settled
<1>4. Becomes(s, y, Marked(s.steps, i, "SKIPPED"), Recorded(s.outcomes, id, "FAILED"),
              s.current, s.status, s.pending)
  BY <1>1, <1>2, <1>3, MarkRecordDoes
<1>5. s' = [y EXCEPT !.pending = None, !.status = "ACTIVE"]
  BY <1>2 DEF Cancel
<1> HIDE DEF y
<1>6. Becomes(y, s', y.steps, y.outcomes, y.current, "ACTIVE", None)
  <2>1. y \in AgentState
    BY <1>4 DEF Becomes
  <2> QED
    BY <1>3, <1>5, <2>1, SetStatusPending
<1>7. Becomes(s, s', Marked(s.steps, i, "SKIPPED"), Recorded(s.outcomes, id, "FAILED"),
              s.current, "ACTIVE", None)
  BY <1>4, <1>6 DEF Becomes, SameSpent
<1>8. MovesTo(s, i, "SKIPPED", "FAILED", "ACTIVE", None, s')
  BY <1>3, <1>7 DEF MovesTo, OfferOpen
<1>9. StateInv(s', calls)
  BY <1>1, <1>2, <1>8, MovesOn DEF Extends
<1>10. s'.invocation = s.invocation /\ s' \in AgentState
  BY <1>7 DEF Becomes, SameSpent
<1>11. node' = "supervisor" /\ UNCHANGED <<request, saved, granted, now, crashes, calls, decided>>
  BY DEF Cancel
<1>12. TypeOK' /\ NodeInv'
  BY <1>10, <1>11 DEF SupervisorInv, TypeOK, NodeInv
<1>13. GrantInv' /\ CallsInv' /\ WritesAsConfirmed'
  BY <1>10, <1>11 DEF SupervisorInv, GrantInv, CallsInv, WritesAsConfirmed
<1> QED
  BY <1>9, <1>11, <1>12, <1>13 DEF SupervisorInv

\* The end of the graph, a crash and the passing of time.
LEMMA OthersKeep ==
  ASSUME SupervisorInv, Synthesize \/ Crash \/ Tick
  PROVE  SupervisorInv'
<1>1. CASE Synthesize
  <2>1. /\ node' = "done" /\ granted' = None
        /\ UNCHANGED <<request, s, saved, now, crashes, calls, decided>>
    BY <1>1 DEF Synthesize
  <2>2. TypeOK' /\ NodeInv' /\ GrantInv'
    BY <2>1 DEF SupervisorInv, TypeOK, NodeInv, GrantInv
  <2>3. CallsInv' /\ WritesAsConfirmed'
    BY <2>1 DEF SupervisorInv, CallsInv, WritesAsConfirmed
  <2> QED
    BY <2>1, <2>2, <2>3 DEF SupervisorInv
<1>2. CASE Crash
  <2>1. /\ crashes' = crashes + 1 /\ granted' = None
        /\ UNCHANGED <<request, saved, now, calls, decided>>
        /\ \/ saved = None /\ s' = NewState /\ node' = "supervisor"
           \/ saved # None /\ s' = saved /\ node' = "await"
    BY <1>2 DEF Crash
  <2>2. StateInv(s', calls)
    BY <2>1, NewStateKeeps DEF SupervisorInv
  <2>3. crashes' \in Nat /\ crashes' # 0
    BY <2>1, HistoryTyped
  <2>4. TypeOK' /\ NodeInv' /\ GrantInv'
    BY <2>1, <2>2, <2>3 DEF SupervisorInv, TypeOK, NodeInv, GrantInv, StateInv
  <2>5. CallsInv' /\ WritesAsConfirmed'
    BY <2>1, <2>3 DEF SupervisorInv, CallsInv, WritesAsConfirmed
  <2> QED
    BY <2>1, <2>2, <2>4, <2>5 DEF SupervisorInv
<1>3. CASE Tick
  <2>1. /\ now' = now + 1
        /\ UNCHANGED <<request, node, s, saved, granted, crashes, calls, decided>>
    BY <1>3 DEF Tick
  <2>2. TypeOK' /\ NodeInv' /\ GrantInv'
    BY <2>1 DEF SupervisorInv, TypeOK, NodeInv, GrantInv
  <2>3. ASSUME NEW i \in DOMAIN calls, calls[i].late
        PROVE  calls[i].started + Duration <= now'
    <3>1. calls[i].started + Duration <= now /\ calls[i].started \in Nat
      BY <2>3, CallsTyped
    <3> QED
      BY <2>1, <3>1, HistoryTyped, Bounds
  <2>4. CallsInv' /\ WritesAsConfirmed'
    BY <2>1, <2>3 DEF SupervisorInv, CallsInv, WritesAsConfirmed
  <2> QED
    BY <2>1, <2>2, <2>4 DEF SupervisorInv
<1> QED
  BY <1>1, <1>2, <1>3

\* The user's answer to what waits begins a turn that has called nothing.
LEMMA ResumeKeeps ==
  ASSUME SupervisorInv, NEW yes \in BOOLEAN, Resume(yes)
  PROVE  SupervisorInv'
<1> DEFINE N == Len(decided)
           d == [id |-> s.pending.id, cap |-> s.pending.cap, args |-> s.pending.args, yes |-> yes]
<1>1. s.status = "WAITING_CONFIRMATION" /\ s.pending # None
  BY DEF SupervisorInv, NodeInv, Resume, StateInv, StatusFits
<1>2. s.pending \in Shown
  BY <1>1, HistoryTyped, Fields
<1>3. /\ granted' = (IF yes THEN [id |-> s.pending.id, cap |-> s.pending.cap,
                                 args |-> s.pending.args, covers |-> Covers(s)] ELSE None)
      /\ decided' = Append(decided, d) /\ node' = (IF yes THEN "accept" ELSE "cancel")
      /\ UNCHANGED <<request, s, saved, now, crashes, calls>>
  BY DEF Resume
<1>4. d \in Decision
  BY <1>2 DEF Shown, Decision
<1>5. Covers(s) \in BOOLEAN
  BY DEF Covers
<1>6. granted' \in Grant \cup {None}
  BY <1>2, <1>3, <1>5 DEF Shown, Grant
<1> HIDE DEF d
<1>7. /\ decided' \in Seq(Decision) /\ Len(decided') = N + 1 /\ decided'[N + 1] = d
      /\ \A i \in 1..N : decided'[i] = decided[i]
  BY <1>3, <1>4, HistoryTyped
<1>8. TypeOK'
  BY <1>3, <1>6, <1>7 DEF SupervisorInv, TypeOK
<1>9. NodeInv'
  BY <1>1, <1>3 DEF SupervisorInv, NodeInv
<1>10. \A i \in DOMAIN calls : calls[i].turn \in Nat /\ calls[i].turn <= N
  BY CallsTyped
<1>11. GrantInv'
  <2> SUFFICES ASSUME granted' # None
               PROVE  GrantFits(granted', decided', calls', s'.invocation.seen)
    BY DEF GrantInv
  <2>1. yes /\ granted'.id = s.pending.id /\ granted'.cap = s.pending.cap
        /\ granted'.args = s.pending.args
    BY <1>3
  <2>2. d.yes /\ d.id = s.pending.id /\ d.cap = s.pending.cap /\ d.args = s.pending.args
    BY <2>1 DEF d
  <2>3. Len(decided') > 0 /\ decided'[Len(decided')] = d
    BY <1>7, HistoryTyped
  <2>4. \A i \in DOMAIN calls' : calls'[i].turn # Len(decided')
    BY <1>3, <1>7, <1>10, HistoryTyped
  <2> QED
    BY <2>1, <2>2, <2>3, <2>4 DEF GrantFits
<1>12. CallsInv'
  <2>1. \A i \in DOMAIN calls : calls[i].turn <= Len(decided')
    BY <1>7, <1>10, HistoryTyped
  <2> QED
    BY <1>3, <2>1 DEF SupervisorInv, CallsInv
<1>13. WritesAsConfirmed'
  <2>1. \A i \in DOMAIN calls :
          calls[i].turn > 0 => decided'[calls[i].turn] = decided[calls[i].turn]
    BY <1>7, <1>10, HistoryTyped
  <2> QED
    BY <1>3, <2>1 DEF SupervisorInv, WritesAsConfirmed
<1> QED
  BY <1>3, <1>8, <1>9, <1>11, <1>12, <1>13 DEF SupervisorInv

\* A delegation is counted before its result is applied.
CountsAs(st, c, status, delegations, cross, invocation) ==
    /\ c \in AgentState /\ c.steps = st.steps /\ c.outcomes = st.outcomes
    /\ c.current = st.current /\ c.status = status /\ c.pending = st.pending
    /\ c.class = st.class /\ c.started = st.started /\ c.deadline = st.deadline
    /\ c.visits = st.visits /\ c.delegations = delegations /\ c.cross = cross
    /\ c.invocation = invocation

\* What a specialist counts before it applies a result disturbs nothing.
LEMMA CountingKeeps ==
  ASSUME NEW st, NEW cs, NEW c, NEW status, NEW delegations, NEW cross, NEW invocation,
         StateInv(st, cs), Ready(st), status \in {"ACTIVE", "FAILED"},
         CountsAs(st, c, status, delegations, cross, invocation),
         delegations <= MaxDelegations, cross <= MaxCross
  PROVE  /\ StateInv(c, cs) /\ (status = "ACTIVE" => Ready(c))
         /\ \A i : Movable(st, i) => Movable(c, i)
<1>1. StatusFits(c) /\ WithinBudget(c)
  BY DEF StateInv, StatusFits, WithinBudget, CountsAs, Ready
<1>2. StateInv(c, cs)
  BY <1>1 DEF StateInv, CountsAs
<1>3. status = "ACTIVE" => Ready(c)
  BY DEF CountsAs, Ready
<1> QED
  BY <1>2, <1>3 DEF CountsAs, Movable

\* A budget that is used up fails the plan, whose step stays as it is.
LEMMA RefuseKeeps ==
  ASSUME SupervisorInv, RefuseDelegation
  PROVE  SupervisorInv'
<1>1. StateInv(s, calls) /\ Ready(s) /\ s \in AgentState
  BY DEF SupervisorInv, NodeInv, RefuseDelegation, StateInv, Ready
<1>2. s' = Failed(s) /\ node' = "supervisor"
      /\ UNCHANGED <<request, saved, granted, now, crashes, calls, decided>>
  BY DEF RefuseDelegation
<1>3. CountsAs(s, s', "FAILED", s.delegations, s.cross, s.invocation)
  <2>1. s' = [s EXCEPT !.status = "FAILED"] /\ "FAILED" \in PlanStatus
    BY <1>2 DEF Failed, PlanStatus
  <2> QED
    BY <1>1, <2>1 DEF CountsAs, AgentState
<1>4. s.delegations <= MaxDelegations /\ s.cross <= MaxCross
  BY <1>1 DEF StateInv, WithinBudget
<1>5. StateInv(s', calls)
  BY <1>1, <1>3, <1>4, CountingKeeps
<1>6. s'.invocation = s.invocation /\ s' \in AgentState
  BY <1>3 DEF CountsAs
<1>7. TypeOK' /\ NodeInv'
  BY <1>2, <1>6 DEF SupervisorInv, TypeOK, NodeInv
<1>8. GrantInv' /\ WritesAsConfirmed' /\ CallsInv'
  BY <1>2, <1>6 DEF SupervisorInv, GrantInv, WritesAsConfirmed, CallsInv
<1> QED
  BY <1>2, <1>5, <1>7, <1>8 DEF SupervisorInv

\* A call is made only within the limits, of something that was not called
\* before, and a write only once it is confirmed.
LEMMA VerdictRuns ==
  ASSUME NEW cap, NEW args, NEW invocation, NEW confirmed,
         invocation.calls \in Nat, Verdict(cap, args, invocation, confirmed) = "RUN"
  PROVE  /\ invocation.calls < MaxCalls
         /\ Fingerprint(cap, args) \notin invocation.seen
         /\ Writes(cap) => confirmed
<1>1. ~Denied(cap, args, invocation)
  BY DEF Verdict
<1>2. ~(NeedsApproval(cap) /\ ~confirmed)
  BY Zenon DEF Verdict
<1>3. Writes(cap) => NeedsApproval(cap)
  BY DEF Writes, NeedsApproval
<1>4. ~(invocation.calls >= MaxCalls)
  BY <1>1 DEF Denied
<1> QED
  BY <1>1, <1>2, <1>3, <1>4, Bounds DEF Denied

\* How a specialist may read an answer.
LEMMA OutcomeReads ==
  ASSUME NEW cap, NEW args, NEW invocation, NEW confirmed, NEW verdict, NEW answer, NEW outcome,
         verdict = Verdict(cap, args, invocation, confirmed),
         answer \in Answers(cap, Evidence), outcome = Outcome(verdict, answer)
  PROVE  /\ outcome \in Reading
         /\ outcome = "SUCCESS" =>
              verdict = "RUN" /\ answer.kind = "ok" /\ answer.data \in Evidence
         /\ outcome = "REPLAN" => cap \in ByIdentifier
<1>1. verdict \in {"INVALID", "DENIED", "HUMAN_ONLY", "CONFIRM", "MISSING", "RUN"}
  BY DEF Verdict
<1>2. /\ answer.kind \in {"ok", "refused", "lost", "not-found"}
      /\ answer.kind = "ok" => answer.data \in Evidence
      /\ answer.kind = "not-found" => cap \in ByIdentifier
  <2>1. CASE answer \in [kind : {"ok"}, data : Evidence]
    BY <2>1
  <2>2. CASE answer = [kind |-> "refused"]
    BY <2>2
  <2>3. CASE answer = [kind |-> "lost"]
    BY <2>3
  <2>4. CASE answer = [kind |-> "not-found"] /\ cap \in ByIdentifier
    BY <2>4
  <2> QED
    BY <2>1, <2>2, <2>3, <2>4 DEF Answers
<1>3. CASE verdict # "RUN"
  BY <1>1, <1>3 DEF Outcome, Reading
<1>4. CASE verdict = "RUN"
  BY <1>2, <1>4 DEF Outcome, Reading
<1> QED
  BY <1>3, <1>4

\* What is counted only grows, and a call is counted and remembered.
LEMMA ProgressCounts ==
  ASSUME NEW invocation \in [calls : Nat, seen : SUBSET (Name \X CallArgs)],
         NEW cap \in Name, NEW args \in CallArgs, NEW verdict,
         NEW next, next = Progress(invocation, cap, args, verdict)
  PROVE  /\ next \in [calls : Nat, seen : SUBSET (Name \X CallArgs)]
         /\ invocation.calls <= next.calls /\ invocation.seen \subseteq next.seen
         /\ verdict = "RUN" =>
              /\ next.calls = invocation.calls + 1
              /\ Fingerprint(cap, args) \in next.seen
<1>1. CASE verdict = "CONFIRM"
  BY <1>1 DEF Progress
<1>2. CASE verdict # "CONFIRM"
  BY <1>2 DEF Progress, Fingerprint
<1> QED
  BY <1>1, <1>2

\* The call of a specialist, with whatever is answered.  A write runs only
\* with the grant of this turn, whose fingerprint no other call of the turn
\* used: a second write would need another one.
LEMMA DelegateKeeps ==
  ASSUME SupervisorInv, Delegate
  PROVE  SupervisorInv'
<1>1. StateInv(s, calls) /\ Ready(s) /\ s \in AgentState /\ s.status = "ACTIVE"
  BY DEF SupervisorInv, NodeInv, Delegate, StateInv, Ready
<1>2. PICK i \in DOMAIN s.steps :
        /\ StepOf(s, s.current) = s.steps[i] /\ s.steps[i].id = s.current
        /\ s.steps[i].status = "PENDING" /\ Movable(s, i)
  BY <1>1, ReadyStep
<1> DEFINE step == s.steps[i]
           args == Projected(s, step)
           confirmed == Confirmed(step, args)
           verdict == Verdict(step.cap, args, s.invocation, confirmed)
           cross == IF CrossesDomains(s, step) THEN s.cross + 1 ELSE s.cross
           invocation == Progress(s.invocation, step.cap, args, verdict)
<1>3. PICK answer \in Answers(step.cap, Evidence) :
        LET outcome == Outcome(verdict, answer)
            data == IF outcome = "SUCCESS" THEN answer.data ELSE ""
            c == [s EXCEPT !.delegations = @ + 1,
                           !.cross = IF CrossesDomains(s, step) THEN @ + 1 ELSE @,
                           !.invocation = Progress(@, step.cap, args, verdict),
                           !.results = Append(@, ResultOf(step, outcome, data))]
        IN /\ s' = Applied(c, step, outcome)
           /\ calls' = IF verdict # "RUN" THEN calls
                       ELSE Append(calls, [id |-> step.id, cap |-> step.cap, args |-> args,
                                           done |-> answer.kind \in {"ok", "lost"},
                                           turn |-> Len(decided), started |-> s.started,
                                           late |-> now >= s.started + Duration])
  BY <1>2, Zenon DEF Delegate
<1>4. ~Exhausted(s, step)
  BY <1>2, Zenon DEF Delegate
<1>5. node' = "supervisor" /\ UNCHANGED <<request, saved, granted, now, crashes, decided>>
  BY DEF Delegate
<1> DEFINE outcome == Outcome(verdict, answer)
           data == IF outcome = "SUCCESS" THEN answer.data ELSE ""
           results == Append(s.results, ResultOf(step, outcome, data))
           c == [s EXCEPT !.delegations = @ + 1,
                          !.cross = IF CrossesDomains(s, step) THEN @ + 1 ELSE @,
                          !.invocation = Progress(@, step.cap, args, verdict),
                          !.results = Append(@, ResultOf(step, outcome, data))]
           call == [id |-> step.id, cap |-> step.cap, args |-> args,
                    done |-> answer.kind \in {"ok", "lost"}, turn |-> Len(decided),
                    started |-> s.started, late |-> now >= s.started + Duration]
<1>6. /\ s' = Applied(c, step, outcome)
      /\ calls' = IF verdict # "RUN" THEN calls ELSE Append(calls, call)
  BY <1>3
<1>7. /\ s.invocation \in [calls : Nat, seen : SUBSET (Name \X CallArgs)]
      /\ s.results \in Seq(Result) /\ s.delegations \in Nat /\ s.cross \in Nat
      /\ s.started \in Nat
      /\ s.delegations <= MaxDelegations /\ s.cross <= MaxCross
  BY <1>1, Fields DEF StateInv, WithinBudget
<1>8. /\ step.id \in StepId /\ step.domain \in Name /\ step.cap \in Name /\ args \in CallArgs
  BY <1>1, StepTyped, ProjectedTyped
<1>9. /\ outcome \in Reading
      /\ outcome = "SUCCESS" => verdict = "RUN" /\ answer.kind = "ok" /\ answer.data \in Evidence
      /\ outcome = "REPLAN" => step.cap \in ByIdentifier
  <2> HIDE DEF confirmed, args
  <2> QED
    BY OutcomeReads
<1>10. /\ invocation \in [calls : Nat, seen : SUBSET (Name \X CallArgs)]
       /\ s.invocation.calls <= invocation.calls /\ s.invocation.seen \subseteq invocation.seen
       /\ verdict = "RUN" =>
            /\ invocation.calls = s.invocation.calls + 1
            /\ Fingerprint(step.cap, args) \in invocation.seen
  <2> HIDE DEF args, verdict
  <2> QED
    BY <1>7, <1>8, ProgressCounts
<1>11. verdict = "RUN" =>
         /\ s.invocation.calls < MaxCalls /\ Fingerprint(step.cap, args) \notin s.invocation.seen
         /\ Writes(step.cap) => Confirmed(step, args)
  <2>1. s.invocation.calls \in Nat
    BY <1>7
  <2> HIDE DEF args, confirmed
  <2>2. verdict = "RUN" => (Writes(step.cap) => confirmed)
    BY <2>1, VerdictRuns
  <2> QED
    BY <2>1, <2>2, VerdictRuns DEF confirmed
<1>12. results \in Seq(Result)
  <2>1. data \in Data
    BY <1>9 DEF Data
  <2> HIDE DEF outcome, data
  <2>2. ResultOf(step, outcome, data) \in Result
    BY <1>8, <1>9, <2>1 DEF ResultOf, Result
  <2>3. s.results \in Seq(Result)
    BY <1>7
  <2> QED
    BY <2>2, <2>3, AppendProperties
<1>13. s.delegations + 1 <= MaxDelegations /\ cross <= MaxCross /\ cross \in Nat
  BY <1>4, <1>7, Bounds DEF Exhausted
<1>14. CountsAs(s, c, "ACTIVE", s.delegations + 1, cross, invocation)
  <2>1. c = [s EXCEPT !.delegations = s.delegations + 1, !.cross = cross,
                      !.invocation = invocation, !.results = results]
    BY <1>1 DEF AgentState
  <2>2. s.delegations + 1 \in Nat
    BY <1>7
  <2> HIDE DEF c, cross, invocation, results
  <2> QED
    BY <1>1, <1>10, <1>12, <1>13, <2>1, <2>2 DEF CountsAs, AgentState
<1> HIDE DEF c, cross, invocation, results, verdict, args, outcome, call
<1>15. /\ StateInv(c, calls) /\ Movable(c, i) /\ c.status = "ACTIVE" /\ c.steps = s.steps
       /\ c.current = s.current /\ c.invocation = invocation
  BY <1>1, <1>2, <1>13, <1>14, CountingKeeps DEF CountsAs
<1>16. call \in Call /\ call.id = step.id /\ call.cap = step.cap /\ call.args = args
       /\ call.turn = Len(decided) /\ call.started = s.started
       /\ (call.late <=> now >= s.started + Duration)
       /\ (answer.kind = "ok" => call.done)
  <2>1. Len(decided) \in Nat
    BY HistoryTyped
  <2>2. (answer.kind \in {"ok", "lost"}) \in BOOLEAN /\ (now >= s.started + Duration) \in BOOLEAN
    OBVIOUS
  <2> QED
    BY <1>7, <1>8, <2>1, <2>2 DEF call, Call
<1>17. /\ calls' \in Seq(Call) /\ Extends(calls, calls')
       /\ verdict # "RUN" => calls' = calls
       /\ verdict = "RUN" =>
            /\ Len(calls') = Len(calls) + 1 /\ calls'[Len(calls) + 1] = call
            /\ DOMAIN calls' = 1..Len(calls) + 1
            /\ \A k \in 1..Len(calls) : calls'[k] = calls[k]
  <2>1. CASE verdict # "RUN"
    BY <1>6, <2>1, HistoryTyped DEF Extends
  <2>2. CASE verdict = "RUN"
    <3>1. calls' = Append(calls, call)
      BY <1>6, <2>2
    <3>2. /\ calls' \in Seq(Call) /\ Len(calls') = Len(calls) + 1
          /\ calls'[Len(calls) + 1] = call /\ \A k \in 1..Len(calls) : calls'[k] = calls[k]
      BY <1>16, <3>1, HistoryTyped, AppendProperties
    <3>3. DOMAIN calls' = 1..Len(calls) + 1
      BY <3>2
    <3> QED
      BY <2>2, <3>2, <3>3, HistoryTyped DEF Extends
  <2> QED
    BY <2>1, <2>2
<1>18. StateInv(s', calls') /\ s'.invocation = invocation /\ s' \in AgentState
  <2>1. outcome = "SUCCESS" => CalledIn(c.steps[i].id, calls')
    <3> SUFFICES ASSUME outcome = "SUCCESS" PROVE CalledIn(step.id, calls')
      BY <1>15
    <3>1. Len(calls) + 1 \in DOMAIN calls' /\ calls'[Len(calls) + 1] = call
      BY <1>9, <1>17, HistoryTyped
    <3> QED
      BY <1>9, <1>16, <3>1 DEF CalledIn
  <2>2. s' = Applied(c, c.steps[i], outcome)
    BY <1>6, <1>15
  <2>3. c.steps[i].id = c.current /\ (outcome = "REPLAN" => c.steps[i].cap \in ByIdentifier)
    BY <1>2, <1>9, <1>15
  <2>4. StateInv(s', calls') /\ s'.invocation = c.invocation
    BY <1>9, <1>15, <1>17, <2>1, <2>2, <2>3, AppliedKeeps
  <2> QED
    BY <1>15, <2>4 DEF StateInv
<1>19. TypeOK' /\ NodeInv'
  BY <1>5, <1>17, <1>18 DEF SupervisorInv, TypeOK, NodeInv
<1>20. saved' # None => StateInv(saved', calls')
  BY <1>5, <1>17, MoreCalls DEF SupervisorInv
<1>21. ASSUME verdict = "RUN", Writes(step.cap)
       PROVE  /\ granted # None /\ granted.id = step.id /\ granted.cap = step.cap
              /\ granted.args = args /\ GrantFits(granted, decided, calls, s.invocation.seen)
              /\ \A k \in DOMAIN calls : ~(calls[k].turn = Len(decided) /\ Writes(calls[k].cap))
  <2>1. /\ granted # None /\ granted.id = step.id /\ granted.cap = step.cap
        /\ granted.args = args
    BY <1>11, <1>21 DEF Confirmed
  <2>2. GrantFits(granted, decided, calls, s.invocation.seen)
    BY <2>1 DEF SupervisorInv, GrantInv
  <2> QED
    BY <1>11, <1>21, <2>1, <2>2 DEF GrantFits
<1>22. GrantInv'
  <2> SUFFICES ASSUME granted # None
               PROVE  GrantFits(granted, decided, calls', invocation.seen)
    BY <1>5, <1>18 DEF GrantInv
  <2>1. GrantFits(granted, decided, calls, s.invocation.seen)
    BY DEF SupervisorInv, GrantInv
  <2>2. ASSUME NEW k \in DOMAIN calls', calls'[k].turn = Len(decided), Writes(calls'[k].cap)
        PROVE  Fingerprint(granted.cap, granted.args) \in invocation.seen
    <3>1. CASE k \in DOMAIN calls
      BY <1>10, <1>17, <2>1, <2>2, <3>1 DEF GrantFits, Extends
    <3>2. CASE k \notin DOMAIN calls
      <4>1. verdict = "RUN" /\ calls'[k] = call
        BY <1>17, <3>2, HistoryTyped
      <4> QED
        BY <1>10, <1>16, <1>21, <2>2, <4>1
    <3> QED
      BY <3>1, <3>2
  <2> QED
    BY <2>1, <2>2 DEF GrantFits
<1>23. WritesAsConfirmed'
  <2>1. CASE verdict # "RUN"
    BY <1>5, <1>17, <2>1 DEF SupervisorInv, WritesAsConfirmed
  <2>2. CASE verdict = "RUN"
    <3>1. ASSUME NEW k \in DOMAIN calls', Writes(calls'[k].cap)
          PROVE  /\ calls'[k].turn > 0
                 /\ LET d == decided[calls'[k].turn] IN
                      /\ d.yes /\ d.id = calls'[k].id /\ d.cap = calls'[k].cap
                      /\ d.args = calls'[k].args
                 /\ \A j \in DOMAIN calls' :
                      calls'[j].turn = calls'[k].turn /\ Writes(calls'[j].cap) => k = j
      <4>1. CASE k \in DOMAIN calls
        <5>1. calls'[k] = calls[k]
          BY <1>17, <4>1 DEF Extends
        <5>2. ASSUME NEW j \in DOMAIN calls', j \notin DOMAIN calls, Writes(calls'[j].cap)
              PROVE  calls'[j].turn # calls'[k].turn
          <6>1. calls'[j] = call
            BY <1>17, <2>2, <5>2, HistoryTyped
          <6> QED
            BY <1>16, <1>21, <2>2, <3>1, <4>1, <5>1, <5>2, <6>1
        <5>3. \A j \in DOMAIN calls : calls'[j] = calls[j]
          BY <1>17 DEF Extends
        <5> QED
          BY <3>1, <4>1, <5>1, <5>2, <5>3 DEF SupervisorInv, WritesAsConfirmed
      <4>2. CASE k \notin DOMAIN calls
        <5>1. calls'[k] = call /\ k = Len(calls) + 1
          BY <1>17, <2>2, <4>2, HistoryTyped
        <5>2. Writes(step.cap)
          BY <1>16, <3>1, <5>1
        <5>3. /\ Len(decided) > 0 /\ decided[Len(decided)].yes
              /\ decided[Len(decided)].id = step.id /\ decided[Len(decided)].cap = step.cap
              /\ decided[Len(decided)].args = args
          BY <1>21, <2>2, <5>2 DEF GrantFits
        <5>4. ASSUME NEW j \in DOMAIN calls', calls'[j].turn = Len(decided), Writes(calls'[j].cap)
              PROVE  k = j
          <6>1. CASE j \in DOMAIN calls
            BY <1>17, <1>21, <2>2, <5>2, <5>4, <6>1 DEF Extends
          <6>2. CASE j \notin DOMAIN calls
            BY <1>17, <2>2, <5>1, <6>2, HistoryTyped
          <6> QED
            BY <6>1, <6>2
        <5> QED
          BY <1>16, <5>1, <5>3, <5>4
      <4> QED
        BY <4>1, <4>2
    <3> QED
      BY <1>5, <3>1 DEF WritesAsConfirmed
  <2> QED
    BY <2>1, <2>2
<1>24. CallsInv'
  <2>1. CASE verdict # "RUN"
    <3>1. crashes = 0 => Len(calls) <= invocation.calls
      BY <1>7, <1>10, HistoryTyped DEF SupervisorInv, CallsInv
    <3> QED
      BY <1>5, <1>17, <1>18, <2>1, <3>1 DEF SupervisorInv, CallsInv
  <2>2. CASE verdict = "RUN"
    <3>1. ASSUME NEW k \in DOMAIN calls'
          PROVE  /\ calls'[k].turn <= Len(decided)
                 /\ calls'[k].late => calls'[k].started + Duration <= now
      <4>1. CASE k \in DOMAIN calls
        BY <1>17, <4>1, CallsTyped DEF Extends
      <4>2. CASE k \notin DOMAIN calls
        <5>1. calls'[k] = call
          BY <1>17, <2>2, <4>2, HistoryTyped
        <5> QED
          BY <1>7, <1>16, <5>1, HistoryTyped, Bounds
      <4> QED
        BY <4>1, <4>2
    <3>2. ASSUME NEW k \in DOMAIN calls', NEW j \in DOMAIN calls', calls'[k].late, calls'[j].late,
                 calls'[k].started = calls'[j].started
          PROVE  k = j
      <4>1. NoneLate(s.started, calls)
        BY DEF SupervisorInv, NodeInv, Delegate
      <4>2. \A l \in DOMAIN calls :
              calls'[l] = calls[l] /\ (calls[l].late => calls[l].started # s.started)
        BY <1>17, <4>1 DEF Extends, NoneLate
      <4>3. \A l \in DOMAIN calls' : l \notin DOMAIN calls =>
              l = Len(calls) + 1 /\ calls'[l].started = s.started
        BY <1>16, <1>17, <2>2, HistoryTyped
      <4>4. CASE k \in DOMAIN calls /\ j \in DOMAIN calls
        BY <3>2, <4>2, <4>4 DEF SupervisorInv, CallsInv
      <4> QED
        BY <3>2, <4>2, <4>3, <4>4
    <3>3. crashes = 0 => Len(calls') <= invocation.calls /\ Len(calls') <= MaxCalls
      BY <1>7, <1>10, <1>11, <1>17, <2>2, HistoryTyped, Bounds DEF SupervisorInv, CallsInv
    <3> QED
      BY <1>5, <1>18, <3>1, <3>2, <3>3 DEF CallsInv
  <2> QED
    BY <2>1, <2>2
<1> QED
  BY <1>18, <1>19, <1>20, <1>22, <1>23, <1>24 DEF SupervisorInv

\* Every step keeps the invariant, and so does a step that changes nothing.
LEMMA NextKeeps ==
  ASSUME SupervisorInv, [Next]_vars
  PROVE  SupervisorInv'
<1>1. CASE Supervise
  BY <1>1, SuperviseKeeps
<1>2. CASE RefuseDelegation
  BY <1>2, RefuseKeeps
<1>3. CASE Delegate
  BY <1>3, DelegateKeeps
<1>4. CASE AcceptConfirmation
  BY <1>4, AcceptKeeps
<1>5. CASE Cancel
  BY <1>5, CancelKeeps
<1>6. CASE Synthesize \/ Crash \/ Tick
  BY <1>6, OthersKeep
<1>7. ASSUME NEW yes \in BOOLEAN, Resume(yes) PROVE SupervisorInv'
  BY <1>7, ResumeKeeps
<1>8. CASE UNCHANGED vars
  <2>1. /\ request' = request /\ node' = node /\ s' = s /\ saved' = saved
        /\ granted' = granted /\ now' = now /\ crashes' = crashes /\ calls' = calls
        /\ decided' = decided
    BY <1>8 DEF vars
  <2>2. TypeOK' /\ NodeInv' /\ GrantInv'
    BY <2>1 DEF SupervisorInv, TypeOK, NodeInv, GrantInv
  <2>3. CallsInv' /\ WritesAsConfirmed'
    BY <2>1 DEF SupervisorInv, CallsInv, WritesAsConfirmed
  <2> QED
    BY <2>1, <2>2, <2>3 DEF SupervisorInv
<1> QED
  BY <1>1, <1>2, <1>3, <1>4, <1>5, <1>6, <1>7, <1>8 DEF Next, Graph

\* The invariant holds in every behaviour: the plan, the history and the
\* grant that the nodes of the graph leave behind fit each other.
THEOREM SupervisorInvariant == Spec => []SupervisorInv
<1>1. Init => SupervisorInv
  BY InitEstablishes
<1>2. SupervisorInv /\ [Next]_vars => SupervisorInv'
  BY NextKeeps
<1> QED
  BY <1>1, <1>2, PTL DEF Spec

\* Every value that the graph passes on is of its type.
THEOREM SupervisorTypeCorrect == Spec => []TypeOK
<1>1. SupervisorInv => TypeOK
  BY DEF SupervisorInv
<1> QED
  BY <1>1, SupervisorInvariant, PTL

(***************************************************************************)
(* What the invariant says.                                                *)
(***************************************************************************)
\* PlanValidator keeps no plan that goes in circles, however long, and no
\* replanning brings one in (_reject_cycles, apply_result).
THEOREM PlansAreOrdered == Spec => []PlansCanBeOrdered
<1>1. SupervisorInv => PlansCanBeOrdered
  BY DEF SupervisorInv, StateInv, Sound, PlanOK, PlansCanBeOrdered
<1> QED
  BY <1>1, SupervisorInvariant, PTL

\* The settled steps hold what each of them depends on, so that nothing that
\* a step hangs on, however indirectly, is unsettled once it is offered.
LEMMA SettledBelow ==
  ASSUME NEW steps, UniqueIds(steps), KnownDeps(steps), InOrder(steps),
         NEW i \in DOMAIN steps, steps[i].status # "PENDING",
         NEW x \in Below(steps, steps[i].id)
  PROVE  steps[At(steps, x)].status \in Settled
<1> DEFINE ids == {id \in Ids(steps) : steps[At(steps, id)].status \in Settled}
<1>1. ASSUME NEW j \in DOMAIN steps, steps[j].status # "PENDING"
      PROVE  DepsOf(steps, steps[j].id) \subseteq ids
  <2> SUFFICES ASSUME NEW d \in steps[j].deps PROVE d \in ids
    BY Found DEF DepsOf
  <2>1. d \in Ids(steps)
    BY DEF KnownDeps
  <2>2. At(steps, d) \in DOMAIN steps /\ steps[At(steps, d)].id = d
    BY <2>1, Found
  <2>3. steps[At(steps, d)].status \in Settled
    BY <1>1, <2>2 DEF InOrder, DepsSettled
  <2> QED
    BY <2>1, <2>3
<1>2. Closed(steps, ids)
  <2> SUFFICES ASSUME NEW id \in ids PROVE DepsOf(steps, id) \subseteq ids
    BY DEF Closed
  <2>1. /\ At(steps, id) \in DOMAIN steps /\ steps[At(steps, id)].id = id
        /\ steps[At(steps, id)].status # "PENDING"
    BY Found DEF Settled
  <2> HIDE DEF ids
  <2> QED
    BY <1>1, <2>1
<1>3. x \in ids
  <2>1. ids \in SUBSET Ids(steps) /\ DepsOf(steps, steps[i].id) \subseteq ids
    BY <1>1
  <2> HIDE DEF ids
  <2> QED
    BY <1>2, <2>1 DEF Below
<1> QED
  BY <1>3

\* A failure, a clarification or a handover stops all that was to follow,
\* though _dependencies_completed looks at one level only.
THEOREM FailuresStopAllBelow == Spec => []NothingPassesAFailure
<1>1. SupervisorInv => NothingPassesAFailure
  BY SettledBelow
     DEF SupervisorInv, StateInv, Sound, PlanOK, NothingPassesAFailure, StepOf
<1> QED
  BY <1>1, SupervisorInvariant, PTL

\* A write reaches its service once, in the turn that a confirmation began
\* and as it was shown, whatever crashes and replanning come between.
THEOREM WritesWereConfirmed == Spec => []WritesAsConfirmed
<1>1. SupervisorInv => WritesAsConfirmed
  BY DEF SupervisorInv
<1> QED
  BY <1>1, SupervisorInvariant, PTL

\* What the plan and its steps are reported to have done, they did.
THEOREM ReportsAreTrue == Spec => []ReportIsTrue
<1>1. SupervisorInv => ReportIsTrue
  <2> SUFFICES ASSUME SupervisorInv PROVE ReportIsTrue
    OBVIOUS
  <2>1. StateInv(s, calls)
    BY DEF SupervisorInv
  <2>2. s.status = "COMPLETED" => AllWell(s.steps, s.outcomes)
    BY <2>1 DEF StateInv, StatusFits
  <2>3. DoneIn(s.outcomes, calls) /\ OfferOpen(s.pending, s.outcomes)
    BY <2>1 DEF StateInv
  <2> QED
    BY <2>2, <2>3 DEF ReportIsTrue, AllWell, DoneIn, OfferOpen
<1> QED
  BY <1>1, SupervisorInvariant, PTL

\* A plan stays within its policy, and makes at most one call that is late,
\* however its turns and the user's answers are spread over time.
THEOREM BudgetIsKept == Spec => []BudgetHolds
<1>1. SupervisorInv => BudgetHolds
  BY DEF SupervisorInv, StateInv, WithinBudget, CallsInv, BudgetHolds
<1> QED
  BY <1>1, SupervisorInvariant, PTL
=============================================================================
