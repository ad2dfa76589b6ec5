-------------------------- MODULE LeaseClockProofs --------------------------
(***************************************************************************)
(* Theorems about LeaseClock, for every TTL, heartbeat interval and lag    *)
(* with Interval + 2 * Lag <= TTL.                                         *)
(*                                                                         *)
(* The heartbeat: between two renewals of a prompt run the clock stays at  *)
(* or below its deadline due[r], and the row is never allowed to run out   *)
(* before that deadline; so no acquire statement matches the row.          *)
(*                                                                         *)
(* The refinement: only a release puts the row of an ended run in the      *)
(* past, and there it stays until a straggling renewal revives it, which   *)
(* is what RunLease allows it to do once.                                  *)
(***************************************************************************)
EXTENDS LeaseClock, TLAPS

Active(r) == worker[r] \in {"running", "writing", "served"}

\* The row of a prompt run outlasts the deadline of its next renewal.
Covered(r) == Active(r) => /\ Holds(r)
                           /\ now <= due[r]
                           /\ due[r] <= row.until

\* A run that has released the row left it in the past.
LeftInThePast(r) == worker[r] = "ended" /\ Holds(r) => row.until < now

ClockInv ==
    /\ TypeOK
    /\ row.owner \in Run => row.fence > 0
    /\ \A r \in Prompt : Covered(r)
    /\ \A r \in Run : LeftInThePast(r)

LEMMA ClockInit == Init => ClockInv
  BY ClockAssumption
     DEF Init, ClockInv, TypeOK, Covered, Active, LeftInThePast, RL!WorkerState

\* The state keeps its types.
LEMMA ClockTypes == TypeOK /\ [Next]_clockVars => TypeOK'
  <1> SUFFICES ASSUME TypeOK, [Next]_clockVars PROVE TypeOK'
    OBVIOUS
  <1> USE ClockAssumption DEF TypeOK, RL!WorkerState, Readings, Schedule
  <1>1. CASE Tick
    BY <1>1 DEF Tick
  <1>2. ASSUME NEW r \in Run, Acquire(r) PROVE TypeOK'
    <2>1. PICK t \in Readings(r) :
             row' = [owner |-> r, fence |-> row.fence + 1, until |-> t + TTL]
      BY <1>2 DEF Acquire
    <2>2. row' \in [owner : Run \cup {NoRun}, fence : Nat, until : Nat]
      BY <2>1
    <2>3. due' \in [Run -> Nat] /\ held' \in [Run -> Nat]
      BY <1>2 DEF Acquire
    <2> QED
      BY <1>2, <2>2, <2>3 DEF Acquire
  <1>3. ASSUME NEW r \in Run, Refuse(r) PROVE TypeOK'
    BY <1>3 DEF Refuse
  <1>4. ASSUME NEW r \in Run, Renew(r) PROVE TypeOK'
    <2>1. PICK t \in Readings(r) :
             /\ row' = [row EXCEPT !.until = t + TTL]
             /\ worker' = IF worker[r] = "ended" /\ t + TTL >= now
                          THEN [worker EXCEPT ![r] = "gone"] ELSE worker
      BY <1>4 DEF Renew
    <2>2. t + TTL \in Nat
      OBVIOUS
    <2>3. row' \in [owner : Run \cup {NoRun}, fence : Nat, until : Nat]
      BY <2>1, <2>2
    <2>4. worker' \in [Run -> RL!WorkerState]
      BY <2>1
    <2>5. due' \in [Run -> Nat] /\ UNCHANGED <<now, held, locker, log>>
      BY <1>4 DEF Renew
    <2> QED
      BY <2>3, <2>4, <2>5
  <1>5. ASSUME NEW r \in Run, BeginWrite(r) PROVE TypeOK'
    BY <1>5 DEF BeginWrite
  <1>6. ASSUME NEW r \in Run, RejectWrite(r) PROVE TypeOK'
    BY <1>6 DEF RejectWrite
  <1>7. ASSUME NEW r \in Run, Commit(r) PROVE TypeOK'
    BY <1>7 DEF Commit
  <1>8. ASSUME NEW r \in Run, Rollback(r) PROVE TypeOK'
    BY <1>8 DEF Rollback
  <1>9. ASSUME NEW r \in Run, Release(r) PROVE TypeOK'
    <2>1. PICK t \in Readings(r) :
             row' = IF row.owner = r THEN [row EXCEPT !.until = t - 1] ELSE row
      BY <1>9 DEF Release
    <2>2. t - 1 \in Nat
      OBVIOUS
    <2> QED
      BY <1>9, <2>1, <2>2 DEF Release
  <1>10. ASSUME NEW r \in Run, Vanish(r) PROVE TypeOK'
    BY <1>10 DEF Vanish
  <1>11. CASE UNCHANGED clockVars
    BY <1>11 DEF clockVars
  <1> QED
    BY <1>1, <1>2, <1>3, <1>4, <1>5, <1>6, <1>7, <1>8, <1>9, <1>10, <1>11 DEF Next

\* A statement of a prompt run that takes effect now gives it a lease that
\* outlasts its next deadline.
LEMMA FreshLeaseCovers ==
  ASSUME TypeOK, NEW r \in Prompt, NEW t \in Readings(r), Schedule(r)
  PROVE  now <= due'[r] /\ due'[r] <= t + TTL
  BY ClockAssumption, MarginAssumption DEF TypeOK, Readings, Schedule

\* Every step keeps the leases of prompt runs ahead of their deadlines.
LEMMA ClockStep == ClockInv /\ [Next]_clockVars => ClockInv'
  <1> SUFFICES ASSUME ClockInv, [Next]_clockVars
               PROVE  /\ (row.owner \in Run => row.fence > 0)'
                      /\ \A p \in Prompt : Covered(p)'
                      /\ \A s \in Run : LeftInThePast(s)'
    BY ClockTypes DEF ClockInv
  <1> USE ClockAssumption DEF ClockInv, TypeOK, Covered, Active, LeftInThePast, Holds
  <1>1. CASE Tick
    BY <1>1 DEF Tick
  <1>2. ASSUME NEW r \in Run, Acquire(r)
        PROVE  /\ (row.owner \in Run => row.fence > 0)'
               /\ \A p \in Prompt : Covered(p)'
               /\ \A s \in Run : LeftInThePast(s)'
    <2>1. PICK t \in Readings(r) :
             /\ row.fence > 0 => row.until < t
             /\ row' = [owner |-> r, fence |-> row.fence + 1, until |-> t + TTL]
      BY <1>2 DEF Acquire
    <2>2. /\ held' = [held EXCEPT ![r] = row.fence + 1]
          /\ worker[r] = "idle" /\ worker' = [worker EXCEPT ![r] = "running"]
          /\ Schedule(r) /\ now' = now
      BY <1>2 DEF Acquire
    <2>3. t <= now /\ t \in Nat
      BY DEF Readings
    <2>4. \A p \in Prompt : p # r => ~Active(p)
      BY <2>1, <2>3
    <2>5. r \in Prompt => now <= due'[r] /\ due'[r] <= t + TTL
      BY <2>2, FreshLeaseCovers
    <2> QED
      BY <2>1, <2>2, <2>4, <2>5
  <1>3. ASSUME NEW r \in Run, Refuse(r)
        PROVE  /\ (row.owner \in Run => row.fence > 0)'
               /\ \A p \in Prompt : Covered(p)'
               /\ \A s \in Run : LeftInThePast(s)'
    BY <1>3 DEF Refuse
  <1>4. ASSUME NEW r \in Run, Renew(r)
        PROVE  /\ (row.owner \in Run => row.fence > 0)'
               /\ \A p \in Prompt : Covered(p)'
               /\ \A s \in Run : LeftInThePast(s)'
    <2>1. PICK t \in Readings(r) :
             /\ row' = [row EXCEPT !.until = t + TTL]
             /\ worker' = IF worker[r] = "ended" /\ t + TTL >= now
                          THEN [worker EXCEPT ![r] = "gone"] ELSE worker
      BY <1>4 DEF Renew
    <2>2. Schedule(r) /\ now' = now /\ held' = held /\ row.owner = r
          /\ worker[r] \in {"running", "writing", "served", "ended"}
      BY <1>4 DEF Renew
    <2>3. t \in Nat
      BY DEF Readings
    <2>4. r \in Prompt => now <= due'[r] /\ due'[r] <= t + TTL
      BY <2>2, FreshLeaseCovers
    <2>5. \A p \in Prompt : p # r => ~Active(p)
      BY <2>2
    <2> QED
      BY <2>1, <2>2, <2>3, <2>4, <2>5
  <1>5. ASSUME NEW r \in Run, BeginWrite(r)
        PROVE  /\ (row.owner \in Run => row.fence > 0)'
               /\ \A p \in Prompt : Covered(p)'
               /\ \A s \in Run : LeftInThePast(s)'
    BY <1>5 DEF BeginWrite
  <1>6. ASSUME NEW r \in Run, RejectWrite(r)
        PROVE  /\ (row.owner \in Run => row.fence > 0)'
               /\ \A p \in Prompt : Covered(p)'
               /\ \A s \in Run : LeftInThePast(s)'
    BY <1>6 DEF RejectWrite
  <1>7. ASSUME NEW r \in Run, Commit(r)
        PROVE  /\ (row.owner \in Run => row.fence > 0)'
               /\ \A p \in Prompt : Covered(p)'
               /\ \A s \in Run : LeftInThePast(s)'
    BY <1>7 DEF Commit
  <1>8. ASSUME NEW r \in Run, Rollback(r)
        PROVE  /\ (row.owner \in Run => row.fence > 0)'
               /\ \A p \in Prompt : Covered(p)'
               /\ \A s \in Run : LeftInThePast(s)'
    BY <1>8 DEF Rollback
  <1>9. ASSUME NEW r \in Run, Release(r)
        PROVE  /\ (row.owner \in Run => row.fence > 0)'
               /\ \A p \in Prompt : Covered(p)'
               /\ \A s \in Run : LeftInThePast(s)'
    <2>1. PICK t \in Readings(r) :
             row' = IF row.owner = r THEN [row EXCEPT !.until = t - 1] ELSE row
      BY <1>9 DEF Release
    <2>2. /\ worker' = [worker EXCEPT ![r] = "ended"]
          /\ due' = due /\ now' = now /\ held' = held
      BY <1>9 DEF Release
    <2>3. t - 1 < now
      BY DEF Readings
    <2> QED
      BY <2>1, <2>2, <2>3
  <1>10. ASSUME NEW r \in Run, Vanish(r)
         PROVE  /\ (row.owner \in Run => row.fence > 0)'
                /\ \A p \in Prompt : Covered(p)'
                /\ \A s \in Run : LeftInThePast(s)'
    BY <1>10 DEF Vanish
  <1>11. CASE UNCHANGED clockVars
    BY <1>11 DEF clockVars
  <1> QED
    BY <1>1, <1>2, <1>3, <1>4, <1>5, <1>6, <1>7, <1>8, <1>9, <1>10, <1>11 DEF Next

LEMMA ClockInvariant == Spec => []ClockInv
  <1>1. Init => ClockInv
    BY ClockInit
  <1>2. ClockInv /\ [Next]_clockVars => ClockInv'
    BY ClockStep
  <1> QED
    BY <1>1, <1>2, PTL DEF Spec

\* The clock model's state has its declared types.
THEOREM ClockTypeCorrect == Spec => []TypeOK
  <1>1. ClockInv => TypeOK
    BY DEF ClockInv
  <1> QED
    BY <1>1, ClockInvariant, PTL

\* A run whose renewals take effect in time is never overtaken, for every TTL
\* that leaves room for the interval and two lags.
THEOREM HeartbeatKeepsLease == Spec => []PromptKeepsLease
  <1>1. ClockInv => PromptKeepsLease
    BY ClockAssumption DEF ClockInv, TypeOK, Covered, Active, PromptKeepsLease
  <1> QED
    BY <1>1, ClockInvariant, PTL

-----------------------------------------------------------------------------
\* What RunLease sees of a row is a lease with a flag.
LEMMA SeenLease ==
  ASSUME NEW w \in [owner : Run \cup {NoRun}, fence : Nat, until : Nat], NEW t \in Nat
  PROVE  /\ [owner |-> w.owner, fence |-> w.fence, live |-> w.fence > 0 /\ w.until >= t]
               \in [owner : Run \cup {NoRun}, fence : Nat, live : BOOLEAN]
         /\ [owner |-> w.owner, fence |-> w.fence,
             live |-> w.fence > 0 /\ w.until >= t].live
               <=> w.fence > 0 /\ w.until >= t
  OBVIOUS

LeaseView ==
  /\ Lease \in [owner : Run \cup {NoRun}, fence : Nat, live : BOOLEAN]
  /\ Lease.live <=> Live
  /\ Lease.owner = row.owner /\ Lease.fence = row.fence

LEMMA LeaseTyped == TypeOK => LeaseView
  <1>1. Lease.owner = row.owner /\ Lease.fence = row.fence
    BY DEF Lease
  <1>2. TypeOK => Lease \in [owner : Run \cup {NoRun}, fence : Nat, live : BOOLEAN]
                  /\ (Lease.live <=> Live)
    BY SeenLease, Zenon DEF TypeOK, Lease, Live
  <1> QED
    BY <1>1, <1>2 DEF LeaseView

\* Where the row keeps its owner and its fence, RunLease sees its lease expire,
\* revive or stay as it is.
LEMMA LeaseChange ==
  ASSUME TypeOK, TypeOK', row'.owner = row.owner, row'.fence = row.fence
  PROVE  /\ Live /\ ~Live' => Lease.live /\ Lease' = [Lease EXCEPT !.live = FALSE]
         /\ ~Live /\ Live' => ~Lease.live /\ Lease' = [Lease EXCEPT !.live = TRUE]
         /\ (Live <=> Live') => Lease' = Lease
  <1>1. /\ Lease \in [owner : Run \cup {NoRun}, fence : Nat, live : BOOLEAN]
        /\ Lease' \in [owner : Run \cup {NoRun}, fence : Nat, live : BOOLEAN]
        /\ Lease'.owner = Lease.owner /\ Lease'.fence = Lease.fence
        /\ Lease.live <=> Live
        /\ Lease'.live <=> Live'
    <2>1. LeaseView /\ LeaseView'
      BY LeaseTyped, PTL
    <2> QED
      BY <2>1 DEF LeaseView
  <1> QED
    BY <1>1

\* Every step is a step of RunLease, or leaves what RunLease sees as it is.
LEMMA StepRefines ==
  ClockInv /\ [Next]_clockVars => RL!Next \/ UNCHANGED <<Lease, held, worker, locker, log>>
  <1> SUFFICES ASSUME ClockInv, [Next]_clockVars
               PROVE  RL!Next \/ UNCHANGED <<Lease, held, worker, locker, log>>
    OBVIOUS
  <1> USE ClockAssumption
  <1>a. TypeOK /\ TypeOK' /\ row.fence \in Nat /\ row.until \in Nat /\ now \in Nat
    BY ClockTypes DEF ClockInv, TypeOK
  <1>b. /\ Lease.owner = row.owner /\ Lease.fence = row.fence
        /\ Lease.live <=> Live
    BY <1>a, LeaseTyped DEF LeaseView
  <1>1. CASE Tick
    <2>1. now' = now + 1 /\ row' = row /\ UNCHANGED <<held, worker, locker, log>>
      BY <1>1 DEF Tick
    <2>2. Live' => Live
      BY <1>a, <2>1 DEF Live
    <2>3. CASE Live /\ ~Live'
      <3>1. Lease.live /\ Lease' = [Lease EXCEPT !.live = FALSE]
        BY <1>a, <2>1, <2>3, LeaseChange
      <3>2. RL!Expire
        BY <2>1, <3>1 DEF RL!Expire
      <3> QED
        BY <3>2 DEF RL!Next
    <2>4. CASE Live <=> Live'
      BY <1>a, <2>1, <2>4, LeaseChange
    <2> QED
      BY <2>2, <2>3, <2>4
  <1>2. ASSUME NEW r \in Run, Acquire(r) PROVE RL!Acquire(r)
    <2>1. PICK t \in Readings(r) :
             /\ row.fence > 0 => row.until < t
             /\ row' = [owner |-> r, fence |-> row.fence + 1, until |-> t + TTL]
      BY <1>2 DEF Acquire
    <2>2. t \in Nat /\ t <= now
      BY <1>a DEF Readings
    <2>3. ~Lease.live
      BY <1>a, <1>b, <2>1, <2>2 DEF Live
    <2>4. /\ Lease' \in [owner : Run \cup {NoRun}, fence : Nat, live : BOOLEAN]
          /\ Lease'.owner = r /\ Lease'.fence = Lease.fence + 1
      <3>1. LeaseView'
        BY <1>a, LeaseTyped, PTL
      <3> QED
        BY <1>b, <2>1, <3>1 DEF LeaseView
    <2>5. Lease' = [owner |-> r, fence |-> Lease.fence + 1, live |-> Lease'.live]
      BY <2>4
    <2>6. \E inTime \in BOOLEAN :
             Lease' = [owner |-> r, fence |-> Lease.fence + 1, live |-> inTime]
      BY <2>4, <2>5
    <2> QED
      BY <1>2, <1>b, <2>3, <2>6 DEF Acquire, RL!Acquire
  <1>3. ASSUME NEW r \in Run, Refuse(r)
        PROVE  RL!Refuse(r)
    <2>1. Lease' = Lease
      BY <1>3 DEF Refuse, Lease, Live
    <2> QED
      BY <1>3, <1>b, <2>1 DEF Refuse, RL!Refuse
  <1>4. ASSUME NEW r \in Run, Renew(r)
        PROVE  \/ RL!Renew(r)
               \/ RL!Expire
               \/ UNCHANGED <<Lease, held, worker, locker, log>>
    <2>1. PICK t \in Readings(r) :
             /\ row.until >= t
             /\ row' = [row EXCEPT !.until = t + TTL]
             /\ worker' = IF worker[r] = "ended" /\ t + TTL >= now
                          THEN [worker EXCEPT ![r] = "gone"] ELSE worker
      BY <1>4 DEF Renew
    <2>2. /\ worker[r] \in {"running", "writing", "served", "ended"}
          /\ locker = NoRun /\ row.owner = r /\ row.fence = held[r]
          /\ now' = now /\ UNCHANGED <<held, locker, log>>
      BY <1>4 DEF Renew, Holds
    <2>3. t \in Nat /\ row.fence > 0
      BY <1>a, <2>2 DEF Readings, ClockInv
    <2>4. row'.owner = row.owner /\ row'.fence = row.fence /\ row'.until = t + TTL
      BY <1>a, <2>1 DEF TypeOK
    <2>5. Live' <=> t + TTL >= now
      BY <2>2, <2>3, <2>4 DEF Live
    <2>6. CASE ~Live /\ Live'
      <3>1. ~Lease.live /\ Lease' = [Lease EXCEPT !.live = TRUE]
        BY <1>a, <2>4, <2>6, LeaseChange
      <3>2. worker' = IF worker[r] = "ended" THEN [worker EXCEPT ![r] = "gone"] ELSE worker
        BY <2>1, <2>5, <2>6
      <3> QED
        BY <1>b, <2>2, <3>1, <3>2 DEF RL!Renew, RL!Holds
    <2>7. CASE Live /\ ~Live'
      <3>1. Lease.live /\ Lease' = [Lease EXCEPT !.live = FALSE]
        BY <1>a, <2>4, <2>7, LeaseChange
      <3>2. worker' = worker
        BY <2>1, <2>5, <2>7
      <3> QED
        BY <2>2, <3>1, <3>2 DEF RL!Expire
    <2>8. CASE Live <=> Live'
      <3>1. Lease' = Lease
        BY <1>a, <2>4, <2>8, LeaseChange
      <3>2. Live => worker[r] # "ended"
        BY <1>4, <1>a DEF ClockInv, LeftInThePast, Live, Renew
      <3>3. worker' = worker
        BY <2>1, <2>5, <2>8, <3>2
      <3> QED
        BY <2>2, <3>1, <3>3
    <2> QED
      BY <2>6, <2>7, <2>8
  <1>5. ASSUME NEW r \in Run, BeginWrite(r) PROVE RL!BeginWrite(r)
    <2>1. Lease' = Lease
      BY <1>5 DEF BeginWrite, Lease, Live
    <2> QED
      BY <1>5, <1>b, <2>1 DEF BeginWrite, Holds, RL!BeginWrite, RL!Holds
  <1>6. ASSUME NEW r \in Run, RejectWrite(r) PROVE RL!RejectWrite(r)
    <2>1. Lease' = Lease
      BY <1>6 DEF RejectWrite, Lease, Live
    <2>2. ~RL!Owns(r)
      BY <1>6, <1>a, <1>b
         DEF RejectWrite, Readings, Holds, Live, RL!Owns, RL!Holds
    <2> QED
      BY <1>6, <2>1, <2>2 DEF RejectWrite, RL!RejectWrite
  <1>7. ASSUME NEW r \in Run, Commit(r) PROVE RL!Commit(r)
    <2>1. Lease' = Lease
      BY <1>7 DEF Commit, Lease, Live
    <2> QED
      BY <1>7, <2>1 DEF Commit, RL!Commit, RL!Unlock
  <1>8. ASSUME NEW r \in Run, Rollback(r) PROVE RL!Rollback(r)
    <2>1. Lease' = Lease
      BY <1>8 DEF Rollback, Lease, Live
    <2> QED
      BY <1>8, <2>1 DEF Rollback, RL!Rollback, RL!Unlock
  <1>9. ASSUME NEW r \in Run, Release(r)
        PROVE  RL!Release(r)
    <2>1. PICK t \in Readings(r) :
             row' = IF row.owner = r THEN [row EXCEPT !.until = t - 1] ELSE row
      BY <1>9 DEF Release
    <2>2. t \in Nat /\ t <= now /\ now' = now
      BY <1>9, <1>a DEF Readings, Release
    <2>3. Lease' = IF Lease.owner = r THEN [Lease EXCEPT !.live = FALSE] ELSE Lease
      <3>1. CASE row.owner # r
        BY <1>b, <2>1, <2>2, <3>1 DEF Lease, Live
      <3>2. CASE row.owner = r
        <4>1. row'.owner = row.owner /\ row'.fence = row.fence /\ row'.until = t - 1
          BY <1>a, <2>1, <3>2 DEF TypeOK
        <4>2. ~Live'
          BY <1>a, <2>2, <4>1 DEF Live
        <4>3. /\ Live => Lease' = [Lease EXCEPT !.live = FALSE]
              /\ ~Live => Lease' = Lease
          BY <1>a, <4>1, <4>2, LeaseChange
        <4>4. Lease \in [owner : Run \cup {NoRun}, fence : Nat, live : BOOLEAN]
          BY <1>a, LeaseTyped DEF LeaseView
        <4>5. ~Live => Lease = [Lease EXCEPT !.live = FALSE]
          BY <1>b, <4>4
        <4> QED
          BY <1>b, <3>2, <4>3, <4>5
      <3> QED
        BY <3>1, <3>2
    <2> QED
      BY <1>9, <2>3 DEF Release, RL!Release
  <1>10. ASSUME NEW r \in Run, Vanish(r) PROVE RL!Vanish(r)
    <2>1. Lease' = Lease
      BY <1>10 DEF Vanish, Lease, Live
    <2> QED
      BY <1>10, <2>1 DEF Vanish, RL!Vanish, RL!Unlock
  <1>11. CASE UNCHANGED clockVars
    BY <1>11 DEF clockVars, Lease, Live
  <1> QED
    BY <1>1, <1>2, <1>3, <1>4, <1>5, <1>6, <1>7, <1>8, <1>9, <1>10, <1>11
       DEF Next, RL!Next

\* The clock is an implementation of the lease with its flag: what is proved of
\* RunLease holds whatever the clock does, however old its readings are.
THEOREM ClockRefinesRunLease == Spec => ImplementsRunLease
  <1>1. Init => RL!Init
    <2> SUFFICES ASSUME Init PROVE RL!Init
      OBVIOUS
    <2>1. TypeOK
      BY ClockInit DEF ClockInv
    <2>2. LeaseView
      BY <2>1, LeaseTyped
    <2>3. Lease = [owner |-> NoRun, fence |-> 0, live |-> FALSE]
      BY <2>2 DEF LeaseView, Live, Init
    <2> QED
      BY <2>3 DEF Init, RL!Init
  <1>2. ClockInv /\ [Next]_clockVars => [RL!Next]_(RL!leaseVars)
    BY StepRefines DEF RL!leaseVars
  <1> QED
    BY <1>1, <1>2, ClockInvariant, PTL DEF Spec, ImplementsRunLease, RL!Spec
=============================================================================
