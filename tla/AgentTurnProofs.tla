-------------------------- MODULE AgentTurnProofs --------------------------
(***************************************************************************)
(* Theorems about RunLease and about AgentTurn, which uses it, for every   *)
(* set of runs, every kind of request and any actions.                     *)
(***************************************************************************)
EXTENDS AgentTurn, TLAPS

(***************************************************************************)
(* The lease.  LeaseInv is inductive whether or not the domain enforces    *)
(* the fence.  With the fence, at a commit the writer locks the row, so it *)
(* still owns the newest fence, and every logged fence belongs to another  *)
(* run and is older: the log grows in fence order, and each commit is a    *)
(* Write of the abstract log of epochs.                                    *)
(***************************************************************************)
\* The initial state of the row, the Lease objects and the log is consistent.
LEMMA LeaseInit == Init => LeaseInv
  BY RunAssumption DEF Init, LeaseInv, TypeOK, FencesUnique, WorkerState, RowIsNewest,
                       HeldOnceRunning, LockedByWriter, LoggedByRuns

\* A run that has committed stays past its transaction, whatever it does next.
LEMMA LoggedKept ==
  ASSUME LoggedByRuns, log' = log,
         \A r \in Run : worker[r] \in {"served", "ended", "gone"}
                          => worker'[r] \in {"served", "ended", "gone"} /\ held'[r] = held[r]
  PROVE  LoggedByRuns'
  <1> SUFFICES ASSUME NEW i \in DOMAIN log
               PROVE  \E r \in Run : /\ worker'[r] \in {"served", "ended", "gone"}
                                     /\ held'[r] = log[i]
                                     /\ held'[r] > 0
    BY DEF LoggedByRuns
  <1>1. PICK r \in Run : /\ worker[r] \in {"served", "ended", "gone"}
                         /\ held[r] = log[i]
                         /\ held[r] > 0
    BY DEF LoggedByRuns
  <1> QED
    BY <1>1

\* A new owner gets a fence that no run was ever given: the acquire statement
\* increments the fence of the row, and the row carries the largest one.
LEMMA AcquireKeeps ==
  ASSUME NEW r \in Run, LeaseInv, Acquire(r)
  PROVE  LeaseInv'
  <1> USE RunAssumption
  <1>1. TypeOK'
    BY DEF LeaseInv, TypeOK, Acquire, WorkerState
  <1>2. \A s \in Run : s # r => held'[s] = held[s] /\ held[s] <= lease.fence
                                 /\ worker'[s] = worker[s]
    BY DEF LeaseInv, TypeOK, Acquire, RowIsNewest
  <1>3. /\ held'[r] = lease.fence + 1 /\ worker'[r] = "running" /\ lease.fence \in Nat
        /\ lease'.owner = r /\ lease'.fence = lease.fence + 1 /\ locker' = NoRun
    BY DEF LeaseInv, TypeOK, Acquire
  <1>4. FencesUnique'
    BY <1>2, <1>3 DEF LeaseInv, TypeOK, FencesUnique
  <1>5. RowIsNewest'
    BY <1>2, <1>3 DEF LeaseInv, TypeOK, RowIsNewest
  <1>6. HeldOnceRunning'
    BY <1>2, <1>3 DEF LeaseInv, HeldOnceRunning
  <1>7. LockedByWriter'
    BY <1>2, <1>3 DEF LeaseInv, TypeOK, LockedByWriter, Acquire
  <1>8. LoggedByRuns'
    BY <1>2, LoggedKept DEF LeaseInv, Acquire
  <1> QED
    BY <1>1, <1>4, <1>5, <1>6, <1>7, <1>8 DEF LeaseInv

\* Only a run whose transaction is open appends to the log, and it appends the
\* fence it holds.
LEMMA CommitKeeps ==
  ASSUME NEW r \in Run, LeaseInv, Commit(r)
  PROVE  LeaseInv'
  <1> USE RunAssumption
  <1>1. TypeOK'
    BY DEF LeaseInv, TypeOK, Commit, Unlock, WorkerState
  <1>2. /\ worker' = [worker EXCEPT ![r] = "served"] /\ worker[r] = "writing"
        /\ held' = held /\ lease' = lease /\ held[r] > 0
        /\ log' = Append(log, held[r]) /\ log \in Seq(Nat) /\ held[r] \in Nat
    BY DEF LeaseInv, TypeOK, Commit, HeldOnceRunning
  <1>3. FencesUnique' /\ RowIsNewest' /\ HeldOnceRunning'
    BY <1>2 DEF LeaseInv, TypeOK, FencesUnique, RowIsNewest, HeldOnceRunning
  <1>4. LockedByWriter'
    BY <1>2 DEF LeaseInv, TypeOK, LockedByWriter, Commit, Unlock
  <1>5. LoggedByRuns'
    <2> SUFFICES ASSUME NEW i \in DOMAIN log'
                 PROVE  \E s \in Run : /\ worker'[s] \in {"served", "ended", "gone"}
                                       /\ held'[s] = log'[i]
                                       /\ held'[s] > 0
      BY DEF LoggedByRuns
    <2>1. CASE i \in DOMAIN log
      <3>1. log'[i] = log[i]
        BY <1>2, <2>1
      <3>2. PICK s \in Run : /\ worker[s] \in {"served", "ended", "gone"}
                             /\ held[s] = log[i]
                             /\ held[s] > 0
        BY <2>1 DEF LeaseInv, LoggedByRuns
      <3> QED BY <1>2, <3>1, <3>2 DEF LeaseInv, TypeOK
    <2>2. CASE i \notin DOMAIN log
      <3>1. log'[i] = held[r]
        BY <1>2, <2>2
      <3>2. worker'[r] = "served"
        BY <1>2 DEF LeaseInv, TypeOK
      <3> QED BY <1>2, <3>1, <3>2
    <2> QED BY <2>1, <2>2
  <1> QED
    BY <1>1, <1>3, <1>4, <1>5 DEF LeaseInv

\* Every step keeps the lease row, the Lease objects, the row lock and the log
\* consistent.
LEMMA LeaseStep == LeaseInv /\ [Next]_leaseVars => LeaseInv'
  <1> SUFFICES ASSUME LeaseInv, [Next]_leaseVars
               PROVE  LeaseInv'
    OBVIOUS
  <1> USE RunAssumption DEF LeaseInv
  <1>1. CASE Expire
    <2>1. TypeOK' /\ FencesUnique' /\ RowIsNewest' /\ HeldOnceRunning' /\ LockedByWriter'
      BY <1>1 DEF Expire, TypeOK, FencesUnique, RowIsNewest, HeldOnceRunning,
                  LockedByWriter
    <2>2. LoggedByRuns'
      BY <1>1, LoggedKept DEF Expire
    <2> QED BY <2>1, <2>2
  <1>2. ASSUME NEW r \in Run, Acquire(r) PROVE LeaseInv'
    BY <1>2, AcquireKeeps
  <1>3. ASSUME NEW r \in Run, Refuse(r) PROVE LeaseInv'
    <2>1. TypeOK' /\ FencesUnique' /\ RowIsNewest' /\ HeldOnceRunning'
      BY <1>3 DEF Refuse, TypeOK, WorkerState, FencesUnique, RowIsNewest,
                  HeldOnceRunning
    <2>2. LockedByWriter'
      BY <1>3 DEF Refuse, TypeOK, LockedByWriter
    <2>3. LoggedByRuns'
      BY <1>3, LoggedKept DEF Refuse, TypeOK
    <2> QED BY <2>1, <2>2, <2>3
  <1>4. ASSUME NEW r \in Run, Renew(r) PROVE LeaseInv'
    <2>1. TypeOK' /\ FencesUnique' /\ RowIsNewest' /\ HeldOnceRunning'
      BY <1>4 DEF Renew, Holds, TypeOK, WorkerState, FencesUnique, RowIsNewest,
                  HeldOnceRunning
    <2>2. LockedByWriter'
      BY <1>4 DEF Renew, TypeOK, LockedByWriter
    <2>3. LoggedByRuns'
      BY <1>4, LoggedKept DEF Renew, TypeOK
    <2> QED BY <2>1, <2>2, <2>3
  <1>5. ASSUME NEW r \in Run, BeginWrite(r) PROVE LeaseInv'
    <2>1. TypeOK' /\ FencesUnique' /\ RowIsNewest' /\ HeldOnceRunning'
      BY <1>5 DEF BeginWrite, TypeOK, WorkerState, FencesUnique, RowIsNewest,
                  HeldOnceRunning
    <2>2. LockedByWriter'
      BY <1>5 DEF BeginWrite, TypeOK, LockedByWriter, Holds
    <2>3. LoggedByRuns'
      BY <1>5, LoggedKept DEF BeginWrite, TypeOK
    <2> QED BY <2>1, <2>2, <2>3
  <1>6. ASSUME NEW r \in Run, RejectWrite(r) PROVE LeaseInv'
    <2>1. TypeOK' /\ FencesUnique' /\ RowIsNewest' /\ HeldOnceRunning'
      BY <1>6 DEF RejectWrite, TypeOK, WorkerState, FencesUnique, RowIsNewest,
                  HeldOnceRunning
    <2>2. LockedByWriter'
      BY <1>6 DEF RejectWrite, TypeOK, LockedByWriter
    <2>3. LoggedByRuns'
      BY <1>6, LoggedKept DEF RejectWrite, TypeOK
    <2> QED BY <2>1, <2>2, <2>3
  <1>7. ASSUME NEW r \in Run, Commit(r) PROVE LeaseInv'
    BY <1>7, CommitKeeps
  <1>8. ASSUME NEW r \in Run, Rollback(r) PROVE LeaseInv'
    <2>1. TypeOK' /\ FencesUnique' /\ RowIsNewest' /\ HeldOnceRunning'
      BY <1>8 DEF Rollback, Unlock, TypeOK, WorkerState, FencesUnique, RowIsNewest,
                  HeldOnceRunning
    <2>2. LockedByWriter'
      BY <1>8 DEF Rollback, TypeOK, LockedByWriter, Unlock
    <2>3. LoggedByRuns'
      BY <1>8, LoggedKept DEF Rollback, TypeOK
    <2> QED BY <2>1, <2>2, <2>3
  <1>9. ASSUME NEW r \in Run, Release(r) PROVE LeaseInv'
    <2>1. TypeOK' /\ FencesUnique' /\ RowIsNewest' /\ HeldOnceRunning'
      BY <1>9 DEF Release, TypeOK, WorkerState, FencesUnique, RowIsNewest,
                  HeldOnceRunning
    <2>2. LockedByWriter'
      BY <1>9 DEF Release, TypeOK, LockedByWriter
    <2>3. LoggedByRuns'
      BY <1>9, LoggedKept DEF Release, TypeOK
    <2> QED BY <2>1, <2>2, <2>3
  <1>10. ASSUME NEW r \in Run, Vanish(r) PROVE LeaseInv'
    <2>1. TypeOK' /\ FencesUnique' /\ RowIsNewest' /\ HeldOnceRunning'
      BY <1>10 DEF Vanish, Unlock, TypeOK, WorkerState, FencesUnique, RowIsNewest,
                  HeldOnceRunning
    <2>2. LockedByWriter'
      BY <1>10 DEF Vanish, TypeOK, LockedByWriter, Unlock
    <2>3. LoggedByRuns'
      BY <1>10, LoggedKept DEF Vanish, TypeOK
    <2> QED BY <2>1, <2>2, <2>3
  <1>11. CASE UNCHANGED leaseVars
    BY <1>11, LoggedKept DEF leaseVars, TypeOK, FencesUnique, RowIsNewest,
                 HeldOnceRunning, LockedByWriter
  <1> QED
    BY <1>1, <1>2, <1>3, <1>4, <1>5, <1>6, <1>7, <1>8, <1>9, <1>10, <1>11 DEF Next

\* The row, the Lease objects handed out, the row lock and the log of committed
\* mutations agree in every reachable state of acquire, renew, release,
\* assert_run_fence and the transactions around it.
THEOREM LeaseInvariant == Spec => []LeaseInv
  <1>1. Init => LeaseInv
    BY LeaseInit
  <1>2. LeaseInv /\ [Next]_leaseVars => LeaseInv'
    BY LeaseStep
  <1> QED
    BY <1>1, <1>2, PTL DEF Spec

\* The model's state has its declared types.
THEOREM TypeCorrect == Spec => []TypeOK
  <1>1. LeaseInv => TypeOK
    BY DEF LeaseInv
  <1> QED
    BY <1>1, LeaseInvariant, PTL

\* No fence is handed out twice, because release keeps the row and acquire
\* increments the fence it finds there.
THEOREM NoFenceReused == Spec => []FencesUnique
  <1>1. LeaseInv => FencesUnique
    BY DEF LeaseInv
  <1> QED
    BY <1>1, LeaseInvariant, PTL

-----------------------------------------------------------------------------
\* The heart of the fence: a fenced writer that commits still owns the newest
\* fence, and everything committed before carries an older one.
LEMMA CommitIsNewest ==
  ASSUME Fenced, LeaseInv, NEW r \in Run, Commit(r)
  PROVE  /\ held[r] = lease.fence
         /\ lease.fence > 0
         /\ \A i \in DOMAIN log : log[i] < lease.fence
  <1>1. locker = r /\ r # NoRun /\ worker[r] = "writing"
    BY RunAssumption DEF LeaseInv, LockedByWriter, Commit
  <1>2. lease.owner = r
    BY <1>1 DEF LeaseInv, LockedByWriter
  <1>3. held[r] = lease.fence /\ lease.fence > 0 /\ lease.fence \in Nat
    BY <1>2 DEF LeaseInv, TypeOK, RowIsNewest
  <1>4. ASSUME NEW i \in DOMAIN log
        PROVE  log[i] < lease.fence
    <2>1. PICK s \in Run : worker[s] \in {"served", "ended", "gone"} /\ held[s] = log[i]
                           /\ held[s] > 0
      BY DEF LeaseInv, LoggedByRuns
    <2>2. s # r
      BY <1>1, <2>1
    <2>3. held[s] # held[r]
      BY <2>1, <2>2 DEF LeaseInv, FencesUnique
    <2>4. held[s] <= lease.fence /\ held[s] \in Nat
      BY DEF LeaseInv, TypeOK, RowIsNewest
    <2> QED
      BY <2>1, <2>3, <2>4, <1>3
  <1> QED
    BY <1>3, <1>4

\* Appending a larger number to an increasing log leaves it increasing.
LEMMA AppendIncreases ==
  ASSUME NEW s \in Seq(Nat), NEW n \in Nat,
         \A i, j \in DOMAIN s : i < j => s[i] < s[j],
         \A i \in DOMAIN s : s[i] < n,
         NEW t, t = Append(s, n)
  PROVE  \A i, j \in DOMAIN t : i < j => t[i] < t[j]
  OBVIOUS

\* Where the domain enforces the fence, business mutations commit in the order
\* in which their runs acquired the conversation, one per run: a stale worker's
\* mutation is never committed behind a newer one.
THEOREM FencedCommitOrder ==
  ASSUME Fenced
  PROVE  Spec => []CommitsInFenceOrder
  <1> DEFINE Ordered == LeaseInv /\ CommitsInFenceOrder
  <1>1. Init => Ordered
    BY LeaseInit DEF Init, CommitsInFenceOrder
  <1>2. Ordered /\ [Next]_leaseVars => Ordered'
    <2> SUFFICES ASSUME LeaseInv, CommitsInFenceOrder, [Next]_leaseVars
                 PROVE  CommitsInFenceOrder'
      BY LeaseStep
    <2>1. ASSUME NEW r \in Run, Commit(r)
          PROVE  CommitsInFenceOrder'
      <3>1. \A i \in DOMAIN log : log[i] < held[r]
        BY <2>1, CommitIsNewest
      <3>2. log' = Append(log, held[r]) /\ log \in Seq(Nat) /\ held[r] \in Nat
        BY <2>1 DEF Commit, LeaseInv, TypeOK
      <3> QED
        BY <3>1, <3>2, AppendIncreases DEF CommitsInFenceOrder
    <2>2. CASE UNCHANGED log
      BY <2>2 DEF CommitsInFenceOrder
    <2> QED
      BY <2>1, <2>2 DEF Next, leaseVars, Expire, Acquire, Refuse, Renew, BeginWrite,
                        RejectWrite, Rollback, Release, Vanish
  <1>3. Ordered => CommitsInFenceOrder
    OBVIOUS
  <1> QED
    BY <1>1, <1>2, <1>3, PTL DEF Spec

-----------------------------------------------------------------------------
\* Seen through the fence of the row, every step of the lease is a step of the
\* abstract log of epochs or changes nothing in it.
LEMMA StepRefines ==
  ASSUME Fenced, LeaseInv, [Next]_leaseVars
  PROVE  [FL!Next]_<<lease.fence, log>>
  <1>1. ASSUME NEW r \in Run, Acquire(r) PROVE FL!NewEpoch
    BY <1>1 DEF Acquire, FL!NewEpoch
  <1>2. ASSUME NEW r \in Run, Commit(r) PROVE FL!Write
    <2>1. lease'.fence = lease.fence /\ log' = Append(log, held[r])
      BY <1>2 DEF Commit
    <2> QED
      BY <1>2, <2>1, CommitIsNewest DEF FL!Write
  <1>3. ASSUME NEW r \in Run,
               Refuse(r) \/ Renew(r) \/ BeginWrite(r) \/ RejectWrite(r) \/ Rollback(r)
                 \/ Release(r) \/ Vanish(r)
        PROVE  UNCHANGED <<lease.fence, log>>
    BY <1>3 DEF Refuse, Renew, BeginWrite, RejectWrite, Rollback, Release, Vanish,
                LeaseInv, TypeOK
  <1>4. CASE Expire
    BY <1>4 DEF Expire, LeaseInv, TypeOK
  <1>5. CASE UNCHANGED leaseVars
    BY <1>5 DEF leaseVars
  <1> QED
    BY <1>1, <1>2, <1>3, <1>4, <1>5 DEF Next, FL!Next

\* The lease row with the fence check implements the abstract log of epochs,
\* for every number of runs.
THEOREM LeaseRefinesFencedLog ==
  ASSUME Fenced
  PROVE  Spec => ImplementsFencedLog
  <1>1. Init => FL!Init
    BY DEF Init, FL!Init
  <1>2. LeaseInv /\ [Next]_leaseVars => [FL!Next]_<<lease.fence, log>>
    BY StepRefines
  <1> QED
    BY <1>1, <1>2, LeaseInvariant, PTL DEF Spec, FL!Spec, ImplementsFencedLog

(***************************************************************************)
(* The turn.  Every step of a turn is shown to be an operation of RunLease *)
(* or to leave the lease alone, so that the theorems about the lease hold  *)
(* of the runner.  Then each step is reduced to what it does to the locals *)
(* of its run and to the stored rows (the lemmas ...Does), and each        *)
(* conjunct of TurnInv is carried over the steps by those lemmas alone.    *)
(***************************************************************************)
\* Whatever a turn does to its lease, one of the operations of RunLease does it.
LEMMA TurnUsesLease == [TurnNext]_turnVars => [Next]_leaseVars
  <1> SUFFICES ASSUME [TurnNext]_turnVars PROVE [Next]_leaseVars
    OBVIOUS
  <1>1. CASE LapseLease
    BY <1>1 DEF LapseLease, Next
  <1>2. ASSUME NEW r \in Run,
               AcquireTurn(r) \/ RefuseTurn(r) \/ HeartbeatRenew(r) \/ Crash(r) \/ Open(r)
        PROVE  [Next]_leaseVars
    BY <1>2 DEF Next, AcquireTurn, RefuseTurn, HeartbeatRenew, Crash, Open, Raise
  <1>3. ASSUME NEW r \in Run,
               Peek(r) \/ Restore(r) \/ ExpireSelect(r) \/ ExpireSave(r) \/ ExpireSync(r)
                 \/ CreatePending(r) \/ Approve(r) \/ ReadVersion(r) \/ RenewPlan(r)
        PROVE  [Next]_leaseVars
    BY <1>3 DEF Next, Peek, Restore, ExpireSelect, ExpireSave, ExpireSync, CreatePending,
                Approve, ReadVersion, RenewPlan, Raise
  <1>4. ASSUME NEW r \in Run,
               RunGraph(r) \/ ReadCursor(r) \/ CancelProposal(r) \/ AskAgain(r)
                 \/ ReplayWrite(r) \/ OpenWrite(r) \/ FenceOut(r) \/ CommitWrite(r)
                 \/ RollbackWrite(r)
        PROVE  [Next]_leaseVars
    BY <1>4
    DEF Next, RunGraph, ReadCursor, CancelProposal, AskAgain, ReplayWrite, OpenWrite,
                FenceOut, CommitWrite, RollbackWrite
  <1>5. ASSUME NEW r \in Run,
               AssertCurrent(r) \/ Publish(r) \/ Conflict(r) \/ Sync(r) \/ ReleaseTurn(r)
                 \/ Close(r) \/ Fail(r)
        PROVE  [Next]_leaseVars
    BY <1>5 DEF Next, AssertCurrent, Publish, Conflict, Sync, ReleaseTurn, Close, Fail
  <1>6. CASE MarkHandover \/ UNCHANGED turnVars
    BY <1>6 DEF MarkHandover, turnVars
  <1> QED
    BY <1>1, <1>2, <1>3, <1>4, <1>5, <1>6 DEF TurnNext, Step

\* Turns are clients of the lease: acquire_turn_lease, the renewals, the fence
\* check of a business transaction and release_turn_lease add no behaviour to it.
THEOREM TurnsImplementLease == TurnSpec => Spec
  <1>1. TurnInit => Init
    BY DEF TurnInit
  <1> QED
    BY <1>1, TurnUsesLease, PTL DEF TurnSpec, Spec

-----------------------------------------------------------------------------
\* An ended turn keeps nothing but how it ended.
LEMMA IdleTyped == \A pc \in Phase : [Idle EXCEPT !.pc = pc] \in TurnRecord
  BY DEF Idle, TurnRecord, Kind, Phase, HeadRecord, Blank, Result, Settled

\* The types hold before anything arrives.
LEMMA TypeInit == TurnInit => TurnTypeOK
  <1> SUFFICES ASSUME TurnInit PROVE TurnTypeOK
    OBVIOUS
  <1>1. TypeOK
    BY LeaseInit DEF TurnInit, LeaseInv
  <1>2. Idle \in TurnRecord
    BY DEF Idle, TurnRecord, Kind, Phase, HeadRecord, Blank, Result, Settled
  <1>3. turn \in [Run -> TurnRecord]
    BY <1>2 DEF TurnInit
  <1> QED
    BY <1>1, <1>3 DEF TurnInit, TurnTypeOK, HeadRecord, Blank

\* A turn given a record of its type keeps the type of all turns.
LEMMA MoveTyped ==
  ASSUME turn \in [Run -> TurnRecord], NEW r \in Run, NEW t \in TurnRecord,
         turn' = [turn EXCEPT ![r] = t]
  PROVE  turn' \in [Run -> TurnRecord]
  OBVIOUS

\* A jump keeps the types.
LEMMA GotoTyped ==
  ASSUME turn \in [Run -> TurnRecord], NEW r \in Run, NEW pc \in Phase, Goto(r, pc)
  PROVE  turn' \in [Run -> TurnRecord]
  BY DEF Goto, Move, TurnRecord

\* The end of a turn keeps the types.
LEMMA EndTyped ==
  ASSUME turn \in [Run -> TurnRecord], NEW r \in Run, NEW how \in Ended, End(r, how)
  PROVE  turn' \in [Run -> TurnRecord]
  BY IdleTyped DEF End, Move, Phase

\* The records that the moves of a turn make.
LEMMA RecordTyped ==
  ASSUME NEW t \in TurnRecord, NEW pc \in Phase
  PROVE  /\ \A result \in Result : [t EXCEPT !.pc = pc, !.res = result] \in TurnRecord
         /\ \A h \in HeadRecord : [t EXCEPT !.pc = pc, !.seen = h] \in TurnRecord
         /\ \A h \in HeadRecord, m \in {"graph", "represent", "followup"} :
               [t EXCEPT !.pc = pc, !.seen = h, !.mode = m] \in TurnRecord
         /\ \A k \in Kind : [t EXCEPT !.kind = k, !.pc = pc] \in TurnRecord
         /\ \A s \in Run : [t EXCEPT !.pc = pc, !.ref = s] \in TurnRecord
         /\ \A v, e \in Nat : [t EXCEPT !.pc = pc, !.base = v, !.era = e] \in TurnRecord
         /\ \A p \in Proposal \cup {NoProposal} : [t EXCEPT !.pc = pc, !.at = p] \in TurnRecord
  BY DEF TurnRecord

\* The phases by name.
LEMMA Phases ==
  /\ {"idle", "close", "release", "open", "peek", "restore", "expireSelect", "expireSave",
      "expireSync", "token", "approve", "version", "renew", "graph", "cursor", "act",
      "writing", "assert", "publish", "sync"} \subseteq Phase
  /\ Ended \subseteq Phase
  BY DEF Phase, Planning, Executing

\* A result of the graph keeps the types.
LEMMA RanTyped ==
  ASSUME turn \in [Run -> TurnRecord], NEW r \in Run, NEW result \in Result, Ran(r, result)
  PROVE  turn' \in [Run -> TurnRecord]
  BY RecordTyped, Phases, MoveTyped DEF Ran, Move

\* Every step leaves the locals of the turns well typed; AskAgain needs that
\* the cursor it resumes at holds a proposal.
LEMMA TurnTyped ==
  ASSUME TurnTypeOK, [TurnNext]_turnVars, ProposalAtHand
  PROVE  turn' \in [Run -> TurnRecord]
  <1> USE DEF TurnTypeOK
  <1>1. ASSUME NEW r \in Run, AcquireTurn(r) PROVE turn' \in [Run -> TurnRecord]
    <2>1. PICK k \in Kinds[r] :
             turn' = [turn EXCEPT ![r] =
                        [turn[r] EXCEPT !.kind = k,
                                        !.pc = CASE k = "message" -> "open"
                                                 [] k = "close"   -> "close"
                                                 [] OTHER         -> "restore"]]
      BY <1>1 DEF AcquireTurn, Move
    <2>2. PICK pc \in Phase : turn' = [turn EXCEPT ![r] = [turn[r] EXCEPT !.kind = k, !.pc = pc]]
      BY <2>1, Phases
    <2>3. k \in Kind
      BY TurnAssumption
    <2> QED BY <2>2, <2>3, RecordTyped
  <1>2. ASSUME NEW r \in Run,
               RefuseTurn(r) \/ Crash(r) \/ ReleaseTurn(r)
        PROVE  turn' \in [Run -> TurnRecord]
    BY <1>2, EndTyped DEF RefuseTurn, Crash, ReleaseTurn, Ended
  <1>3. ASSUME NEW r \in Run,
               Open(r) \/ ExpireSave(r) \/ ExpireSync(r) \/ Approve(r) \/ RenewPlan(r)
        PROVE  turn' \in [Run -> TurnRecord]
    BY <1>3, EndTyped, GotoTyped
    DEF Open, ExpireSave, ExpireSync, Approve, RenewPlan, Raise, Ended, Phase, Planning,
        Executing
  <1>4. ASSUME NEW r \in Run,
               OpenWrite(r) \/ AssertCurrent(r) \/ Publish(r) \/ Conflict(r) \/ Sync(r)
                 \/ Close(r) \/ Fail(r)
        PROVE  turn' \in [Run -> TurnRecord]
    BY <1>4, GotoTyped
    DEF OpenWrite, AssertCurrent, Publish, Conflict, Sync, Close, Fail, Phase, Executing
  <1>5. ASSUME NEW r \in Run, Peek(r)
        PROVE  turn' \in [Run -> TurnRecord]
    <2>1. PICK m \in {"graph", "represent", "followup"} :
             Move(r, [turn[r] EXCEPT !.pc = "version", !.seen = head, !.mode = m])
      BY <1>5 DEF Peek
    <2> QED BY <2>1, RecordTyped, Phases DEF Move
  <1>6. ASSUME NEW r \in Run, ExpireSelect(r)
        PROVE  turn' \in [Run -> TurnRecord]
    BY <1>6, RecordTyped, Phases DEF ExpireSelect, Move
  <1>7. ASSUME NEW r \in Run, ReadVersion(r)
        PROVE  turn' \in [Run -> TurnRecord]
    BY <1>7, RecordTyped, Phases DEF ReadVersion, Move, HeadRecord
  <1>8. ASSUME NEW r \in Run, ReadCursor(r)
        PROVE  turn' \in [Run -> TurnRecord]
    <2>1. CASE Goto(r, "release")
      BY <2>1, GotoTyped, Phases
    <2>2. CASE /\ head.cursor \in Proposal
               /\ Move(r, [turn[r] EXCEPT !.pc = "act", !.at = head.cursor])
      BY <2>2, RecordTyped, Phases DEF Move
    <2> QED BY <1>8, <2>1, <2>2 DEF ReadCursor
  <1>9. ASSUME NEW r \in Run, Restore(r)
        PROVE  turn' \in [Run -> TurnRecord]
    <2>1. CASE Raise(r)
      BY <2>1, EndTyped DEF Raise, Ended
    <2>2. CASE Goto(r, "expireSelect")
      BY <2>2, GotoTyped DEF Phase, Planning
    <2>3. CASE Move(r, [turn[r] EXCEPT
                        !.pc = IF turn[r].kind = "confirm" THEN "token" ELSE "version",
                        !.seen = head])
      BY <2>3, RecordTyped, Phases DEF Move
    <2> QED BY <1>9, <2>1, <2>2, <2>3 DEF Restore
  <1>10. ASSUME NEW r \in Run, CreatePending(r)
         PROVE  turn' \in [Run -> TurnRecord]
    <2>1. PICK s \in Run : Move(r, [turn[r] EXCEPT !.pc = "approve", !.ref = s])
      BY <1>10 DEF CreatePending, OpenApprovals
    <2> QED BY <2>1, RecordTyped, Phases DEF Move
  <1>11. ASSUME NEW r \in Run,
               RunGraph(r) \/ CancelProposal(r) \/ ReplayWrite(r) \/ FenceOut(r)
                 \/ CommitWrite(r) \/ RollbackWrite(r)
         PROVE  turn' \in [Run -> TurnRecord]
    BY <1>11, RanTyped
    DEF RunGraph, CancelProposal, ReplayWrite, FenceOut, CommitWrite, RollbackWrite
  <1>12. ASSUME NEW r \in Run, AskAgain(r)
         PROVE  turn' \in [Run -> TurnRecord]
    <2>1. turn[r].at \in Proposal
      BY <1>12 DEF AskAgain, ProposalAtHand, At, TurnRecord
    <2>2. [prop |-> [turn[r].at EXCEPT !.id = r], waiting |-> TRUE] \in Result
      BY <2>1 DEF Result, Proposal
    <2> QED BY <1>12, <2>2, RanTyped DEF AskAgain
  <1>13. ASSUME NEW r \in Run, HeartbeatRenew(r) PROVE turn' \in [Run -> TurnRecord]
    BY <1>13 DEF HeartbeatRenew
  <1>14. CASE LapseLease \/ MarkHandover \/ UNCHANGED turnVars
    BY <1>14 DEF LapseLease, MarkHandover, turnVars
  <1> QED
    BY <1>1, <1>2, <1>3, <1>4, <1>5, <1>9, <1>10, <1>11, <1>12, <1>13, <1>14, <1>6,
       <1>7, <1>8 DEF TurnNext, Step

-----------------------------------------------------------------------------
\* The steps that touch anything but the lease and the locals of a turn.
Storing(r) ==
    \/ Open(r) \/ ExpireSave(r) \/ ExpireSync(r) \/ CreatePending(r) \/ Approve(r)
    \/ CommitWrite(r) \/ Publish(r) \/ Sync(r) \/ Close(r)

\* Any other step leaves the head, the conversation, the approvals and the
\* objects alone.
LEMMA StoringSteps ==
  ASSUME [TurnNext]_turnVars
  PROVE  \/ UNCHANGED domainVars
         \/ MarkHandover
         \/ \E r \in Run : Storing(r)
  <1>1. ASSUME NEW r \in Run,
               AcquireTurn(r) \/ RefuseTurn(r) \/ HeartbeatRenew(r) \/ Crash(r)
                 \/ Peek(r) \/ Restore(r) \/ ExpireSelect(r) \/ ReadVersion(r) \/ RenewPlan(r)
        PROVE  UNCHANGED domainVars
    BY <1>1 DEF AcquireTurn, RefuseTurn, HeartbeatRenew, Crash, Peek, Restore, ExpireSelect,
                ReadVersion, RenewPlan
  <1>2. ASSUME NEW r \in Run,
               RunGraph(r) \/ ReadCursor(r) \/ CancelProposal(r) \/ AskAgain(r)
                 \/ ReplayWrite(r) \/ OpenWrite(r) \/ FenceOut(r) \/ RollbackWrite(r)
        PROVE  UNCHANGED domainVars
    BY <1>2 DEF RunGraph, ReadCursor, CancelProposal, AskAgain, ReplayWrite, OpenWrite,
                FenceOut, RollbackWrite
  <1>3. ASSUME NEW r \in Run, AssertCurrent(r) \/ Conflict(r) \/ ReleaseTurn(r) \/ Fail(r)
        PROVE  UNCHANGED domainVars
    BY <1>3 DEF AssertCurrent, Conflict, ReleaseTurn, Fail
  <1>4. CASE LapseLease \/ UNCHANGED turnVars
    BY <1>4 DEF LapseLease, turnVars
  <1> QED
    BY <1>1, <1>2, <1>3, <1>4 DEF TurnNext, Step, Storing

\* Every step leaves the stored rows well typed.
LEMMA DomainTyped ==
  ASSUME TurnInv, [TurnNext]_turnVars
  PROVE  /\ head' \in HeadRecord
         /\ conv' \in {"NONE", "ACTIVE", "WAITING_CONFIRM", "HANDOVER", "CLOSED"}
         /\ approval' \in [Run -> ApprovalRow \cup {NoApproval}]
         /\ objs' \subseteq [prop : Run, act : Action, by : Run, ref : Run]
         /\ accepted' \in Nat
         /\ cancelled' \subseteq Run
  <1> DEFINE Typed ==
               /\ head' \in HeadRecord
               /\ conv' \in {"NONE", "ACTIVE", "WAITING_CONFIRM", "HANDOVER", "CLOSED"}
               /\ approval' \in [Run -> ApprovalRow \cup {NoApproval}]
               /\ objs' \subseteq [prop : Run, act : Action, by : Run, ref : Run]
               /\ accepted' \in Nat
               /\ cancelled' \subseteq Run
  <1> USE DEF TurnInv, TurnTypeOK
  <1>1. CASE UNCHANGED domainVars
    BY <1>1 DEF domainVars
  <1>2. CASE MarkHandover
    BY <1>2 DEF MarkHandover
  <1>3. ASSUME NEW r \in Run, Open(r) \/ ExpireSync(r) \/ Sync(r) \/ Close(r)
        PROVE  Typed
    BY <1>3 DEF Open, ExpireSync, Sync, Close
  <1>4. ASSUME NEW r \in Run, ExpireSave(r)
        PROVE  Typed
    <2>1. turn[r].seen.ver + 1 \in Nat /\ head.era + 1 \in Nat
      BY DEF TurnRecord, HeadRecord
    <2>2. PICK state \in {Settled, [prop |-> head.prop, waiting |-> head.waiting]} :
             head' = [ver |-> turn[r].seen.ver + 1, prop |-> state.prop,
                      waiting |-> state.waiting,
                      cursor |-> IF turn[r].seen.cursor = NoCursor THEN head.cursor
                                                                  ELSE NoCursor,
                      era |-> IF turn[r].seen.ver < head.ver THEN head.era + 1
                                                             ELSE head.era]
      BY <1>4 DEF ExpireSave
    <2>3. state \in Result
      <3>1. Settled \in Result
        BY DEF Settled, Result
      <3>2. [prop |-> head.prop, waiting |-> head.waiting] \in Result
        BY DEF Result, HeadRecord
      <3> QED BY <3>1, <3>2
    <2>4. head' \in HeadRecord
      BY <2>1, <2>2, <2>3 DEF HeadRecord, Result
    <2> QED BY <1>4, <2>4 DEF ExpireSave
  <1>5. ASSUME NEW r \in Run, CreatePending(r)
        PROVE  Typed
    <2>1. At(r, "token") => turn[r].seen.prop.act \in Action
      BY DEF ProposalAtHand, At, TurnRecord, HeadRecord, Proposal
    <2>2. [act |-> turn[r].seen.prop.act, status |-> "PENDING"] \in ApprovalRow
      BY <1>5, <2>1 DEF CreatePending, ApprovalRow
    <2> QED BY <1>5, <2>2 DEF CreatePending
  <1>6. ASSUME NEW r \in Run, Approve(r)
        PROVE  Typed
    <2>1. approval[turn[r].ref] \in ApprovalRow \cup {NoApproval}
      BY <1>6 DEF ApprovalsHeld, Held, Approve, At
    <2>2. approval[turn[r].ref].status = "PENDING" => approval[turn[r].ref] \in ApprovalRow
      BY <2>1 DEF NoApproval
    <2>3. approval[turn[r].ref].status = "PENDING" =>
             \A x \in {"APPROVED", "EXPIRED"} :
                [approval[turn[r].ref] EXCEPT !.status = x] \in ApprovalRow
      BY <2>2 DEF ApprovalRow
    <2> QED BY <1>6, <2>3 DEF Approve
  <1>7. ASSUME NEW r \in Run, CommitWrite(r)
        PROVE  Typed
    <2>1. /\ turn[r].at \in Proposal /\ turn[r].ref \in Run
          /\ approval[turn[r].ref] = [act |-> turn[r].seen.prop.act, status |-> "APPROVED"]
      BY <1>7
      DEF CommitWrite, ApprovalsHeld, Held, ProposalAtHand, KindsKeepApart, At, Approved,
          TurnRecord
    <2>2. [approval[turn[r].ref] EXCEPT !.status = "CONSUMED"] \in ApprovalRow
      BY <2>1 DEF ApprovalRow, NoApproval
    <2>3. turn[r].at.id \in Run /\ turn[r].at.act \in Action
      BY <2>1 DEF Proposal
    <2> QED BY <1>7, <2>1, <2>2, <2>3 DEF CommitWrite
  <1>8. ASSUME NEW r \in Run, Publish(r)
        PROVE  Typed
    <2>1. turn[r].kind = "cancel" => turn[r].at.id \in Run
      BY <1>8 DEF Publish, ProposalAtHand, At, TurnRecord, Proposal
    <2>2. held[r] \in Nat
      BY DEF TypeOK
    <2>3. Accept(r) => head' \in HeadRecord
      BY DEF Accept, HeadRecord, TurnRecord, Result
    <2> QED BY <1>8, <2>1, <2>2, <2>3 DEF Publish
  <1> QED
    BY <1>1, <1>2, <1>3, <1>4, <1>5, <1>6, <1>7, <1>8, StoringSteps DEF Storing

-----------------------------------------------------------------------------
\* Run r has moved on to pc, with these local variables; no other run moved.
Turned(r, pc, seen, base, at, ref, res) ==
    /\ turn'[r].pc = pc /\ turn'[r].kind = turn[r].kind
    /\ turn'[r].seen = seen /\ turn'[r].base = base /\ turn'[r].at = at
    /\ turn'[r].ref = ref /\ turn'[r].res = res /\ turn'[r].era = turn[r].era
    /\ \A q \in Run \ {r} : turn'[q] = turn[q]

\* Run r is over; no other run moved.
Over(r) ==
    /\ turn'[r].pc \in Ended
    /\ turn'[r].base = 0 /\ turn'[r].era = 0 /\ turn'[r].res = Settled
    /\ \A q \in Run \ {r} : turn'[q] = turn[q]

\* What the moves of a turn do, field by field.
LEMMA GotoDoes ==
  ASSUME TurnTypeOK, NEW r \in Run, NEW pc, Goto(r, pc)
  PROVE  Turned(r, pc, turn[r].seen, turn[r].base, turn[r].at, turn[r].ref, turn[r].res)
  BY DEF TurnTypeOK, TurnRecord, Goto, Move, Turned

\* An ended turn has no base and no result.
LEMMA EndDoes ==
  ASSUME TurnTypeOK, NEW r \in Run, NEW how \in Ended, End(r, how)
  PROVE  Over(r)
  BY DEF TurnTypeOK, End, Move, Idle, Over

\* The graph adds its result.
LEMMA RanDoes ==
  ASSUME TurnTypeOK, NEW r \in Run, NEW result, Ran(r, result)
  PROVE  Turned(r, "assert", turn[r].seen, turn[r].base, turn[r].at, turn[r].ref, result)
  BY DEF TurnTypeOK, TurnRecord, Ran, Move, Turned

\* Run r has only moved on to pc, or also has a result of its graph.
Onward(r, pc) == Turned(r, pc, turn[r].seen, turn[r].base, turn[r].at, turn[r].ref, turn[r].res)
Computed(r, result) ==
    Turned(r, "assert", turn[r].seen, turn[r].base, turn[r].at, turn[r].ref, result)

\* The variables that the invariant relates the turns to.
stored == <<head, approval, objs, accepted>>

\* What each step does to the locals of its run and to what is stored.
LEMMA AcquireDoes ==
  ASSUME TurnTypeOK, NEW r \in Run, AcquireTurn(r)
  PROVE  /\ turn[r].pc = "idle" /\ Acquire(r)
         /\ turn'[r].pc \in {"open", "close", "restore"}
         /\ turn'[r].pc = "open" => turn'[r].kind = "message"
         /\ turn'[r].res = turn[r].res /\ turn'[r].base = turn[r].base
         /\ turn'[r].era = turn[r].era
         /\ \A q \in Run \ {r} : turn'[q] = turn[q]
         /\ UNCHANGED stored
  BY DEF TurnTypeOK, TurnRecord, AcquireTurn, Move, At, domainVars, stored

\* A refusal, a crash and a release end the turn.
LEMMA EndsDo ==
  ASSUME TurnTypeOK, NEW r \in Run, RefuseTurn(r) \/ Crash(r) \/ ReleaseTurn(r)
  PROVE  Over(r) /\ UNCHANGED stored
  BY EndDoes DEF RefuseTurn, Crash, ReleaseTurn, Ended, domainVars, stored

\* A message opens the conversation or is refused.
LEMMA OpenDoes ==
  ASSUME TurnTypeOK, NEW r \in Run, Open(r) \/ ExpireSync(r)
  PROVE  /\ Over(r) \/ (turn[r].pc = "open" /\ Onward(r, "peek"))
         /\ UNCHANGED stored
  <1>1. Raise(r) => Over(r)
    BY EndDoes DEF Raise, Ended
  <1>2. Goto(r, "peek") => Onward(r, "peek")
    BY GotoDoes DEF Onward
  <1> QED
    BY <1>1, <1>2 DEF Open, ExpireSync, At, stored

\* peek copies the head.
LEMMA PeekDoes ==
  ASSUME TurnTypeOK, NEW r \in Run, Peek(r)
  PROVE  /\ turn[r].pc = "peek"
         /\ Turned(r, "version", head, turn[r].base, turn[r].at, turn[r].ref, turn[r].res)
         /\ UNCHANGED stored
  BY DEF TurnTypeOK, TurnRecord, Peek, Move, Turned, At, domainVars, stored

\* restore copies a head with a proposal, or gives up.
LEMMA RestoreDoes ==
  ASSUME TurnTypeOK, NEW r \in Run, Restore(r)
  PROVE  /\ \/ Over(r)
            \/ Onward(r, "expireSelect")
            \/ /\ Turned(r, IF turn[r].kind = "confirm" THEN "token" ELSE "version",
                         head, turn[r].base, turn[r].at, turn[r].ref, turn[r].res)
               /\ head.prop # NoProposal
         /\ turn[r].pc = "restore"
         /\ UNCHANGED stored
  <1>1. CASE Raise(r)
    BY <1>1, EndDoes DEF Raise, Ended, Restore, At, domainVars, stored
  <1>2. CASE Goto(r, "expireSelect")
    BY <1>2, GotoDoes DEF Onward, Restore, At, domainVars, stored
  <1>3. CASE /\ head.prop # NoProposal
             /\ Move(r, [turn[r] EXCEPT
                           !.pc = IF turn[r].kind = "confirm" THEN "token" ELSE "version",
                           !.seen = head])
    <2>1. Turned(r, IF turn[r].kind = "confirm" THEN "token" ELSE "version",
                 head, turn[r].base, turn[r].at, turn[r].ref, turn[r].res)
      BY <1>3 DEF TurnTypeOK, TurnRecord, Move, Turned
    <2> QED BY <1>3, <2>1 DEF Restore, At, domainVars, stored
  <1> QED
    BY <1>1, <1>2, <1>3 DEF Restore

\* expire_pending selects the head.
LEMMA ExpireSelectDoes ==
  ASSUME TurnTypeOK, NEW r \in Run, ExpireSelect(r)
  PROVE  /\ turn[r].pc = "expireSelect"
         /\ Turned(r, "expireSave", head, turn[r].base, turn[r].at, turn[r].ref, turn[r].res)
         /\ UNCHANGED stored
  BY DEF TurnTypeOK, TurnRecord, ExpireSelect, Move, Turned, At, domainVars, stored

\* expire_pending saves over the head; it moves on from the version of the head,
\* or a new era begins.
LEMMA ExpireSaveDoes ==
  ASSUME TurnTypeOK, NEW r \in Run, ExpireSave(r)
  PROVE  /\ turn[r].pc = "expireSave" /\ Onward(r, "expireSync")
         /\ head'.waiting => head.waiting /\ head'.prop = head.prop
         /\ \/ head'.era = head.era + 1
            \/ head'.era = head.era /\ head'.ver > head.ver
         /\ UNCHANGED <<approval, objs, accepted>>
  <1>1. turn[r].seen.ver \in Nat /\ head.ver \in Nat /\ head.era \in Nat
    BY DEF TurnTypeOK, TurnRecord, HeadRecord
  <1>2. PICK state \in {Settled, [prop |-> head.prop, waiting |-> head.waiting]} :
           head' = [ver |-> turn[r].seen.ver + 1, prop |-> state.prop,
                    waiting |-> state.waiting,
                    cursor |-> IF turn[r].seen.cursor = NoCursor THEN head.cursor
                                                                ELSE NoCursor,
                    era |-> IF turn[r].seen.ver < head.ver THEN head.era + 1
                                                           ELSE head.era]
    BY DEF ExpireSave
  <1>3. head'.waiting => head.waiting /\ head'.prop = head.prop
    BY <1>2 DEF Settled
  <1>4. head'.era = head.era + 1 \/ (head'.era = head.era /\ head'.ver > head.ver)
    BY <1>1, <1>2
  <1>5. turn[r].pc = "expireSave" /\ Onward(r, "expireSync") /\ UNCHANGED <<approval, objs, accepted>>
    BY GotoDoes DEF ExpireSave, At, Onward
  <1> QED
    BY <1>3, <1>4, <1>5

\* The row is found, with the action asked for, or made.
LEMMA CreatePendingDoes ==
  ASSUME TurnTypeOK, NEW r \in Run, CreatePending(r)
  PROVE  /\ turn[r].pc = "token"
         /\ \E s \in Run :
               /\ Turned(r, "approve", turn[r].seen, turn[r].base, turn[r].at, s, turn[r].res)
               /\ \/ /\ approval[s].act = turn[r].seen.prop.act
                     /\ approval[s].status # "NONE"
                     /\ approval' = approval
                  \/ /\ s = r
                     /\ approval' = [approval EXCEPT ![r] = [act |-> turn[r].seen.prop.act,
                                                             status |-> "PENDING"]]
         /\ UNCHANGED <<head, objs, accepted>>
  <1>1. ASSUME NEW s \in Run, Move(r, [turn[r] EXCEPT !.pc = "approve", !.ref = s])
        PROVE  Turned(r, "approve", turn[r].seen, turn[r].base, turn[r].at, s, turn[r].res)
    BY <1>1 DEF TurnTypeOK, TurnRecord, Move, Turned
  <1> QED
    BY <1>1 DEF CreatePending, OpenApprovals, At

\* The row of approval s has got this status, no other row has changed.
Marked(s, status) ==
    /\ s \in Run
    /\ approval'[s] = [act |-> approval[s].act, status |-> status]
    /\ \A q \in Run \ {s} : approval'[q] = approval[q]

\* An update of one status keeps the action of the row.
LEMMA MarkDoes ==
  ASSUME TurnTypeOK, NEW s \in Run, approval[s].status # "NONE", NEW status,
         approval' = [approval EXCEPT ![s].status = status]
  PROVE  Marked(s, status)
  <1>1. approval[s] \in ApprovalRow
    BY DEF TurnTypeOK, NoApproval
  <1>2. [approval[s] EXCEPT !.status = status] = [act |-> approval[s].act, status |-> status]
    BY <1>1 DEF ApprovalRow
  <1>3. approval' = [approval EXCEPT ![s] = [approval[s] EXCEPT !.status = status]]
    OBVIOUS
  <1> QED
    BY <1>2, <1>3 DEF TurnTypeOK, Marked

\* approve passes with the row APPROVED, or raises.
LEMMA ApproveDoes ==
  ASSUME TurnTypeOK, ApprovalsHeld, NEW r \in Run, Approve(r)
  PROVE  /\ turn[r].pc = "approve"
         /\ \/ Over(r) /\ approval' = approval
            \/ /\ Over(r) /\ approval[turn[r].ref].status = "PENDING"
               /\ Marked(turn[r].ref, "EXPIRED")
            \/ /\ Onward(r, "version") /\ approval[turn[r].ref].status = "PENDING"
               /\ Marked(turn[r].ref, "APPROVED")
         /\ UNCHANGED <<head, objs, accepted>>
  <1>1. turn[r].pc = "approve" /\ turn[r].ref \in Run /\ UNCHANGED <<head, objs, accepted>>
    BY DEF Approve, At, ApprovalsHeld, Held
  <1>2. Raise(r) => Over(r)
    BY EndDoes DEF Raise, Ended
  <1>3. Goto(r, "version") => Onward(r, "version")
    BY GotoDoes DEF Onward
  <1> QED
    BY <1>1, <1>2, <1>3, MarkDoes DEF Approve

\* The version read is that of the head.
LEMMA ReadVersionDoes ==
  ASSUME TurnTypeOK, NEW r \in Run, ReadVersion(r)
  PROVE  /\ turn[r].pc = "version"
         /\ turn'[r].pc = "renew" /\ turn'[r].kind = turn[r].kind
         /\ turn'[r].base = head.ver /\ turn'[r].era = head.era
         /\ turn'[r].seen = turn[r].seen /\ turn'[r].at = turn[r].at
         /\ turn'[r].ref = turn[r].ref /\ turn'[r].res = turn[r].res
         /\ \A q \in Run \ {r} : turn'[q] = turn[q]
         /\ UNCHANGED stored
  BY DEF TurnTypeOK, TurnRecord, ReadVersion, Move, At, domainVars, stored

\* Planning goes on only with the lease.
LEMMA RenewPlanDoes ==
  ASSUME TurnTypeOK, NEW r \in Run, RenewPlan(r)
  PROVE  /\ turn[r].pc = "renew"
         /\ \/ Over(r)
            \/ /\ Owns(r) /\ UNCHANGED leaseVars
               /\ \E pc \in {"cursor", "release", "sync", "graph"} :
                     Onward(r, pc) /\ (pc = "graph" => turn[r].kind = "message")
         /\ UNCHANGED stored
  <1>1. turn[r].pc = "renew" /\ UNCHANGED stored
    BY DEF RenewPlan, At, domainVars, stored
  <1>2. CASE Raise(r)
    BY <1>1, <1>2, EndDoes DEF Raise, Ended
  <1>3. CASE /\ Owns(r) /\ UNCHANGED leaseVars
             /\ Goto(r, CASE turn[r].kind # "message"    -> "cursor"
                          [] turn[r].mode = "represent"  -> "release"
                          [] turn[r].mode = "followup"   -> "sync"
                          [] OTHER                       -> "graph")
    <2>1. PICK pc \in {"cursor", "release", "sync", "graph"} :
             Goto(r, pc) /\ (pc = "graph" => turn[r].kind = "message")
      BY <1>3
    <2> QED BY <1>1, <1>3, <2>1, GotoDoes DEF Onward
  <1> QED
    BY <1>2, <1>3 DEF RenewPlan

\* The turn resumes at a proposal that the cursor points to, or gives up.
LEMMA ReadCursorDoes ==
  ASSUME TurnTypeOK, NEW r \in Run, ReadCursor(r)
  PROVE  /\ turn[r].pc = "cursor"
         /\ \/ Onward(r, "release")
            \/ /\ head.cursor # NoProposal
               /\ Turned(r, "act", turn[r].seen, turn[r].base, head.cursor, turn[r].ref,
                         turn[r].res)
         /\ UNCHANGED stored
  <1>1. turn[r].pc = "cursor" /\ UNCHANGED stored
    BY DEF ReadCursor, At, domainVars, stored
  <1>2. CASE Goto(r, "release")
    BY <1>1, <1>2, GotoDoes DEF Onward
  <1>3. CASE /\ head.cursor \in Proposal
             /\ Move(r, [turn[r] EXCEPT !.pc = "act", !.at = head.cursor])
    BY <1>1, <1>3, TurnAssumption DEF TurnTypeOK, TurnRecord, Move, Turned
  <1> QED
    BY <1>2, <1>3 DEF ReadCursor

\* What the graph returns: whoever waits, waits for a proposal.
Sound(result) == result.waiting => result.prop # NoProposal

\* A run that stops for a confirmation names what is to be confirmed.
LEMMA ProposesSound ==
  ASSUME NEW r \in Run, NEW result, result = Settled \/ Proposes(r, result)
  PROVE  Sound(result)
  BY TurnAssumption DEF Settled, Proposes, Proposal, Sound

\* Every way through the graph that writes nothing.
LEMMA GraphDoes ==
  ASSUME TurnTypeOK, ProposalAtHand, NEW r \in Run,
         \/ RunGraph(r) \/ CancelProposal(r) \/ AskAgain(r)
         \/ ReplayWrite(r) \/ FenceOut(r) \/ RollbackWrite(r)
  PROVE  /\ turn[r].pc \in {"graph", "act", "writing"}
         /\ \E result : Computed(r, result) /\ Sound(result)
         /\ UNCHANGED stored
  <1>1. turn[r].pc \in {"graph", "act", "writing"} /\ UNCHANGED stored
    BY DEF RunGraph, CancelProposal, AskAgain, ReplayWrite, FenceOut, RollbackWrite,
           Confirmed, At, domainVars, stored
  <1>2. CASE RunGraph(r) \/ CancelProposal(r) \/ ReplayWrite(r)
    BY <1>1, <1>2, RanDoes, ProposesSound
    DEF RunGraph, CancelProposal, ReplayWrite, Computed
  <1>3. CASE FenceOut(r) \/ RollbackWrite(r)
    <2>1. PICK result \in Result : FailedResult(r, result) /\ Ran(r, result)
      BY <1>3 DEF FenceOut, RollbackWrite
    <2>2. Sound(result)
      BY <2>1, ProposesSound DEF FailedResult, Sound
    <2> QED BY <1>1, <2>1, <2>2, RanDoes DEF Computed
  <1>4. CASE AskAgain(r)
    <2> DEFINE result == [prop |-> [turn[r].at EXCEPT !.id = r], waiting |-> TRUE]
    <2>1. turn[r].at \in Proposal
      BY <1>4 DEF AskAgain, At, ProposalAtHand, TurnTypeOK, TurnRecord
    <2>2. Sound(result)
      BY <2>1, TurnAssumption DEF Proposal, Sound
    <2>3. Ran(r, result)
      BY <1>4 DEF AskAgain
    <2> QED BY <1>1, <2>2, <2>3, RanDoes DEF Computed
  <1> QED
    BY <1>2, <1>3, <1>4

\* Only a confirmation of what was shown opens a business transaction.
LEMMA OpenWriteDoes ==
  ASSUME TurnTypeOK, NEW r \in Run, OpenWrite(r)
  PROVE  /\ turn[r].pc = "act" /\ turn[r].kind = "confirm" /\ turn[r].at = turn[r].seen.prop
         /\ Onward(r, "writing")
         /\ UNCHANGED stored
  BY GotoDoes DEF OpenWrite, Confirmed, At, Onward, domainVars, stored

\* The commit consumes the approval of the turn, which is APPROVED.
LEMMA CommitWriteDoes ==
  ASSUME TurnTypeOK, KindsKeepApart, ApprovalsHeld, NEW r \in Run, CommitWrite(r)
  PROVE  /\ turn[r].pc = "writing"
         /\ \E result : Computed(r, result) /\ Sound(result)
         /\ ~Written(turn[r].at)
         /\ objs' = objs \cup {[prop |-> turn[r].at.id, act |-> turn[r].at.act,
                                by |-> r, ref |-> turn[r].ref]}
         /\ approval[turn[r].ref].status = "APPROVED"
         /\ Marked(turn[r].ref, "CONSUMED")
         /\ UNCHANGED <<head, accepted>>
  <1>1. turn[r].pc = "writing" /\ Approved(r)
    BY DEF CommitWrite, At, KindsKeepApart, Approved
  <1>2. /\ turn[r].ref \in Run
        /\ approval[turn[r].ref] = [act |-> turn[r].seen.prop.act, status |-> "APPROVED"]
    BY <1>1 DEF ApprovalsHeld, Held
  <1>3. /\ turn[r].pc = "writing" /\ turn[r].ref \in Run
        /\ approval[turn[r].ref].status = "APPROVED"
    BY <1>1, <1>2
  <1>4. \E result : Computed(r, result) /\ Sound(result)
    BY RanDoes, ProposesSound DEF CommitWrite, Computed
  <1>5. Marked(turn[r].ref, "CONSUMED")
    BY <1>3, MarkDoes DEF CommitWrite
  <1> QED
    BY <1>3, <1>4, <1>5 DEF CommitWrite

\* Only assert_current goes on to publish.
LEMMA OnwardDoes ==
  ASSUME TurnTypeOK, NEW r \in Run,
         AssertCurrent(r) \/ Conflict(r) \/ Sync(r) \/ Close(r) \/ Fail(r)
  PROVE  /\ Onward(r, "release") \/ (turn[r].pc = "assert" /\ Onward(r, "publish"))
         /\ UNCHANGED stored
  <1>1. \A pc \in {"publish", "release"} : Goto(r, pc) => Onward(r, pc)
    BY GotoDoes DEF Onward
  <1>2. CASE AssertCurrent(r)
    BY <1>1, <1>2 DEF AssertCurrent, At, domainVars, stored
  <1>3. CASE Conflict(r) \/ Sync(r) \/ Close(r) \/ Fail(r)
    BY <1>1, <1>3 DEF Conflict, Sync, Close, Fail, domainVars, stored
  <1> QED
    BY <1>2, <1>3

\* publish_accepted replaces the version it has read.
LEMMA PublishDoes ==
  ASSUME TurnTypeOK, NEW r \in Run, Publish(r)
  PROVE  /\ turn[r].pc = "publish" /\ Onward(r, "sync")
         /\ head.ver = turn[r].base
         /\ head'.ver = head.ver + 1 /\ head'.era = head.era
         /\ head'.prop = turn[r].res.prop /\ head'.waiting = turn[r].res.waiting
         /\ accepted' = held[r]
         /\ UNCHANGED leaseVars
         /\ UNCHANGED <<approval, objs>>
  BY GotoDoes DEF Publish, Accept, At, Onward

\* What is no step of a turn.
LEMMA OthersDo ==
  ASSUME LapseLease \/ MarkHandover \/ UNCHANGED turnVars
         \/ \E r \in Run : HeartbeatRenew(r)
  PROVE  UNCHANGED <<turn, stored>>
  BY DEF LapseLease, MarkHandover, HeartbeatRenew, turnVars, domainVars, stored

-----------------------------------------------------------------------------
\* Each kind of request keeps to its own steps.
LEMMA KindsStep ==
  ASSUME TurnInv, [TurnNext]_turnVars
  PROVE  KindsKeepApart'
  <1> USE DEF TurnInv, KindsKeepApart, Ended, Turned, Onward, Computed, Over, stored
  <1>1. ASSUME NEW r \in Run, AcquireTurn(r)
        PROVE  KindsKeepApart'
    BY <1>1, AcquireDoes
  <1>2. ASSUME NEW r \in Run, RefuseTurn(r) \/ Crash(r) \/ ReleaseTurn(r)
        PROVE  KindsKeepApart'
    BY <1>2, EndsDo
  <1>3. ASSUME NEW r \in Run, Open(r) \/ ExpireSync(r)
        PROVE  KindsKeepApart'
    BY <1>3, OpenDoes
  <1>4. ASSUME NEW r \in Run, Peek(r)
        PROVE  KindsKeepApart'
    BY <1>4, PeekDoes
  <1>5. ASSUME NEW r \in Run, Restore(r)
        PROVE  KindsKeepApart'
    BY <1>5, RestoreDoes
  <1>6. ASSUME NEW r \in Run, ExpireSelect(r)
        PROVE  KindsKeepApart'
    BY <1>6, ExpireSelectDoes
  <1>7. ASSUME NEW r \in Run, ExpireSave(r)
        PROVE  KindsKeepApart'
    BY <1>7, ExpireSaveDoes
  <1>8. ASSUME NEW r \in Run, CreatePending(r)
        PROVE  KindsKeepApart'
    BY <1>8, CreatePendingDoes
  <1>9. ASSUME NEW r \in Run, Approve(r)
        PROVE  KindsKeepApart'
    BY <1>9, ApproveDoes
  <1>10. ASSUME NEW r \in Run, ReadVersion(r)
         PROVE  KindsKeepApart'
    BY <1>10, ReadVersionDoes
  <1>11. ASSUME NEW r \in Run, RenewPlan(r)
         PROVE  KindsKeepApart'
    BY <1>11, RenewPlanDoes
  <1>12. ASSUME NEW r \in Run, ReadCursor(r)
         PROVE  KindsKeepApart'
    BY <1>12, ReadCursorDoes
  <1>13. ASSUME NEW r \in Run,
                RunGraph(r) \/ CancelProposal(r) \/ AskAgain(r) \/ ReplayWrite(r)
                  \/ FenceOut(r) \/ RollbackWrite(r)
         PROVE  KindsKeepApart'
    BY <1>13, GraphDoes
  <1>14. ASSUME NEW r \in Run, OpenWrite(r)
         PROVE  KindsKeepApart'
    BY <1>14, OpenWriteDoes
  <1>15. ASSUME NEW r \in Run, CommitWrite(r)
         PROVE  KindsKeepApart'
    BY <1>15, CommitWriteDoes
  <1>16. ASSUME NEW r \in Run,
                AssertCurrent(r) \/ Conflict(r) \/ Sync(r) \/ Close(r) \/ Fail(r)
         PROVE  KindsKeepApart'
    BY <1>16, OnwardDoes
  <1>17. ASSUME NEW r \in Run, Publish(r)
         PROVE  KindsKeepApart'
    BY <1>17, PublishDoes
  <1>18. ASSUME UNCHANGED <<turn, stored>>
         PROVE  KindsKeepApart'
    BY <1>18
  <1> QED
    BY OthersDo, <1>1, <1>2, <1>3, <1>4, <1>5, <1>6, <1>7, <1>8, <1>9, <1>10, <1>11, <1>12,
       <1>13, <1>14, <1>15, <1>16, <1>17, <1>18
    DEF TurnNext, Step

\* Every step keeps a proposal at hand where one is needed.
LEMMA AtHandStep ==
  ASSUME TurnInv, [TurnNext]_turnVars
  PROVE  ProposalAtHand'
  <1> USE DEF TurnInv, ProposalAtHand, KindsKeepApart, Ended, Sound, Settled, Turned,
              Onward, Computed, Over, stored
  <1>1. ASSUME NEW r \in Run, AcquireTurn(r)
        PROVE  ProposalAtHand'
    BY <1>1, AcquireDoes
  <1>2. ASSUME NEW r \in Run, RefuseTurn(r) \/ Crash(r) \/ ReleaseTurn(r)
        PROVE  ProposalAtHand'
    BY <1>2, EndsDo
  <1>3. ASSUME NEW r \in Run, Open(r) \/ ExpireSync(r)
        PROVE  ProposalAtHand'
    BY <1>3, OpenDoes
  <1>4. ASSUME NEW r \in Run, Peek(r)
        PROVE  ProposalAtHand'
    BY <1>4, PeekDoes
  <1>5. ASSUME NEW r \in Run, Restore(r)
        PROVE  ProposalAtHand'
    BY <1>5, RestoreDoes
  <1>6. ASSUME NEW r \in Run, ExpireSelect(r)
        PROVE  ProposalAtHand'
    BY <1>6, ExpireSelectDoes
  <1>7. ASSUME NEW r \in Run, ExpireSave(r)
        PROVE  ProposalAtHand'
    BY <1>7, ExpireSaveDoes
  <1>8. ASSUME NEW r \in Run, CreatePending(r)
        PROVE  ProposalAtHand'
    BY <1>8, CreatePendingDoes
  <1>9. ASSUME NEW r \in Run, Approve(r)
        PROVE  ProposalAtHand'
    BY <1>9, ApproveDoes
  <1>10. ASSUME NEW r \in Run, ReadVersion(r)
         PROVE  ProposalAtHand'
    BY <1>10, ReadVersionDoes
  <1>11. ASSUME NEW r \in Run, RenewPlan(r)
         PROVE  ProposalAtHand'
    BY <1>11, RenewPlanDoes
  <1>12. ASSUME NEW r \in Run, ReadCursor(r)
         PROVE  ProposalAtHand'
    BY <1>12, ReadCursorDoes
  <1>13. ASSUME NEW r \in Run,
                RunGraph(r) \/ CancelProposal(r) \/ AskAgain(r) \/ ReplayWrite(r)
                  \/ FenceOut(r) \/ RollbackWrite(r)
         PROVE  ProposalAtHand'
    BY <1>13, GraphDoes
  <1>14. ASSUME NEW r \in Run, OpenWrite(r)
         PROVE  ProposalAtHand'
    BY <1>14, OpenWriteDoes
  <1>15. ASSUME NEW r \in Run, CommitWrite(r)
         PROVE  ProposalAtHand'
    BY <1>15, CommitWriteDoes
  <1>16. ASSUME NEW r \in Run,
                AssertCurrent(r) \/ Conflict(r) \/ Sync(r) \/ Close(r) \/ Fail(r)
         PROVE  ProposalAtHand'
    BY <1>16, OnwardDoes
  <1>17. ASSUME NEW r \in Run, Publish(r)
         PROVE  ProposalAtHand'
    BY <1>17, PublishDoes
  <1>18. ASSUME UNCHANGED <<turn, stored>>
         PROVE  ProposalAtHand'
    BY <1>18
  <1> QED
    BY OthersDo, <1>1, <1>2, <1>3, <1>4, <1>5, <1>6, <1>7, <1>8, <1>9, <1>10, <1>11, <1>12,
       <1>13, <1>14, <1>15, <1>16, <1>17, <1>18
    DEF TurnNext, Step

\* Creating or finding a row disturbs nobody who has an approval.
LEMMA CreatePendingHeld ==
  ASSUME TurnInv, NEW r \in Run, CreatePending(r)
  PROVE  ApprovalsHeld'
  <1> DEFINE a == turn[r].seen.prop.act
  <1>1. TurnTypeOK /\ \A p \in Run : Held(p)
    BY DEF TurnInv, ApprovalsHeld
  <1>2. PICK s \in Run :
           /\ Turned(r, "approve", turn[r].seen, turn[r].base, turn[r].at, s, turn[r].res)
           /\ \/ /\ approval[s].act = a /\ approval[s].status # "NONE"
                 /\ approval' = approval
              \/ /\ s = r
                 /\ approval' = [approval EXCEPT ![r] = [act |-> a, status |-> "PENDING"]]
    BY <1>1, CreatePendingDoes
  <1>3. approval[r] = NoApproval
    BY <1>1, CreatePendingDoes DEF Held
  <1>4. /\ \A q \in Run \ {r} : approval'[q] = approval[q]
        /\ approval'[s].act = a /\ approval'[s].status # "NONE"
    BY <1>1, <1>2 DEF TurnTypeOK
  <1>5. \A q \in Run : Approved(q)' => Approved(q) /\ q # r /\ turn'[q] = turn[q]
    BY <1>2 DEF Approved, Turned
  <1>6. Held(r)'
    <2>1. /\ turn'[r].pc = "approve" /\ turn'[r].ref = s
          /\ turn'[r].seen.prop.act = a
          /\ ~Approved(r)'
      BY <1>2, <1>5 DEF Turned
    <2> QED BY <1>4, <2>1 DEF Held
  <1>7. ASSUME NEW p \in Run \ {r}
        PROVE  Held(p)'
    <2>1. Held(p) /\ turn'[p] = turn[p] /\ approval'[p] = approval[p]
      BY <1>1, <1>2, <1>4 DEF Turned
    <2>2. turn[p].pc = "approve" => turn[p].ref \in Run \ {r}
      BY <1>3, <2>1 DEF NoApproval, Held
    <2>3. Approved(p) => turn[p].ref \in Run \ {r}
      BY <1>3, <2>1 DEF NoApproval, Held
    <2> QED BY <1>4, <1>5, <2>1, <2>2, <2>3 DEF Held
  <1> QED
    BY <1>6, <1>7 DEF ApprovalsHeld

\* Only a PENDING approval is marked, so the turn that marks it is alone with it.
LEMMA ApproveHeld ==
  ASSUME TurnInv, NEW r \in Run, Approve(r)
  PROVE  ApprovalsHeld'
  <1> DEFINE s == turn[r].ref
  <1>1. TurnTypeOK /\ ApprovalsHeld /\ \A p \in Run : Held(p)
    BY DEF TurnInv, ApprovalsHeld
  <1>2. turn[r].pc = "approve" /\ s \in Run /\ approval[s].act = turn[r].seen.prop.act
    BY <1>1, ApproveDoes DEF Held
  <1>3. \A q \in Run \ {r} : turn'[q] = turn[q]
    BY <1>1, ApproveDoes DEF Over, Onward, Turned
  <1>4. ~Approved(r)
    BY <1>2 DEF Approved
  <1>5. \A q \in Run \ {r} : Approved(q)' <=> Approved(q)
    BY <1>3 DEF Approved
  <1>6. ASSUME NEW x \in {"EXPIRED", "APPROVED"}, Marked(s, x),
               approval[s].status = "PENDING", NEW p \in Run \ {r}
        PROVE  /\ Approved(p) => turn[p].ref # s
               /\ (\A q \in Run \ {p} : Approved(q)' /\ Approved(p) => turn'[q].ref # turn[p].ref)
                     => Held(p)'
    <2>1. Held(p) /\ turn'[p] = turn[p] /\ (Approved(p)' <=> Approved(p))
      BY <1>1, <1>3, <1>5
    <2>2. Approved(p) => turn[p].ref \in Run \ {s}
      BY <1>6, <2>1 DEF Held
    <2>3. approval[p] = NoApproval => p # s
      BY <1>6 DEF NoApproval
    <2>4. turn[p].pc \in {"idle", "restore", "token"} => approval'[p] = NoApproval
      BY <1>6, <2>1, <2>3 DEF Held, Marked
    <2>5. turn[p].pc = "approve" =>
             /\ turn[p].ref \in Run
             /\ approval'[turn[p].ref].act = turn[p].seen.prop.act
             /\ approval'[turn[p].ref].status # "NONE"
      BY <1>6, <2>1 DEF Held, Marked
    <2>6. Approved(p) => approval'[turn[p].ref] = [act |-> turn[p].seen.prop.act,
                                                   status |-> "APPROVED"]
      BY <1>6, <2>1, <2>2 DEF Held, Marked
    <2> QED BY <2>1, <2>2, <2>4, <2>5, <2>6 DEF Held
  <1>7. CASE approval' = approval /\ Over(r)
    <2>1. turn'[r].pc \in Ended /\ ~Approved(r)'
      BY <1>7 DEF Over, Ended, Approved
    <2>2. Held(r)'
      BY <2>1 DEF Held, Ended
    <2>3. ASSUME NEW p \in Run \ {r} PROVE Held(p)'
      <3>1. Held(p) /\ turn'[p] = turn[p]
        BY <1>1, <1>3
      <3>2. \A q \in Run : Approved(q)' => q # r /\ Approved(q) /\ turn'[q] = turn[q]
        BY <1>3, <1>5, <2>1
      <3> QED BY <1>7, <3>1, <3>2 DEF Held
    <2> QED BY <2>2, <2>3 DEF ApprovalsHeld
  <1>8. ASSUME Over(r), Marked(s, "EXPIRED"), approval[s].status = "PENDING"
        PROVE  ApprovalsHeld'
    <2>1. turn'[r].pc \in Ended /\ ~Approved(r)'
      BY <1>8 DEF Over, Ended, Approved
    <2>2. Held(r)'
      BY <2>1 DEF Held, Ended
    <2>3. ASSUME NEW p \in Run \ {r} PROVE Held(p)'
      <3>1. Held(p) /\ turn'[p] = turn[p]
        BY <1>1, <1>3
      <3>2. \A q \in Run \ {p} : Approved(q)' /\ Approved(p) => turn'[q].ref # turn[p].ref
        BY <1>3, <1>5, <2>1, <3>1 DEF Held
      <3> QED BY <1>6, <1>8, <3>2
    <2> QED BY <2>2, <2>3 DEF ApprovalsHeld
  <1>9. ASSUME Onward(r, "version"), Marked(s, "APPROVED"), approval[s].status = "PENDING"
        PROVE  ApprovalsHeld'
    <2>1. turn'[r].pc = "version" /\ turn'[r].ref = s /\ turn'[r].seen = turn[r].seen
      BY <1>9 DEF Onward, Turned
    <2>2. \A q \in Run \ {r} : Approved(q)' => turn'[q].ref # s
      BY <1>3, <1>5, <1>6, <1>9
    <2>3. Held(r)'
      BY <1>2, <1>9, <2>1, <2>2 DEF Held, Marked
    <2>4. ASSUME NEW p \in Run \ {r} PROVE Held(p)'
      <3>1. Held(p) /\ turn'[p] = turn[p]
        BY <1>1, <1>3
      <3>2. Approved(p) => turn[p].ref # s
        BY <1>6, <1>9
      <3>3. \A q \in Run \ {p} : Approved(q)' /\ Approved(p) => turn'[q].ref # turn[p].ref
        BY <1>3, <1>5, <2>1, <3>1, <3>2 DEF Held
      <3> QED BY <1>6, <1>9, <3>3
    <2> QED BY <2>3, <2>4 DEF ApprovalsHeld
  <1> QED
    BY <1>1, <1>7, <1>8, <1>9, ApproveDoes

\* The writer consumes an approval that nobody else holds.
LEMMA CommitHeld ==
  ASSUME TurnInv, NEW r \in Run, CommitWrite(r)
  PROVE  ApprovalsHeld'
  <1> DEFINE s == turn[r].ref
  <1>1. TurnTypeOK /\ ApprovalsHeld /\ KindsKeepApart /\ \A p \in Run : Held(p)
    BY DEF TurnInv, ApprovalsHeld
  <1>2. PICK result : turn[r].pc = "writing" /\ Computed(r, result)
    BY <1>1, CommitWriteDoes
  <1>3. Approved(r) /\ turn'[r].pc = "assert" /\ \A q \in Run \ {r} : turn'[q] = turn[q]
    BY <1>1, <1>2 DEF Approved, KindsKeepApart, Computed, Turned
  <1>4. /\ s \in Run /\ approval[s].status = "APPROVED" /\ Marked(s, "CONSUMED")
    BY <1>1, CommitWriteDoes DEF Marked
  <1>5. \A q \in Run \ {r} : Approved(q) => turn[q].ref # s
    BY <1>1, <1>3 DEF Held
  <1>6. \A q \in Run : Approved(q)' => Approved(q) /\ q # r /\ turn'[q] = turn[q]
    BY <1>3 DEF Approved
  <1>7. Held(r)'
    BY <1>3, <1>6 DEF Held
  <1>8. ASSUME NEW p \in Run \ {r} PROVE Held(p)'
    <2>1. turn'[p] = turn[p] /\ Held(p)
      BY <1>1, <1>3
    <2>2. turn[p].pc \in {"idle", "restore", "token"} => approval'[p] = NoApproval
      BY <1>4, <2>1 DEF Marked, NoApproval, Held
    <2>3. turn[p].pc = "approve" => /\ approval'[turn[p].ref].act = turn[p].seen.prop.act
                                    /\ approval'[turn[p].ref].status # "NONE"
      BY <1>4, <2>1 DEF Marked, Held
    <2>4. Approved(p) => approval'[turn[p].ref] = approval[turn[p].ref]
      BY <1>4, <1>5, <2>1 DEF Marked, Held
    <2> QED BY <1>6, <2>1, <2>2, <2>3, <2>4 DEF Held
  <1> QED
    BY <1>7, <1>8 DEF ApprovalsHeld

\* Every step keeps the approvals with those that hold them.
LEMMA HeldStep ==
  ASSUME TurnInv, [TurnNext]_turnVars
  PROVE  ApprovalsHeld'
  <1> USE DEF TurnInv, ApprovalsHeld, Held, ProposalAtHand, KindsKeepApart, Ended, Approved,
              Turned, Onward, Computed, Over, stored
  <1>1. ASSUME NEW r \in Run, AcquireTurn(r)
        PROVE  ApprovalsHeld'
    <2> SUFFICES ASSUME NEW p \in Run PROVE Held(p)'
      BY DEF ApprovalsHeld
    <2>1. approval' = approval
      BY <1>1, AcquireDoes
    <2>2. CASE p = r
      BY <1>1, <2>1, <2>2, AcquireDoes
    <2>3. CASE p # r
      <3>1. turn'[p] = turn[p] /\ (Approved(r)' => FALSE)
        BY <1>1, <2>3, AcquireDoes
      <3>2. \A q \in Run : Approved(q)' => Approved(q) /\ turn'[q] = turn[q]
        BY <1>1, <3>1, AcquireDoes
      <3>3. Held(p)
        BY DEF ApprovalsHeld
      <3> QED BY <2>1, <3>1, <3>2, <3>3
    <2> QED BY <2>2, <2>3
  <1>2. ASSUME NEW r \in Run, RefuseTurn(r) \/ Crash(r) \/ ReleaseTurn(r)
        PROVE  ApprovalsHeld'
    BY <1>2, EndsDo
  <1>3. ASSUME NEW r \in Run, Open(r) \/ ExpireSync(r)
        PROVE  ApprovalsHeld'
    BY <1>3, OpenDoes
  <1>4. ASSUME NEW r \in Run, Peek(r)
        PROVE  ApprovalsHeld'
    BY <1>4, PeekDoes
  <1>5. ASSUME NEW r \in Run, Restore(r)
        PROVE  ApprovalsHeld'
    <2> SUFFICES ASSUME NEW p \in Run PROVE Held(p)'
      BY DEF ApprovalsHeld
    <2>1. approval' = approval
      BY <1>5, RestoreDoes
    <2>2. CASE p = r
      <3>1. approval[r] = NoApproval /\ approval'[r] = NoApproval
        BY <1>5, <2>1, RestoreDoes
      <3>2. turn'[r].pc # "approve" /\ ~Approved(r)'
        BY <1>5, RestoreDoes
      <3> QED BY <2>2, <3>1, <3>2
    <2>3. CASE p # r
      <3>1. turn'[p] = turn[p] /\ (Approved(r)' => FALSE)
        BY <1>5, <2>3, RestoreDoes
      <3>2. \A q \in Run : Approved(q)' => Approved(q) /\ turn'[q] = turn[q]
        BY <1>5, <3>1, RestoreDoes
      <3>3. Held(p)
        BY DEF ApprovalsHeld
      <3> QED BY <2>1, <3>1, <3>2, <3>3
    <2> QED BY <2>2, <2>3
  <1>6. ASSUME NEW r \in Run, ExpireSelect(r)
        PROVE  ApprovalsHeld'
    BY <1>6, ExpireSelectDoes
  <1>7. ASSUME NEW r \in Run, ExpireSave(r)
        PROVE  ApprovalsHeld'
    BY <1>7, ExpireSaveDoes
  <1>8. ASSUME NEW r \in Run, CreatePending(r)
        PROVE  ApprovalsHeld'
    BY <1>8, CreatePendingHeld
  <1>9. ASSUME NEW r \in Run, Approve(r)
        PROVE  ApprovalsHeld'
    BY <1>9, ApproveHeld
  <1>10. ASSUME NEW r \in Run, ReadVersion(r)
         PROVE  ApprovalsHeld'
    BY <1>10, ReadVersionDoes
  <1>11. ASSUME NEW r \in Run, RenewPlan(r)
         PROVE  ApprovalsHeld'
    BY <1>11, RenewPlanDoes
  <1>12. ASSUME NEW r \in Run, ReadCursor(r)
         PROVE  ApprovalsHeld'
    BY <1>12, ReadCursorDoes
  <1>13. ASSUME NEW r \in Run,
                RunGraph(r) \/ CancelProposal(r) \/ AskAgain(r) \/ ReplayWrite(r)
                  \/ FenceOut(r) \/ RollbackWrite(r)
         PROVE  ApprovalsHeld'
    BY <1>13, GraphDoes
  <1>14. ASSUME NEW r \in Run, OpenWrite(r)
         PROVE  ApprovalsHeld'
    BY <1>14, OpenWriteDoes
  <1>15. ASSUME NEW r \in Run, CommitWrite(r)
         PROVE  ApprovalsHeld'
    BY <1>15, CommitHeld
  <1>16. ASSUME NEW r \in Run,
                AssertCurrent(r) \/ Conflict(r) \/ Sync(r) \/ Close(r) \/ Fail(r)
         PROVE  ApprovalsHeld'
    BY <1>16, OnwardDoes
  <1>17. ASSUME NEW r \in Run, Publish(r)
         PROVE  ApprovalsHeld'
    BY <1>17, PublishDoes
  <1>18. ASSUME UNCHANGED <<turn, stored>>
         PROVE  ApprovalsHeld'
    BY <1>18
  <1> QED
    BY OthersDo, <1>1, <1>2, <1>3, <1>4, <1>5, <1>6, <1>7, <1>8, <1>9, <1>10, <1>11, <1>12,
       <1>13, <1>14, <1>15, <1>16, <1>17, <1>18
    DEF TurnNext, Step

-----------------------------------------------------------------------------
\* The fence of the row never falls, and a run keeps the fence it was given.
LEMMA FencesGrow ==
  ASSUME LeaseInv, [Next]_leaseVars
  PROVE  /\ lease'.fence \in Nat /\ lease'.fence >= lease.fence
         /\ \A q \in Run : worker[q] # "idle" => held'[q] = held[q]
  BY DEF LeaseInv, TypeOK, Next, leaseVars, Expire, Acquire, Refuse, Renew, BeginWrite,
         RejectWrite, Commit, Rollback, Release, Vanish

\* A turn past its beginning is a run past the beginning of its lease.
LEMMA HeldKept ==
  ASSUME TurnTypeOK, [TurnNext]_turnVars, NEW q \in Run, turn[q].pc # "idle"
  PROVE  held'[q] = held[q]
  <1>1. ASSUME NEW r \in Run, AcquireTurn(r)
        PROVE  held'[q] = held[q]
    BY <1>1 DEF AcquireTurn, At, Acquire, TurnTypeOK, TypeOK
  <1>2. CASE UNCHANGED held
    BY <1>2
  <1>3. ASSUME NEW r \in Run,
               RefuseTurn(r) \/ Crash(r) \/ ReleaseTurn(r) \/ Open(r) \/ ExpireSync(r)
                 \/ Peek(r) \/ Restore(r) \/ ExpireSelect(r) \/ ExpireSave(r)
        PROVE  UNCHANGED held
    BY <1>3 DEF RefuseTurn, Crash, ReleaseTurn, Open, ExpireSync, Peek, Restore, ExpireSelect,
                ExpireSave, Raise, Refuse, Vanish, Release, leaseVars
  <1>4. ASSUME NEW r \in Run,
               CreatePending(r) \/ Approve(r) \/ ReadVersion(r) \/ RenewPlan(r)
                 \/ ReadCursor(r)
                 \/ RunGraph(r) \/ CancelProposal(r) \/ AskAgain(r) \/ ReplayWrite(r)
        PROVE  UNCHANGED held
    BY <1>4 DEF CreatePending, Approve, ReadVersion, RenewPlan, ReadCursor, RunGraph,
                CancelProposal, AskAgain, ReplayWrite, Raise, Vanish, leaseVars
  <1>5. ASSUME NEW r \in Run,
               OpenWrite(r) \/ FenceOut(r) \/ CommitWrite(r) \/ RollbackWrite(r)
                 \/ AssertCurrent(r) \/ Publish(r) \/ Conflict(r) \/ Sync(r) \/ Close(r)
                 \/ Fail(r) \/ HeartbeatRenew(r)
        PROVE  UNCHANGED held
    BY <1>5 DEF OpenWrite, FenceOut, CommitWrite, RollbackWrite, AssertCurrent, Publish,
                Conflict, Sync, Close, Fail, HeartbeatRenew, BeginWrite, RejectWrite, Commit,
                Rollback, Renew, leaseVars
  <1>6. CASE LapseLease \/ MarkHandover \/ UNCHANGED turnVars
    BY <1>6, <1>2 DEF LapseLease, MarkHandover, turnVars, Expire, leaseVars
  <1> QED
    BY <1>1, <1>2, <1>3, <1>4, <1>5, <1>6 DEF TurnNext, Step

\* One run of PublishedByOlder.
Older(r) ==
    /\ turn[r].era <= head.era
    /\ turn[r].era = head.era =>
          /\ turn[r].base <= head.ver
          /\ turn[r].pc \in Executing /\ turn[r].base = head.ver => accepted <= held[r]

\* As long as the head does not change, a run that neither starts to execute
\* nor reads the version keeps what it knows.
LEMMA OlderKept ==
  ASSUME TurnTypeOK, [TurnNext]_turnVars, head' = head, accepted' = accepted,
         NEW r \in Run, Older(r),
         \/ turn'[r] = turn[r]
         \/ turn'[r].base = 0 /\ turn'[r].era = 0 /\ turn'[r].pc \notin Executing
         \/ /\ turn'[r].base = turn[r].base /\ turn'[r].era = turn[r].era
            /\ turn'[r].pc \notin Executing \/ turn[r].pc \in Executing
  PROVE  Older(r)'
  <1>1. turn[r].pc \in Executing => held'[r] = held[r]
    BY HeldKept DEF Executing
  <1>2. head.ver \in Nat /\ head.era \in Nat
    BY DEF TurnTypeOK, HeadRecord
  <1> QED
    BY <1>1, <1>2 DEF Older

\* While a turn executes on the current version, nobody with a newer fence has
\* published.
LEMMA OlderStep ==
  ASSUME TurnInv, [TurnNext]_turnVars
  PROVE  PublishedByOlder'
  <1>1. /\ TurnTypeOK /\ ProposalAtHand /\ KindsKeepApart /\ ApprovalsHeld /\ LeaseInv
        /\ [Next]_leaseVars /\ \A p \in Run : Older(p)
        /\ accepted \in Nat /\ accepted <= lease.fence /\ lease.fence \in Nat
        /\ lease'.fence \in Nat /\ lease'.fence >= lease.fence
    BY TurnUsesLease, FencesGrow
    DEF TurnInv, PublishedByOlder, TurnTypeOK, LeaseInv, TypeOK, Older
  <1> DEFINE Calm == head' = head /\ accepted' = accepted /\ \A p \in Run : Older(p)'
  <1>2. ASSUME NEW r \in Run, AcquireTurn(r)
        PROVE  Calm
    BY <1>1, <1>2, AcquireDoes, OlderKept
    DEF Turned, Onward, Computed, Over, stored, Executing, Ended
  <1>3. ASSUME NEW r \in Run, RefuseTurn(r) \/ Crash(r) \/ ReleaseTurn(r)
        PROVE  Calm
    BY <1>1, <1>3, EndsDo, OlderKept
    DEF Turned, Onward, Computed, Over, stored, Executing, Ended
  <1>4. ASSUME NEW r \in Run, Open(r) \/ ExpireSync(r)
        PROVE  Calm
    BY <1>1, <1>4, OpenDoes, OlderKept
    DEF Turned, Onward, Computed, Over, stored, Executing, Ended
  <1>5. ASSUME NEW r \in Run, Peek(r)
        PROVE  Calm
    BY <1>1, <1>5, PeekDoes, OlderKept
    DEF Turned, Onward, Computed, Over, stored, Executing, Ended
  <1>6. ASSUME NEW r \in Run, Restore(r)
        PROVE  Calm
    BY <1>1, <1>6, RestoreDoes, OlderKept
    DEF Turned, Onward, Computed, Over, stored, Executing, Ended
  <1>7. ASSUME NEW r \in Run, ExpireSelect(r)
        PROVE  Calm
    BY <1>1, <1>7, ExpireSelectDoes, OlderKept
    DEF Turned, Onward, Computed, Over, stored, Executing, Ended
  <1>8. ASSUME NEW r \in Run, CreatePending(r)
        PROVE  Calm
    BY <1>1, <1>8, CreatePendingDoes, OlderKept
    DEF Turned, Onward, Computed, Over, stored, Executing, Ended
  <1>9. ASSUME NEW r \in Run, Approve(r)
        PROVE  Calm
    BY <1>1, <1>9, ApproveDoes, OlderKept
    DEF Turned, Onward, Computed, Over, stored, Executing, Ended
  <1>10. ASSUME NEW r \in Run, ReadCursor(r)
         PROVE  Calm
    BY <1>1, <1>10, ReadCursorDoes, OlderKept
    DEF Turned, Onward, Computed, Over, stored, Executing, Ended
  <1>11. ASSUME NEW r \in Run,
                RunGraph(r) \/ CancelProposal(r) \/ AskAgain(r) \/ ReplayWrite(r)
                  \/ FenceOut(r) \/ RollbackWrite(r)
         PROVE  Calm
    BY <1>1, <1>11, GraphDoes, OlderKept
    DEF Turned, Onward, Computed, Over, stored, Executing, Ended
  <1>12. ASSUME NEW r \in Run, OpenWrite(r)
         PROVE  Calm
    BY <1>1, <1>12, OpenWriteDoes, OlderKept
    DEF Turned, Onward, Computed, Over, stored, Executing, Ended
  <1>13. ASSUME NEW r \in Run, CommitWrite(r)
         PROVE  Calm
    BY <1>1, <1>13, CommitWriteDoes, OlderKept
    DEF Turned, Onward, Computed, Over, stored, Executing, Ended
  <1>14. ASSUME NEW r \in Run,
                AssertCurrent(r) \/ Conflict(r) \/ Sync(r) \/ Close(r) \/ Fail(r)
         PROVE  Calm
    BY <1>1, <1>14, OnwardDoes, OlderKept
    DEF Turned, Onward, Computed, Over, stored, Executing, Ended
  <1>15. ASSUME NEW r \in Run, ReadVersion(r)
         PROVE  Calm
    <2>1. /\ head' = head /\ accepted' = accepted
          /\ turn'[r].base = head.ver /\ turn'[r].era = head.era /\ turn'[r].pc = "renew"
          /\ \A q \in Run \ {r} : turn'[q] = turn[q]
      BY <1>1, <1>15, ReadVersionDoes DEF stored
    <2>2. head.ver \in Nat /\ head.era \in Nat
      BY <1>1 DEF TurnTypeOK, HeadRecord
    <2>3. Older(r)'
      BY <2>1, <2>2 DEF Older, Executing
    <2> QED BY <1>1, <2>1, <2>3, OlderKept
  <1>16. ASSUME NEW r \in Run, RenewPlan(r)
         PROVE  Calm
    <2>1. CASE Over(r)
      BY <1>1, <1>16, <2>1, RenewPlanDoes, OlderKept DEF Over, stored, Executing, Ended
    <2>2. ASSUME NEW pc, Onward(r, pc), Owns(r), UNCHANGED leaseVars, UNCHANGED stored
          PROVE  Calm
      <3>1. held[r] = lease.fence /\ held' = held /\ lease' = lease
        BY <2>2 DEF Owns, Holds, leaseVars
      <3>2. /\ head' = head /\ accepted' = accepted
            /\ turn'[r].base = turn[r].base /\ turn'[r].era = turn[r].era
            /\ \A q \in Run \ {r} : turn'[q] = turn[q]
        BY <2>2 DEF Onward, Turned, stored
      <3>3. Older(r)'
        BY <1>1, <3>1, <3>2 DEF Older
      <3> QED BY <1>1, <3>2, <3>3, OlderKept
    <2> QED BY <1>1, <1>16, <2>1, <2>2, RenewPlanDoes
  <1>17. ASSUME UNCHANGED <<turn, stored>>
         PROVE  Calm
    BY <1>1, <1>17, OlderKept DEF stored
  <1>18. CASE Calm
    BY <1>1, <1>18 DEF PublishedByOlder, Older
  <1>19. ASSUME NEW r \in Run, ExpireSave(r)
         PROVE  PublishedByOlder'
    <2>1. /\ accepted' = accepted
          /\ \A q \in Run : turn'[q].base = turn[q].base /\ turn'[q].era = turn[q].era
          /\ \/ head'.era = head.era + 1
             \/ head'.era = head.era /\ head'.ver > head.ver
      BY <1>1, <1>19, ExpireSaveDoes DEF Onward, Turned
    <2>2. /\ head.ver \in Nat /\ head.era \in Nat /\ head'.ver \in Nat
          /\ \A q \in Run : turn[q].base \in Nat /\ turn[q].era \in Nat
      BY <1>1, DomainTyped DEF TurnTypeOK, TurnRecord, HeadRecord
    <2>3. ASSUME NEW q \in Run
          PROVE  Older(q)'
      <3>1. turn[q].era <= head.era /\ (turn[q].era = head.era => turn[q].base <= head.ver)
        BY <1>1 DEF Older
      <3>2. CASE head'.era = head.era + 1
        BY <2>1, <2>2, <3>1, <3>2 DEF Older
      <3>3. CASE head'.era = head.era /\ head'.ver > head.ver
        BY <2>1, <2>2, <3>1, <3>3 DEF Older
      <3> QED BY <2>1, <3>2, <3>3
    <2> QED BY <1>1, <2>1, <2>3 DEF PublishedByOlder, Older
  <1>20. ASSUME NEW r \in Run, Publish(r)
         PROVE  PublishedByOlder'
    <2>1. /\ head'.ver = head.ver + 1 /\ head'.era = head.era
          /\ accepted' = held[r] /\ lease' = lease
          /\ \A q \in Run : turn'[q].base = turn[q].base /\ turn'[q].era = turn[q].era
      BY <1>1, <1>20, PublishDoes DEF Onward, Turned, leaseVars
    <2>2. /\ head.ver \in Nat /\ head.era \in Nat
          /\ \A q \in Run : turn[q].base \in Nat /\ turn[q].era \in Nat
      BY <1>1 DEF TurnTypeOK, TurnRecord, HeadRecord
    <2>3. held[r] <= lease.fence
      BY <1>1 DEF LeaseInv, RowIsNewest
    <2>4. ASSUME NEW q \in Run
          PROVE  Older(q)'
      BY <1>1, <2>1, <2>2 DEF Older
    <2> QED BY <1>1, <2>1, <2>3, <2>4 DEF PublishedByOlder, Older
  <1> QED
    BY OthersDo, <1>2, <1>3, <1>4, <1>5, <1>6, <1>7, <1>8, <1>9, <1>10, <1>11, <1>12, <1>13,
       <1>14, <1>15, <1>16, <1>17, <1>18, <1>19, <1>20
    DEF TurnNext, Step

\* A commit finds no object of its proposal.
LEMMA OneObjectStep ==
  ASSUME TurnInv, [TurnNext]_turnVars
  PROVE  OneObjectPerProposal'
  <1>1. ASSUME NEW r \in Run, CommitWrite(r)
        PROVE  OneObjectPerProposal'
    BY <1>1, CommitWriteDoes DEF TurnInv, OneObjectPerProposal, Written
  <1>2. CASE UNCHANGED objs
    BY <1>2 DEF TurnInv, OneObjectPerProposal
  <1> QED
    BY <1>1, <1>2, StoringSteps
    DEF Storing, domainVars, MarkHandover, Open, ExpireSave, ExpireSync, CreatePending,
        Approve,
        Publish, Sync, Close

\* The approval of an object is a consumed row.
LEMMA RowOfObject ==
  ASSUME ConsumedWithTheWrite, NEW o \in objs
  PROVE  approval[o.ref].status = "CONSUMED"
  <1>1. approval[o.ref] = [act |-> o.act, status |-> "CONSUMED"]
    BY DEF ConsumedWithTheWrite
  <1> QED
    BY <1>1

\* Rows that are not consumed, and stay so, leave objects and approvals matched.
LEMMA ConsumedKept ==
  ASSUME ConsumedWithTheWrite, objs' = objs,
         \A q \in Run : \/ approval'[q] = approval[q]
                        \/ approval[q].status # "CONSUMED" /\ approval'[q].status # "CONSUMED",
         objs \subseteq [prop : Run, act : Action, by : Run, ref : Run]
  PROVE  ConsumedWithTheWrite'
  <1>1. \A o \in objs : approval'[o.ref] = approval[o.ref]
    BY RowOfObject
  <1>2. \A q \in Run : approval'[q].status = "CONSUMED" => approval[q].status = "CONSUMED"
    OBVIOUS
  <1> QED
    BY <1>1, <1>2 DEF ConsumedWithTheWrite

\* The commit consumes an approval that was not consumed, of the action it
\* carries out.
LEMMA ConsumedStep ==
  ASSUME TurnInv, [TurnNext]_turnVars
  PROVE  ConsumedWithTheWrite'
  <1>1. /\ TurnTypeOK /\ ProposalAtHand /\ KindsKeepApart /\ ApprovalsHeld
        /\ ConsumedWithTheWrite
        /\ objs \subseteq [prop : Run, act : Action, by : Run, ref : Run]
        /\ approval \in [Run -> ApprovalRow \cup {NoApproval}]
    BY DEF TurnInv, TurnTypeOK
  <1>2. CASE UNCHANGED <<objs, approval>>
    BY <1>1, <1>2, ConsumedKept
  <1>3. ASSUME NEW r \in Run, CreatePending(r)
        PROVE  ConsumedWithTheWrite'
    <2>1. approval[r] = NoApproval
      BY <1>1, <1>3, CreatePendingDoes DEF ApprovalsHeld, Held
    <2>2. /\ objs' = objs
          /\ \/ approval' = approval
             \/ \E a : approval' = [approval EXCEPT ![r] = [act |-> a, status |-> "PENDING"]]
      BY <1>1, <1>3, CreatePendingDoes
    <2> QED BY <1>1, <2>1, <2>2, ConsumedKept DEF NoApproval
  <1>4. ASSUME NEW r \in Run, Approve(r)
        PROVE  ConsumedWithTheWrite'
    <2>1. /\ objs' = objs
          /\ \/ approval' = approval
             \/ \E x \in {"EXPIRED", "APPROVED"} :
                   Marked(turn[r].ref, x) /\ approval[turn[r].ref].status = "PENDING"
      BY <1>1, <1>4, ApproveDoes
    <2>2. \A q \in Run : \/ approval'[q] = approval[q]
                         \/ approval[q].status # "CONSUMED" /\ approval'[q].status # "CONSUMED"
      BY <2>1 DEF Marked
    <2> QED BY <1>1, <2>1, <2>2, ConsumedKept
  <1>5. ASSUME NEW r \in Run, CommitWrite(r)
        PROVE  ConsumedWithTheWrite'
    <2> DEFINE s == turn[r].ref
               new == [prop |-> turn[r].at.id, act |-> turn[r].at.act, by |-> r, ref |-> s]
    <2>1. /\ turn[r].pc = "writing" /\ objs' = objs \cup {new}
          /\ approval[s].status = "APPROVED" /\ Marked(s, "CONSUMED") /\ s \in Run
      BY <1>1, <1>5, CommitWriteDoes DEF Marked
    <2>2. turn[r].at = turn[r].seen.prop /\ Approved(r)
      BY <1>1, <2>1 DEF ProposalAtHand, KindsKeepApart, Approved
    <2>3. approval[s] = [act |-> turn[r].at.act, status |-> "APPROVED"]
      BY <1>1, <2>2 DEF ApprovalsHeld, Held
    <2>4. approval[s].act = turn[r].at.act
      BY <2>3
    <2>5. approval'[s] = [act |-> turn[r].at.act, status |-> "CONSUMED"]
      BY <2>1, <2>4 DEF Marked
    <2>6. \A o \in objs : o.ref # s /\ o.ref \in Run
      BY <1>1, <2>1, RowOfObject
    <2>7. \A o \in objs : approval'[o.ref] = [act |-> o.act, status |-> "CONSUMED"]
      <3>1. \A o \in objs : approval'[o.ref] = approval[o.ref]
        BY <2>1, <2>6 DEF Marked
      <3> QED BY <1>1, <3>1 DEF ConsumedWithTheWrite
    <2>8. \A q \in Run : approval'[q].status = "CONSUMED" => \E o \in objs' : o.ref = q
      <3>1. ASSUME NEW q \in Run \ {s}, approval'[q].status = "CONSUMED"
            PROVE  \E o \in objs : o.ref = q
        BY <1>1, <2>1, <3>1 DEF Marked, ConsumedWithTheWrite
      <3>2. new \in objs' /\ new.ref = s
        BY <2>1
      <3>3. objs \subseteq objs'
        BY <2>1
      <3> QED BY <3>1, <3>2, <3>3
    <2>9. \A o1, o2 \in objs' : o1.ref = o2.ref => o1 = o2
      BY <1>1, <2>1, <2>6 DEF ConsumedWithTheWrite
    <2> QED BY <2>1, <2>5, <2>7, <2>8, <2>9 DEF ConsumedWithTheWrite
  <1>6. ASSUME NEW r \in Run,
               Open(r) \/ ExpireSave(r) \/ ExpireSync(r) \/ Publish(r) \/ Sync(r)
                                \/ Close(r)
        PROVE  UNCHANGED <<objs, approval>>
    BY <1>6 DEF Open, ExpireSave, ExpireSync, Publish, Sync, Close
  <1> QED
    BY <1>2, <1>3, <1>4, <1>5, <1>6, StoringSteps DEF Storing, domainVars, MarkHandover

-----------------------------------------------------------------------------
\* Nothing has arrived: every part of the invariant holds.
LEMMA TurnInvInit == TurnInit => TurnInv
  <1> SUFFICES ASSUME TurnInit PROVE TurnInv
    OBVIOUS
  <1>1. LeaseInv /\ TurnTypeOK
    BY LeaseInit, TypeInit DEF TurnInit
  <1>2. \A r \in Run : /\ turn[r].pc = "idle" /\ turn[r].kind = "message" /\ turn[r].base = 0
                       /\ turn[r].era = 0 /\ turn[r].res = Settled
    BY DEF TurnInit, Idle
  <1>3. KindsKeepApart /\ ProposalAtHand
    BY <1>2 DEF KindsKeepApart, ProposalAtHand, TurnInit, Blank, Settled
  <1>4. ApprovalsHeld
    BY <1>2 DEF ApprovalsHeld, Held, Approved, TurnInit
  <1>5. PublishedByOlder
    BY <1>2 DEF PublishedByOlder, TurnInit, Init, Blank, Executing
  <1>6. OneObjectPerProposal /\ ConsumedWithTheWrite
    BY DEF OneObjectPerProposal, ConsumedWithTheWrite, TurnInit, NoApproval
  <1> QED
    BY <1>1, <1>3, <1>4, <1>5, <1>6 DEF TurnInv

\* Every step keeps every part.
LEMMA TurnInvStep == TurnInv /\ [TurnNext]_turnVars => TurnInv'
  <1> SUFFICES ASSUME TurnInv, [TurnNext]_turnVars PROVE TurnInv'
    OBVIOUS
  <1>1. LeaseInv' /\ TypeOK'
    BY TurnUsesLease, LeaseStep DEF TurnInv, LeaseInv
  <1>2. TurnTypeOK'
    BY <1>1, TurnTyped, DomainTyped DEF TurnInv, TurnTypeOK
  <1>3. KindsKeepApart' /\ ProposalAtHand' /\ ApprovalsHeld' /\ PublishedByOlder'
    BY KindsStep, AtHandStep, HeldStep, OlderStep
  <1>4. OneObjectPerProposal' /\ ConsumedWithTheWrite'
    BY OneObjectStep, ConsumedStep
  <1> QED
    BY <1>1, <1>2, <1>3, <1>4 DEF TurnInv

\* The variables of any number of turns of one conversation agree at every step
\* of the runner, however turns interleave, fail and crash.
THEOREM TurnInvariant == TurnSpec => []TurnInv
  <1> QED
    BY TurnInvInit, TurnInvStep, PTL DEF TurnSpec

\* A turn never makes the business object of a proposal twice.
THEOREM OneObject == TurnSpec => []OneObjectPerProposal
  <1>1. TurnInv => OneObjectPerProposal
    BY DEF TurnInv
  <1> QED
    BY <1>1, TurnInvariant, PTL

\* Approvals and business objects are committed together: every object has its
\* consumed approval, of its own action, and every consumed approval has its
\* one object.
THEOREM ApprovalsConsumedWithWrites == TurnSpec => []ConsumedWithTheWrite
  <1>1. TurnInv => ConsumedWithTheWrite
    BY DEF TurnInv
  <1> QED
    BY <1>1, TurnInvariant, PTL

\* The accepted head moves in the order of the fences though publish_accepted
\* compares versions only, unless an expiry has saved an old version over a newer
\* head since the publishing turn read its own.
THEOREM HeadsKeepOrder == TurnSpec => HeadsInFenceOrder
  <1> DEFINE Ordered == accepted' < accepted =>
                           \E r \in Run : accepted' = held[r] /\ turn[r].era # head.era
  <1>1. TurnInv /\ [TurnNext]_turnVars => [Ordered]_turnVars
    <2> SUFFICES ASSUME TurnInv, [TurnNext]_turnVars
                 PROVE  Ordered
      OBVIOUS
    <2>1. accepted \in Nat /\ TurnTypeOK /\ \A r \in Run : Older(r)
      BY DEF TurnInv, TurnTypeOK, PublishedByOlder, Older
    <2>2. ASSUME NEW r \in Run, Publish(r)
          PROVE  Ordered
      <3>1. /\ accepted' = held[r] /\ held[r] \in Nat
            /\ turn[r].era = head.era => accepted <= held[r]
        BY <2>1, <2>2, PublishDoes DEF Older, Executing, TurnTypeOK, TypeOK
      <3> QED BY <2>1, <3>1
    <2>3. CASE accepted' = accepted
      BY <2>1, <2>3
    <2> QED
      BY <2>2, <2>3, StoringSteps
      DEF Storing, domainVars, MarkHandover, Open, ExpireSave, ExpireSync, CreatePending,
          Approve, CommitWrite, Sync, Close
  <1> QED
    BY <1>1, TurnInvariant, PTL DEF TurnSpec, HeadsInFenceOrder

\* The leases that turns take, renew and release are those of RunLease, so what
\* is proved of the lease holds of the runner.
THEOREM TurnsKeepLease == TurnSpec => []LeaseInv
  <1> QED
    BY TurnsImplementLease, LeaseInvariant, PTL

\* With the fence, the business writes of turns form the log of epochs.
THEOREM TurnsImplementFencedLog ==
  ASSUME Fenced
  PROVE  TurnSpec => ImplementsFencedLog
  <1>1. Spec => ImplementsFencedLog
    BY LeaseRefinesFencedLog
  <1> QED
    BY <1>1, TurnsImplementLease, PTL

=============================================================================
