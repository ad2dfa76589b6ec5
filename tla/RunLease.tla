------------------------------ MODULE RunLease ------------------------------
(***************************************************************************)
(* The run lease of ONE conversation: the row of agent_run_leases, the     *)
(* workers that take, hold and release it, and the fence check that a      *)
(* business transaction makes before it mutates anything.                  *)
(*                                                                         *)
(* Time is the flag lease.live: it is true while lease_until >= now, and   *)
(* Expire makes it false.  LeaseClock puts the clock, the TTL and the      *)
(* heartbeat back and implements this module.                              *)
(***************************************************************************)
EXTENDS Naturals, Sequences

CONSTANTS
    Run,     \* the requests served for the conversation, each under its run_id
    NoRun,   \* not a run: owner of a row that does not exist yet, no lock holder
    Fenced   \* whether the confirmation port of the domain enforces the fence

ASSUME RunAssumption == NoRun \notin Run /\ Fenced \in BOOLEAN

VARIABLES
    lease,   \* the lease row; fence 0 stands for "no row yet"
    held,    \* held[r]: the fence in the Lease object that run r was given
    worker,  \* worker[r]: how far run r is with the lease and with its write
    locker,  \* the run whose open business transaction locks the lease row
    log      \* fences under which business mutations were committed

leaseVars == <<lease, held, worker, locker, log>>

\* "idle": not arrived; "running": holds a Lease object; "writing": its
\* business transaction is open; "served": that transaction is over;
\* "ended": released, a renewal of its heartbeat may still be under way;
\* "gone": nothing of the request is left.
WorkerState == {"idle", "running", "writing", "served", "ended", "gone"}

TypeOK ==
    /\ lease \in [owner : Run \cup {NoRun}, fence : Nat, live : BOOLEAN]
    /\ held \in [Run -> Nat]
    /\ worker \in [Run -> WorkerState]
    /\ locker \in Run \cup {NoRun}
    /\ log \in Seq(Nat)

Init ==
    /\ lease = [owner |-> NoRun, fence |-> 0, live |-> FALSE]
    /\ held = [r \in Run |-> 0]
    /\ worker = [r \in Run |-> "idle"]
    /\ locker = NoRun
    /\ log = <<>>

-----------------------------------------------------------------------------
\* The WHERE clause shared by renew and assert_run_fence, without and with its
\* expiry.  Statements carry a clock that was read before they were sent, so
\* one that read it in time may still match a lease that ran out meanwhile.
Holds(r) == lease.owner = r /\ lease.fence = held[r]
Owns(r) == Holds(r) /\ lease.live

\* acquire: INSERT, or UPDATE of an expired row, with the next fence.  The
\* statement waits while a business transaction has the row locked; one that
\* waits for long takes a lease that has run out already.
Acquire(r) ==
    /\ worker[r] = "idle"
    /\ locker = NoRun
    /\ ~lease.live
    /\ \E inTime \in BOOLEAN :
          lease' = [owner |-> r, fence |-> lease.fence + 1, live |-> inTime]
    /\ held' = [held EXCEPT ![r] = lease.fence + 1]
    /\ worker' = [worker EXCEPT ![r] = "running"]
    /\ UNCHANGED <<locker, log>>

\* acquire returns no row, CONVERSATION_BUSY: the lease is live, or was when the
\* clock was read.
Refuse(r) ==
    /\ worker[r] = "idle"
    /\ locker = NoRun
    /\ lease.fence > 0
    /\ worker' = [worker EXCEPT ![r] = "gone"]
    /\ UNCHANGED <<lease, held, locker, log>>

\* lease_until passes without a renewal.
Expire ==
    /\ lease.live
    /\ lease' = [lease EXCEPT !.live = FALSE]
    /\ UNCHANGED <<held, worker, locker, log>>

\* renew, by the heartbeat thread or at a boundary of the turn.  On a live
\* lease it changes nothing here; it may revive one that has just run out, once
\* even after release, when the heartbeat outlived its join.
Renew(r) ==
    /\ worker[r] \in {"running", "writing", "served", "ended"}
    /\ Holds(r)
    /\ locker = NoRun
    /\ ~lease.live
    /\ lease' = [lease EXCEPT !.live = TRUE]
    /\ worker' = IF worker[r] = "ended" THEN [worker EXCEPT ![r] = "gone"] ELSE worker
    /\ UNCHANGED <<held, locker, log>>

\* Mutant: the fence is read by a SELECT that locks nothing.
CheckWithoutLock(r) ==
    /\ worker[r] = "running"
    /\ Fenced => Holds(r) /\ locker = NoRun
    /\ worker' = [worker EXCEPT ![r] = "writing"]
    /\ UNCHANGED <<lease, held, locker, log>>

\* The business transaction opens with assert_run_fence, an UPDATE that locks
\* the lease row until the transaction ends.  Without fencing neither happens.
BeginWrite(r) ==
    /\ worker[r] = "running"
    /\ Fenced => Holds(r) /\ locker = NoRun
    /\ locker' = IF Fenced THEN r ELSE locker
    /\ worker' = [worker EXCEPT ![r] = "writing"]
    /\ UNCHANGED <<lease, held, log>>

\* assert_run_fence matches no row: StaleAgentRunError, nothing is written.
RejectWrite(r) ==
    /\ worker[r] = "running"
    /\ Fenced /\ ~Owns(r)
    /\ worker' = [worker EXCEPT ![r] = "served"]
    /\ UNCHANGED <<lease, held, locker, log>>

Unlock(r) == locker' = IF locker = r THEN NoRun ELSE locker

Commit(r) ==
    /\ worker[r] = "writing"
    /\ log' = Append(log, held[r])
    /\ worker' = [worker EXCEPT ![r] = "served"]
    /\ Unlock(r)
    /\ UNCHANGED <<lease, held>>

\* A business rule, a credential or the database rejects the mutation.
Rollback(r) ==
    /\ worker[r] = "writing"
    /\ worker' = [worker EXCEPT ![r] = "served"]
    /\ Unlock(r)
    /\ UNCHANGED <<lease, held, log>>

\* Mutant: release deletes the row, and the fences start again.
ReleaseByDelete(r) ==
    /\ worker[r] \in {"running", "served"}
    /\ lease' = IF lease.owner = r THEN [owner |-> NoRun, fence |-> 0, live |-> FALSE]
                                  ELSE lease
    /\ worker' = [worker EXCEPT ![r] = "ended"]
    /\ UNCHANGED <<held, locker, log>>

\* release: lease_until moves to the past if the row still names this run.
\* The row stays, so the fence it carries is never handed out again.
Release(r) ==
    /\ worker[r] \in {"running", "served"}
    /\ lease' = IF lease.owner = r THEN [lease EXCEPT !.live = FALSE] ELSE lease
    /\ worker' = [worker EXCEPT ![r] = "ended"]
    /\ UNCHANGED <<held, locker, log>>

\* The run ends without release: its process dies, or the plan of the turn
\* raises after acquire.  An open transaction is rolled back.
Vanish(r) ==
    /\ worker[r] \in {"running", "writing", "served"}
    /\ worker' = [worker EXCEPT ![r] = "gone"]
    /\ Unlock(r)
    /\ UNCHANGED <<lease, held, log>>

Next ==
    \/ Expire
    \/ \E r \in Run :
        \/ Acquire(r) \/ Refuse(r) \/ Renew(r)
        \/ BeginWrite(r) \/ RejectWrite(r) \/ Commit(r) \/ Rollback(r)
        \/ Release(r) \/ Vanish(r)

Spec == Init /\ [][Next]_leaseVars

-----------------------------------------------------------------------------
\* Business mutations commit in the order in which their runs were given the
\* conversation, at most one each: a worker that lost its lease, however late
\* it wakes up, does not write behind the back of its successor (the fence
\* check of PlatformConfirmationPort.consume).
CommitsInFenceOrder ==
    \A i, j \in DOMAIN log : i < j => log[i] < log[j]

\* No two runs are ever given the same fence, because release keeps the row:
\* a fence of a past owner can never pass the check of a later one.
FencesUnique ==
    \A r, s \in Run : held[r] = held[s] /\ held[r] > 0 => r = s

\* The row names the run with the newest fence.
RowIsNewest ==
    /\ lease.live => lease.owner \in Run
    /\ lease.owner \in Run => held[lease.owner] = lease.fence /\ lease.fence > 0
    /\ \A r \in Run : held[r] <= lease.fence

\* A run holds a Lease object once it is past acquire.
HeldOnceRunning ==
    \A r \in Run :
        /\ worker[r] = "idle" => held[r] = 0
        /\ worker[r] \in {"running", "writing", "served"} => held[r] > 0

\* Only an open business transaction of the owner locks the row, and with the
\* fence every open business transaction locks it.
LockedByWriter ==
    /\ locker # NoRun => worker[locker] = "writing" /\ lease.owner = locker
    /\ Fenced => \A r \in Run : worker[r] = "writing" => locker = r

\* What was committed was committed by a run that is past its transaction.
LoggedByRuns ==
    \A i \in DOMAIN log :
        \E r \in Run : /\ worker[r] \in {"served", "ended", "gone"}
                       /\ held[r] = log[i]
                       /\ held[r] > 0

\* What the row, the Lease objects and the open transactions have to do with
\* each other; the inductive invariant behind the theorems of AgentTurnProofs.
LeaseInv ==
    /\ TypeOK
    /\ FencesUnique
    /\ RowIsNewest
    /\ HeldOnceRunning
    /\ LockedByWriter
    /\ LoggedByRuns

\* The row and the log of committed mutations, seen as epochs.
FL == INSTANCE FencedLog WITH epoch <- lease.fence

\* The lease with its fence check behaves like a log of epochs.
ImplementsFencedLog == FL!Spec
=============================================================================
