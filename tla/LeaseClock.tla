----------------------------- MODULE LeaseClock -----------------------------
(***************************************************************************)
(* The run lease with its clock: lease_until, the TTL that acquire and     *)
(* renew add to the time they read, and the heartbeat that renews every    *)
(* Interval.  A statement reads the clock (_utcnow) before it is sent and  *)
(* takes effect later, so each is given a reading that may be old.         *)
(*                                                                         *)
(* This is RunLease with lease.live unfolded to lease_until >= now.  What  *)
(* it adds is the promise of the heartbeat: a run whose statements take    *)
(* effect promptly is never overtaken, however long its turn.              *)
(***************************************************************************)
EXTENDS Naturals, Sequences

CONSTANTS
    Run, NoRun, Fenced,   \* as in RunLease
    TTL,                  \* lease_seconds
    Interval,             \* interval_seconds of the heartbeat
    Lag,                  \* how old the clock reading of a prompt statement may be
    Prompt,               \* the runs that renew in time
    MaxTime               \* the clock stops here

ASSUME ClockAssumption ==
    /\ NoRun \notin Run /\ Fenced \in BOOLEAN
    /\ TTL \in Nat /\ Interval \in Nat /\ Lag \in Nat /\ MaxTime \in Nat
    /\ Prompt \subseteq Run

\* The margin of the configured 30 s lease over its 10 s heartbeat: statements
\* may take up to 10 s each.
ASSUME MarginAssumption == Interval + Lag + Lag <= TTL

VARIABLES
    now,     \* the clock that _utcnow reads
    row,     \* the row of agent_run_leases; fence 0 stands for "no row yet"
    due,     \* due[r]: when the next renewal of run r has taken effect
    held, worker, locker, log   \* as in RunLease

clockVars == <<now, row, due, held, worker, locker, log>>

\* What RunLease sees of the row.
Live == row.fence > 0 /\ row.until >= now
Lease == [owner |-> row.owner, fence |-> row.fence, live |-> Live]

RL == INSTANCE RunLease WITH lease <- Lease

TypeOK ==
    /\ now \in Nat
    /\ row \in [owner : Run \cup {NoRun}, fence : Nat, until : Nat]
    /\ due \in [Run -> Nat]
    /\ held \in [Run -> Nat]
    /\ worker \in [Run -> RL!WorkerState]
    /\ locker \in Run \cup {NoRun}
    /\ log \in Seq(Nat)

Init ==
    /\ now = 1
    /\ row = [owner |-> NoRun, fence |-> 0, until |-> 0]
    /\ due = [r \in Run |-> 0]
    /\ held = [r \in Run |-> 0]
    /\ worker = [r \in Run |-> "idle"]
    /\ locker = NoRun
    /\ log = <<>>

-----------------------------------------------------------------------------
\* What the clock may have read in a statement of run r that takes effect now.
Readings(r) == {t \in 1..now : r \in Prompt => now <= t + Lag}

\* Mutant: the heartbeat waits for a whole TTL.
ScheduleAtTTL(r) == due' = [due EXCEPT ![r] = now + TTL + Lag]

\* The next renewal takes effect within Interval of this one and the lag of its
\* own statement.
Schedule(r) == due' = [due EXCEPT ![r] = now + Interval + Lag]

Holds(r) == row.owner = r /\ row.fence = held[r]

Acquire(r) ==
    /\ worker[r] = "idle"
    /\ locker = NoRun
    /\ \E t \in Readings(r) :
          /\ row.fence > 0 => row.until < t
          /\ row' = [owner |-> r, fence |-> row.fence + 1, until |-> t + TTL]
    /\ held' = [held EXCEPT ![r] = row.fence + 1]
    /\ worker' = [worker EXCEPT ![r] = "running"]
    /\ Schedule(r)
    /\ UNCHANGED <<now, locker, log>>

Refuse(r) ==
    /\ worker[r] = "idle"
    /\ locker = NoRun
    /\ row.fence > 0
    /\ \E t \in Readings(r) : row.until >= t
    /\ worker' = [worker EXCEPT ![r] = "gone"]
    /\ UNCHANGED <<now, row, due, held, locker, log>>

\* renew: the heartbeat, or the boundaries of the turn.  After release only a
\* heartbeat that outlived its join gets here.
Renew(r) ==
    /\ worker[r] \in {"running", "writing", "served", "ended"}
    /\ locker = NoRun
    /\ Holds(r)
    /\ \E t \in Readings(r) :
          /\ row.until >= t
          /\ row' = [row EXCEPT !.until = t + TTL]
          /\ worker' = IF worker[r] = "ended" /\ t + TTL >= now
                       THEN [worker EXCEPT ![r] = "gone"] ELSE worker
    /\ Schedule(r)
    /\ UNCHANGED <<now, held, locker, log>>

BeginWrite(r) ==
    /\ worker[r] = "running"
    /\ Fenced => /\ Holds(r) /\ locker = NoRun
                 /\ \E t \in Readings(r) : row.until >= t
    /\ locker' = IF Fenced THEN r ELSE locker
    /\ worker' = [worker EXCEPT ![r] = "writing"]
    /\ UNCHANGED <<now, row, due, held, log>>

RejectWrite(r) ==
    /\ worker[r] = "running"
    /\ Fenced
    /\ Holds(r) => \E t \in Readings(r) : row.until < t
    /\ worker' = [worker EXCEPT ![r] = "served"]
    /\ UNCHANGED <<now, row, due, held, locker, log>>

Commit(r) ==
    /\ worker[r] = "writing"
    /\ log' = Append(log, held[r])
    /\ worker' = [worker EXCEPT ![r] = "served"]
    /\ locker' = IF locker = r THEN NoRun ELSE locker
    /\ UNCHANGED <<now, row, due, held>>

Rollback(r) ==
    /\ worker[r] = "writing"
    /\ worker' = [worker EXCEPT ![r] = "served"]
    /\ locker' = IF locker = r THEN NoRun ELSE locker
    /\ UNCHANGED <<now, row, due, held, log>>

\* Mutant: release deletes the row, and the fences start again.
ReleaseByDelete(r) ==
    /\ worker[r] \in {"running", "served"}
    /\ row' = IF row.owner = r THEN [owner |-> NoRun, fence |-> 0, until |-> 0] ELSE row
    /\ worker' = [worker EXCEPT ![r] = "ended"]
    /\ UNCHANGED <<now, due, held, locker, log>>

\* release: lease_until one second before the clock reading.
Release(r) ==
    /\ worker[r] \in {"running", "served"}
    /\ \E t \in Readings(r) :
          row' = IF row.owner = r THEN [row EXCEPT !.until = t - 1] ELSE row
    /\ worker' = [worker EXCEPT ![r] = "ended"]
    /\ UNCHANGED <<now, due, held, locker, log>>

Vanish(r) ==
    /\ worker[r] \in {"running", "writing", "served"}
    /\ worker' = [worker EXCEPT ![r] = "gone"]
    /\ locker' = IF locker = r THEN NoRun ELSE locker
    /\ UNCHANGED <<now, row, due, held, log>>

\* A second passes; a prompt run does not miss the renewal that is due.
Tick ==
    /\ now < MaxTime
    /\ \A r \in Prompt : worker[r] \in {"running", "writing", "served"} => now < due[r]
    /\ now' = now + 1
    /\ UNCHANGED <<row, due, held, worker, locker, log>>

Next ==
    \/ Tick
    \/ \E r \in Run :
        \/ Acquire(r) \/ Refuse(r) \/ Renew(r)
        \/ BeginWrite(r) \/ RejectWrite(r) \/ Commit(r) \/ Rollback(r)
        \/ Release(r) \/ Vanish(r)

Spec == Init /\ [][Next]_clockVars

-----------------------------------------------------------------------------
\* The clock level implements the lease with its liveness flag, so the fence
\* order of business writes does not depend on any timing.
ImplementsRunLease == RL!Spec

\* A run that renews in time keeps its lease until it lets go of it: nobody
\* else is given the conversation, and its own fence checks pass.
PromptKeepsLease ==
    \A r \in Prompt : worker[r] \in {"running", "writing", "served"} =>
        Holds(r) /\ row.until >= now

=============================================================================
