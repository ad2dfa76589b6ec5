----------------------------- MODULE LoginGuard -----------------------------
(***************************************************************************)
(* The login of one user name from one address: the row that counts its    *)
(* failures, and attempts at any of the backend's replicas.  An attempt is *)
(* one transaction: it locks the row, if there is one, checks the password *)
(* and counts the failure or removes the row.  It reads the clock before   *)
(* it waits for the row, so that its time may be past when it gets it.     *)
(***************************************************************************)
EXTENDS Naturals, FiniteSets

CONSTANTS
    Attempt,       \* attempts served at a time
    FailureLimit,  \* login_failure_limit
    Window,        \* login_failure_window_minutes
    LockTime,      \* login_lock_minutes
    MaxTime        \* bound of the clock

LoginAssumption ==
    /\ {FailureLimit, Window, LockTime, MaxTime} \subseteq Nat \ {0}
    /\ IsFiniteSet(Attempt) /\ "NOBODY" \notin Attempt

VARIABLES
    now,
    attempts,   \* the row of login_attempts
    locker,     \* who has it locked, or Nobody
    attempt,    \* attempt[t]: the transaction of t
    told        \* history: the failures told since the row's window began

loginVars == <<now, attempts, locker, attempt, told>>

Time == 0..MaxTime
Nobody == "NOBODY"
Unlocked == 0

\* A row, whose lock ends at until; no row begins its window in no Time.
Row == [count : Nat, since : Time, until : Nat]
NoRow == [count |-> 0, since |-> MaxTime + 1, until |-> Unlocked]
Fresh(since) == [count |-> 0, since |-> since, until |-> Unlocked]

\* The clock as read last, and the row as loaded and locked, if there was one.
NoAttempt == [at |-> "IDLE", time |-> 0, row |-> NoRow]
Step == {"IDLE", "ASKED", "CHECKING", "FAILING"}

LoginTypeOK ==
    /\ now \in Time
    /\ attempts \in {NoRow} \cup Row
    /\ locker \in Attempt \cup {Nobody}
    /\ attempt \in [Attempt -> [at : Step, time : Time, row : {NoRow} \cup Row]]
    /\ told \in Nat

LoginInit ==
    /\ now = 0
    /\ attempts = NoRow
    /\ locker = Nobody
    /\ attempt = [t \in Attempt |-> NoAttempt]
    /\ told = 0

-----------------------------------------------------------------------------
\* Mutant: the row is read without FOR UPDATE.
ReadOnly(t) == t \in Attempt

\* _find_for_update waits for the transaction that has the row.
Mine(t) == locker \in {Nobody, t}

\* The row has a lock that is in force at a time, or one that is over by then.
LockedAt(time) == attempts.until > time
LockOverAt(time) == attempts.until # Unlocked /\ ~LockedAt(time)

Leave(t) ==
    /\ attempt' = [attempt EXCEPT ![t] = NoAttempt]
    /\ locker' = IF locker = t THEN Nobody ELSE locker

\* ensure_allowed reads the clock, and then waits for the row.
Ask(t) ==
    /\ attempt[t].at = "IDLE"
    /\ attempt' = [attempt EXCEPT ![t].at = "ASKED", ![t].time = now]
    /\ UNCHANGED <<now, attempts, locker, told>>

\* The pair was locked when t asked: LoginLockedError.
RefuseLocked(t) ==
    /\ attempt[t].at = "ASKED" /\ attempts # NoRow /\ Mine(t)
    /\ LockedAt(attempt[t].time)
    /\ Leave(t)
    /\ UNCHANGED <<now, attempts, told>>

\* The rest of ensure_allowed: where a lock was over when t asked, t starts the
\* window anew in its transaction; with no row there is nothing to lock.
EnsureAllowed(t) ==
    /\ attempt[t].at = "ASKED"
    /\ attempts # NoRow => Mine(t) /\ ~LockedAt(attempt[t].time)
    /\ attempt' = [attempt EXCEPT ![t].at = "CHECKING", ![t].row =
           IF LockOverAt(attempt[t].time) THEN Fresh(attempt[t].time) ELSE attempts]
    /\ locker' = IF attempts # NoRow THEN t ELSE locker
    /\ UNCHANGED <<now, attempts, told>>

\* The password is wrong: record_failure reads the clock, and waits if t has not
\* the row yet.
Fail(t) ==
    /\ attempt[t].at = "CHECKING"
    /\ attempt' = [attempt EXCEPT ![t].at = "FAILING", ![t].time = now]
    /\ UNCHANGED <<now, attempts, locker, told>>

\* The row that t counts in: its own; or the one that is there by now, which
\* another replica inserted; or one it inserts.
Found(t) ==
    IF attempt[t].row # NoRow THEN attempt[t].row
    ELSE IF attempts # NoRow THEN attempts
    ELSE Fresh(attempt[t].time)

\* A window begins with the first failure after another is over.
Begins(row, time) == time >= row.since + Window
Counted(row, time) ==
    IF Begins(row, time) THEN [count |-> 1, since |-> time, until |-> Unlocked]
    ELSE [row EXCEPT !.count = @ + 1]

\* In the table, t begins a window: there was none, or its lock or it was over.
StartsAnew(t) ==
    \/ attempts = NoRow
    \/ attempts.until # Unlocked /\ attempt[t].row \in Row
    \/ Begins(attempts, attempt[t].time)

\* The rest of record_failure, and the commit.
RecordFailure(t) ==
    LET time == attempt[t].time
        row  == Counted(Found(t), time)
    IN  /\ attempt[t].at = "FAILING" /\ Mine(t)
        /\ attempts' = IF row.count >= FailureLimit THEN [row EXCEPT !.until = time + LockTime]
                       ELSE row
        /\ told' = IF StartsAnew(t) THEN 1 ELSE told + 1
        /\ Leave(t)
        /\ UNCHANGED now

\* record_success
RecordSuccess(t) ==
    /\ attempt[t].at = "CHECKING" /\ Mine(t)
    /\ attempts' = NoRow
    /\ told' = 0
    /\ Leave(t)
    /\ UNCHANGED now

\* The session is closed before its commit (get_db).
LoginAbort(t) ==
    /\ attempt[t].at # "IDLE"
    /\ Leave(t)
    /\ UNCHANGED <<now, attempts, told>>

Tick == now < MaxTime /\ now' = now + 1 /\ UNCHANGED <<attempts, locker, attempt, told>>

LoginNext ==
    \/ Tick
    \/ \E t \in Attempt :
          \/ Ask(t) \/ RefuseLocked(t) \/ EnsureAllowed(t) \/ Fail(t)
          \/ RecordFailure(t) \/ RecordSuccess(t) \/ LoginAbort(t)

LoginSpec == LoginInit /\ [][LoginNext]_loginVars

-----------------------------------------------------------------------------
\* The row has counted every failure told in its window, and these are no more
\* than the limit, but for the attempts that began when there was no row to lock.
FailuresAreBounded ==
    /\ attempts # NoRow => attempts.count = told
    /\ told <= FailureLimit + (Cardinality(Attempt) - 1)

\* The attempts under way that began when there was no row to lock.
Early == {t \in Attempt : attempt[t].at \in {"CHECKING", "FAILING"} /\ attempt[t].row = NoRow}

\* The inductive invariant.  Who has loaded a row has it locked, as it is or as
\* a new window; what is counted past the limit is what the early ones add.
LockerInv ==
    /\ attempts = NoRow => told = 0 /\ locker = Nobody
    /\ locker # Nobody => attempt[locker].row # NoRow
    /\ \A t \in Attempt : attempt[t].row # NoRow =>
          /\ t = locker /\ attempt[t].at \in {"CHECKING", "FAILING"}
          /\ \/ attempt[t].row = attempts /\ attempts.until = Unlocked
             \/ attempt[t].row = Fresh(attempt[t].row.since) /\ attempts.until # Unlocked

RowInv ==
    attempts # NoRow =>
        /\ attempts.count = told /\ attempts.count >= 1
        /\ attempts.until = Unlocked <=> attempts.count < FailureLimit
        /\ Cardinality(Early) < Cardinality(Attempt)
        /\ attempts.count + Cardinality(Early) < FailureLimit + Cardinality(Attempt)

LoginInv == LoginTypeOK /\ LockerInv /\ RowInv
=============================================================================
