------------------------------- MODULE Memory -------------------------------
(***************************************************************************)
(* The long-term memory of one user in one house: records stated over the  *)
(* API, and candidates that are taken from accepted turns.                 *)
(*                                                                         *)
(* A transaction looks for a record of the same turn, takes the advisory   *)
(* lock of the preference the record is about, reads what is active, and   *)
(* commits after a call of the embedding provider.  The record a new one   *)
(* supersedes is locked meanwhile; one it is merged into is not.  Updates  *)
(* and deletions take no advisory lock; they go by the version a client    *)
(* has seen, and are those of a client that has seen the latest.           *)
(***************************************************************************)
EXTENDS Naturals, Sequences, FiniteSets, SequencesExt

CONSTANTS
    Content,     \* what a record says
    Key,         \* governed preferences: communication, accessibility, ...
    NoKey,       \* a record about none of them
    Source,      \* accepted turns
    Api,         \* the source of a record made over the API
    Candidate,   \* bound: what the extractor proposes
    Thread,      \* transactions at a time
    ApiExpiry,   \* bound: whether records of the API are given an end
    MaxRows      \* bound

MemoryAssumption ==
    /\ NoKey \notin Key /\ Api \notin Source
    /\ \A c \in Candidate :
          /\ c.kind \in {"SEMANTIC", "EPISODIC", "PROCEDURAL_CANDIDATE"}
          /\ c.content \in Content /\ c.key \in Key \cup {NoKey}
          /\ {c.correction, c.confirmed, c.bounded, c.completedPlan} \subseteq BOOLEAN
    /\ ApiExpiry \subseteq BOOLEAN /\ MaxRows \in Nat

VARIABLES
    row,        \* rows of agent_memories, in the order they were added
    recent,     \* the active ones by updated_at, the latest last
    request     \* request[t]: the transaction of thread t

vars == <<row, recent, request>>

NoCandidate == <<"NO CANDIDATE">>

\* A row.  Its embedding is in MemoryIndex.
Row == [content : Content, key : Key \cup {NoKey}, source : Source \cup {Api},
        candidate : {NoCandidate} \cup (Content \X (Key \cup {NoKey})),
        confirmed : BOOLEAN, life : {"ACTIVE", "SUPERSEDED", "CONFLICTED", "DELETED"},
        supersedes : Nat, expires : BOOLEAN, expired : BOOLEAN,
        corrects : BOOLEAN]      \* history: it was to supersede what there was

NoRequest == [op |-> "NONE"]

\* A candidate before and after its lock is taken, and a record of the API.
Asked == [op : {"PERSIST"}, source : Source, cand : Candidate, locked : {FALSE}]
Lock == {<<k>> : k \in Key} \cup (Content \X (Key \cup {NoKey})) \cup {<<"NONE", t>> : t \in Thread}
Placed == [op : {"PERSIST"}, source : Source, cand : Candidate, locked : {TRUE}, lock : Lock,
           old : Nat, same : SUBSET Nat]
Creating == [op : {"CREATE"}, content : Content, key : Key \cup {NoKey}, expires : BOOLEAN,
             locked : {TRUE}, lock : Lock, old : Nat]

TypeOK ==
    /\ row \in Seq(Row)
    /\ recent \in Seq(1..Len(row))
    /\ request \in [Thread -> {NoRequest} \cup Asked \cup Placed \cup Creating]

Init ==
    /\ row = <<>> /\ recent = <<>>
    /\ request = [t \in Thread |-> NoRequest]

-----------------------------------------------------------------------------
Rows == 1..Len(row)
Idle(t) == request[t] = NoRequest
Begin(t, r) == request' = [request EXCEPT ![t] = r]
End(t) == request' = [request EXCEPT ![t] = NoRequest]

Active(i) == row[i].life = "ACTIVE"

\* _retrieval_filters, and the list of the API
Retrievable(i) == Active(i) /\ ~row[i].expired

Others(i) == RemoveFirst(recent, i)
Touched(i) == IF Active(i) THEN Append(Others(i), i) ELSE recent

\* The newest active row of a preference, the one a new row supersedes.
NewestActive(key) ==
    LET about == {n \in DOMAIN recent : row[recent[n]].key = key}
    IN IF key = NoKey \/ about = {} THEN 0 ELSE recent[Max(about)]

-----------------------------------------------------------------------------
(* Locks. *)

Id(c) == <<c.content, c.key>>                \* _candidate_id
LockOf(c) == IF c.key = NoKey THEN Id(c) ELSE <<c.key>>

\* Mutant: the reads are not serialized.
LockWithout(k) == TRUE

\* _lock_conflict_scope: no transaction holds the advisory lock k.
LockFree(k) ==
    \A t \in Thread : request[t].op \in {"PERSIST", "CREATE"} /\ request[t].locked => request[t].lock # k

\* No transaction holds row i FOR UPDATE.
RowFree(i) ==
    \A t \in Thread : request[t].op \in {"PERSIST", "CREATE"} /\ request[t].locked => request[t].old # i

-----------------------------------------------------------------------------
(* Candidates of accepted turns. *)

\* AcceptedEvidenceMemoryWriter._eligible, as far as it goes by the outcome.
Eligible(c, completed) ==
    /\ c.kind = "EPISODIC" => c.completedPlan /\ completed
    /\ c.kind = "PROCEDURAL_CANDIDATE" => ~c.confirmed

\* governed_retention_days: what is not confirmed always expires.
Expires(c) == c.bounded \/ c.kind # "SEMANTIC" \/ ~c.confirmed

OfSource(s, c) == {i \in Rows : row[i].source = s /\ row[i].candidate = Id(c)}
ExactActive(c) == {i \in Rows : Active(i) /\ row[i].candidate = Id(c)}

\* persist_candidate, up to _automatic_candidate.
Persist(t, s, c, completed) ==
    /\ Idle(t) /\ Eligible(c, completed)
    /\ OfSource(s, c) = {}
    /\ Begin(t, [op |-> "PERSIST", source |-> s, cand |-> c, locked |-> FALSE])
    /\ UNCHANGED <<row, recent>>

\* The row that makes way for the candidate: only a correction looks for one.
Conflict(c) == IF c.correction THEN NewestActive(c.key) ELSE 0

\* From the advisory lock to the call of the embedding provider: an equal row
\* is merged with, or the one to supersede is locked.
PersistLock(t) ==
    LET c == request[t].cand
        old == Conflict(c)
        same == ExactActive(c) IN
    /\ request[t].op = "PERSIST" /\ ~request[t].locked
    /\ LockFree(LockOf(c))
    /\ same = {} /\ old # 0 => RowFree(old)
    /\ Begin(t, [op |-> "PERSIST", source |-> request[t].source, cand |-> c, locked |-> TRUE,
                 lock |-> LockOf(c), old |-> IF same = {} THEN old ELSE 0, same |-> same])
    /\ UNCHANGED <<row, recent>>

\* Of a row that is merged with only the provenance and the time change.
Merge(t) ==
    /\ request[t].op = "PERSIST" /\ request[t].locked /\ request[t].same # {}
    /\ recent' = Touched(CHOOSE i \in request[t].same : TRUE)
    /\ End(t)
    /\ UNCHANGED row

\* A guess does not replace what the user has confirmed.
Outranks(old, c) == old # 0 /\ row[old].confirmed /\ ~c.confirmed

NewRow(s, c, life, old) ==
    [content |-> c.content, key |-> c.key, source |-> s, candidate |-> Id(c),
     confirmed |-> c.confirmed, life |-> life, supersedes |-> old, expires |-> Expires(c),
     expired |-> FALSE, corrects |-> c.correction]

\* Mutant: only the new row is written.
SupersedeLater(old) == row

Superseded(old) ==
    IF old = 0 THEN row
    ELSE [row EXCEPT ![old].life = "SUPERSEDED"]

\* The order when a new row takes the place of old, if any.
WithNew(old) == Append(Others(old), Len(row) + 1)

\* The rest of persist_candidate.
PersistNew(t) ==
    LET c == request[t].cand
        old == request[t].old
        yields == ~Outranks(old, c) IN
    /\ request[t].op = "PERSIST" /\ request[t].locked /\ request[t].same = {}
    /\ Len(row) < MaxRows
    /\ IF yields
       THEN /\ row' = Append(Superseded(old), NewRow(request[t].source, c, "ACTIVE", old))
            /\ recent' = WithNew(old)
       ELSE /\ row' = Append(row, NewRow(request[t].source, c, "CONFLICTED", 0))
            /\ recent' = recent
    /\ End(t)

-----------------------------------------------------------------------------
(* The API. *)

\* create_memory: prepare_explicit_create locks for a preference only.
Create(t, content, key, expires) ==
    LET old == NewestActive(key) IN
    /\ Idle(t) /\ Len(row) < MaxRows
    /\ key # NoKey => LockFree(<<key>>)
    /\ old # 0 => RowFree(old)
    /\ Begin(t, [op |-> "CREATE", content |-> content, key |-> key, expires |-> expires,
                 locked |-> TRUE, lock |-> IF key = NoKey THEN <<"NONE", t>> ELSE <<key>>,
                 old |-> old])
    /\ UNCHANGED <<row, recent>>

CreateWrite(t) ==
    LET r == request[t] IN
    /\ r.op = "CREATE" /\ Len(row) < MaxRows
    /\ row' = Append(Superseded(r.old),
                     [content |-> r.content, key |-> r.key, source |-> Api,
                      candidate |-> NoCandidate, confirmed |-> TRUE, life |-> "ACTIVE",
                      supersedes |-> r.old, expires |-> r.expires, expired |-> FALSE,
                      corrects |-> TRUE])
    /\ recent' = WithNew(r.old)
    /\ End(t)

\* _apply_versioned_update waits for the row, and finds the version it was
\* called with.
Writable(i) == row[i].life # "DELETED" /\ RowFree(i)

\* update_memory, without its second commit, which is in MemoryIndex.
Update(i, content) ==
    /\ Writable(i)
    /\ row' = [row EXCEPT ![i].content = content]
    /\ recent' = Touched(i)
    /\ UNCHANGED request

\* delete_memory
Delete(i) ==
    /\ Writable(i)
    /\ row' = [row EXCEPT ![i].life = "DELETED"]
    /\ recent' = Others(i)
    /\ UNCHANGED request

Expire(i) ==
    /\ row[i].expires /\ ~row[i].expired
    /\ row' = [row EXCEPT ![i].expired = TRUE]
    /\ UNCHANGED <<recent, request>>

\* A crash, or a constraint: the transaction is rolled back.
Abort(t) == ~Idle(t) /\ End(t) /\ UNCHANGED <<row, recent>>

Next ==
    \/ \E t \in Thread, s \in Source, c \in Candidate, b \in BOOLEAN : Persist(t, s, c, b)
    \/ \E t \in Thread : PersistLock(t) \/ Merge(t) \/ PersistNew(t)
    \/ \E t \in Thread, x \in Content, k \in Key \cup {NoKey}, b \in ApiExpiry : Create(t, x, k, b)
    \/ \E t \in Thread : CreateWrite(t) \/ Abort(t)
    \/ \E i \in Rows, x \in Content : Update(i, x)
    \/ \E i \in Rows : Delete(i) \/ Expire(i)

Spec == Init /\ [][Next]_vars

-----------------------------------------------------------------------------
(* Properties. *)

\* Supersession is never half applied: a superseded record has one successor,
\* a successor's predecessor is out of use, and what the user has confirmed
\* made way only for something confirmed.
SupersessionIsAChain ==
    /\ \A i \in Rows : row[i].life = "SUPERSEDED" =>
          Cardinality({j \in Rows : row[j].supersedes = i}) = 1
    /\ \A j \in Rows : LET i == row[j].supersedes IN
          i # 0 => /\ i < j /\ row[i].life \in {"SUPERSEDED", "DELETED"}
                   /\ row[i].confirmed => row[j].confirmed

\* Statements do not multiply: of the records taken from turns, one at most is
\* active for each candidate, however many conversations say it at once.
StatedOnce ==
    \A i, j \in Rows :
        /\ Active(i) /\ Active(j)
        /\ row[i].candidate = row[j].candidate /\ row[i].candidate # NoCandidate
        => i = j

\* A preference that was only ever stated over the API or in corrections has one
\* active record.  A candidate that corrects nothing supersedes nothing: after one,
\* records of the preference with other contents are active beside it.
OnlyCorrected(k) == \A i \in Rows : row[i].key = k => row[i].corrects
CorrectedIsOne ==
    \A i, j \in Rows :
        /\ Active(i) /\ Active(j)
        /\ row[i].key = row[j].key /\ row[i].key # NoKey /\ OnlyCorrected(row[i].key)
        => i = j

\* The inductive invariant.  What a transaction is going to supersede is active
\* and its own until it commits, it is all there is of a preference that was only
\* corrected, and nobody states what another is about to.
Holding(t) == request[t].op \in {"PERSIST", "CREATE"} /\ request[t].locked
Stating(t) == request[t].op = "PERSIST" /\ request[t].locked
Replaces(t, k) ==
    /\ Holding(t)
    /\ IF request[t].op = "CREATE" THEN request[t].key = k
       ELSE request[t].same = {} /\ request[t].cand.key = k /\ request[t].cand.correction
OldIsAll ==
    \A t \in Thread, k \in Key :
        Replaces(t, k) /\ OnlyCorrected(k)
        => \A i \in Rows : Active(i) /\ row[i].key = k => request[t].old = i
LocksAreHeldOnce ==
    \A t, u \in Thread, k \in Key :
        /\ Holding(t) /\ Holding(u)
        /\ request[t].lock = <<k>> /\ request[u].lock = <<k>>
        => t = u
MemoryInv ==
    /\ TypeOK
    /\ \A n \in DOMAIN recent : Active(recent[n])
    /\ \A m, n \in DOMAIN recent : recent[m] = recent[n] => m = n
    /\ \A t \in Thread : Holding(t) /\ request[t].old # 0 =>
          /\ request[t].old \in Rows /\ Active(request[t].old)
          /\ \A u \in Thread \ {t} : Holding(u) => request[u].old # request[t].old
    /\ \A t \in Thread : Stating(t) =>
          /\ request[t].lock = LockOf(request[t].cand) /\ request[t].same \subseteq Rows
          /\ request[t].same = {} => ExactActive(request[t].cand) = {}
          /\ \A u \in Thread \ {t} : Stating(u) => request[u].lock # request[t].lock
    /\ \A t \in Thread, k \in Key :
          request[t].op = "CREATE" /\ request[t].key = k => request[t].lock = <<k>>
    /\ \A i \in Rows : Active(i) => \E n \in DOMAIN recent : recent[n] = i
    /\ LocksAreHeldOnce /\ OldIsAll /\ CorrectedIsOne
    /\ StatedOnce
    /\ SupersessionIsAChain

\* An explicit correction supersedes the old preference for retrieval: when it
\* is merged with a record there is, that record is retrieved and says it.
TakesEffect(t) ==
    LET c == request[t].cand
    IN PersistLock(t) /\ c.correction /\ c.confirmed
       => \A i \in request'[t].same : Retrievable(i) /\ row[i].content = c.content
CorrectionTakesEffect == [][\A t \in Thread : TakesEffect(t)]_vars
=============================================================================
