# Formal model of the property community agent

TLA+ modules for the backend in `src/src/property_agent` and for the home page
in `src/frontend/src`, their TLC configurations and TLAPS proofs. Source paths
below are relative to `src/src/property_agent` unless they name the frontend.
`PROJECT.json` maps every definition to the lines it translates, and lists
components, runs, mutants, hazards, findings and theorems.

    tlc -workers 2 -config Announcement.cfg Announcement     # one run
    tlapm AnnouncementProofs.tla                             # one set of proofs

## 1. The system

A FastAPI backend serves residents and the staff of a property manager. Its
routes run synchronous services in threads; several backend processes may serve
one PostgreSQL database at READ COMMITTED. An agent turns a chat into proposals
of business actions. The user confirms or cancels a proposal, and a confirmed
one is written by the service of its domain. Two loops run in each process: the
dispatcher of the message outbox and the scheduler of announcements.

### Agent runtime

| Component | State | Operations | Hard behaviour | Correct if |
|---|---|---|---|---|
| Run lease (`agent/infrastructure/run_lease.py`, `platform/infrastructure/agent_fence.py`) | `agent_run_leases`: owner, fence, `lease_until` per conversation | acquire, renew, release, heartbeat thread, `assert_run_fence` inside a business transaction | leases that run out under a stalled worker; statements with an old clock reading; a renewal after release | business writes commit in the order of the leases; a heartbeat that is on time keeps its lease; a conversation comes free |
| Session runner (`agent/application/runner.py`) | none across turns | start, confirm, cancel, close; each plans, runs the graph, publishes, syncs, releases | turns interleave once a lease is lost; exceptions at every call; process death | no write twice, no head out of order, every turn ends |
| Accepted head (`agent/infrastructure/checkpointer.py`, `agent/application/graph_engine.py`) | `agent_checkpoints`: version, state, cursor | load, publish by compare-and-swap, save | publication after takeover | heads follow the order of the fences |
| Conversation, recovery (`agent/application/conversation_service.py`, `recovery.py`) | `agent_conversations.status` | start, sync_from_state, mark_handover, close; peek, restore, expire_pending | expiry overwrites what was published meanwhile | what is shown is what is executed |
| Confirmation tokens and approvals (`platform/application/approval_service.py`, `confirmation_service.py`) | rows of approvals and tokens | create_pending, approve, consume; issue, consume | confirmations that overlap, each step in a transaction of its own | an approval is for one write, and consumed if and only if it was made |
| Planner and supervisor (`agent/specialists/`, `agent/planning.py`, `agent/orchestration.py`) | the plan in the agent state: steps, dependencies, budgets | validate, delegate, accept, replan, confirm, cancel, synthesize | plans that wait, resume, replan, crash and run into budgets over several turns | dependencies are kept, only what was confirmed is written, the report is true, a turn ends |
| Capability executor, policy, registry (`agent/capabilities/`) | counters that travel with the plan | execute, authorise, fingerprint a call | every answer of an adapter, and exceptions, become results | a write is executed only when confirmed |
| Continuation and home page (`agent/domain_continuation.py`, `frontend/src/pages/HomePage.tsx`) | what a tab shows; the last state of a conversation | send, confirm, cancel, switch, reload; retry, correct, follow up | answers and loads that arrive in another conversation's view; slots that outlive a change of house | what is executed was shown; a repair rests on what was said about its house |
| Memory (`agent/application/memory_*.py`) | memory rows with versions, embeddings | state, merge, supersede, correct, update, delete, reindex | advisory locks next to operations that take none; an embedding made after the commit of its content | one active record per statement, and per preference that was only corrected; an embedding is of the content |
| Streaming (`agent/application/stream_execution.py`, `agent/adapters/api/stream_delivery.py`) | a registry of slots, a buffer between turn and response | admit, put, take, disconnect, drain | a client that leaves, a full buffer, a shutdown | a reader is told how the turn ended; slots come free; a drain means idle |

### Business domains and platform

| Component | State | Operations | Hard behaviour | Correct if |
|---|---|---|---|---|
| Repair orders (`repair/application/service.py`, `repair/domain`) | orders, timeline, reviews, idempotency records, handover tickets | create, assign, accept, reject, record_progress, complete, verify, rework, review, high-risk handover | checks on copies; repeated requests; unique constraints that end a race | one legal move per version; one order per request; a replay tells the truth |
| Automatic assignment (`repair/application/auto_assignment.py`) | none | create and assign in two transactions | failure in between; changed loads at a repetition | what is answered is true |
| Announcements (`announcement/`) | rows, versions, reviews, audience snapshots | draft, edit, submit, approve, reject, publish, schedule, withdraw, publish_due | scheduler against staff; residents who move; a limited batch | who can read was told; what is out was authorised; what is scheduled goes out |
| Inspection (`inspection/`) | tasks, records, suggestions; security events, disposals, reviews | plan, assign, start, submit, complete, suggest; report, assign, dispose, confirm, review | plans checked and inserted in two steps; a grade that is confirmed once | plans clash only if neither saw the other; a high risk reaches somebody once and is closed on a confirmation |
| Billing consultations (`billing/application/service.py`) | tickets, keys, tokens, audits | draft, submit, take, answer, appeal, resolve | tokens presented twice at once; moves from copies | a token makes one ticket; an appeal is not closed by the answer before it |
| Message outbox (`platform/infrastructure/outbox_dispatcher.py`) | `message_records`, handover tickets | enqueue, dispatch with retry and backoff, mark read | several dispatchers; rollback after delivery; a batch limit | what a message says became of it did; every message settles |
| Message centre, idempotency (`platform/application/message_admin_service.py`, `idempotency_service.py`) | `read_at`, claimed keys | mark one or all as read | claims at once, a claim that fails later | a key has one answer |
| Login guard (`platform/application/login_guard.py`) | one row per name and address | check, record a failure, clear | counting at several replicas; the row that does not exist yet; a clock that is read before the row is waited for | guesses are bounded |

Audit, observability, health, model gateways, wording, migrations and the other
pages of the frontend keep no state that one of these depends on.

### How they interact

* A turn takes the lease first and releases it last; between them its calls to
  the conversation, recovery, approval and checkpoint stores are transactions
  of their own.
* A confirmed write is one transaction of the domain: fence check (which locks
  the lease row), token and approval consumed, object written, idempotency key
  recorded, messages enqueued.
* The graph of a turn stops at an interrupt when a step of the plan has to be
  confirmed; the confirmation is a turn of its own, which resumes the graph
  from the accepted state.
* Domains tell users by rows of the outbox written in their own transaction;
  the dispatcher reads them in another one.
* The announcement scheduler calls the same service as the requests, without a
  user.

## 2. Modules

| Module | Models | Relation |
|---|---|---|
| `FencedLog` | the promise of the lease: an epoch and a log of writes, at most one per epoch, in order | abstract specification |
| `RunLease` | the lease row, the runs, the row lock of a business transaction; time is one flag | implements `FencedLog` if `Fenced` |
| `LeaseClock` | the clock, TTL, clock readings that are old, heartbeat interval | implements `RunLease` |
| `AgentTurn`, `MCAgentTurn` | a conversation's turns: head, row, approvals, objects | extends `RunLease`, whose operations its steps are; implements `FencedLog` if `Fenced` |
| `Capability` | one invocation: policy, order of checks, result | used by `Supervisor` |
| `Catalog` | the registered capabilities, their adapters, the table of intents | constants of `MCSupervisor` |
| `Supervisor`, `MCSupervisor` | planning, validation and the graph of one request over its turns | extends `Capability` |
| `Chat` | the home page, its requests, and the state a conversation goes on from | scene of `Services` |
| `Confirmation` | token and approval of one action, and the write that consumes them | scene of `Services` |
| `WorkOrderDomain`, `WorkOrder` | the state machine; one authorised move after the other | abstract specification |
| `RepairService`, `MCRepairService` | transactions on copies, idempotency records, replay, automatic assignment | implements `WorkOrder` |
| `Handover` | the high-risk branch of a repair | scene of `Services` |
| `Announcement` | staff requests and the scheduler | stands alone |
| `InspectionTask`, `SecurityEvent` | the two services of inspection | parts of `Inspection` |
| `Inspection`, `MCInspection` | the inspection context: a step of either service | composes the two, one by EXTENDS and one by INSTANCE; the scenes of `MCInspection` |
| `Consultation` | billing consultations | scene of `Services` |
| `Outbox` | messages, dispatchers, tickets, reading | scene of `MCProgress` |
| `Memory`, `MemoryIndex` | records of one user; the embedding of one record | scenes of `Services` |
| `Stream` | registry, buffer, producer and response | scene of `Services` and `MCProgress` |
| `LoginGuard`, `MessageCenter` | the services of these names | scenes of `Services` |
| `Services`, `MCServices` | the components above that are called scenes of it; `MCServices` bounds them | composes them by INSTANCE, `Confirmation` by EXTENDS |
| `AgentTurnProofs` | theorems of `RunLease` and `AgentTurn` | extends `AgentTurn` |
| `LeaseClockProofs`, `SupervisorProofs`, `RepairServiceProofs`, `AnnouncementProofs`, `InspectionProofs`, `OutboxProofs`, `ServicesProofs` | theorems | extend their module |

Components that share no row are checked in one run: the variable `scene` of
`Services`, `MCInspection` and `MCProgress` is chosen at the start and never
changes, and only the component of the scene takes steps. In `Services` the
scenes share the variables `part1` to `part8`, which each component but
`Confirmation` takes for its own through INSTANCE. Nothing is claimed about
interactions there, because the code has none. A step of `MCServices` is one of
`Services` within bounds, so that what is proved of `ServicesSpec` holds of the
runs.

### How state and actions correspond to the code

**Transactions.** A request of a service is split where another transaction can
come in between: it looks its key up, loads and checks a copy, and writes with
everything it commits at the end. Each phase is an action (`Begin…`, `Load`,
`Write`, `Save`, `Commit`, by the words of the code). A refused request is rolled
back and leaves no trace. Row and advisory locks are modelled where they
are held over more than one action.

**RunLease, LeaseClock.** `lease` is the row of one conversation; conversations
share nothing, so one is enough. `held[r]` is the `Lease` object of a run,
`worker[r]` how far it is; `locker` is the run whose transaction has the row
locked by `assert_run_fence`; `log` is the history of committed writes. A
statement reads the clock in Python and takes effect later; `RunLease` therefore
lets a renewal revive a lease that has just run out, and `LeaseClock` says when,
by giving each statement a reading that may be old (`Readings`). `Prompt` runs
are those whose readings are at most `Lag` old and whose renewals come every
`Interval`. `MarginAssumption` (`Interval + 2 * Lag <= TTL`) is the margin of
the configured 30 s over 10 s.

**AgentTurn.** `turn[r].pc` names the storage call that comes next: planning,
executing and releasing. Each is an action, so that a second turn can come in
whenever the lease lets it. An exception while the plan is being made ends the
run without a release (`Raise`), as the `finally` of the code sees no plan; a
later one goes to the release (`Fail`). A crash is possible everywhere and rolls
an open transaction back. `head` is the accepted head: version, pending proposal
and whether the graph is interrupted; the last two may disagree, and do after a
failed write. The save of an expiry is two actions, because it selects the row
without a lock (`ExpireSelect`) and later writes the selected version plus one
(`ExpireSave`), over whatever head is there by then; `era` is a history variable
that counts the saves that put the version back. What a model says and which capabilities it reads is left to
choice: a graph ends or proposes.

**Supervisor.** One node of the graph is one action: `Supervise`, `Delegate` or
`RefuseDelegation`, `AcceptConfirmation`, `Cancel`, `Synthesize`; `Resume` is the
user's answer at the interrupt and `Crash` goes back to the state that was
accepted last. A delegation that a budget refuses fails the
plan only: the step stays PENDING and its result is dropped. `s` is the `AgentState` with the steps of the plan, their
outcomes, the budgets and `pending_action`. What adapters answer is any of the
outcomes of `Capability`. `MCRequest` holds the messages: every action the
planner makes of an intent without a model, and proposals of a model, some of
which validation refuses. `Name` and `Argument` are the names and arguments a
proposal may use, known to the registry or not.

**Chat.** A request is sent by a tab, handled by the server in one step and
received in another; a tab may have moved on by then. What a message says is the
set of the markers the code looks for in it.

**Other services.** The head of each module says what its transactions
consist of. `Confirmation` is about one action of one conversation and lets any
number of confirmations overlap, as they can once a lease has run out. `Memory`
and `MemoryIndex` divide the record from its embedding, which is committed
separately. `Stream` takes one critical section of the buffer or the registry as
a step. `LoginGuard` has an integer clock; an attempt reads it (`Ask`, `Fail`)
before it waits for the row, and compares and stores what it read. `told` counts
the wrong passwords told since the window of the row began. In `SecurityEvent`
the source of a report is what the client says, and only a report that came
through the adapter of the agent (`via`) has its risk normalized.

## 3. Runs

All bounds are constants of the `.cfg` files. Deadlock is not checked anywhere:
in every model requests may stop coming, and all runs may have ended; what must
not stop is stated by the liveness properties.

| Run | Checks | Bounds, and why they are enough |
|---|---|---|
| `run_lease_unfenced` | finds `CommitsInFenceOrder` violated | two runs with `Fenced = FALSE` |
| `lease_clock` | `PromptKeepsLease`, `ImplementsRunLease` | one prompt run and two arbitrary ones, TTL 3 with the smallest margin the assumption allows, a clock that shows two TTLs |
| `agent_turns` | `LeaseInv`, `OneObjectPerProposal`, `ConsumedWithTheWrite`, `ImplementsFencedLog`, `HeadsInFenceOrder` | three requests of any kind on one conversation: one that proposes, one that confirms and stalls, one that overtakes it. An expiry that lets an older fence publish needs five, which the theorem covers |
| `agent_turns_cancelled` | finds `CancelledNotExecuted` violated | three requests: propose, confirm, cancel |
| `progress` | `OutcomesAreTrue`, `TurnsEnd`, `LeaseComesFree`, `EveryMessageSettles`, `StreamsEnd` | two turns of any kind; two messages of which one has no receiver, with a batch of one, so that a waiting message is in the way of the other; two streams for one slot. No symmetry |
| `repair_races` | `AnswersAreTrue`, `OneOrderPerRequest`, `ImplementsWorkOrder` | two threads, two orders, two workers, one resident, the system as manager, one key, versions up to 5: a create with its assignment, acceptance, completion, verification |
| `announcement` | `ReadersWereTold`, `PublishedWasAuthorized`, `ScheduledGoesOut` | two announcements and a fetch limit of one (the code's is 50), so that one can be in the way; two residents; a request against the scheduler; drafts up to version 4 and schedules up to 5, which allows a rework and a second schedule |
| `inspection` | `PlansClashOnlyUnseen`, `TimelineAgrees`, `HighRiskReachesSomeone`, `ClosedAsReviewed`, `OffersAgreeInBoth` | two threads; scenes with two plans or reports that race, and with one task or event that is worked on; a manager, and a guard; event versions up to 6, which allows a return and a second disposal |
| `supervisor` | `PlansCanBeOrdered`, `NothingPassesAFailure`, `WritesAsConfirmed`, `ReportIsTrue`, `BudgetHolds`, `TurnEnds` | the forty requests of `MCRequest` with plans of three steps, the real catalogue, one crash, and every budget so small that it runs out: three calls, four delegations, one replan, one read of another domain, two clarifications, a duration of two |
| `supervisor_confirmation` | finds `TokenCoversTheWrite` violated | a plan whose write is its second step |
| `services` | the eleven properties of `Services` and `Confirmation` | two or three requests at a time, which is what a race takes; two keys, tokens or contents where they have to differ; a buffer at its smallest limit of 4; two failures for a lock, and a lock that is shorter than the window. The candidates of the memory are corrections of one preference and one that is not, of the same key, so that two active records of one key occur |
| `memory_correction` | finds `CorrectionTakesEffect` violated | two statements of one preference |

What each property says, and of which code, is written above it in its module.
Every property of a passing run has a mutant in `PROJECT.json`: a plausible bug
in the code that breaks it under the same bounds, which also shows that the
bounds are large enough for it to happen. Symmetry is used only in
runs without temporal properties of the liveness kind.

### Fairness

* `AgentTurn`: weak fairness of the steps of a run that has the lease (its
  thread goes on until it ends or dies) and of the expiry of a lease whose run
  has ended (time passes). Arrival, failure, crash and the expiry under a live
  worker are not fair; a turn ends nevertheless.
* `Outbox`: weak fairness of each dispatcher's batch and of the end of a delay
  (the loop polls, time passes), and the assumption that aborts stop. The last
  one is necessary: a database that fails every batch settles no message.
  Readers cannot restart a delay for ever, because a message is read once.
* `Stream`: weak fairness of a producer's work (a thread that runs) and of the
  response, which sends the next event or is closed because its client left. A
  client that reads slowly is not assumed to leave.
* `Announcement`: weak fairness of time, and strong fairness of a scan that
  takes a given due row. It is strong because a request may hold the row locked
  during some scans; it holds a lock for the moment of its commit, scans come
  every 15 s, and no request keeps meeting all of them.
* `Supervisor`: a graph that runs goes on to its next node (weak fairness, with
  `Running` in place of ENABLED). Users need not answer and clocks need not
  stop.

## 4. Proofs

Nothing is assumed but the named assumptions of the modules: which sets the
constants are, and where it is said the margin of the lease or that a fence is
enforced. Recursive functions are reasoned about by sets of numbers
(`Least`, `UpTo` in `SupervisorProofs`), as the induction theorems of the
library take operators, which no prover here can instantiate.

`AgentTurnProofs`, about the lease, for any set of runs:

* `LeaseInvariant`: `LeaseInv` is inductive. `FencesUnique` alone is not: that
  a new fence is fresh needs `RowIsNewest` (no run holds more than the row), and
  the order of the log needs `LockedByWriter` (with the fence, an open
  transaction has the row locked, so nobody can take the lease over before it
  commits) and `LoggedByRuns` (what is in the log is the fence of a run that is
  past its transaction, so the committer's is not in it yet).
* `NoFenceReused` is a conjunct of it. `FencedCommitOrder` and
  `LeaseRefinesFencedLog` assume `Fenced`: a commit is made by the owner of the
  row, whose fence is greater than all in the log.

`AgentTurnProofs`, about turns, for any runs, kinds of requests and actions:

* `TurnsImplementLease`: every step of a turn is an operation of the lease or
  leaves it alone, so that `LeaseInv` and the log of epochs hold of the runner
  (`TurnsKeepLease`, `TurnsImplementFencedLog`).
* `TurnInvariant`: `TurnInv` is inductive. That no proposal is written twice
  looks like a matter of the idempotency key alone, and that a write
  consumes one approval is a matter of four transactions: `ApprovalsHeld` says
  that from `approve` to its write a confirmation has its approval to itself,
  `ProposalAtHand` that what it refers to is there, `KindsKeepApart` which steps
  belong to which request. From it `OneObject` and
  `ApprovalsConsumedWithWrites`.
* `HeadsKeepOrder`, an action property: publication compares versions only, not
  fences. A turn reads the version when it has the lease, and while that version
  is current nobody with a newer fence has published. `PublishedByOlder` says so of every
  turn whose era is the present one, and the property makes an exception for the
  others: past an expiry that put the version back, the code lets an older fence
  publish (section 5).

`SupervisorProofs`, for any catalogue, requests and policy, and plans of any
length (`SupervisorAssumption`):

* `CyclesAreFound`: the search of `PlanValidator._reject_cycles` rejects exactly
  the plans that cannot be ordered. One direction ranks a step by how many steps
  are below it, which the search shows not to contain the step itself; in the
  other the search only descends in rank. Both go by induction on how deep the
  search may still go.
* `SupervisorInvariant`: `SupervisorInv` is inductive. `StateInv` holds of the
  current and of the accepted state, which is what a crash goes back to: the plan
  is ordered, whatever was tried has settled dependencies (one level of
  `NothingPassesAFailure`), outcomes fit statuses, and the deadline has not
  moved away. `NodeInv` is what the next node relies on: a specialist runs only
  a step that may be tried, in a plan that has no late call yet. `GrantInv` ties
  the grant of a turn to the last answer and, once it was used, to the
  fingerprints that were seen.
* From it the five safety properties of the run. `FailuresStopAllBelow`: the
  settled steps are closed under dependencies, hence contain all that is below
  a step that was tried. `WritesWereConfirmed`: a second write of one turn would
  have the fingerprint of the grant, which `Denied` refuses. `BudgetIsKept`: a
  supervisor that finds the deadline passed fails the plan before it calls
  anything, so that only the call during which it passed can be late.

`LeaseClockProofs`, for any TTL, interval and lag:

* `ClockTypeCorrect`, and `HeartbeatKeepsLease` from `ClockAssumption` and
  `MarginAssumption`. The invariant `ClockInv` adds that the row of a prompt run
  lasts until its next renewal is due and that the clock does not pass that
  moment; `FreshLeaseCovers` is the arithmetic: a lease written with a reading at
  most `Lag` old lasts past the next renewal.
* `ClockRefinesRunLease`: every step maps to a step of `RunLease` or a stutter,
  `live` being `until >= now`. With it all of the above holds of the clock model.

`RepairServiceProofs`, for any users, orders, threads, keys and `MaxVersion`:

* `ServiceInvariant`: `Inv` is inductive. It is `TypeOK` with what a thread that
  is about to write may rely on: the version of its copy is not above that of the
  row, at equal versions the copy is the row, and its checks held of that copy.
  This is what makes the comparison of versions in `save` sufficient.
* `ServiceImplementsWorkOrder`: since `Save` finds the version unchanged, the
  copy is the row, and the checks hold of the row. Every step is a step of
  `WorkOrder` or a stutter. `TimelineTold` and `OneOrder` follow with it.
* `AnswersTold`: what is answered is in the timeline, and stays there
  (`ToldStays`). The invariant `CopiesTold` says it of all that an answer is made
  of: of each stored idempotency record, which a replay returns later, and
  of the copy that an automatic assignment goes on with.

`AnnouncementProofs`, for any announcements, residents, requests and bounds:

* `AnnouncementInvariant`. `ReadersWereTold` and `PublishedWasAuthorized` speak
  of rows; a request writes from its copy. The invariant adds `Current` (a copy
  of the row's version is the row), `Letters` (which messages there are, by
  status and snapshot) and `Reviewed` (the reviews that what a status permits
  rests on, by version). From it `ReadersTold` and `PublicationAuthorized`.

`InspectionProofs`, for any tasks, events, plans, staff, residents and threads:

* `TasksInvariant` and `EventsInvariant`. In both services a copy of the row's
  version is the row, and what was checked on the copy holds of the row that is
  written. What is left is about one row and its timeline (`RowInv`,
  `EventRowInv`): an action that may be done keeps them in agreement, with the
  number of its entries as the measure.
* From the first `PlansSeen` (a plan that was checked is still clear of those
  that were there when it was) and `TimelinesAgree`; from the second
  `ReportsReachSomeone` and `EventsClosedAsReviewed`; from both `OffersKept`.

`OutboxProofs`, for any messages and dispatchers, from `OutboxAssumption`:

* `OutboxInvariant`: a row is in one batch at most and is PENDING while it is
  there (`Holds`), what a batch has marked a row with is justified by what was
  delivered and by the retries the row had (`Due`), and what a row says is true
  of its message and its ticket (`True`). From it `OutcomesTrue`: with SKIP
  LOCKED a commit writes over nothing but what it was decided on, and the ticket
  of a row that is given up has not been made before.

`ServicesProofs`, for any number of requests, rows and keys. Each component has
an inductive invariant in its own module (`IndexInv`, `MessageInv`, …); a lemma
`…Step` says that no step of `Services`, of its scene or of another, disturbs it.

* `ConfirmationInvariant` and `OneWrite`: one approval is open at most; whoever
  is past `approve` refers to an APPROVED row that nobody else past it refers
  to; what was written under is CONSUMED, and no two writes were under one.
  `consume` lets a CONSUMED row through, which looks like a second write; the
  invariant shows that nobody gets there.
* `IndexIsOfTheContent`: as long as no update was overtaken, one update is in
  flight at most and embeds what the record says.
* `KeysAreAnsweredAlike`: a claim that is not settled is a lock. Whoever holds
  one finds no record under its key and is alone with it, so that the only
  answer it can write is the only one there is.
* `ReportsAreHandedOverOnce`: the token of a request past its `consume` is its
  own and unspent. A key with a ticket has a record, so a request that found no
  record had seen no ticket of the key: two tickets of one key overlapped.
* `TokensMakeOneTicket` and `AppealsAreAnswered`: the same of the tokens of a
  consultation. The update of a transition compares versions: a copy of the
  row's version is the row, hence the step its copy allowed is one from the
  status the audit has reached. An answer carries the number of appeals in the
  audit, and the only step to ANSWERED or RESOLVED after an appeal goes through
  a new one.
* `PreferencesAreSuperseded`: what a transaction is about to supersede is active
  and its own (the row lock), and of those that hold the advisory lock of one
  candidate there is one. The list the newest record is taken from has to be in
  the invariant too: its records are active and different. For a preference that
  was only corrected (`CorrectedIsOne`) its lock has one holder, and the record
  that holder is about to supersede is the one that is active (`OldIsAll`).
* `StreamsTellTheEnd`: `ToldOf` says of what was sent and what still waits that
  only the last is an end, and that the end is one of the two unless the client
  has left; `InStep` ties the place of the producer to what it has put. Dropping
  one event of progress keeps both (`WithoutOneKeeps`).
* `WrittenAsShown`: the number of an open proposal is below the counter, in no
  other conversation, and in no write. `SlotsRestOnTheirHouse` is a conjunct for
  each kind of state but that of an announcement, whose continuation may change
  the house.
* `FailuresStayBounded`: the row has counted every failure told in its window,
  and these are at most the limit and one for each other attempt. Whoever has
  loaded a row has it locked, not yet at the limit or about to start anew; what is
  counted past the limit is counted by attempts that began when there was no row
  to lock (`Early`), and a failure of theirs takes one out of that set. A time
  read before the wait may begin a window late or end a lock early, by as long
  as the wait was. Nothing is therefore said of failures by the wall clock, and
  nothing is assumed of how the lock compares with the window.

Lemmas about sequences these need, and that are stated once: `WithoutNth`,
`PutLast`, `SeqOfMore`, `LeastOf` and `GreatestOf`. `SameCardinality` says that
the components count as `FiniteSets` does, though each through its own instance.

Only model-checked:

* liveness (`TurnsEnd`, `LeaseComesFree`, `EveryMessageSettles`, `StreamsEnd`,
  `TurnEnds`, `ScheduledGoesOut`), whose fairness is out of the prover's reach.
  Every other property of a passing run is stated by a theorem;
* the four properties of the runs that expect a violation, which are false of the
  code.

## 5. Where code and documents disagree

Shown by a run:

1. `platform/container.py:291` builds the repair ports without `enforce_fence`,
   so a confirmed repair write is not fenced; ADR 0007 says that all stale
   writes are refused (`run_lease_unfenced`).
2. `agent/specialists/supervisor.py:203` reports of a cancelled proposal that
   nothing was executed. The write may have been committed by a turn that lost
   its lease before publishing (`agent_turns_cancelled`).
3. `agent/application/confirm_params.py:91` derives what a token is for from
   slots that describe the first step of a plan, where the service is called
   for the step that waits (`supervisor_confirmation`).
4. `agent/application/memory_store.py:150` merges a correction with the active
   row of the same candidate before it looks for a conflict, whether that row
   has expired or was edited since (`memory_correction`).

Reached by the models, or met while writing them, without a run of their own.
Some are deliberate; they are what a reader of the code should know.

*Turns and confirmations.*

* `agent/application/runner.py:285` reads the state before the version it
  compares at the end, so a turn that is overtaken in between publishes over a
  newer state; `recovery.py:141` expires what it saw on one snapshot and
  overwrites a later one.
* The save of that expiry (`recovery.py:151`, `checkpointer.py:223`) selects the
  row without a lock and writes the selected version plus one. It
  takes five turns of the model: one publishes version 1; the next selects it
  and loses its lease; a third publishes 2; a fourth reads 2 and loses its lease;
  a fifth publishes 3; the second now writes 2, and the fourth, whose fence is
  older than that of the fifth, publishes against it. The comment at `checkpointer.py:124` reserves a
  save without an expected version for a single writer.
* A confirmed step that fails, runs over its budget or loses its basis leaves
  `pending_action` in the state with no interrupt. The card is presented again
  with every message, and its answer is NOTHING_PENDING.
* The refusals of gates 1 and 4 of `restore` do not void the pending action,
  though `recovery.py:17` says so.
* A card is matched by the hash of its parameters only, so that a late card of
  one conversation executes the equal action of another.
* An approval that is APPROVED when a process dies stays open until
  `create_pending` has found it; whether it has expired is not asked there
  (`approval_service.py:190`).
* `agent/capabilities/executor.py:101` reports a write as FAILED whose adapter
  raised after its commit.
* The last event of a stream reaches the client before the lease is released,
  so that an immediate next message may find the conversation busy. The lifespan
  goes on when a drain timed out (`platform/container.py:221`).

*Plans.*

* A cancelled step settles those that depend on it
  (`agent/specialists/supervisor.py:260`). A condition looks at the last result
  of any dependency (`:267`), a draft at the last result altogether.
* Aliases of the registry are not among the names plans are validated with.
* A high-risk repair is confirmed for CREATE_WORK_ORDER, and the handover
  consumes CREATE_WORK_ORDER_HANDOVER.

*Services.*

* A repeated automatic assignment selects again; if another worker is least
  loaded by then, the repetition is refused (`auto_assignment.py:60`).
* Two high-risk reports under one key make two tickets if their transactions
  overlap (`repair/application/service.py:490`, `repair/infrastructure/shared_ports.py:132`).
* Approved announcements that nobody scheduled fill the limit of due ones, which
  is why `ScheduledGoesOut` is conditional.
* Two plans that overlap are both inserted if neither saw the other, and a
  high-risk grade stays confirmed over a return
  (`inspection/application/service.py:101`, `:951`).
* A source that is out fails a draft of a consultation, though the docstring
  says otherwise (`billing/application/service.py:231`).
* Only a correction supersedes, and only the newest of the records it
  contradicts (`memory_store.py:433`): a preference that is stated twice with
  different contents has two active records. A merge increments a version
  without a row lock.
* A login reads the clock before it waits for the row of its attempts
  (`login_guard.py:44`, `:61`), so a lock may be found over before it is, or end
  early by as long as the wait was.
* `report_source` is set by the client (`inspection/adapters/api/schemas.py:74`)
  and stored as it is; the risk of a dangerous report is raised only by the
  adapter of the agent (`agent/capabilities/adapters/inspection.py:291`), so a
  report of source AI may be dangerous and of low risk.
* A delegation that the budget refuses leaves its step PENDING in a failed plan
  (`agent/specialists/supervisor.py:105`, `agent/application/langgraph_runtime.py:163`).
* `mark_read` overwrites the time at which a concurrent `mark_all_read` has read
  a message.
* `enqueue` looks a key up and inserts, without a unique constraint
  (`outbox_dispatcher.py:291`).

*Home page.*

* The card that answers a confirmation is not shown; a new conversation that is
  loaded before its first message is replaced by another id; a session that is
  being restored comes back after a logout (`frontend/src/auth/AuthContext.tsx:92`).

## 6. What is abstracted, and what is left out

* Texts, prompts, models, embeddings, masking and audit rows are data; hashes
  are their arguments.
* `AgentTurn` takes the idempotency record of a write for the object itself, and
  the token for part of the approval; `Confirmation` has both in detail.
  `AgentTurn` takes the graph for one choice, and `Supervisor` the turn around
  the graph for one step.
* `RepairService` leaves out attachments and the search; the high-risk branch is
  in `Handover`.
* `Outbox` looks an enqueued key up and inserts in one step.
* `Announcement` leaves out keys, tokens and archived rows (no operation of the
  service archives one); `InspectionTask` and `SecurityEvent` leave out keys.
* `Chat` handles a request in one step: what turns do to each other is in
  `AgentTurn`.

Not modelled:

* billing's repositories and ports of bills, payments, receipts and rooms: reads,
  many of which nothing calls;
* `agent/controlled_read.py`, `read_planner.py`, slot filling and wording: text
  in, parameters out;
* the model gateways and release approvals: calls of a model and the parsing of
  its text; the codec of the agent state;
* audit, observability and health: append-only records;
* the other pages of the frontend, whose requests the services check;
  migrations, the judge, and tests.

## 7. What a next version would add

1. The reads of a plan against states of the domains that change between them.
2. The circuit of the fallback gateway.
3. Refinements of one abstract specification by the services that take a key or a
   token once (`MessageCenter`, `Handover`, `Consultation`), whose invariants
   have that part in common.
