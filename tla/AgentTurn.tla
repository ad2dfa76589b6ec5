------------------------------ MODULE AgentTurn ------------------------------
(***************************************************************************)
(* The turns of ONE conversation (AgentSessionRunner), from the lease that *)
(* each takes first to the lease that each releases last: the accepted     *)
(* head in agent_checkpoints, the row in agent_conversations, the          *)
(* approvals of confirmed writes and the business objects they create.     *)
(* Every storage call is a step of its own, so turns interleave whenever   *)
(* the lease lets a second one in.                                         *)
(*                                                                         *)
(* A proposal (pending_action) is named after the run that made it, since  *)
(* issued_at and plan_id make each one distinct; what it asks for, the     *)
(* action with its parameters, is drawn from Action.                       *)
(***************************************************************************)
EXTENDS RunLease

CONSTANTS
    Action,      \* business actions with their parameters
    NoProposal,  \* nothing is pending
    NoCursor,    \* runtime_cursor is NULL
    Kinds        \* the kinds of request each run may be

Kind == {"message", "confirm", "cancel", "close"}
Proposal == [id : Run, act : Action]

ASSUME TurnAssumption ==
    /\ NoProposal \notin Proposal
    /\ NoCursor \notin Proposal \cup {NoProposal}
    /\ Kinds \in [Run -> SUBSET Kind]

VARIABLES
    head,      \* the accepted head: version, state and cursor
    conv,      \* status of the conversation row
    turn,      \* turn[r]: where run r is in its turn, and its local variables
    approval,  \* approval[r]: the approval row that run r created
    objs,      \* committed business objects: for which proposal, by which run
    accepted,  \* fence of the run that published last
    cancelled  \* proposals whose cancellation was published

domainVars == <<head, conv, approval, objs, accepted, cancelled>>
turnVars == <<leaseVars, turn, domainVars>>

\* The row of agent_checkpoints: version, the proposal of the state and whether
\* it is interrupted, the proposal at which the graph waits that runtime_cursor
\* points to; and, as history, how often an expiry has saved an old version over
\* the current one.
HeadRecord == [ver : Nat, prop : Proposal \cup {NoProposal}, waiting : BOOLEAN,
               cursor : Proposal \cup {NoProposal, NoCursor}, era : Nat]
Blank == [ver |-> 0, prop |-> NoProposal, waiting |-> FALSE, cursor |-> NoCursor, era |-> 0]
Result == [prop : Proposal \cup {NoProposal}, waiting : BOOLEAN]
Settled == [prop |-> NoProposal, waiting |-> FALSE]

Ended == {"refused", "raised", "crashed", "done", "closed"}
\* Steps of planning a turn: the finally block does not see a plan yet.
Planning == {"open", "peek", "restore", "expireSelect", "expireSave", "expireSync",
             "token", "approve", "version", "renew"}
\* Steps of executing it, and the heartbeat runs.
Executing == {"graph", "cursor", "act", "writing", "assert", "publish", "sync"}
Phase == {"idle", "close", "release"} \cup Planning \cup Executing \cup Ended

\* The plan of a turn and the locals of the calls it is in; era is the history
\* of the head when the version was read.
TurnRecord == [kind : Kind, pc : Phase, mode : {"graph", "represent", "followup"},
               seen : HeadRecord, base : Nat, era : Nat, at : Proposal \cup {NoProposal},
               ref : Run \cup {NoRun}, res : Result]
Idle == [kind |-> "message", pc |-> "idle", mode |-> "graph", seen |-> Blank,
         base |-> 0, era |-> 0, at |-> NoProposal, ref |-> NoRun, res |-> Settled]

ApprovalRow == [act : Action, status : {"PENDING", "APPROVED", "CONSUMED", "EXPIRED"}]
NoApproval == [act |-> NoProposal, status |-> "NONE"]

TurnTypeOK ==
    /\ TypeOK
    /\ head \in HeadRecord
    /\ conv \in {"NONE", "ACTIVE", "WAITING_CONFIRM", "HANDOVER", "CLOSED"}
    /\ turn \in [Run -> TurnRecord]
    /\ approval \in [Run -> ApprovalRow \cup {NoApproval}]
    /\ objs \subseteq [prop : Run, act : Action, by : Run, ref : Run]
    /\ accepted \in Nat
    /\ cancelled \subseteq Run

TurnInit ==
    /\ Init
    /\ head = Blank
    /\ conv = "NONE"
    /\ turn = [r \in Run |-> Idle]
    /\ approval = [r \in Run |-> NoApproval]
    /\ objs = {}
    /\ accepted = 0
    /\ cancelled = {}

-----------------------------------------------------------------------------
At(r, pc) == turn[r].pc = pc
Move(r, t) == turn' = [turn EXCEPT ![r] = t]
Goto(r, pc) == Move(r, [turn[r] EXCEPT !.pc = pc])
End(r, how) == Move(r, [Idle EXCEPT !.pc = how])

\* An exception while the plan is still None: the finally block releases nothing.
Raise(r) == Vanish(r) /\ End(r, "raised")

\* A new proposal of run r, interrupted for its confirmation.
Proposes(r, result) ==
    \E a \in Action : result = [prop |-> [id |-> r, act |-> a], waiting |-> TRUE]

-----------------------------------------------------------------------------
(* Arrival: the lease comes first, whatever the request is.                *)

AcquireTurn(r) ==
    /\ At(r, "idle")
    /\ Acquire(r)
    /\ \E k \in Kinds[r] :
          Move(r, [turn[r] EXCEPT !.kind = k,
                                  !.pc = CASE k = "message" -> "open"
                                           [] k = "close"   -> "close"
                                           [] OTHER         -> "restore"])
    /\ UNCHANGED domainVars

RefuseTurn(r) ==
    /\ At(r, "idle")
    /\ Refuse(r)
    /\ End(r, "refused")
    /\ UNCHANGED domainVars

-----------------------------------------------------------------------------
(* A message: _plan_start.                                                 *)

\* ConversationService.start: create the row, or refuse a closed one.
Open(r) ==
    /\ At(r, "open")
    /\ \/ /\ conv = "CLOSED"
          /\ Raise(r)
          /\ UNCHANGED conv
       \/ /\ conv # "CLOSED"
          /\ conv' = IF conv = "NONE" THEN "ACTIVE" ELSE conv
          /\ Goto(r, "peek")
          /\ UNCHANGED leaseVars
    /\ UNCHANGED <<head, approval, objs, accepted, cancelled>>

\* recovery.peek and prepare_start_state: a pending proposal is shown again
\* unless the message corrects it; a follow-up on a repair is answered at once.
Peek(r) ==
    /\ At(r, "peek")
    /\ \E m \in {"graph", "followup"}
                 \cup (IF head.prop = NoProposal THEN {} ELSE {"represent"}) :
          /\ m = "followup" => head.ver > 0
          /\ Move(r, [turn[r] EXCEPT !.pc = "version", !.seen = head, !.mode = m])
    /\ UNCHANGED <<leaseVars, domainVars>>

-----------------------------------------------------------------------------
(* A confirmation or a cancellation: _plan_resume.                         *)

\* AgentRecoveryService.restore and its gates: lifecycle, snapshot, house
\* binding (expires the proposal), something pending, validity (expires the
\* proposal), fingerprint.
Restore(r) ==
    /\ At(r, "restore")
    /\ \/ Raise(r)
       \/ /\ conv \notin {"NONE", "CLOSED"}
          /\ head.ver > 0
          /\ Goto(r, "expireSelect")
          /\ UNCHANGED leaseVars
       \/ /\ conv \notin {"NONE", "CLOSED"}
          /\ head.prop # NoProposal /\ head.waiting
          /\ Move(r, [turn[r] EXCEPT
                        !.pc = IF turn[r].kind = "confirm" THEN "token" ELSE "version",
                        !.seen = head])
          /\ UNCHANGED leaseVars
    /\ UNCHANGED domainVars

\* expire_pending saves the state without the proposal and without an expected
\* version: _save_legacy selects the row, without a lock, ...
ExpireSelect(r) ==
    /\ At(r, "expireSelect")
    /\ Move(r, [turn[r] EXCEPT !.pc = "expireSave", !.seen = head])
    /\ UNCHANGED <<leaseVars, domainVars>>

\* ... and writes the selected version plus one over whatever head there is by
\* now, with the columns that differ from those selected: a state that had no
\* proposal may be equal, and a NULL cursor is.  ...
ExpireSave(r) ==
    LET old == turn[r].seen IN
    /\ At(r, "expireSave")
    /\ \E state \in {Settled, [prop |-> head.prop, waiting |-> head.waiting]} :
          /\ state = Settled \/ (old.prop = NoProposal /\ ~old.waiting)
          /\ head' = [ver |-> old.ver + 1, prop |-> state.prop, waiting |-> state.waiting,
                      cursor |-> IF old.cursor = NoCursor THEN head.cursor ELSE NoCursor,
                      era |-> IF old.ver < head.ver THEN head.era + 1 ELSE head.era]
    /\ Goto(r, "expireSync")
    /\ UNCHANGED <<leaseVars, conv, approval, objs, accepted, cancelled>>

\* ... brings the row back to ACTIVE, and restore raises.
ExpireSync(r) ==
    /\ At(r, "expireSync")
    /\ \/ conv = "CLOSED" /\ UNCHANGED conv
       \/ conv # "CLOSED" /\ conv' \in {"ACTIVE", "HANDOVER"}
    /\ Raise(r)
    /\ UNCHANGED <<head, approval, objs, accepted, cancelled>>

\* prepare_confirmation: a token, and create_pending, which finds the open
\* approval of the action or adds one.
OpenApprovals(a) ==
    {s \in Run : approval[s].act = a /\ approval[s].status \in {"PENDING", "APPROVED"}}

CreatePending(r) ==
    LET a == turn[r].seen.prop.act IN
    /\ At(r, "token")
    /\ \/ \E s \in OpenApprovals(a) :
             /\ Move(r, [turn[r] EXCEPT !.pc = "approve", !.ref = s])
             /\ UNCHANGED approval
       \/ /\ OpenApprovals(a) = {}
          /\ Move(r, [turn[r] EXCEPT !.pc = "approve", !.ref = r])
          /\ approval' = [approval EXCEPT ![r] = [act |-> a, status |-> "PENDING"]]
    /\ UNCHANGED <<leaseVars, head, conv, objs, accepted, cancelled>>

\* approve: only a PENDING approval becomes APPROVED; one made earlier may have
\* expired meanwhile.
Approve(r) ==
    LET s == turn[r].ref IN
    /\ At(r, "approve")
    /\ \/ /\ approval[s].status = "PENDING"
          /\ approval' = [approval EXCEPT ![s].status = "APPROVED"]
          /\ Goto(r, "version")
          /\ UNCHANGED leaseVars
       \/ /\ approval[s].status = "PENDING" /\ s # r
          /\ approval' = [approval EXCEPT ![s].status = "EXPIRED"]
          /\ Raise(r)
       \/ /\ approval[s].status # "PENDING"
          /\ Raise(r)
          /\ UNCHANGED approval
    /\ UNCHANGED <<head, conv, objs, accepted, cancelled>>

-----------------------------------------------------------------------------
(* The end of planning, for messages, confirmations and cancellations.     *)

ReadVersion(r) ==
    /\ At(r, "version")
    /\ Move(r, [turn[r] EXCEPT !.pc = "renew", !.base = head.ver, !.era = head.era])
    /\ UNCHANGED <<leaseVars, domainVars>>

\* The renewal that precedes the heartbeat; a turn that re-presents or answers
\* a follow-up does not run the graph.
RenewPlan(r) ==
    /\ At(r, "renew")
    /\ \/ /\ Owns(r)
          /\ Goto(r, CASE turn[r].kind # "message"    -> "cursor"
                       [] turn[r].mode = "represent"  -> "release"
                       [] turn[r].mode = "followup"   -> "sync"
                       [] OTHER                       -> "graph")
          /\ UNCHANGED leaseVars
       \/ ~Owns(r) /\ Raise(r)
    /\ UNCHANGED domainVars

-----------------------------------------------------------------------------
(* Running the graph.                                                      *)

Ran(r, result) == Move(r, [turn[r] EXCEPT !.pc = "assert", !.res = result])

\* engine.invoke for a message: reads only, and stops at a proposal or ends.
RunGraph(r) ==
    /\ At(r, "graph")
    /\ \E result \in Result : /\ result = Settled \/ Proposes(r, result)
                              /\ Ran(r, result)
    /\ UNCHANGED <<leaseVars, domainVars>>

\* load_accepted finds the cursor; the graph resumes at its interrupt.  Without a
\* cursor, or an interrupt at it, resume_stream fails.
ReadCursor(r) ==
    /\ At(r, "cursor")
    /\ \/ /\ head.cursor \in Proposal
          /\ Move(r, [turn[r] EXCEPT !.pc = "act", !.at = head.cursor])
       \/ /\ head.cursor \notin Proposal
          /\ Goto(r, "release")
    /\ UNCHANGED <<leaseVars, domainVars>>

\* The cancel node; the plan may go on to a step that needs confirmation.
CancelProposal(r) ==
    /\ At(r, "act") /\ turn[r].kind = "cancel"
    /\ \E result \in Result : /\ result = Settled \/ Proposes(r, result)
                              /\ Ran(r, result)
    /\ UNCHANGED <<leaseVars, domainVars>>

\* The prepared write does not match the step at the cursor: it is put to the
\* user again.
AskAgain(r) ==
    /\ At(r, "act") /\ turn[r].kind = "confirm"
    /\ turn[r].at # turn[r].seen.prop
    /\ Ran(r, [prop |-> [turn[r].at EXCEPT !.id = r], waiting |-> TRUE])
    /\ UNCHANGED <<leaseVars, domainVars>>

Confirmed(r) == /\ At(r, "act") /\ turn[r].kind = "confirm"
                /\ turn[r].at = turn[r].seen.prop

\* Mutant: every turn makes a key of its own.
NeverWritten(p) == FALSE

\* The idempotency key, made of the proposal, is looked up before anything else.
Written(p) == \E o \in objs : o.prop = p.id

\* Replay: the object exists, and no credential is consumed.
ReplayWrite(r) ==
    /\ Confirmed(r)
    /\ Written(turn[r].at)
    /\ \E result \in Result : /\ result = Settled \/ Proposes(r, result)
                              /\ Ran(r, result)
    /\ UNCHANGED <<leaseVars, domainVars>>

\* The fence is checked in the transaction that will consume the credentials.
OpenWrite(r) ==
    /\ Confirmed(r)
    /\ ~Written(turn[r].at)
    /\ BeginWrite(r)
    /\ Goto(r, "writing")
    /\ UNCHANGED domainVars

\* A failed write fails its plan step and leaves pending_action where it was;
\* the executor turns every exception into such a result.
FailedResult(r, result) ==
    \/ result = [prop |-> turn[r].at, waiting |-> FALSE]
    \/ Proposes(r, result)

\* The fence check fails.
FenceOut(r) ==
    /\ Confirmed(r)
    /\ ~Written(turn[r].at)
    /\ RejectWrite(r)
    /\ \E result \in Result : FailedResult(r, result) /\ Ran(r, result)
    /\ UNCHANGED domainVars

\* One transaction: approval consumed, object added, idempotency key recorded
\* under its unique constraint.
CommitWrite(r) ==
    LET s == turn[r].ref
        p == turn[r].at IN
    /\ At(r, "writing")
    /\ approval[s].status \in {"APPROVED", "CONSUMED"}
    /\ ~Written(p)
    /\ Commit(r)
    /\ objs' = objs \cup {[prop |-> p.id, act |-> p.act, by |-> r, ref |-> s]}
    /\ approval' = [approval EXCEPT ![s].status = "CONSUMED"]
    /\ \E result \in Result : /\ result = Settled \/ Proposes(r, result)
                              /\ Ran(r, result)
    /\ UNCHANGED <<head, conv, accepted, cancelled>>

\* Mutant: the approval is consumed in a transaction of its own.
RollbackObjectOnly(r) ==
    /\ At(r, "writing")
    /\ Rollback(r)
    /\ approval' = [approval EXCEPT ![turn[r].ref].status = "CONSUMED"]
    /\ \E result \in Result : FailedResult(r, result) /\ Ran(r, result)
    /\ UNCHANGED <<head, conv, objs, accepted, cancelled>>

\* The approval has expired, a business rule or the database says no.
RollbackWrite(r) ==
    /\ At(r, "writing")
    /\ Rollback(r)
    /\ \E result \in Result : FailedResult(r, result) /\ Ran(r, result)
    /\ UNCHANGED domainVars

-----------------------------------------------------------------------------
(* Publication and release.                                                *)

\* assert_current renews the lease, and raises if it is lost.
AssertCurrent(r) ==
    /\ At(r, "assert")
    /\ Goto(r, IF Owns(r) THEN "publish" ELSE "release")
    /\ UNCHANGED <<leaseVars, domainVars>>

\* The head that a turn leaves: the state and the cursor of its graph.
Accept(r) ==
    LET res == turn[r].res IN
    head' = [ver |-> head.ver + 1, prop |-> res.prop, waiting |-> res.waiting,
             cursor |-> IF res.waiting THEN res.prop ELSE NoProposal, era |-> head.era]

\* Mutant: the head is saved without an expected version.
PublishBlindly(r) ==
    /\ At(r, "publish")
    /\ Accept(r)
    /\ accepted' = held[r]
    /\ cancelled' = IF turn[r].kind = "cancel" THEN cancelled \cup {turn[r].at.id}
                                               ELSE cancelled
    /\ Goto(r, "sync")
    /\ UNCHANGED <<leaseVars, conv, approval, objs>>

\* publish_accepted: compare the version with the one read while planning.
Publish(r) ==
    /\ At(r, "publish")
    /\ head.ver = turn[r].base
    /\ Accept(r)
    /\ accepted' = held[r]
    /\ cancelled' = IF turn[r].kind = "cancel" THEN cancelled \cup {turn[r].at.id}
                                               ELSE cancelled
    /\ Goto(r, "sync")
    /\ UNCHANGED <<leaseVars, conv, approval, objs>>

\* Mutant: on a conflict the publication is tried again.
PublishAgain(r) ==
    /\ At(r, "publish")
    /\ head.ver # turn[r].base
    /\ Goto(r, "assert")
    /\ UNCHANGED <<leaseVars, domainVars>>

\* Another head was accepted since planning: VERSION_CONFLICT.
Conflict(r) ==
    /\ At(r, "publish")
    /\ head.ver # turn[r].base
    /\ Goto(r, "release")
    /\ UNCHANGED <<leaseVars, domainVars>>

\* sync_from_state: UPDATE ... WHERE status <> 'CLOSED'.
Sync(r) ==
    /\ At(r, "sync")
    /\ \/ /\ conv = "CLOSED"
          /\ UNCHANGED conv
       \/ /\ conv # "CLOSED"
          /\ conv' \in {"HANDOVER", IF turn[r].res.waiting THEN "WAITING_CONFIRM" ELSE "ACTIVE"}
    /\ Goto(r, "release")
    /\ UNCHANGED <<leaseVars, head, approval, objs, accepted, cancelled>>

\* Any other exception once the plan exists: a model, a capability, a
\* connection, the heartbeat's stale flag, a client that leaves the stream.
Fail(r) ==
    /\ turn[r].pc \in Executing \ {"writing"}
    /\ Goto(r, "release")
    /\ UNCHANGED <<leaseVars, domainVars>>

ReleaseTurn(r) ==
    /\ At(r, "release")
    /\ Release(r)
    /\ End(r, IF turn[r].kind = "close" THEN "closed" ELSE "done")
    /\ UNCHANGED domainVars

-----------------------------------------------------------------------------
(* Closing, and what happens outside a turn.                               *)

\* close: require_owned_by and the conditional UPDATE, without any renewal.
Close(r) ==
    /\ At(r, "close")
    /\ conv' = IF conv = "NONE" THEN conv ELSE "CLOSED"
    /\ Goto(r, "release")
    /\ UNCHANGED <<leaseVars, head, approval, objs, accepted, cancelled>>

MarkHandover ==
    /\ conv \notin {"NONE", "CLOSED"}
    /\ conv' = "HANDOVER"
    /\ UNCHANGED <<leaseVars, turn, head, approval, objs, accepted, cancelled>>

LapseLease == Expire /\ UNCHANGED <<turn, domainVars>>

\* Mutant: the heartbeat is not stopped when the turn ends.
HeartbeatRunsOn(r) ==
    /\ turn[r].pc \in {"renew", "release", "done"} \cup Executing
    /\ Holds(r) /\ locker = NoRun /\ ~lease.live
    /\ lease' = [lease EXCEPT !.live = TRUE]
    /\ UNCHANGED <<held, worker, locker, log, turn, domainVars>>

\* The heartbeat of an executing turn, and the renewal of AssertCurrent; its
\* last one may still be under way when the turn has released.
HeartbeatRenew(r) ==
    /\ turn[r].pc \in {"renew", "release", "done"} \cup Executing
    /\ turn[r].kind # "close"
    /\ Renew(r)
    /\ UNCHANGED <<turn, domainVars>>

\* The process of the run dies.
Crash(r) ==
    /\ ~At(r, "idle") /\ turn[r].pc \notin Ended
    /\ Vanish(r)
    /\ End(r, "crashed")
    /\ UNCHANGED domainVars

\* What a run does by itself once it has the lease.
Step(r) ==
    \/ Open(r) \/ Peek(r) \/ Restore(r) \/ ExpireSelect(r) \/ ExpireSave(r) \/ ExpireSync(r)
    \/ CreatePending(r) \/ Approve(r) \/ ReadVersion(r) \/ RenewPlan(r)
    \/ RunGraph(r) \/ ReadCursor(r) \/ CancelProposal(r) \/ AskAgain(r)
    \/ ReplayWrite(r) \/ OpenWrite(r) \/ FenceOut(r) \/ CommitWrite(r) \/ RollbackWrite(r)
    \/ AssertCurrent(r) \/ Publish(r) \/ Conflict(r) \/ Sync(r) \/ ReleaseTurn(r) \/ Close(r)

TurnNext ==
    \/ LapseLease
    \/ MarkHandover
    \/ \E r \in Run : \/ AcquireTurn(r) \/ RefuseTurn(r) \/ Step(r)
                      \/ Fail(r) \/ HeartbeatRenew(r) \/ Crash(r)

TurnSpec == TurnInit /\ [][TurnNext]_turnVars

\* A run that is not dead goes on, and the lease of an ended run runs out.
\* Nothing else is promised: requests need not arrive, leases may expire under
\* a slow worker, processes may die.
LapseEnded == /\ lease.live /\ turn[lease.owner].pc \in Ended
              /\ LapseLease

TurnFairness == /\ WF_turnVars(LapseEnded)
                /\ \A r \in Run : WF_turnVars(Step(r))

-----------------------------------------------------------------------------
(* What holds however turns interleave, stall, crash and come back.        *)

\* A turn that was overtaken does not publish after its successor: reading the
\* version before the last renewal of planning, and comparing it at the end,
\* keeps accepted heads in the order of the fences, though the publication
\* itself does not check the fence.  The one way around it is an expiry that has
\* saved an old version over a newer head since the turn read its own.
HeadsInFenceOrder ==
    [][accepted' < accepted =>
          \E r \in Run : accepted' = held[r] /\ turn[r].era # head.era]_turnVars

\* Confirming again after a crash, a lost answer or a lost lease never creates
\* the business object a second time.
OneObjectPerProposal ==
    \A o1, o2 \in objs : o1.prop = o2.prop => o1 = o2

\* Approvals are consumed with the mutation they authorise or not at all, and
\* each authorises one mutation, of the action it was asked for.
ConsumedWithTheWrite ==
    /\ \A o \in objs : approval[o.ref] = [act |-> o.act, status |-> "CONSUMED"]
    /\ \A r \in Run : approval[r].status = "CONSUMED" => \E o \in objs : o.ref = r
    /\ \A o1, o2 \in objs : o1.ref = o2.ref => o1 = o2

\* Every request that was let in comes to an end.
TurnsEnd == \A r \in Run : ~At(r, "idle") ~> turn[r].pc \in Ended

\* No conversation stays busy: once requests stop, the lease is released or
\* runs out, and no heartbeat of an ended turn keeps bringing it back.
LeaseComesFree == <>[]~lease.live

-----------------------------------------------------------------------------
(* What the variables have to do with each other at each step of a turn:   *)
(* the inductive invariant behind the theorems of AgentTurnProofs.         *)

\* The kind of a request decides which steps it passes.
KindsKeepApart ==
    \A r \in Run :
        /\ turn[r].pc \in {"open", "peek", "graph"} => turn[r].kind = "message"
        /\ turn[r].pc = "writing" => turn[r].kind = "confirm"

\* Whoever waits for a confirmation has a proposal to confirm, and a turn that
\* resumes at the cursor has the proposal that was pending there.
ProposalAtHand ==
    /\ head.waiting => head.prop # NoProposal
    /\ \A r \in Run :
          /\ turn[r].res.waiting => turn[r].res.prop # NoProposal
          /\ turn[r].pc \in {"token", "approve"} => turn[r].seen.prop # NoProposal
          /\ turn[r].pc \in {"act", "writing"} => turn[r].at # NoProposal
          /\ turn[r].pc \in {"assert", "publish"} /\ turn[r].kind # "message"
                => turn[r].at # NoProposal
          /\ turn[r].pc = "writing" => turn[r].at = turn[r].seen.prop

\* From its approval to its write, a confirmation has the approval to itself:
\* approve lets only one of those that share a row pass.
Approved(r) == /\ turn[r].kind = "confirm"
               /\ turn[r].pc \in {"version", "renew", "cursor", "act", "writing"}

Held(r) ==
    /\ turn[r].pc \in {"idle", "restore", "token"} => approval[r] = NoApproval
    /\ turn[r].pc = "approve" =>
          /\ turn[r].ref \in Run
          /\ approval[turn[r].ref].act = turn[r].seen.prop.act
          /\ approval[turn[r].ref].status # "NONE"
    /\ Approved(r) =>
          /\ turn[r].ref \in Run
          /\ approval[turn[r].ref] = [act |-> turn[r].seen.prop.act, status |-> "APPROVED"]
          /\ \A q \in Run \ {r} : Approved(q) => turn[q].ref # turn[r].ref
ApprovalsHeld == \A r \in Run : Held(r)

\* A turn that executes had the lease after it read the version; as long as
\* that version is current, and none has been saved over since, nobody with a
\* newer fence has published.
PublishedByOlder ==
    /\ accepted <= lease.fence
    /\ \A r \in Run :
          /\ turn[r].era <= head.era
          /\ turn[r].era = head.era =>
                /\ turn[r].base <= head.ver
                /\ turn[r].pc \in Executing /\ turn[r].base = head.ver => accepted <= held[r]

TurnInv ==
    /\ LeaseInv /\ TurnTypeOK
    /\ KindsKeepApart /\ ProposalAtHand /\ ApprovalsHeld /\ PublishedByOlder
    /\ OneObjectPerProposal /\ ConsumedWithTheWrite

-----------------------------------------------------------------------------
(* What the documentation says and the code does not keep.                 *)

\* A proposal whose cancellation the user was told of was not executed.
CancelledNotExecuted == \A o \in objs : o.prop \notin cancelled
=============================================================================
