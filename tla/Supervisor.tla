----------------------------- MODULE Supervisor -----------------------------
(***************************************************************************)
(* The plan of one request: SupervisorPlanner, PlanValidator, Supervisor and *)
(* the graph around them (build_supervisor_graph).  A node of the graph is *)
(* one step, checkpointed when it ends; the turn ends at the interrupt     *)
(* that awaits a confirmation or when the graph is done.  Only there is    *)
(* the state accepted, so that a crash in the turn of a confirmation goes  *)
(* back to the interrupt, and one in the first turn to the request.        *)
(*                                                                         *)
(* What the model proposes, how it judges relevance and what adapters      *)
(* answer are chosen freely.  A step is named after its step_id.           *)
(***************************************************************************)
EXTENDS Capability, SequencesExt

CONSTANTS
    Domain,        \* domains that have a specialist
    StepId,        \* step identifiers
    Name,          \* names of domains, capabilities and conditions, known or not
    Argument,      \* arguments that steps are planned with
    Request,       \* requests, see IsRequest
    Evidence,      \* what reads answer: "duplicate", "issue" or neither
    FromPending,   \* writes whose confirmation is derived from pending_action
    MaxSteps,      \* PlanValidator max_steps
    MaxVisits, MaxDelegations, MaxReplans, MaxCross,   \* ExecutionPolicy
    MaxClarifications,
    Duration,      \* plan_duration_seconds
    Remembers,     \* whether the planner was given memories
    MaxTime, MaxCrashes   \* bounds of the model

StepStatus == {"PENDING", "PENDING_CONFIRMATION", "COMPLETED", "SKIPPED",
               "NEEDS_CLARIFICATION", "HANDOVER", "FAILED"}
PlanStep == [id : StepId, domain : Name, specialist : Name, cap : Name, args : Argument,
             deps : SUBSET StepId, cond : Name, status : StepStatus]
PlanClass == {"GENERAL_HELP", "UNCERTAIN", "SINGLE_DOMAIN", "MULTI_DOMAIN"}
NewStep == {x \in PlanStep : x.status = "PENDING"}
PlanProposal == [class : PlanClass, steps : Seq(NewStep)]

\* What the code itself names.
ListedNames == {"", "announcement", "announcement_create_draft", "inspection",
                "inspection_create", "inspection_list", "repair", "repair_create"}

\* What the planner reads off a message and the form that it may continue.
IsRequest(r) ==
    r \in [announces : BOOLEAN, notice : BOOLEAN, inspects : {"", "create", "query"},
           form : {"", "announcement", "inspection", "repair"}, filled : Argument,
           model : PlanProposal]

ASSUME SupervisorAssumption ==
    /\ Domain \cup Capability \cup ListedNames \subseteq Name /\ "" \notin Domain
    /\ "guided" \in StepId /\ "" \notin StepId
    /\ {Missing, ListArgs} \subseteq Argument
    /\ \A r \in Request : IsRequest(r)
    /\ \A n \in {MaxSteps, MaxVisits, MaxDelegations, MaxReplans, MaxCross,
                 MaxClarifications, Duration, MaxTime, MaxCrashes} : n \in Nat
    /\ Remembers \in BOOLEAN

VARIABLES
    request,  \* the message, as the planner sees it
    node,     \* the node of the graph that runs next
    s,        \* the AgentState that the nodes pass on
    saved,    \* the accepted state of the last interrupt
    granted,  \* the prepared write of this turn
    now,      \* wall-clock time
    crashes,  \* crashes so far
    calls,    \* history: calls that reached an adapter
    decided   \* history: the user's answers, with what was shown

vars == <<request, node, s, saved, granted, now, crashes, calls, decided>>

None == [none |-> TRUE]
Settled == {"COMPLETED", "SKIPPED"}
NonFailures == {"COMPLETED", "CONDITION_NOT_MET"}
Conditions == [noDuplicate |-> [domain |-> "repair", cap |-> "repair_create", source |-> "repair"],
               relevantIssue |-> [domain |-> "announcement", cap |-> "announcement_draft",
                                  source |-> "inspection"]]

\* The AgentState, as far as the nodes use it.  What a write is called with is
\* its arguments, or these and what was found before.
Data == Evidence \cup {""}
StepOutcome == (StepStatus \ {"PENDING", "SKIPPED"}) \cup {"CONDITION_NOT_MET"}
CallArgs == Argument \cup (Argument \X Data)
PlanStatus == {"NONE", "ACTIVE", "WAITING_CONFIRMATION", "NEEDS_CLARIFICATION", "HANDOVER",
               "COMPLETED", "PARTIAL", "FAILED"}
Shown == [id : StepId, cap : Name, args : CallArgs]
Reading == {"SUCCESS", "HITL_REQUIRED", "REPLAN", "NEEDS_CLARIFICATION", "HANDOVER",
            "CAPABILITY_ERROR"}
Result == [id : StepId, domain : Name, outcome : Reading, data : Data]
AgentState ==
    [class : PlanClass \cup {"NONE"}, steps : Seq(PlanStep), current : StepId \cup {""},
     status : PlanStatus, started : Nat, deadline : Nat, visits : Nat, replans : Nat,
     delegations : Nat, cross : Nat, clarifications : Nat, results : Seq(Result),
     outcomes : UNION {[ids -> StepOutcome] : ids \in SUBSET StepId}, pending : Shown \cup {None},
     invocation : [calls : Nat, seen : SUBSET (Name \X CallArgs)]]

\* A prepared write, a call that reached an adapter, and a user's answer.
Grant == [id : StepId, cap : Name, args : CallArgs, covers : BOOLEAN]
Call == [id : StepId, cap : Name, args : CallArgs, done : BOOLEAN, turn : Nat,
         started : Nat, late : BOOLEAN]
Decision == [id : StepId, cap : Name, args : CallArgs, yes : BOOLEAN]

TypeOK ==
    /\ IsRequest(request)
    /\ node \in {"supervisor", "specialist", "await", "accept", "cancel", "synthesize", "done"}
    /\ s \in AgentState /\ saved \in AgentState \cup {None}
    /\ granted \in Grant \cup {None} /\ calls \in Seq(Call) /\ decided \in Seq(Decision)
    /\ now \in Nat /\ crashes \in Nat

\* build_initial_state: a new message starts without plan and budget.
NewState ==
    [class |-> "NONE", steps |-> <<>>, current |-> "", status |-> "NONE",
     started |-> 0, deadline |-> 0, visits |-> 0, replans |-> 0, delegations |-> 0, cross |-> 0,
     clarifications |-> 0,
     results |-> <<>>, outcomes |-> [x \in {} |-> ""], pending |-> None,
     invocation |-> Fresh]

(***************************************************************************)
(* Planning.                                                               *)
(***************************************************************************)
Step(id, domain, cap, args, deps, cond) ==
    [id |-> id, domain |-> domain, specialist |-> domain, cap |-> cap, args |-> args,
     deps |-> deps, cond |-> cond, status |-> "PENDING"]

Proposal(class, steps) == [class |-> class, steps |-> steps]
Uncertain == Proposal("UNCERTAIN", <<>>)
Single(id, domain, cap, args) ==
    Proposal("SINGLE_DOMAIN", <<Step(id, domain, cap, args, {}, "")>>)

\* What the model proposes, or what is made of its analysis if it cannot plan;
\* a call that fails proposes nothing, and counts as uncertain.
SemanticProposal(r) == r.model

\* The planner's sources in their order: a guided announcement, an entry of
\* the inspections, a repair form that is being filled in, and the model.  A
\* request that starts or continues a form carries what was filled in so far.
Proposed(r) ==
    IF r.announces \/ r.form = "announcement"
    THEN Single("guided", "announcement", "announcement_create_draft", r.filled)
    ELSE IF ~r.notice /\ (r.form = "inspection" \/ r.inspects = "create")
    THEN Single("guided", "inspection", "inspection_create", r.filled)
    ELSE IF ~r.notice /\ r.inspects = "query" /\ r.form = ""
    THEN Single("guided", "inspection", "inspection_list", ListArgs)
    ELSE IF r.form = "repair"
    THEN Single("guided", "repair", "repair_create", r.filled)
    ELSE SemanticProposal(r)

At(steps, id) == CHOOSE i \in DOMAIN steps : steps[i].id = id
Ids(steps) == {steps[i].id : i \in DOMAIN steps}

ValidStep(steps, i) ==
    LET step == steps[i] IN
    /\ step.domain \in Domain /\ step.specialist = step.domain
    /\ step.cap \in Capability /\ DomainOf[step.cap] = step.domain
    /\ step.cond # "" =>
         /\ step.cond \in DOMAIN Conditions
         /\ Conditions[step.cond].domain = step.domain /\ Conditions[step.cond].cap = step.cap
         /\ \E d \in step.deps \cap Ids(steps) :
               steps[At(steps, d)].domain = Conditions[step.cond].source
    /\ step.deps \subseteq Ids(steps) /\ step.id \notin step.deps

\* The mutant of Acyclic: only a step that depends on itself is a cycle.
AcyclicNearby(steps) == \A i \in DOMAIN steps : steps[i].id \notin steps[i].deps

DepsOf(steps, id) == steps[At(steps, id)].deps

\* PlanValidator._reject_cycles: visit, depth first, with the steps that are
\* being visited; it is stopped by a cycle, so that it is defined by how
\* deep it may still go.  What was visited before only saves it work.
Visits(steps) ==
    LET visit[n \in 0..Len(steps) + 1] ==
          [id \in Ids(steps) |-> [visiting \in SUBSET Ids(steps) |->
              /\ id \notin visiting
              /\ n > 0 /\ \A d \in DepsOf(steps, id) : visit[n - 1][d][visiting \cup {id}]]]
    IN visit
Acyclic(steps) == \A id \in Ids(steps) : Visits(steps)[Len(steps) + 1][id][{}]

Valid(p) ==
    /\ Len(p.steps) <= MaxSteps
    /\ p.steps = <<>> => p.class \in {"GENERAL_HELP", "UNCERTAIN"}
    /\ \A i, j \in DOMAIN p.steps : i # j => p.steps[i].id # p.steps[j].id
    /\ \A i \in DOMAIN p.steps : ValidStep(p.steps, i)
    /\ Acyclic(p.steps)

\* _normalize: a plan is classified by its domains, not as the model says.
Normalized(p) ==
    LET domains == {p.steps[i].domain : i \in DOMAIN p.steps}
    IN IF domains = {} THEN p
       ELSE Proposal(IF \E d \in domains : domains = {d} THEN "SINGLE_DOMAIN" ELSE "MULTI_DOMAIN",
                     p.steps)

CreatedPlan(r) ==
    LET plan == Normalized(Proposed(r)) IN IF Valid(plan) THEN plan ELSE Uncertain

\* The budget starts with the plan.
Planned(st) ==
    LET plan == CreatedPlan(request)
    IN [st EXCEPT !.class = plan.class, !.steps = plan.steps, !.status = "ACTIVE",
                  !.current = IF plan.steps = <<>> THEN "" ELSE plan.steps[1].id,
                  !.started = now, !.deadline = now + Duration]

(***************************************************************************)
(* The supervisor node.                                                    *)
(***************************************************************************)
StepOf(st, id) == st.steps[At(st.steps, id)]
Mark(st, id, status) == [st EXCEPT !.steps[At(st.steps, id)].status = status]
Outcomes(st) == {st.outcomes[x] : x \in DOMAIN st.outcomes}
Record(st, id, outcome) ==
    [st EXCEPT !.outcomes = [x \in DOMAIN @ \cup {id} |-> IF x = id THEN outcome ELSE @[x]]]

\* OrchestrationBudget.resume: later policy may only bring the deadline nearer.
ResumedDeadlineAnew(deadline) == now + Duration
ResumedDeadline(deadline) == IF now + Duration < deadline THEN now + Duration ELSE deadline

\* relevant_issue_decision: a match counts only if it cites the evidence it had.
Relevant(step, data, judge) == data = "issue" /\ judge[step.id]

\* _condition_allows: what the latest result of any dependency says.  The
\* relevance of an issue is the model's judgement, one for each step.
Allows(st, step, judge) ==
    LET own == SelectSeq(st.results, LAMBDA r : r.id \in step.deps) IN
    \/ step.cond = ""
    \/ /\ own # <<>>
       /\ \/ step.cond = "noDuplicate" /\ Last(own).data # "duplicate"
          \/ step.cond = "relevantIssue" /\ Relevant(step, Last(own).data, judge)

\* The mutant of DependenciesCompleted: any step that was tried will do.
DependenciesTried(st, step) ==
    \A d \in step.deps : StepOf(st, d).status # "PENDING"

DependenciesCompleted(st, step) ==
    \A d \in step.deps : StepOf(st, d).status \in Settled

\* The places of the steps that may be next, and the first of them.
Eligible(st) ==
    {i \in DOMAIN st.steps :
        st.steps[i].status = "PENDING" /\ DependenciesCompleted(st, st.steps[i])}
FirstEligible(st) == st.steps[Min(Eligible(st))]

\* The mutant of FinalStatus: a plan ends well when something did.
FinalStatusHopeful(st) ==
    IF Outcomes(st) \cap NonFailures # {} \/ "FAILED" \notin Outcomes(st)
    THEN "COMPLETED" ELSE "FAILED"

FinalStatus(st) ==
    IF "FAILED" \notin Outcomes(st) THEN "COMPLETED"
    ELSE IF Outcomes(st) \cap NonFailures # {} THEN "PARTIAL" ELSE "FAILED"

\* _select_next_eligible: steps whose condition fails are skipped until one
\* is eligible or the plan is finished.
Skip(st, judge) ==
    LET step == FirstEligible(st) IN
    IF Eligible(st) = {} \/ Allows(st, step, judge) THEN st
    ELSE Record(Mark(st, step.id, "SKIPPED"), step.id, "CONDITION_NOT_MET")

Skips(st, judge) ==
    LET skip[n \in 0..Len(st.steps)] == IF n = 0 THEN st ELSE Skip(skip[n - 1], judge)
    IN skip

Selected(st, judge) ==
    LET skipped == Skips(st, judge)[Len(st.steps)] IN
    IF Eligible(skipped) = {}
    THEN [skipped EXCEPT !.status = FinalStatus(skipped), !.current = ""]
    ELSE [skipped EXCEPT !.current = FirstEligible(skipped).id]

\* Supervisor.prepare, with a basis of memories that may be gone by now.
Prepared(st, stale, judge) ==
    LET begun == IF st.status = "NONE" THEN Planned(st)
                 ELSE [st EXCEPT !.deadline = ResumedDeadline(@),
                                 !.status = IF stale THEN "NEEDS_CLARIFICATION" ELSE @]
        counted == [begun EXCEPT !.visits = @ + 1]
    IN IF now >= begun.deadline \/ begun.visits >= MaxVisits
       THEN [begun EXCEPT !.status = "FAILED"]
       ELSE IF counted.status # "ACTIVE" THEN counted
       ELSE IF counted.class = "GENERAL_HELP"
       THEN [counted EXCEPT !.status = "COMPLETED", !.current = ""]
       ELSE IF counted.class = "UNCERTAIN"
       THEN [counted EXCEPT !.status = "NEEDS_CLARIFICATION", !.current = ""]
       ELSE Selected(counted, judge)

\* _supervisor_route.
Route(st) ==
    IF st.status = "WAITING_CONFIRMATION" THEN "await"
    ELSE IF st.status = "ACTIVE" /\ st.current # "" THEN "specialist" ELSE "synthesize"

Supervise ==
    /\ node = "supervisor"
    /\ \E stale \in BOOLEAN, judge \in [{x \in StepId : \E i \in DOMAIN s.steps :
                  s.steps[i].id = x /\ s.steps[i].cond = "relevantIssue"} -> BOOLEAN] :
         /\ stale => Remembers /\ s.status # "NONE"
         /\ s' = Prepared(s, stale, judge)
    /\ node' = Route(s')
    /\ saved' = IF node' = "await" THEN s' ELSE saved
    /\ granted' = IF node' = "await" THEN None ELSE granted
    /\ UNCHANGED <<request, now, crashes, calls, decided>>

(***************************************************************************)
(* The specialist nodes: run_current and apply_result.                     *)
(***************************************************************************)
\* The arguments that a specialist makes of a step: those of the step, and
\* for a draft the data of whatever result came last.
Projected(st, step) ==
    IF step.args # Missing /\ step.cap = "announcement_draft" /\ st.results # <<>>
    THEN <<step.args, Last(st.results).data>> ELSE step.args

CrossesDomains(st, step) ==
    LET others == SelectSeq(st.results, LAMBDA r : r.id # step.id)
    IN others # <<>> /\ Last(others).domain # step.domain

\* The mutant of Confirmed: a confirmation opens every write of its turn.
ConfirmedTurn(step, args) == granted # None

\* PreparedWrite.matches: this step of this plan, with these arguments.
Confirmed(step, args) ==
    /\ granted # None
    /\ granted.id = step.id /\ granted.cap = step.cap /\ granted.args = args

Failed(st) == [st EXCEPT !.status = "FAILED"]

Completed(st, step) ==
    [Record(Mark(st, step.id, "COMPLETED"), step.id, "COMPLETED") EXCEPT !.pending = None]

\* What is offered to the user is what the specialist was about to call.
Waiting(st, step) ==
    [Record(Mark(st, step.id, "PENDING_CONFIRMATION"), step.id, "PENDING_CONFIRMATION")
       EXCEPT !.status = "WAITING_CONFIRMATION",
              !.pending = [id |-> step.id, cap |-> step.cap, args |-> Projected(st, step)]]

\* A read by an identifier that names nothing becomes a list, a few times.
Replanned(st, step) ==
    IF \/ st.replans >= MaxReplans
       \/ ListOf[step.cap] = step.cap /\ step.args = ListArgs
    THEN Failed(st)
    ELSE LET i == At(st.steps, step.id)
         IN [st EXCEPT !.replans = @ + 1,
                       !.steps[i].cap = ListOf[step.cap], !.steps[i].args = ListArgs]

Clarifying(st, step) ==
    IF st.clarifications >= MaxClarifications THEN Failed(st)
    ELSE [Record(Mark(st, step.id, "NEEDS_CLARIFICATION"), step.id, "NEEDS_CLARIFICATION")
            EXCEPT !.status = "NEEDS_CLARIFICATION", !.clarifications = @ + 1]

\* apply_result, by what the specialist made of the answer.  A failed step
\* leaves the pending action as it is.
Applied(st, step, outcome) ==
    CASE outcome = "SUCCESS" -> Completed(st, step)
      [] outcome = "HITL_REQUIRED" -> Waiting(st, step)
      [] outcome = "REPLAN" -> Replanned(st, step)
      [] outcome = "NEEDS_CLARIFICATION" -> Clarifying(st, step)
      [] outcome = "HANDOVER" ->
           [Record(Mark(st, step.id, "HANDOVER"), step.id, "HANDOVER") EXCEPT !.status = "HANDOVER"]
      [] outcome = "CAPABILITY_ERROR" ->
           Record(Mark(st, step.id, "FAILED"), step.id, "FAILED")

ResultOf(step, outcome, data) ==
    [id |-> step.id, domain |-> step.domain, outcome |-> outcome, data |-> data]

Exhausted(st, step) ==
    \/ st.delegations >= MaxDelegations
    \/ CrossesDomains(st, step) /\ st.cross >= MaxCross

\* A budget that is used up fails the plan and nothing else: its step stays
\* pending and current, and the result that says so is dropped.
RefuseDelegation ==
    /\ node = "specialist" /\ node' = "supervisor"
    /\ Exhausted(s, StepOf(s, s.current))
    /\ s' = Failed(s)
    /\ UNCHANGED <<request, saved, granted, now, crashes, calls, decided>>

\* A confirmed write is carried out only if what its token and approval were
\* issued for is what the service is asked to do.
Accepted(answer) == granted # None /\ ~granted.covers => answer.kind = "refused"

Delegate ==
    /\ node = "specialist" /\ node' = "supervisor"
    /\ LET step == StepOf(s, s.current)
           args == Projected(s, step)
           verdict == Verdict(step.cap, args, s.invocation, Confirmed(step, args))
       IN /\ ~Exhausted(s, step)
          /\ \E answer \in Answers(step.cap, Evidence) :
               LET outcome == Outcome(verdict, answer)
                   data == IF outcome = "SUCCESS" THEN answer.data ELSE ""
                   counted == [s EXCEPT !.delegations = @ + 1,
                                 !.cross = IF CrossesDomains(s, step) THEN @ + 1 ELSE @,
                                 !.invocation = Progress(@, step.cap, args, verdict),
                                 !.results = Append(@, ResultOf(step, outcome, data))]
               IN /\ verdict = "RUN" /\ Writes(step.cap) => Accepted(answer)
                  /\ verdict # "RUN" => answer.kind = "refused"
                  /\ s' = Applied(counted, step, outcome)
                  /\ calls' = IF verdict # "RUN" THEN calls
                              ELSE Append(calls,
                                     [id |-> step.id, cap |-> step.cap, args |-> args,
                                      done |-> answer.kind \in {"ok", "lost"},
                                      turn |-> Len(decided),
                                      started |-> s.started,
                                      late |-> now >= s.started + Duration])
    /\ UNCHANGED <<request, saved, granted, now, crashes, decided>>

(***************************************************************************)
(* Confirmation: the turn that resumes the interrupt.                      *)
(***************************************************************************)
\* derive_confirmation_params: some writes are confirmed as pending_action
\* shows them, the others as the slots say, which hold the parameters of the
\* first step of the plan (_set_objective_context).
Covers(st) ==
    \/ st.pending.cap \in FromPending
    \/ st.steps[1].cap = st.pending.cap /\ st.steps[1].args = st.pending.args

Resume(yes) ==
    /\ node = "await"
    /\ granted' = IF yes THEN [id |-> s.pending.id, cap |-> s.pending.cap,
                               args |-> s.pending.args, covers |-> Covers(s)] ELSE None
    /\ decided' = Append(decided, [id |-> s.pending.id, cap |-> s.pending.cap,
                                   args |-> s.pending.args, yes |-> yes])
    /\ node' = IF yes THEN "accept" ELSE "cancel"
    /\ UNCHANGED <<request, s, saved, now, crashes, calls>>

AcceptConfirmation ==
    /\ node = "accept" /\ node' = "supervisor"
    /\ StepOf(s, s.current).status = "PENDING_CONFIRMATION"
    /\ s' = [Mark(s, s.current, "PENDING") EXCEPT !.status = "ACTIVE"]
    /\ UNCHANGED <<request, saved, granted, now, crashes, calls, decided>>

\* cancel_current: the step is skipped, and counts as failed in the report.
Cancel ==
    /\ node = "cancel" /\ node' = "supervisor"
    /\ s' = [Record(Mark(s, s.current, "SKIPPED"), s.current, "FAILED")
               EXCEPT !.pending = None, !.status = "ACTIVE"]
    /\ UNCHANGED <<request, saved, granted, now, crashes, calls, decided>>

\* The mutant of Synthesize: its edge leads back to the supervisor.
SynthesizeAndGoOn ==
    /\ node = "synthesize" /\ node' = "supervisor"
    /\ granted' = None
    /\ UNCHANGED <<request, s, saved, now, crashes, calls, decided>>

Synthesize ==
    /\ node = "synthesize" /\ node' = "done"
    /\ granted' = None
    /\ UNCHANGED <<request, s, saved, now, crashes, calls, decided>>

(***************************************************************************)
(* The environment.                                                        *)
(***************************************************************************)
Running == node \notin {"await", "done"}

\* The process stops in a turn: its checkpoints are orphans.
Crash ==
    /\ Running /\ crashes < MaxCrashes
    /\ crashes' = crashes + 1
    /\ IF saved = None THEN s' = NewState /\ node' = "supervisor"
       ELSE s' = saved /\ node' = "await"
    /\ granted' = None
    /\ UNCHANGED <<request, saved, now, calls, decided>>

Tick ==
    /\ node # "done" /\ now < MaxTime
    /\ now' = now + 1
    /\ UNCHANGED <<request, node, s, saved, granted, crashes, calls, decided>>

Init ==
    /\ request \in Request
    /\ node = "supervisor" /\ s = NewState /\ saved = None /\ granted = None
    /\ now = 0 /\ crashes = 0 /\ calls = <<>> /\ decided = <<>>

Graph == Supervise \/ RefuseDelegation \/ Delegate \/ AcceptConfirmation \/ Cancel \/ Synthesize

Next == Graph \/ (\E yes \in BOOLEAN : Resume(yes)) \/ Crash \/ Tick

Spec == Init /\ [][Next]_vars

\* A turn runs in one thread from node to node, while users may not answer at
\* all.  This is WF_vars(Graph), with Running for ENABLED <<Graph>>_vars.
FairSpec == Spec /\ ([]<>(~Running) \/ []<><<Graph>>_vars)

-----------------------------------------------------------------------------
\* Every plan that is kept can be worked through: there is an order in which
\* every step comes after those it depends on (PlanValidator, which searches
\* for a cycle depth first).
CanBeOrdered(steps) ==
    \E rank \in [DOMAIN steps -> 1..Len(steps)] : \A i, j \in DOMAIN steps :
        steps[j].id \in steps[i].deps => rank[j] < rank[i]
PlansCanBeOrdered == CanBeOrdered(s.steps)

\* Nothing that hangs on a step, however indirectly, is even offered before
\* that step is settled: a failure, a clarification or a handover stops all
\* that was to follow (_dependencies_completed, which looks at one level).
Closed(steps, ids) == \A x \in ids : DepsOf(steps, x) \subseteq ids
Below(steps, id) ==
    {x \in Ids(steps) : \A ids \in SUBSET Ids(steps) :
        DepsOf(steps, id) \subseteq ids /\ Closed(steps, ids) => x \in ids}

NothingPassesAFailure ==
    \A i \in DOMAIN s.steps :
        s.steps[i].status # "PENDING" =>
            \A x \in Below(s.steps, s.steps[i].id) : StepOf(s, x).status \in Settled

\* A write reaches its service only in a turn that a user's confirmation
\* began, as it was shown, and once; what was turned down does not run.
WritesAsConfirmed ==
    \A i \in DOMAIN calls : Writes(calls[i].cap) =>
        /\ calls[i].turn > 0
        /\ LET d == decided[calls[i].turn] IN
             d.yes /\ d.id = calls[i].id /\ d.cap = calls[i].cap /\ d.args = calls[i].args
        /\ \A j \in DOMAIN calls :
             calls[j].turn = calls[i].turn /\ Writes(calls[j].cap) => i = j

\* The user is told the truth: a plan that is reported complete did every
\* step or found its condition not met, a step reported as done was done, and
\* what is still on offer was not (_finish_plan, _complete_step).
ReportIsTrue ==
    /\ node = "done" /\ s.status = "COMPLETED" =>
         \A i \in DOMAIN s.steps :
            s.steps[i].id \in DOMAIN s.outcomes /\ s.outcomes[s.steps[i].id] \in NonFailures
    /\ \A x \in DOMAIN s.outcomes : s.outcomes[x] = "COMPLETED" =>
         \E i \in DOMAIN calls : calls[i].id = x /\ calls[i].done
    /\ s.pending # None => s.outcomes[s.pending.id] # "COMPLETED"

\* The budget bounds the plan, not the turn: time that passes while a user
\* thinks counts, so that at most the one call that was being made when the
\* deadline passed is late, and a plan that never crashed makes no more calls
\* than its policy allows (prepare, OrchestrationBudget.resume).
BudgetHolds ==
    /\ \A i, j \in DOMAIN calls :
         calls[i].late /\ calls[j].late /\ calls[i].started = calls[j].started => i = j
    /\ s.visits <= MaxVisits /\ s.delegations <= MaxDelegations /\ s.cross <= MaxCross
    /\ crashes = 0 => Len(calls) <= MaxCalls

\* A turn ends, in an answer or in a question to the user.
TurnEnds == Running ~> ~Running

\* What a token and an approval are issued for is what the service will be
\* asked to do, so that no write that its user confirmed is refused for its
\* confirmation, as the head of confirm_params.py says.
TokenCoversTheWrite == granted # None => granted.covers
=============================================================================
