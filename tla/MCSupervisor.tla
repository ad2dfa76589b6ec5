---------------------------- MODULE MCSupervisor ----------------------------
(***************************************************************************)
(* Requests for Supervisor: a check before a write, evidence before a      *)
(* draft, writes that follow each other, reads that are replaced, what     *)
(* only humans may do, and proposals that no plan may be made of.          *)
(***************************************************************************)
EXTENDS Supervisor

CONSTANT Full   \* arguments that nothing is missing of

Cat == INSTANCE Catalog

ASSUME CatalogAssumption == Cat!Registers /\ Cat!Reachable

MCCapability == Cat!Names
MCDomainOf == [c \in MCCapability |-> Cat!SpecOf(c).domain]
MCPosture == [c \in MCCapability |-> Cat!SpecOf(c).posture]
MCAdapted == Cat!Adapters
MCByIdentifier == DOMAIN Cat!Replacement
MCListOf == Cat!Replacement
MCName == MCCapability \cup {MCDomainOf[c] : c \in MCCapability} \cup
          {"", "noDuplicate", "relevantIssue", "inspection_create_task"}
MCFromPending == {"repair_create"}

A(id, cap, deps, cond) == Step(id, MCDomainOf[cap], cap, Full, deps, cond)
Plan(steps) == Proposal("MULTI_DOMAIN", steps)

Proposals == {
    Plan(<<A("a", "repair_list", {}, ""),
           A("b", "repair_create", {"a"}, "noDuplicate"),
           A("c", "billing_query", {}, "")>>),
    Plan(<<A("a", "inspection_list", {}, ""),
           A("b", "announcement_draft", {"a"}, "relevantIssue"),
           A("c", "announcement_create_draft", {"b"}, "")>>),
    Plan(<<A("b", "announcement_create_draft", {"a"}, ""),
           A("a", "repair_create", {}, ""),
           A("c", "billing_query", {"b"}, "")>>),
    Plan(<<A("a", "inspection_get_task", {}, ""),
           A("b", "inspection_get_event", {}, ""),
           A("c", "billing_query", {"b"}, "")>>),
    Plan(<<A("a", "billing_query", {}, ""), A("b", "billing_query", {}, ""),
           A("c", "repair_list", {"b"}, "")>>),
    Plan(<<A("a", "close_high_risk_event", {}, ""), A("b", "repair_list", {}, "")>>),
    Plan(<<A("a", "repair_create", {}, ""),
           [A("b", "inspection_create", {}, "") EXCEPT !.args = Missing],
           A("c", "billing_query", {}, "")>>),
    \* not a plan: cycles, an unknown step, a wrong domain, a wrong condition
    Plan(<<A("a", "repair_list", {"b"}, ""), A("b", "billing_query", {"c"}, ""),
           A("c", "billing_query", {"a"}, "")>>),
    Plan(<<A("a", "repair_list", {}, ""), A("b", "billing_query", {"c"}, "")>>),
    Plan(<<[A("a", "repair_list", {}, "") EXCEPT !.domain = "billing"]>>),
    Plan(<<A("a", "billing_query", {}, ""), A("b", "repair_create", {"a"}, "noDuplicate")>>),
    \* an alias is not among the names that plans are validated with
    Plan(<<[A("a", "inspection_create", {}, "") EXCEPT !.cap = "inspection_create_task"]>>),
    Proposal("GENERAL_HELP", <<>>), Proposal("SINGLE_DOMAIN", <<>>) }

Free(p) == [announces |-> FALSE, notice |-> FALSE, inspects |-> "", form |-> "",
            filled |-> Full, model |-> p]
\* Without a plan of the model, one step is made of an intent and an action.
Analysed == UNION {{Single("guided", d, Cat!Bounded(id)[d][a], Full) :
                       a \in DOMAIN Cat!Bounded(id)[d]} :
                    d \in DOMAIN Cat!Bounded(TRUE), id \in BOOLEAN}

Helped == Free(Proposal("GENERAL_HELP", <<>>))

MCRequest ==
    {Free(p) : p \in Proposals \cup Analysed} \cup
    {[Helped EXCEPT !.form = f, !.filled = filled] :
        f \in {"announcement", "inspection", "repair"}, filled \in {Full, Missing}} \cup
    {[Helped EXCEPT !.announces = TRUE, !.notice = TRUE, !.form = "repair"],
     [Helped EXCEPT !.inspects = "query"]}
=============================================================================
