------------------------------ MODULE Catalog ------------------------------
(***************************************************************************)
(* The capabilities that the agent declares, those that are given an       *)
(* adapter when a process is composed, and the table by which an intent    *)
(* and an action name one without a plan of the model.  A capability is    *)
(* its name, its domain and its approval posture; its risk follows from    *)
(* the posture, and its input and output types are those of its adapter.   *)
(***************************************************************************)
EXTENDS FiniteSets

CapabilitySpec(domain, posture, names) ==
    {[name |-> n, domain |-> domain, posture |-> posture] : n \in names}

\* _spec: what has a title for a confirmation is a write that asks for it.
Reads(domain, names) == CapabilitySpec(domain, "none", names)
Asks(domain, names) == CapabilitySpec(domain, "policy", names)
ForHumans(domain, names) == CapabilitySpec(domain, "human-only", names)

CoreSpecs ==
    Reads("repair", {"repair_list", "repair_get"}) \cup Asks("repair", {"repair_create"})
    \cup Reads("billing", {"billing_query"}) \cup Asks("billing", {"billing_consult"})

AnnouncementSpecs ==
    Reads("announcement", {"announcement_list", "announcement_get", "community_knowledge_search",
                           "announcement_draft", "announcement_revise"})
    \cup Asks("announcement", {"announcement_create_draft", "announce_publish",
                               "announcement_schedule_publish"})

InspectionReadSpecs ==
    Reads("inspection", {"inspection_list", "inspection_get_task", "inspection_get_event"})
InspectionWriteSpecs ==
    Asks("inspection", {"inspection_create", "inspection_start_task", "inspection_add_record",
                        "inspection_submit_records", "inspection_ai_suggest"})
InspectionEventSpecs ==
    Asks("inspection", {"security_event_create", "security_event_submit_disposal"})
    \cup ForHumans("inspection", {"close_high_risk_event"})

Specs == CoreSpecs \cup AnnouncementSpecs \cup InspectionReadSpecs
         \cup InspectionWriteSpecs \cup InspectionEventSpecs

Names == {x.name : x \in Specs}
SpecOf(name) == CHOOSE x \in Specs : x.name = name
Aliases == [inspection_create_task |-> "inspection_create",
            inspection_submit_record |-> "inspection_add_record"]

\* What the registry refuses to be made of: a name that is declared twice, an
\* alias that is a name, or that stands for none.
Registers ==
    /\ Cardinality(Names) = Cardinality(Specs)
    /\ \A a \in DOMAIN Aliases : a \notin Names /\ Aliases[a] \in Names

\* build_capability_executor, with all services there.
Adapters ==
    {"repair_list", "repair_get", "repair_create", "billing_query", "billing_consult"}
    \cup {x.name : x \in AnnouncementSpecs \cup InspectionReadSpecs \cup InspectionWriteSpecs}
    \cup {"security_event_create", "security_event_submit_disposal"}

\* The reads by an identifier whose specialist asks for a list instead.
Replacement == [c \in {"inspection_get_task", "inspection_get_event"} |-> "inspection_list"]

\* _bounded_capability: an action of an intent.  identified: an order is named.
Bounded(identified) ==
    [repair |-> [create |-> "repair_create", list |-> "repair_list",
                 query |-> IF identified THEN "repair_get" ELSE "repair_list"],
     billing |-> [query |-> "billing_query", list |-> "billing_query",
                  consult |-> "billing_consult"],
     announcement |->
        [list |-> "announcement_list", knowledge |-> "community_knowledge_search",
         get |-> "announcement_get", draft |-> "announcement_draft",
         revise |-> "announcement_revise", create |-> "announcement_create_draft",
         publish |-> "announce_publish", schedule |-> "announcement_schedule_publish"],
     inspection |->
        [list |-> "inspection_list", query |-> "inspection_list",
         get_task |-> "inspection_get_task", get_event |-> "inspection_get_event",
         create |-> "inspection_create", report_event |-> "security_event_create"]]

\* What the table names is declared for the domain, and something carries it out.
Reachable ==
    \A identified \in BOOLEAN : \A d \in DOMAIN Bounded(identified) :
        \A a \in DOMAIN Bounded(identified)[d] :
            LET name == Bounded(identified)[d][a] IN
            /\ name \in Names \cap Adapters
            /\ SpecOf(name).domain = d
=============================================================================
