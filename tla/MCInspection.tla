---------------------------- MODULE MCInspection ----------------------------
(***************************************************************************)
(* Small instances of Inspection.  One of its two parts at a time is       *)
(* enough: each has a scene where two rows are created by requests that    *)
(* race, and one where a row is worked on.                                 *)
(***************************************************************************)
EXTENDS Inspection, TLC

CONSTANTS p1, p2

VARIABLE scene

P(points, planned, due) == [points |-> points, planned |-> planned, due |-> due]
MCPoint == {p1, p2}
MCPlan == {P({p1}, 0, 0), P({p1}, 1, 1), P({p1, p2}, 2, 0), P({p2}, 0, 1)}

Symmetry == Permutations(Task) \cup Permutations(Event) \cup Permutations(Thread)

Begun == Stored \cup {request[t].task : t \in {x \in Thread : request[x] # NoRequest}}
EventsBegun == E!Stored \cup
    {eventRequest[t].event : t \in {x \in Thread : eventRequest[x] # E!NoRequest}}

MCInit == InspectionInit /\ scene \in {"planning", "work", "reporting", "handling"}

MCNext ==
    /\ UNCHANGED scene
    /\ \/ scene = "planning" /\ TaskStep /\ Added' = 0
       \/ scene = "work" /\ TaskStep /\ Cardinality(Begun') <= 1
       \/ /\ scene = "reporting" /\ EventStep
          /\ \A t \in Thread : eventRequest'[t].action \in {"NONE", "CREATE"}
       \/ scene = "handling" /\ EventStep /\ Cardinality(EventsBegun') <= 1

MCSpec == MCInit /\ [][MCNext]_<<vars, eventVars, scene>>
=============================================================================
