----------------------------- MODULE Inspection -----------------------------
(***************************************************************************)
(* The inspection context: the tasks of InspectionTask and the events of   *)
(* SecurityEvent, for the same managers and the same security staff.  They *)
(* share no row, so that a step is one of either.                          *)
(***************************************************************************)
EXTENDS InspectionTask

CONSTANTS Event, Resident, EventType, MaxEventVersion   \* of SecurityEvent

VARIABLES event, log, disposal, told, ticket, active, eventRequest

E == INSTANCE SecurityEvent WITH request <- eventRequest, MaxVersion <- MaxEventVersion

ASSUME EventAssumption == Nobody \notin Resident /\ MaxEventVersion \in Nat

eventVars == <<event, log, disposal, told, ticket, active, eventRequest>>

InspectionInit == Init /\ E!Init

TaskStep == Next /\ UNCHANGED eventVars
EventStep == E!Next /\ UNCHANGED vars
InspectionNext == TaskStep \/ EventStep

InspectionSpec == InspectionInit /\ [][InspectionNext]_<<vars, eventVars>>

-----------------------------------------------------------------------------
\* A report of high risk reaches someone, once.
HighRiskReachesSomeone == E!HighRiskReachesSomeone

\* An event is closed as it was handled.
ClosedAsReviewed == E!ClosedAsReviewed

\* Both components offer what they accept.
OffersAgreeInBoth == OffersAgree /\ E!OffersAgree
=============================================================================
