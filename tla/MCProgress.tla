----------------------------- MODULE MCProgress -----------------------------
(***************************************************************************)
(* What must eventually happen: turns end and let go of their              *)
(* conversation, messages settle, streamed responses end and let go of     *)
(* their slot.  The components share no state here; each has its scene.    *)
(***************************************************************************)
EXTENDS Outbox

CONSTANTS Run, NoRun, Fenced, Action, NoProposal, NoCursor, TurnKind,
          Streamed, Capacity, Limit, MaxProgress

VARIABLES scene,
          lease, held, worker, locker, log, head, conv, turn, approval, objs, accepted, cancelled,
          accepting, slots, drain, producer, buffer, reader, got

\* Every run may be any request.
T == INSTANCE AgentTurn WITH Kinds <- [r \in Run |-> TurnKind]
S == INSTANCE Stream

ASSUME ProgressAssumption ==
    T!RunAssumption /\ T!TurnAssumption /\ OutboxAssumption /\ S!StreamAssumption

turnVars ==
    <<lease, held, worker, locker, log, head, conv, turn, approval, objs, accepted, cancelled>>
streamVars == <<accepting, slots, drain, producer, buffer, reader, got>>

MCInit == Init /\ T!TurnInit /\ S!StreamInit /\ scene \in {"turns", "outbox", "streams"}

MCNext ==
    /\ UNCHANGED scene
    /\ \/ scene = "turns" /\ T!TurnNext /\ UNCHANGED <<outboxVars, streamVars>>
       \/ scene = "outbox" /\ Next /\ UNCHANGED <<turnVars, streamVars>>
       \/ scene = "streams" /\ S!StreamNext /\ UNCHANGED <<turnVars, outboxVars>>

MCSpec ==
    /\ MCInit /\ [][MCNext]_<<turnVars, outboxVars, streamVars, scene>>
    /\ T!TurnFairness /\ Fairness /\ S!StreamFairness

\* Those of the turns and the streams; that of the messages is Outbox's.
TurnsEnd == T!TurnsEnd
LeaseComesFree == T!LeaseComesFree
StreamsEnd == S!StreamsEnd
=============================================================================
