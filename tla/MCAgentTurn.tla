----------------------------- MODULE MCAgentTurn -----------------------------
(* Small instances of AgentTurn, with what its lease promises on its own.   *)
EXTENDS AgentTurn, TLC

CONSTANT TurnKind

\* Every run may be any request.
MCKinds == [r \in Run |-> TurnKind]

Symmetry == Permutations(Run)
=============================================================================
