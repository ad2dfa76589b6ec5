----------------------------- MODULE Capability -----------------------------
(***************************************************************************)
(* One invocation of a capability: what the registry declares, what the    *)
(* policy decides, the order in which CapabilityExecutor.execute checks,   *)
(* and how a specialist reads the answer.  Nothing here keeps state: the   *)
(* counters and the fingerprints travel in the checkpointed invocation     *)
(* record [calls, seen] of the plan.                                       *)
(*                                                                         *)
(* Arguments are opaque, except that Missing fails the input schema.       *)
(***************************************************************************)
EXTENDS Naturals, Sequences

CONSTANTS
    Capability,   \* the names the registry knows
    DomainOf,     \* the domain that declares each of them
    Posture,      \* the approval posture of each: none, policy or human-only
    Adapted,      \* the capabilities that were given an adapter
    ByIdentifier, \* the reads whose not-found answer asks for a list instead
    ListOf,       \* the list each of these is replaced with
    Missing,      \* arguments that lack a required field
    ListArgs,     \* the arguments of a replacing list
    MaxCalls      \* execution_policy.max_steps and max_calls, which are equal

ASSUME CapabilityAssumption ==
    /\ DomainOf \in [Capability -> STRING]
    /\ Posture \in [Capability -> {"none", "policy", "human-only"}]
    /\ Adapted \subseteq Capability /\ ByIdentifier \subseteq Capability
    /\ ListOf \in [ByIdentifier -> Capability]
    /\ MaxCalls \in Nat

Fingerprint(cap, args) == <<cap, args>>

Fresh == [calls |-> 0, seen |-> {}]

\* CapabilityPolicy._bounded_denial: what no approval can lift.
Denied(cap, args, invocation) ==
    \/ invocation.calls >= MaxCalls
    \/ Fingerprint(cap, args) \in invocation.seen

NeedsApproval(cap) == Posture[cap] # "none"
Writes(cap) == Posture[cap] = "policy"

\* The checks in their order; the first that fails is the answer.
Verdict(cap, args, invocation, confirmed) ==
    IF args = Missing THEN "INVALID"
    ELSE IF Denied(cap, args, invocation) THEN "DENIED"
    ELSE IF Posture[cap] = "human-only" THEN "HUMAN_ONLY"
    ELSE IF NeedsApproval(cap) /\ ~confirmed THEN "CONFIRM"
    ELSE IF cap \notin Adapted THEN "MISSING"
    ELSE "RUN"

\* What the adapter does when it is called, which is once: it answers with
\* data, refuses, or does its work and fails to say so (the service's commit
\* is followed by an exception or by an output its schema rejects).
Answers(cap, Data) ==
    [kind : {"ok"}, data : Data] \cup {[kind |-> "refused"]} \cup
    (IF Writes(cap) THEN {[kind |-> "lost"]} ELSE {}) \cup
    (IF cap \in ByIdentifier THEN {[kind |-> "not-found"]} ELSE {})

\* The specialist's reading of an invocation: interpret_error, or success.
Outcome(verdict, answer) ==
    CASE verdict = "INVALID" -> "NEEDS_CLARIFICATION"
      [] verdict = "HUMAN_ONLY" -> "HANDOVER"
      [] verdict = "CONFIRM" -> "HITL_REQUIRED"
      [] verdict \in {"DENIED", "MISSING"} -> "CAPABILITY_ERROR"
      [] verdict = "RUN" ->
           CASE answer.kind = "ok" -> "SUCCESS"
             [] answer.kind = "not-found" -> "REPLAN"
             [] answer.kind \in {"refused", "lost"} -> "CAPABILITY_ERROR"

\* Supervisor._record_capability_progress: asking for a confirmation is free,
\* every other outcome counts, and what reached the adapter is remembered.
Progress(invocation, cap, args, verdict) ==
    IF verdict = "CONFIRM" THEN invocation
    ELSE [calls |-> invocation.calls + 1,
          seen |-> invocation.seen \cup
                   (IF verdict = "RUN" THEN {Fingerprint(cap, args)} ELSE {})]
=============================================================================
