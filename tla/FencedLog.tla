----------------------------- MODULE FencedLog -----------------------------
(***************************************************************************)
(* What the run lease promises to the business side, without leases,       *)
(* clocks or transactions: ownership of a conversation is a sequence of    *)
(* epochs, and the mutations the agent commits for that conversation carry *)
(* the epoch they were made in, at most one per epoch and never out of     *)
(* epoch order.  RunLease implements this specification.                   *)
(***************************************************************************)
EXTENDS Naturals, Sequences

VARIABLES
    epoch,  \* the fence of the run that owns the conversation, 0 before any
    log     \* the epochs of the committed business mutations, oldest first

Init ==
    /\ epoch = 0
    /\ log = <<>>

\* A new run takes the conversation over.
NewEpoch ==
    /\ epoch' = epoch + 1
    /\ UNCHANGED log

\* The run that owns the conversation commits its one business mutation.
Write ==
    /\ epoch > 0
    /\ \A i \in DOMAIN log : log[i] < epoch
    /\ log' = Append(log, epoch)
    /\ UNCHANGED epoch

Next == NewEpoch \/ Write

Spec == Init /\ [][Next]_<<epoch, log>>
=============================================================================
