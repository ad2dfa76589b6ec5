---------------------------- MODULE Confirmation ----------------------------
(***************************************************************************)
(* The confirmation of one action with one set of parameters in one        *)
(* conversation: a token for each confirmation, the approvals these share, *)
(* and the business write that consumes both.                              *)
(*                                                                         *)
(* The lease of the conversation keeps confirmations apart only while it   *)
(* holds; here they overlap.  Every step up to the write is a transaction  *)
(* of its own.                                                             *)
(***************************************************************************)
EXTENDS Naturals, Sequences, FiniteSets

CONSTANTS
    Confirm,       \* confirmations, each by one run of the conversation
    MaxApprovals   \* bound: rows of agent_action_approvals

VARIABLES
    approval,   \* rows of agent_action_approvals
    token,      \* token[t]: the row of confirmation_tokens that t was issued
    confirm,    \* confirm[t]: how far t is, and its approval
    written     \* the approvals under which something was written, in order

confirmVars == <<approval, token, confirm, written>>

ApprovalRow == [status : {"PENDING", "APPROVED", "CONSUMED", "EXPIRED"}, over : BOOLEAN]
TokenRow == [status : {"NONE", "ISSUED", "CONSUMED"}, over : BOOLEAN]
At == {"NONE", "ISSUED", "MISSING", "PENDING", "APPROVED", "WRITING", "OUT"}

ConfirmTypeOK ==
    /\ approval \in Seq(ApprovalRow)
    /\ token \in [Confirm -> TokenRow]
    /\ confirm \in [Confirm -> [at : At, ref : 0..Len(approval)]]
    /\ written \in Seq(DOMAIN approval)

ConfirmInit ==
    /\ approval = <<>>
    /\ token = [t \in Confirm |-> [status |-> "NONE", over |-> FALSE]]
    /\ confirm = [t \in Confirm |-> [at |-> "NONE", ref |-> 0]]
    /\ written = <<>>

-----------------------------------------------------------------------------
Goto(t, at) == confirm' = [confirm EXCEPT ![t].at = at]
Refers(t, at, i) == confirm' = [confirm EXCEPT ![t] = [at |-> at, ref |-> i]]

\* _select_open_approval; whether it is still valid is not asked.
IsOpen(i) == approval[i].status \in {"PENDING", "APPROVED"}
OpenApprovals == {i \in DOMAIN approval : IsOpen(i)}

\* A row that a business transaction has consumed is locked until it ends.
Unlocked(i) == \A t \in Confirm : confirm[t].at = "WRITING" => confirm[t].ref # i

\* generate_token
IssueToken(t) ==
    /\ confirm[t].at = "NONE"
    /\ token' = [token EXCEPT ![t].status = "ISSUED"]
    /\ Goto(t, "ISSUED")
    /\ UNCHANGED <<approval, written>>

\* create_pending, its lookup
FindOpen(t) ==
    /\ confirm[t].at = "ISSUED"
    /\ \A i \in OpenApprovals : Unlocked(i)
    /\ IF OpenApprovals = {} THEN Goto(t, "MISSING")
       ELSE \E i \in OpenApprovals : Refers(t, "PENDING", i)
    /\ UNCHANGED <<approval, token, written>>

\* The open approval that the partial unique index finds at the insert.
InTheWay == OpenApprovals

\* create_pending, its insert in a savepoint: the approval that came first is
\* taken instead.
Insert(t) ==
    /\ confirm[t].at = "MISSING"
    /\ \A i \in InTheWay : Unlocked(i)
    /\ IF InTheWay = {}
       THEN /\ Len(approval) < MaxApprovals
            /\ approval' = Append(approval, [status |-> "PENDING", over |-> FALSE])
            /\ Refers(t, "PENDING", Len(approval) + 1)
       ELSE /\ \E i \in InTheWay : Refers(t, "PENDING", i)
            /\ UNCHANGED approval
    /\ UNCHANGED <<token, written>>

\* Mutant: an approval that is approved already will do.
ApprovableOpen(i) == IsOpen(i)

\* approve takes a PENDING approval only.
Approvable(i) == approval[i].status = "PENDING"

\* approve
Approve(t) ==
    LET i == confirm[t].ref IN
    /\ confirm[t].at = "PENDING" /\ Unlocked(i)
    /\ IF Approvable(i)
       THEN /\ approval' = [approval EXCEPT ![i].status =
                               IF approval[i].over THEN "EXPIRED" ELSE "APPROVED"]
            /\ Goto(t, IF approval[i].over THEN "OUT" ELSE "APPROVED")
       ELSE Goto(t, "OUT") /\ UNCHANGED approval
    /\ UNCHANGED <<token, written>>

\* The two consume of the business transaction, the approval's and then the
\* token's: a consumed approval is let through, a consumed token is not.
Consumable(t) ==
    LET a == approval[confirm[t].ref] IN
    /\ a.status = "CONSUMED" \/ (a.status = "APPROVED" /\ ~a.over)
    /\ token[t].status = "ISSUED" /\ ~token[t].over

Consume(t) ==
    /\ confirm[t].at = "APPROVED" /\ Unlocked(confirm[t].ref)
    /\ Goto(t, IF Consumable(t) THEN "WRITING" ELSE "OUT")
    /\ UNCHANGED <<approval, token, written>>

\* The commit of the write and of what it has consumed.
CommitWrite(t) ==
    /\ confirm[t].at = "WRITING"
    /\ approval' = [approval EXCEPT ![confirm[t].ref].status = "CONSUMED"]
    /\ token' = [token EXCEPT ![t].status = "CONSUMED"]
    /\ written' = Append(written, confirm[t].ref)
    /\ Goto(t, "OUT")

\* A write that fails, a lease that is lost, or a crash.
Fail(t) ==
    /\ confirm[t].at \notin {"NONE", "OUT"}
    /\ Goto(t, "OUT")
    /\ UNCHANGED <<approval, token, written>>

\* Five minutes are over.
ApprovalExpires(i) ==
    /\ ~approval[i].over
    /\ approval' = [approval EXCEPT ![i].over = TRUE]
    /\ UNCHANGED <<token, confirm, written>>

TokenExpires(t) ==
    /\ token[t].status = "ISSUED" /\ ~token[t].over
    /\ token' = [token EXCEPT ![t].over = TRUE]
    /\ UNCHANGED <<approval, confirm, written>>

ConfirmNext ==
    \/ \E t \in Confirm :
          \/ IssueToken(t) \/ FindOpen(t) \/ Insert(t) \/ Approve(t)
          \/ Consume(t) \/ CommitWrite(t) \/ Fail(t) \/ TokenExpires(t)
    \/ \E i \in DOMAIN approval : ApprovalExpires(i)

ConfirmSpec == ConfirmInit /\ [][ConfirmNext]_confirmVars

-----------------------------------------------------------------------------
\* Two confirmations of one action never have two approvals open, and of those
\* that share one only one writes: consume lets a consumed approval through,
\* but approve has let only one confirmation get there.
OneWritePerApproval ==
    /\ Cardinality(OpenApprovals) <= 1
    /\ \A m, n \in DOMAIN written : written[m] = written[n] => m = n

=============================================================================
