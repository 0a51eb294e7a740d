---- MODULE MCApprovals ----
(***************************************************************************)
(* Instances of Approvals for TLC.  A chain of two or three steps through  *)
(* an Audit Manager and a CAE, a Super Admin who may take any step, SLAs   *)
(* of one tick and a dedupe window of one tick: long enough for a step to  *)
(* be on time, due, overdue, freshly escalated and chased again.           *)
(***************************************************************************)
EXTENDS Approvals, TLC

CONSTANTS r1, r2, w1, w2, mgr, cae, root, Mgr, Cae, cap

MCRoleOf == [u \in Users |-> CASE u = mgr -> Mgr [] u = cae -> Cae [] OTHER -> NoRole]
MCSuperAdmins == Users \cap {root}

Short == <<[role |-> Mgr, sla |-> 1], [role |-> Cae, sla |-> 1]>>
Long == Append(Short, [role |-> Cae, sla |-> 1])

MCRef == [r \in Requests |-> cap]

ShortTemplate == [r \in Requests |-> Short]
LongTemplate == [r \in Requests |-> Long]
OneTemplate == [r \in Requests |-> Tail(Short)]
MixedTemplate == [r \in Requests |-> IF r = r1 THEN Short ELSE Tail(Short)]

Plain(chain) == [status |-> "Pending", cur |-> 0, steps |-> chain]
NoInline == {Plain(<<>>)}
Inline(n, st) == <<[order |-> n, role |-> NoRole, approver |-> root, status |-> st]>>
FirstInline == {Plain(Inline(0, "Pending"))}
\* A body without steps, one whose step waits behind the template's, and one
\* that sends request and step as already handled.
AnyBody == NoInline \cup {Plain(Inline(1, "Pending")),
                         [status |-> "Approved", cur |-> 1, steps |-> Inline(0, "Returned")]}

NoBudget == [k \in Bounded |-> 0]
TaskFaultAndDelete == [NoBudget EXCEPT !.task = 1, !.delete = 1]
WebFaultAndDelete == [NoBudget EXCEPT !.web = 1, !.delete = 1]

Symmetry == Permutations(Workers)
====
