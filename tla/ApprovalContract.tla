-------------------------- MODULE ApprovalContract --------------------------
(***************************************************************************)
(* What an approval request promises, whatever the length of its chain:    *)
(* it is opened once, decided at most once, and the row it refers to (a    *)
(* corrective action, a report, a scoring model) is finalised in the very  *)
(* step that approves it and never otherwise.  It may be withdrawn at any  *)
(* time, which takes back no effect.  Approvals implements this contract   *)
(* when its handlers do not overlap.                                       *)
(***************************************************************************)
CONSTANTS Requests,  \* approval requests
          Targets,   \* rows an approved request finalises
          Ref,       \* Ref[r]: the row request r refers to, outside Targets if none
          Absent     \* the outcome of a request that was not opened

VARIABLES outcome,   \* outcome[r]: Absent, "Pending", "Approved", "Rejected" or "Withdrawn"
          done       \* the targets that have been finalised

Init ==
  /\ outcome = [r \in Requests |-> Absent]
  /\ done = {}

Open(r) ==
  /\ outcome[r] = Absent
  /\ outcome' = [outcome EXCEPT ![r] = "Pending"]
  /\ UNCHANGED done

Approve(r) ==
  /\ outcome[r] = "Pending"
  /\ outcome' = [outcome EXCEPT ![r] = "Approved"]
  /\ done' = done \cup ({Ref[r]} \cap Targets)

Reject(r) ==
  /\ outcome[r] = "Pending"
  /\ outcome' = [outcome EXCEPT ![r] = "Rejected"]
  /\ UNCHANGED done

Withdraw(r) ==
  /\ outcome[r] \in {"Pending", "Approved", "Rejected"}
  /\ outcome' = [outcome EXCEPT ![r] = "Withdrawn"]
  /\ UNCHANGED done

Next == \E r \in Requests : Open(r) \/ Approve(r) \/ Reject(r) \/ Withdraw(r)

Spec == Init /\ [][Next]_<<outcome, done>>
=============================================================================
