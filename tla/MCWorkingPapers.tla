---- MODULE MCWorkingPapers ----
(***************************************************************************)
(* Instances of WorkingPapers for TLC: two chains of one engagement.       *)
(***************************************************************************)
EXTENDS WorkingPapers, TLC

CONSTANT a1

MCAuditOf == [f \in Refs |-> a1]

Symmetry == Permutations(Papers) \cup Permutations(Workers) \cup Permutations(Users)
====
