---- MODULE MCAuditUniverse ----
(***************************************************************************)
(* Instances of AuditUniverse for TLC.                                     *)
(***************************************************************************)
EXTENDS AuditUniverse, TLC

CONSTANTS e2, t1

\* A low and a high residual position, so that the default rating differs
\* from both.
MCPositions == {<<1, 5>>, <<4, 3>>}

\* A high-risk snapshot and one that has stopped being so.
MCScores == {[high |-> TRUE, band |-> "High"], [high |-> FALSE, band |-> "Low"]}

\* A model that holds the first entity for high-risk.
MCModelScores == {[e \in Entities |-> IF e = e2 THEN None ELSE [high |-> TRUE, band |-> "High"]]}

\* The second entity is there, before the others, for a risk to be moved to and
\* from, by one worker at a time.
OnlyHoldsRisks(e) ==
  /\ score[e] = None
  /\ \/ row[e] = Absent /\ \A f \in Entities : row[f] = Absent
     \/ /\ row[e] # Absent
        /\ row[e].text = t1 /\ row[e].status = "Active" /\ ~row[e].pinned /\ row[e].version <= 2
        /\ 1 \in revisions[e]
  /\ \A w \in Workers : job[w] # Idle /\ e \in {job[w].entity, job[w].next} =>
       job[w].verb \notin Verbs /\ \A v \in Workers \ {w} : job[v] = Idle

\* Nothing is claimed of a raced entity, and it stays raced: what follows is
\* not explored.
Bounded == raced = {} /\ OnlyHoldsRisks(e2)

Symmetry == Permutations(Workers)
====
