---- MODULE MCAssurance ----
(***************************************************************************)
(* An instance of Assurance for TLC.  Its modules share no state, so that  *)
(* their product would only multiply the states: a behaviour takes the     *)
(* steps of one of them, the area it starts in.                            *)
(***************************************************************************)
EXTENDS Assurance, TLC

CONSTANTS w1, w2, x1, x2, p1, p2

\* Scores: two values of the factors that rank either way, and a model that
\* weighs both factors (under two thresholds), only the impact, or only the likelihood.
Both(l, i) == [f \in Factor |-> IF f = "impact" THEN i ELSE l]
MCValues == {Both(1, 2), Both(2, 1)}
MCConfigs ==
  {[formula |-> "weighted_sum", threshold |-> 50, weight |-> Both(1, 1)],
   [formula |-> "weighted_sum", threshold |-> 60, weight |-> Both(1, 1)],
   [formula |-> "impact_likelihood", threshold |-> 70, weight |-> Both(0, 1)],
   [formula |-> "multiplicative", threshold |-> 50, weight |-> Both(1, Off)]}

\* Models: two versions of one name and another model.
MCModels == {"m1", "m2", "other"}
MCModelName == [m \in MCModels |-> IF m = "other" THEN "other" ELSE "m"]

\* Plans: a mandatory entity that is overdue, one never audited, a high-risk one
\* audited lately whose row is incomplete, and one a regulator mandates.
MCProfiles ==
  LET P(required, months, composite, days, met) ==
        [required |-> required, source |-> "RiskBased", rating |-> "Medium",
         months |-> months, composite |-> composite, days |-> days, met |-> met]
  IN {P(TRUE, 30, 20, 60, Criteria), P(FALSE, Never, 50, 60, Criteria),
      P(FALSE, 3, 90, 20, Criteria \ {"effort", "materiality"}),
      [P(FALSE, 30, 60, 40, Criteria \ {"effort"}) EXCEPT !.source = "Mandated", !.rating = "High"]}
MCAsks ==
  LET Shape(a, r) == [auditors |-> a, days |-> 100, direct |-> 0, reserve |-> r]
      A(c, n, g, m) == [capacity |-> c, topN |-> n, gate |-> g, mandatory |-> m]
  IN {A(NoCapacity, 2, 80, TRUE), A(Shape(2, 50), 2, NoGate, TRUE),
      A(Shape(2, 10), 3, NoGate, FALSE), A(Shape(2, 0), 3, 80, TRUE), A(Shape(0, 0), 3, 80, TRUE)}

\* Deliveries: two versions of an entity, and a finding with and without what it needs.
MCMessages ==
  LET M(kind, payload, complete, titled) ==
        [kind |-> kind, payload |-> payload, complete |-> complete, titled |-> titled]
  IN {M("entity", "a", TRUE, FALSE), M("entity", "b", TRUE, FALSE), M("finding", "a", TRUE, TRUE),
      M("finding", "a", TRUE, FALSE), M("finding", "a", FALSE, FALSE)}

\* Ratings: the third entity, which is no department, is the worst.
MCSeverity == [e \in Entity |-> IF e = p1 THEN 3 ELSE 2]

VARIABLE area

Areas == {"scores", "models", "plans", "csa", "icfr", "entity", "finding", "outbound",
          "engagements", "tree", "materiality"}

\* What an area leaves open in its initial states is settled in the others; the
\* names of the source are alike, and it starts under the first.
Init ==
  /\ area \in Areas
  /\ AssuranceInit
  /\ source = p1
  /\ area # "scores" => config = CHOOSE c \in MCConfigs : TRUE
  /\ area # "models" => active = {}
  /\ area # "icfr" => test = [status |-> "planned", management |-> "not_tested", auditor |-> "not_tested"]
  /\ area # "plans" => profile = CHOOSE p \in [Names -> Profiles] : TRUE

\* Deliveries of the two kinds meet in no row either.
Delivers(kind) == \A h \in Hook : hooks'[h] # NoHook => hooks'[h].msg.kind = kind

\* Nothing is claimed once a module's history says its premise is gone: what
\* follows is not explored.
Next ==
  /\ \/ area = "scores" /\ ScoreMoves
     \/ area = "models" /\ ModelMoves
     \/ area = "plans" /\ PlanMoves
     \/ area = "csa" /\ ~spoiled /\ CsaMoves
     \/ area = "icfr" /\ ~overridden /\ IcfrMoves
     \/ area \in ExternalKinds /\ InboundMoves /\ Delivers(area)
     \/ area = "outbound" /\ OutboundMoves
     \/ area = "engagements" /\ ~missed /\ EngagementMoves
     \/ area = "tree" /\ ~overtaken /\ TreeMoves
     \/ area = "materiality" /\ MaterialityMoves
  /\ UNCHANGED area

Spec == Init /\ [][Next]_<<area, assuranceVars>>

Symmetry == Permutations({w1, w2}) \union Permutations({x1, x2})
====
