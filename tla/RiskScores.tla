---- MODULE RiskScores ----
(***************************************************************************)
(* The scoring engine (iams/risk_engine.py): one current score per entity  *)
(* for a scoring model, its composite, and the dense ranks, written by     *)
(* transactions that overlap.  A transaction sees what was committed when  *)
(* each of its statements began, and its own writes.                       *)
(***************************************************************************)
EXTENDS Integers, FiniteSets, Functions

CONSTANTS
  Scorer,    \* workers that record or recompute scores
  Unit,      \* auditable entities
  Scale,     \* scale_max of both factors; scale_min is 1
  Values,    \* the factor values a user may record
  Configs,   \* what the model's formula, threshold and weights may be
  MaxRuns,   \* scorings and edits an instance starts
  NoScore

Factor == {"likelihood", "impact"}
Off == -1   \* the weight of a factor that is unlinked or deactivated
Formulas == {"weighted_sum", "weighted_avg", "multiplicative", "impact_likelihood"}

Composites == 0..10000   \* hundredths of a point
Row == [values : Values, composite : Composites, high : BOOLEAN, rank : 0..Cardinality(Unit)]
Settings == [formula : Formulas, threshold : 0..100, weight : [Factor -> Nat \union {Off}]]

ASSUME RiskScoresAssumption ==
  /\ Scale \in Nat /\ Scale > 1
  /\ Values \subseteq [Factor -> 1..Scale]
  /\ Configs \subseteq Settings
  /\ MaxRuns \in Nat /\ IsFiniteSet(Unit)
  /\ NoScore \notin Nat /\ NoScore \notin Row

VARIABLES
  config,    \* the scoring model's row, its weights and their factors
  scores,    \* the current score of each entity, or NoScore
  scoring,   \* the transaction each worker is in
  tidy,      \* history: the last scoring to commit overlapped no other
  started    \* scorings and edits so far

scoreVars == <<config, scores, scoring, tidy, started>>

NoRank == 0

----
\* _factor_lookup: only linked, active factors take part.
Linked(c) == {f \in Factor : c.weight[f] # Off}
TotalWeight(c) == SumFunctionOnSet(c.weight, Linked(c))

\* A ratio as a composite: hundredths, rounded half up.
Quantized(num, den) == (2 * 10000 * num + den) \div (2 * den)

\* Faulty variant: the scale is taken to start at zero.
WeightedSumFromZero(c, v) ==
  IF TotalWeight(c) = 0 THEN 0
  ELSE Quantized(SumFunctionOnSet([f \in Factor |-> v[f] * c.weight[f]], Linked(c)),
                 (Scale - 1) * TotalWeight(c))

WeightedSum(c, v) ==
  IF TotalWeight(c) = 0 THEN 0
  ELSE Quantized(SumFunctionOnSet([f \in Factor |-> (v[f] - 1) * c.weight[f]], Linked(c)),
                 (Scale - 1) * TotalWeight(c))

WeightedAvg(c, v) ==
  IF TotalWeight(c) = 0 THEN 0
  ELSE Quantized(SumFunctionOnSet([f \in Factor |-> v[f] * c.weight[f]], Linked(c)),
                 Scale * TotalWeight(c))

Multiplicative(c, v) ==
  IF Linked(c) # Factor THEN NoScore
  ELSE Quantized(v["likelihood"] * v["impact"], Scale * Scale)

\* The mean of the group subtotals; each group has one factor here, and a group
\* without weight has no subtotal.
ImpactLikelihood(c, v) ==
  LET groups == {f \in Linked(c) : c.weight[f] > 0} IN
  IF groups = {} THEN NoScore
  ELSE Quantized(SumFunctionOnSet([f \in Factor |-> v[f] - 1], groups),
                 (Scale - 1) * Cardinality(groups))

\* compute_composite; NoScore where it raises.
Composite(c, v) ==
  IF Linked(c) = {} THEN NoScore
  ELSE CASE c.formula = "weighted_sum" -> WeightedSum(c, v)
         [] c.formula = "weighted_avg" -> WeightedAvg(c, v)
         [] c.formula = "multiplicative" -> Multiplicative(c, v)
         [] OTHER -> ImpactLikelihood(c, v)

IsHigh(c, composite) == composite >= 100 * c.threshold

----
Free == [stage |-> "free"]
\* model: formula and threshold as loaded; todo: values still to be scored, with
\* the row they were read from; new: rows flipped and inserted, not committed;
\* ranks: rank updates to come; apart: nobody has overlapped it; still: nor
\* edited the model under a recompute.
Busy(w) == scoring[w].stage # "free"
InFlight == {w \in Scorer : Busy(w)}

ScoreTypeOK ==
  /\ config \in Configs
  /\ scores \in [Unit -> Row \union {NoScore}]
  /\ \A w \in InFlight :
       /\ scoring[w].stage \in {"scoring", "waiting", "ranked"}
       /\ Range(scoring[w].new) \subseteq Row
       /\ DOMAIN scoring[w].ranks \subseteq Unit
  /\ tidy \in BOOLEAN /\ started \in 0..MaxRuns

ScoreInit ==
  /\ config \in Configs
  /\ scores = [u \in Unit |-> NoScore]
  /\ scoring = [w \in Scorer |-> Free]
  /\ tidy = TRUE /\ started = 0

Empty == [u \in {} |-> 0]
Begin(w, bulk, todo) ==
  /\ ~Busy(w) /\ started < MaxRuns /\ started' = started + 1
  /\ scoring' = [x \in Scorer |->
    IF x = w THEN [stage |-> "scoring", bulk |-> bulk, todo |-> todo, new |-> Empty,
                   model |-> config, ranks |-> Empty, apart |-> InFlight = {},
                   still |-> bulk /\ InFlight = {}]
    ELSE IF Busy(x) THEN [scoring[x] EXCEPT !.apart = FALSE, !.still = FALSE] ELSE scoring[x]]
  /\ UNCHANGED <<config, scores, tidy>>

\* POST /risk/scores/record/
RecordScore(w, u, v) ==
  Begin(w, FALSE, [x \in {u} |-> [values |-> v, composite |-> -1, high |-> FALSE]])

\* recompute_all_scores_for_model, from its endpoint or its task: the list of
\* current rows is read once.
Recompute(w) ==
  Begin(w, TRUE, [u \in {u \in Unit : scores[u] # NoScore} |->
                    [values |-> scores[u].values, composite |-> scores[u].composite,
                     high |-> scores[u].high]])

\* The row record_score would insert: weights as they are now, formula and
\* threshold as loaded.
Applied(w) == [scoring[w].model EXCEPT !.weight = config.weight]
Scored(w, u) ==
  LET v == scoring[w].todo[u].values
      c == Composite(Applied(w), v)
  IN [values |-> v, composite |-> c, high |-> IsHigh(Applied(w), c), rank |-> NoRank]

Holder(u) == {w \in InFlight : u \in DOMAIN scoring[w].new}
Others(w, u) == Holder(u) \ {w}

\* Faulty variant: the composite alone is compared.
SameComposite(read, row) == row.composite = read.composite

\* What a recompute would write is what it read.
Unchanged(read, row) == row.composite = read.composite /\ row.high = read.high

\* One entity: skipped by a recompute that would change nothing, refused (and
\* everything rolled back) by a model that cannot score, otherwise the current
\* row is flipped and the new one inserted, once nobody else is doing so.
ScoreUnit(w, u) ==
  /\ scoring[w].stage = "scoring" /\ u \in DOMAIN scoring[w].todo
  /\ LET read == scoring[w].todo[u]
         left == Restrict(scoring[w].todo, DOMAIN scoring[w].todo \ {u})
         composite == Composite(Applied(w), read.values)
         row == Scored(w, u)
         new == scoring[w].new
     IN scoring' = [scoring EXCEPT ![w] =
          IF composite = NoScore THEN Free
          ELSE IF scoring[w].bulk /\ Unchanged(read, row)
               THEN [@ EXCEPT !.todo = left]
          ELSE IF Others(w, u) # {} THEN [@ EXCEPT !.stage = "waiting", !.ranks = [x \in {u} |-> row]]
          ELSE [@ EXCEPT !.todo = left,
                         !.new = [x \in DOMAIN new \union {u} |-> IF x = u THEN row ELSE new[x]]]]
  /\ UNCHANGED <<config, scores, tidy, started>>

\* The holder rolled back: the waiting statements go on.
Resume(w) ==
  /\ scoring[w].stage = "waiting"
  /\ LET s == scoring[w]
         held == DOMAIN s.ranks
     IN /\ \A u \in held : Others(w, u) = {}
        /\ scoring' = [scoring EXCEPT ![w] =
             [s EXCEPT !.stage = "scoring", !.ranks = Empty,
                       !.todo = Restrict(s.todo, DOMAIN s.todo \ held),
                       !.new = [x \in DOMAIN s.new \union held |->
                                  IF x \in held THEN s.ranks[x] ELSE s.new[x]]]]
  /\ UNCHANGED <<config, scores, tidy, started>>

\* recompute_ranks: the list of current rows this transaction sees, and their
\* dense ranks.
Seen(w, u) == IF u \in DOMAIN scoring[w].new THEN scoring[w].new[u] ELSE scores[u]
\* Faulty variant: rows are counted, not composites.
CompetitionRank(w, u) ==
  Cardinality({x \in Unit : Seen(w, x) # NoScore /\ Seen(w, x).composite >= Seen(w, u).composite})

DenseRank(w, u) ==
  Cardinality({Seen(w, x).composite : x \in {x \in Unit : /\ Seen(w, x) # NoScore
    /\ Seen(w, x).composite >= Seen(w, u).composite}})

RankScores(w) ==
  /\ scoring[w].stage = "scoring" /\ scoring[w].todo = Empty
  /\ LET changed == {u \in Unit : Seen(w, u) # NoScore /\ Seen(w, u).rank # DenseRank(w, u)}
     IN scoring' = [scoring EXCEPT ![w].stage = "ranked",
                                   ![w].ranks = [u \in changed |-> DenseRank(w, u)]]
  /\ UNCHANGED <<config, scores, tidy, started>>

\* The ranks are written, once the rows to update are not being flipped by
\* another, and everything is committed.  A row another scoring has replaced
\* since the list was read is not the current one any more; whoever waited to
\* insert a current row of the same entity fails on the unique constraint.
CommitScores(w) ==
  /\ scoring[w].stage = "ranked"
  /\ \A u \in DOMAIN scoring[w].ranks : Others(w, u) = {}
  /\ LET s == scoring[w] IN
       /\ scores' = [u \in Unit |->
            IF u \in DOMAIN s.ranks THEN [Seen(w, u) EXCEPT !.rank = s.ranks[u]] ELSE Seen(w, u)]
       /\ scoring' = [x \in Scorer |->
            IF \/ x = w \/ ~Busy(x)
               \/ scoring[x].stage = "waiting" /\ DOMAIN scoring[x].ranks \intersect DOMAIN s.new # {}
            THEN Free
            ELSE IF scoring[x].stage = "ranked"
            THEN [scoring[x] EXCEPT !.ranks =
                    Restrict(scoring[x].ranks, DOMAIN scoring[x].ranks \ DOMAIN s.new)]
            ELSE scoring[x]]
       /\ tidy' = s.apart
  /\ UNCHANGED <<config, started>>

\* A deadlock victim, a lost connection: everything is rolled back.
AbortScores(w) ==
  /\ Busy(w)
  /\ scoring' = [scoring EXCEPT ![w] = Free]
  /\ UNCHANGED <<config, scores, tidy, started>>

\* A PATCH of the model, its weights or a factor.
EditModel(c) ==
  /\ config' = c /\ c # config
  /\ started < MaxRuns /\ started' = started + 1
  /\ scoring' = [w \in Scorer |-> IF Busy(w) THEN [scoring[w] EXCEPT !.still = FALSE] ELSE scoring[w]]
  /\ UNCHANGED <<scores, tidy>>

ScoreNext ==
  \/ \E w \in Scorer :
       \/ \E u \in Unit, v \in Values : RecordScore(w, u, v)
       \/ \E u \in Unit : ScoreUnit(w, u)
       \/ Recompute(w) \/ Resume(w) \/ RankScores(w) \/ CommitScores(w) \/ AbortScores(w)
  \/ \E c \in Configs : EditModel(c)

ScoreSpec == ScoreInit /\ [][ScoreNext]_scoreVars

----
\* After a scoring that overlapped no other, the ranks are dense and follow the
\* composites, whatever overlapping scorings before it had left behind.
Current == {u \in Unit : scores[u] # NoScore}
RanksDense ==
  tidy => \A u \in Current :
    scores[u].rank = Cardinality({scores[x].composite :
      x \in {x \in Current : scores[x].composite >= scores[u].composite}})

\* A recompute that nobody overlapped and no edit of the model came into leaves
\* every current score what the model now makes of its values, the high-risk
\* flag included: a threshold edit moves the flag and not the composite.
Fresh(row, c) == row.composite = Composite(c, row.values) /\ row.high = IsHigh(c, row.composite)
RecomputeCatchesUp ==
  [][\A w \in Scorer : Busy(w) /\ scoring[w].still /\ CommitScores(w)
       => \A u \in Unit : scores[u] # NoScore => Fresh(scores'[u], config)]_scoreVars
====
