---- MODULE AuditPlans ----
(***************************************************************************)
(* The annual plan draft: which scored entities fit into the days a team   *)
(* has, which spill over, and the reference under which the draft is       *)
(* filed, which is counted in one statement and inserted in another.       *)
(***************************************************************************)
EXTENDS Integers, FiniteSets, SequencesExt

CONSTANTS
  Planner,    \* requests that generate plans
  Names,      \* scored entities, by the name that breaks ties: integers
  Profiles,   \* what an entity's row and score may say
  Asks,       \* what a request may ask for
  MaxDrafts,  \* drafts an instance keeps
  Never, NoCapacity, NoGate

Criteria == {"owner", "objectives", "scope", "materiality", "score", "effort"}
Ratings == {"Critical", "High", "Medium", "Low"}
Shapes == [auditors : Int, days : Nat, direct : Int, reserve : Int]  \* per cent; 0 is unset

ASSUME AuditPlansAssumption ==
  /\ Names \subseteq Int /\ IsFiniteSet(Names) /\ MaxDrafts \in Nat
  /\ Profiles \subseteq [required : BOOLEAN, source : {"RiskBased", "Mandated"}, rating : Ratings,
       months : Nat \union {Never}, composite : Nat, days : Nat, met : SUBSET Criteria]
  /\ Asks \subseteq [capacity : Shapes \union {NoCapacity}, topN : Int,
       gate : Nat \union {NoGate}, mandatory : BOOLEAN]

VARIABLES
  profile,   \* the scored entities; they do not change here
  plan,      \* the plan last drawn up
  drafts,    \* suffix numbers of the filed drafts: 1 is PLAN-<year>, n is -r<n>
  filing,    \* the suffix each request has chosen, or 0
  alone      \* history: no draft was filed or deleted while another was on its way

planVars == <<profile, plan, drafts, filing, alone>>

----
\* readiness.score_only
Weight == [owner |-> 15, objectives |-> 15, scope |-> 15, materiality |-> 10, score |-> 30, effort |-> 15]
Readiness(u) == SumFunctionOnSet(Weight, profile[u].met)

\* available_audit_days, in whole days; a zero ratio or reserve counts as unset.
OrDefault(n, default) == IF n = 0 THEN default ELSE n
ShapeAllowed(c) ==
  /\ c.auditors > 0
  /\ OrDefault(c.direct, 65) \in 1..100
  /\ OrDefault(c.reserve, 15) \in 0..99
Available(c) ==
  (c.auditors * OrDefault(c.days, 230) * OrDefault(c.direct, 65) * (100 - OrDefault(c.reserve, 15)))
    \div 10000

CycleMonths(rating) == CASE rating \in {"Critical", "High"} -> 12 [] rating = "Medium" -> 24 [] OTHER -> 36

Mandated(u, ask) == ask.mandatory /\ (profile[u].required \/ profile[u].source = "Mandated")
Overdue(u) == profile[u].months = Never \/ profile[u].months >= CycleMonths(profile[u].rating)
Group(u, ask) == IF Mandated(u, ask) THEN 0 ELSE IF Overdue(u) THEN 1 ELSE 2

\* Mandated, then overdue, then by score, then by name.
Before(u, v, ask) ==
  LET key(x) == <<Group(x, ask), -profile[x].composite, x>> IN
  \E i \in 1..3 : key(u)[i] < key(v)[i] /\ \A j \in 1..i-1 : key(u)[j] = key(v)[j]

Assessed(ask) == {u \in Names : ask.gate = NoGate \/ Readiness(u) >= ask.gate}

\* Faulty variant: a mandated engagement must fit too.
FitsLikeAnother(s, u) ==
  /\ Len(s.selected) < s.ask.topN
  /\ s.ask.capacity # NoCapacity => profile[u].days <= s.remaining

Fits(s, u) ==
  IF s.ask.capacity = NoCapacity THEN Len(s.selected) < s.ask.topN
  ELSE Mandated(u, s.ask) \/ (Len(s.selected) < s.ask.topN /\ profile[u].days <= s.remaining)

\* The candidates, sorted: before the i-th come i - 1 of them.
Ordered(ask) ==
  [i \in 1..Cardinality(Assessed(ask)) |->
     CHOOSE u \in Assessed(ask) : Cardinality({v \in Assessed(ask) : Before(v, u, ask)}) = i - 1]

\* select_plan_entities: one pass over the sorted candidates.
FreshPlan(ask) ==
  [ask |-> ask, selected |-> <<>>, spilled |-> <<>>, used |-> 0,
   remaining |-> IF ask.capacity = NoCapacity THEN 0 ELSE Available(ask.capacity)]
Place(s, u) ==
  IF Fits(s, u)
  THEN [s EXCEPT !.selected = Append(s.selected, u), !.used = s.used + profile[u].days,
                 !.remaining = IF s.remaining > profile[u].days THEN s.remaining - profile[u].days ELSE 0]
  ELSE [s EXCEPT !.spilled = Append(s.spilled, u)]
Select(ask) ==
  LET order == Ordered(ask)
      after[n \in 0..Cardinality(Assessed(ask))] ==
        IF n = 0 THEN FreshPlan(ask) ELSE Place(after[n - 1], order[n])
  IN after[Cardinality(Assessed(ask))]

NoPlan == [selected |-> <<>>]

PlanTypeOK ==
  /\ profile \in [Names -> Profiles]
  /\ plan = NoPlan \/ /\ plan.ask \in Asks /\ plan.used \in Nat /\ plan.remaining \in Nat
                      /\ Range(plan.selected) \union Range(plan.spilled) \subseteq Names
  /\ drafts \in Seq(Nat \ {0}) /\ filing \in [Planner -> 0..MaxDrafts + 1]
  /\ alone \in BOOLEAN

PlanInit ==
  /\ profile \in [Names -> Profiles]
  /\ plan = NoPlan /\ drafts = <<>> /\ filing = [w \in Planner |-> 0] /\ alone = TRUE

\* generate_audit_plan_draft up to the count of the drafts of that year.
DrawUp(w, ask) ==
  /\ filing[w] = 0 /\ Len(drafts) < MaxDrafts
  /\ ask.topN > 0 /\ (ask.capacity # NoCapacity => ShapeAllowed(ask.capacity))
  /\ plan' = Select(ask)
  /\ filing' = [filing EXCEPT ![w] = Len(drafts) + 1]
  /\ UNCHANGED <<profile, drafts, alone>>

\* The request is inserted, and commits by itself.
File(w) ==
  /\ filing[w] # 0 /\ Len(drafts) < MaxDrafts
  /\ drafts' = Append(drafts, filing[w])
  /\ filing' = [filing EXCEPT ![w] = 0]
  /\ alone' = (alone /\ \A x \in Planner \ {w} : filing[x] = 0)
  /\ UNCHANGED <<profile, plan>>

\* DELETE of an approval request: the count goes down.
Discard(i) ==
  /\ drafts' = RemoveAt(drafts, i) /\ alone' = (alone /\ i = Len(drafts) /\ \A w \in Planner : filing[w] = 0)
  /\ UNCHANGED <<profile, plan, filing>>

PlanNext ==
  \/ \E w \in Planner : (\E ask \in Asks : DrawUp(w, ask)) \/ File(w)
  \/ \E i \in DOMAIN drafts : Discard(i)

PlanSpec == PlanInit /\ [][PlanNext]_planVars

----
\* What a plan promises.  Whatever was assessed is selected or reported as
\* spilled, once; under a capacity no mandated engagement is spilled, and only
\* mandated ones alone can overrun the days; nothing spilled would still fit;
\* and a selected engagement passed over a more pressing one only because it is
\* shorter than that one.  Drafts of a year have different references, as long as
\* none was filed or deleted while another was on its way.
PlanHonest ==
  /\ alone => IsInjective(drafts)
  /\ plan # NoPlan =>
    LET ask == plan.ask
        selected == Range(plan.selected)
        spilled == Range(plan.spilled)
        capped == ask.capacity # NoCapacity
        mandated == {u \in Assessed(ask) : Mandated(u, ask)}
        daysOf(S) == SumFunctionOnSet([u \in Names |-> profile[u].days], S)
    IN /\ selected \union spilled = Assessed(ask)
       /\ Len(plan.selected) + Len(plan.spilled) = Cardinality(Assessed(ask))
       /\ capped => /\ mandated \subseteq selected
                    /\ daysOf(selected) > Available(ask.capacity) =>
                         daysOf(mandated) > Available(ask.capacity)
       /\ \A u \in spilled :
            /\ \/ Len(plan.selected) >= ask.topN
               \/ capped /\ daysOf(selected) + profile[u].days > Available(ask.capacity)
            /\ \A v \in selected : Before(u, v, ask) => profile[v].days < profile[u].days

====
