---------------------------- MODULE AuditUniverse ----------------------------
(***************************************************************************)
(* The audit universe: auditable entities with their optimistic version,   *)
(* their append-only revisions and rating history, the risks attached to   *)
(* them and the rating derived from those risks and the scoring engine     *)
(* (AuditableEntityViewSet, EntityRiskViewSet, iams/risk_rollup.py, the    *)
(* EntityRisk signals and the other writers of an entity's row).           *)
(*                                                                         *)
(* A handler works on an instance it has loaded and commits several times. *)
(* Only PATCH compares versions under a row lock.  raced is a history      *)
(* variable: the entities that a handler wrote while its instance was not  *)
(* the row, that a handler left half-way, or that were written without a   *)
(* new version by a writer outside the versioned ones.  So is switched:    *)
(* activating a scoring model rolls nobody up.                             *)
(***************************************************************************)
EXTENDS Naturals, FiniteSets

CONSTANTS
  Entities,     \* primary keys of auditable entities
  Risks,        \* primary keys of entity risks
  Workers,      \* web processes and Celery workers
  Texts,        \* what a client writes of an entity and its revisions show
  Positions,    \* residual (likelihood, impact) pairs of risks
  Scores,       \* engine snapshots: high-risk flag and composite band
  ModelScores,  \* current scores of the models that may be activated
  Pins,         \* ratings people set by hand
  MaxVersion,   \* bound: no handler starts that could pass this version
  None, Absent

Severity == [Low |-> 1, Medium |-> 2, High |-> 3, Critical |-> 4]
Ratings == {"Low", "Medium", "High", "Critical"}
NoPosition == <<0, 0>>     \* both columns NULL

Bodies == [text : Texts, pinned : BOOLEAN]

Rows == [status : {"Active", "Archived"}, text : Texts, version : Nat \ {0},
         residual : (0 .. 5) \X (0 .. 5), rating : Ratings, pinned : BOOLEAN]

RiskRows == [entity : Entities, position : Positions, open : BOOLEAN]

ASSUME ConstantsAssumption ==
  /\ Positions \subseteq (1 .. 5) \X (1 .. 5)
  /\ Scores \subseteq [high : BOOLEAN, band : Ratings]
  /\ ModelScores \subseteq [Entities -> Scores \cup {None}]
  /\ Pins \subseteq Ratings
  /\ MaxVersion \in Nat
  /\ None \notin Entities \cup Scores
  /\ Absent \notin Rows \cup RiskRows

VARIABLES
  row,         \* row[e]: the AuditableEntity row, or Absent
  revisions,   \* revisions[e]: versions that have an AuditableEntityRevision
  history,     \* history[e]: current_rating of the latest RiskHistoryEntry
  risk,        \* risk[r]: the EntityRisk row, or Absent
  score,       \* score[e]: the active model's current EntityRiskScore, or None
  job,         \* job[w]: what worker w is doing, with its instance
  raced,       \* entities written from a stale instance or left half-way
  switched     \* entities whose score came with another model since their roll-up

vars == <<row, revisions, history, risk, score, job, raced, switched>>

Verbs == {"patch", "archive", "destroy", "restore", "pin", "release", "reset", "score", "import"}
Stages == {"reroll", "save", "note", "pinned", "released", "imported", "overridden"}
Idle == [verb |-> "none"]

Jobs ==
  {Idle}
  \cup [verb : {"signal"}, entity : Entities, next : Entities \cup {None}]
  \cup [verb : Verbs \cup Stages, entity : Entities, copy : Rows, new : Rows,
        next : Entities \cup {None}]

Init ==
  /\ row = [e \in Entities |-> Absent]
  /\ revisions = [e \in Entities |-> {}]
  /\ history = [e \in Entities |-> "Medium"]
  /\ risk = [r \in Risks |-> Absent]
  /\ score = [e \in Entities |-> None]
  /\ job = [w \in Workers |-> Idle]
  /\ raced = {}
  /\ switched = {}

-----------------------------------------------------------------------------
(* The rating and the roll-up. *)

Likelihood(p) == p[1]
Impact(p) == p[2]

\* score_to_rating
Band(p) ==
  LET s == Likelihood(p) * Impact(p) IN
  CASE s >= 20 -> "Critical"
    [] s >= 12 /\ s < 20 -> "High"
    [] s >= 6 /\ s < 12 -> "Medium"
    [] OTHER -> "Low"

WorseRating(a, b) == IF Severity[b] > Severity[a] THEN b ELSE a

\* p drives the entity rather than q: the higher score, then the higher impact,
\* then the higher likelihood.
Outranks(p, q) ==
  LET s == Likelihood(p) * Impact(p)
      t == Likelihood(q) * Impact(q)
  IN  \/ s > t
      \/ s = t /\ Impact(p) > Impact(q)
      \/ s = t /\ Impact(p) = Impact(q) /\ Likelihood(p) >= Likelihood(q)

\* The residual position that the risks rs give entity e.
Worst(rs, e) ==
  LET open == {rs[r].position : r \in {x \in Risks : rs[x] # Absent /\ rs[x].entity = e /\ rs[x].open}}
  IN  IF open = {} THEN NoPosition
      ELSE CHOOSE p \in open : \A q \in open : Outranks(p, q)

\* resolve_entity_risk_rating for an instance, its residual position and
\* the engine's current score.
Resolve(inst, residual, s) ==
  LET open == residual # NoPosition
      base == IF open THEN Band(residual) ELSE inst.rating
      held == open /\ Severity[Band(residual)] >= Severity["High"]
  IN
  CASE inst.pinned -> inst.rating
    [] ~inst.pinned /\ s # None /\ s.high -> WorseRating(base, "High")
    [] ~inst.pinned /\ s # None /\ ~s.high /\ inst.rating = "High" /\ ~held ->
         IF open THEN Band(residual) ELSE s.band
    [] OTHER -> base

\* The instance after compute_entity_risk_position and the resolver.
Rolled(rs, s, e, inst) ==
  LET residual == Worst(rs, e)
      rating == Resolve(inst, residual, s)
  IN  [inst EXCEPT !.residual = residual,
                   !.rating = rating,
                   !.version = IF rating # inst.rating THEN @ + 1 ELSE @]

\* Faulty variant: update_fields without the version.
SavedUnversioned(base, inst, new) ==
  LET column(k) == IF new.residual[k] # inst.residual[k] THEN new.residual[k] ELSE base.residual[k]
  IN  [base EXCEPT !.residual = <<column(1), column(2)>>,
                   !.rating = IF new.rating # inst.rating THEN new.rating ELSE @]

\* save(update_fields = ...): the columns in which new differs from the
\* instance are written over base.
Saved(base, inst, new) ==
  LET column(k) == IF new.residual[k] # inst.residual[k] THEN new.residual[k] ELSE base.residual[k]
  IN  [base EXCEPT !.residual = <<column(1), column(2)>>,
                   !.rating = IF new.rating # inst.rating THEN new.rating ELSE @,
                   !.version = IF new.rating # inst.rating THEN new.version ELSE @]

-----------------------------------------------------------------------------
(* Handlers. *)

\* Faulty variant: the version counts from zero.
FirstVersionZero(b) ==
  [status |-> "Active", text |-> b.text, version |-> 0, residual |-> NoPosition,
   rating |-> "Medium", pinned |-> b.pinned]

FirstVersion(b) ==
  [status |-> "Active", text |-> b.text, version |-> 1, residual |-> NoPosition,
   rating |-> "Medium", pinned |-> b.pinned]

Doing(v, e, inst, next) == [verb |-> v, entity |-> e, copy |-> inst, new |-> inst, next |-> next]

\* What worker w does once it is done with its entity: EntityRiskViewSet
\* re-rolls the entity a risk has left.
Afterwards(w) ==
  IF job[w].next = None THEN Idle
  ELSE [verb |-> "signal", entity |-> job[w].next, next |-> None]

\* The instance of worker w is the row.
Fresh(w) == row[job[w].entity] = job[w].copy

RacedUnless(ok, e) == raced' = IF ok THEN raced ELSE raced \cup {e}

\* A roll-up of e makes good for the scores that were switched before it.
RolledNow(e) == switched' = switched \ {e}

\* Bound of the model, not of the code: a handler starts if the versions it may
\* take, one for a status and two with a roll-up, stay within MaxVersion.
Roomy(e, takes) == row[e].version + takes <= MaxVersion
Takes(v) == IF v \in {"archive", "destroy", "restore"} THEN 1 ELSE 2

\* POST /auditable-entities/ and clone: the row and its first revision
\* commit together.
Create(e, b) ==
  /\ row[e] = Absent
  /\ row' = [row EXCEPT ![e] = FirstVersion(b)]
  /\ revisions' = [revisions EXCEPT ![e] = {1}]
  /\ UNCHANGED <<history, risk, score, job, raced, switched>>

\* get_object, for any of the verbs; archived entities are found with
\* ?includeArchived=true.
Load(w, v, e) ==
  /\ job[w] = Idle
  /\ row[e] # Absent
  /\ Roomy(e, Takes(v))
  /\ job' = [job EXCEPT ![w] = Doing(v, e, row[e], None)]
  /\ UNCHANGED <<row, revisions, history, risk, score, raced, switched>>

\* The request is refused, the database refuses, or the process dies.  What
\* was committed stays; the rest of the handler is lost.
Drop(w) ==
  /\ job[w] # Idle
  /\ job' = [job EXCEPT ![w] = Idle]
  /\ raced' = IF job[w].verb \in (Stages \ {"imported"}) \cup {"signal"}
              THEN raced \cup ({job[w].entity, job[w].next} \ {None})
              ELSE raced
  /\ UNCHANGED <<row, revisions, history, risk, score, switched>>

\* Faulty variant: the status is not tracked.
TrackedWithoutStatus(inst) == <<inst.text, inst.rating>>

\* _REVISION_TRACKED_FIELDS; neither the version nor the override flag is one.
Tracked(inst) == <<inst.text, inst.status, inst.rating>>

\* The versions _record_revision writes for the change from before to inst.
Recorded(before, inst) == IF Tracked(before) # Tracked(inst) THEN {inst.version} ELSE {}

\* iams_ae_revision_unique_version does not refuse them.
Unused(e, versions) == versions \cap revisions[e] = {}

\* The system revision and history entry of a rating that was re-rolled in
\* the same transaction; a version that has a revision already keeps it.
RollNoted(e, inst, new) ==
  IF new.rating # inst.rating
  THEN /\ history' = [history EXCEPT ![e] = new.rating]
       /\ revisions' = [revisions EXCEPT ![e] = @ \cup {new.version}]
  ELSE UNCHANGED <<history, revisions>>

\* Faulty variant: the version is compared only when the instance is loaded.
PatchUnlocked(w, b) ==
  LET e == job[w].entity
      old == job[w].copy
      inst == [old EXCEPT !.text = b.text, !.pinned = b.pinned, !.version = @ + 1]
      new == Rolled(risk, score[e], e, inst)
  IN
  /\ job[w].verb = "patch"
  /\ Unused(e, Recorded(old, inst))
  /\ row' = [row EXCEPT ![e] = new]
  /\ history' = IF new.rating # inst.rating THEN [history EXCEPT ![e] = new.rating] ELSE history
  /\ revisions' = [revisions EXCEPT ![e] =
       @ \cup Recorded(old, inst) \cup (IF new.rating # inst.rating THEN {new.version} ELSE {})]
  /\ job' = [job EXCEPT ![w] = Idle]
  /\ RolledNow(e)
  /\ UNCHANGED <<risk, score, raced>>

\* PATCH: the version is compared under the row lock; the whole instance
\* is saved, its revision written and its position re-rolled in one transaction.
Patch(w, b) ==
  LET e == job[w].entity
      old == job[w].copy
      inst == [old EXCEPT !.text = b.text, !.pinned = b.pinned, !.version = @ + 1]
      new == Rolled(risk, score[e], e, inst)
  IN
  /\ job[w].verb = "patch"
  /\ row[e].version = old.version
  /\ Unused(e, Recorded(old, inst))
  /\ row' = [row EXCEPT ![e] = new]
  /\ history' = IF new.rating # inst.rating THEN [history EXCEPT ![e] = new.rating] ELSE history
  /\ revisions' = [revisions EXCEPT ![e] =
       @ \cup Recorded(old, inst) \cup (IF new.rating # inst.rating THEN {new.version} ELSE {})]
  /\ job' = [job EXCEPT ![w] = Idle]
  /\ RolledNow(e)
  /\ UNCHANGED <<risk, score, raced>>

\* The body that archive, restore and DELETE share.
SetStatus(w, st) ==
  LET e == job[w].entity
      inst == [job[w].copy EXCEPT !.status = st, !.version = @ + 1]
  IN
  /\ Unused(e, Recorded(job[w].copy, inst))
  /\ row' = [row EXCEPT ![e].status = st, ![e].version = inst.version]
  /\ revisions' = [revisions EXCEPT ![e] = @ \cup Recorded(job[w].copy, inst)]
  /\ job' = [job EXCEPT ![w] = Idle]
  /\ RacedUnless(Fresh(w), e)
  /\ UNCHANGED <<history, risk, score, switched>>

Archive(w) ==
  /\ job[w].verb = "archive"
  /\ job[w].copy.status # "Archived"
  /\ SetStatus(w, "Archived")

Destroy(w) ==
  /\ job[w].verb = "destroy"
  /\ SetStatus(w, "Archived")

Restore(w) ==
  /\ job[w].verb = "restore"
  /\ job[w].copy.status = "Archived"
  /\ SetStatus(w, "Active")

\* POST override-rating: three commits, of which this is the first
Pin(w, r) ==
  LET e == job[w].entity
      inst == [job[w].copy EXCEPT !.rating = r, !.pinned = TRUE, !.version = @ + 1]
  IN
  /\ job[w].verb = "pin"
  /\ row' = [row EXCEPT ![e].rating = r, ![e].pinned = TRUE, ![e].version = inst.version]
  /\ job' = [job EXCEPT ![w].verb = "pinned", ![w].copy = inst, ![w].new = job[w].copy]
  /\ RacedUnless(Fresh(w), e)
  /\ UNCHANGED <<revisions, history, risk, score, switched>>

\* Faulty variant: the two ratings of the history entry are swapped.
PinNoteSwapped(w) ==
  LET e == job[w].entity IN
  /\ job[w].verb = "pinned"
  /\ history' = [history EXCEPT ![e] = job[w].new.rating]
  /\ revisions' = [revisions EXCEPT ![e] = @ \cup Recorded(job[w].new, job[w].copy)]
  /\ job' = [job EXCEPT ![w] = Idle]
  /\ RacedUnless(Fresh(w), e)
  /\ UNCHANGED <<row, risk, score, switched>>

\* and these are the other two: the history entry and the revision.
PinNote(w) ==
  LET e == job[w].entity IN
  /\ job[w].verb = "pinned"
  /\ history' = [history EXCEPT ![e] = job[w].copy.rating]
  /\ revisions' = [revisions EXCEPT ![e] = @ \cup Recorded(job[w].new, job[w].copy)]
  /\ job' = [job EXCEPT ![w] = Idle]
  /\ RacedUnless(Fresh(w), e)
  /\ UNCHANGED <<row, risk, score, switched>>

\* DELETE override-rating: the flag, then a revision, then the roll-up.
Release(w) ==
  LET e == job[w].entity
      inst == [job[w].copy EXCEPT !.pinned = FALSE, !.version = @ + 1]
  IN
  /\ job[w].verb = "release"
  /\ job[w].copy.pinned
  /\ row' = [row EXCEPT ![e].pinned = FALSE, ![e].version = inst.version]
  /\ job' = [job EXCEPT ![w].verb = "released", ![w].copy = inst, ![w].new = job[w].copy]
  /\ RacedUnless(Fresh(w), e)
  /\ UNCHANGED <<revisions, history, risk, score, switched>>

ReleaseNote(w) ==
  LET e == job[w].entity
      versions == Recorded(job[w].new, job[w].copy)
  IN
  /\ job[w].verb = "released"
  /\ Unused(e, versions)
  /\ revisions' = [revisions EXCEPT ![e] = @ \cup versions]
  /\ job' = [job EXCEPT ![w] = Doing("reroll", e, job[w].copy, None)]
  /\ UNCHANGED <<row, history, risk, score, raced, switched>>

\* POST reset-risk-overrides: the flag without a version, then the roll-up.
Reset(w) ==
  LET e == job[w].entity
      inst == [job[w].copy EXCEPT !.pinned = FALSE]
  IN
  /\ job[w].verb = "reset"
  /\ row' = IF job[w].copy.pinned THEN [row EXCEPT ![e].pinned = FALSE] ELSE row
  /\ job' = [job EXCEPT ![w] = Doing("reroll", e, inst, None)]
  /\ RacedUnless(job[w].copy.pinned => Fresh(w), e)
  /\ UNCHANGED <<revisions, history, risk, score, switched>>

\* record_score: the snapshot and the roll-up in one transaction, on an
\* instance that was loaded before it.
RecordScore(w, s) ==
  LET e == job[w].entity
      inst == job[w].copy
      new == Rolled(risk, s, e, inst)
  IN
  /\ job[w].verb = "score"
  /\ score' = [score EXCEPT ![e] = s]
  /\ row' = [row EXCEPT ![e] = Saved(@, inst, new)]
  /\ RollNoted(e, inst, new)
  /\ job' = [job EXCEPT ![w] = Idle]
  /\ RacedUnless(Fresh(w), e)
  /\ RolledNow(e)
  /\ UNCHANGED risk

\* Another scoring model goes live, or the active one goes: the current scores
\* of all entities are those of the other model at once, and nothing is
\* rolled up.
Activate(scores) ==
  /\ \A e \in Entities : row[e] = Absent => scores[e] = None
  /\ score' = scores
  /\ switched' = switched \cup {e \in Entities : scores[e] # score[e]}
  /\ UNCHANGED <<row, revisions, history, risk, job, raced>>

-----------------------------------------------------------------------------
(* Risks and the roll-up they trigger. *)

\* Faulty variant: only the entity a risk moves to is re-rolled.
WriteRiskHere(w, r, new) ==
  /\ job[w] = Idle
  /\ row[new.entity] # Absent
  /\ Roomy(new.entity, 2)
  /\ risk' = [risk EXCEPT ![r] = new]
  /\ job' = [job EXCEPT ![w] = [verb |-> "signal", entity |-> new.entity, next |-> None]]
  /\ UNCHANGED <<row, revisions, history, score, raced, switched>>

\* A risk is created, changed or moved; post_save re-rolls its entity.
WriteRisk(w, r, new) ==
  /\ job[w] = Idle
  /\ row[new.entity] # Absent
  /\ Roomy(new.entity, 2)
  /\ risk' = [risk EXCEPT ![r] = new]
  /\ job' = [job EXCEPT ![w] =
       [verb |-> "signal", entity |-> new.entity,
        next |-> IF risk[r] # Absent /\ risk[r].entity # new.entity THEN risk[r].entity ELSE None]]
  /\ UNCHANGED <<row, revisions, history, score, raced, switched>>

\* post_delete runs inside the transaction that deletes the risk.
DeleteRisk(r) ==
  LET e == risk[r].entity
      remaining == [risk EXCEPT ![r] = Absent]
      new == Rolled(remaining, score[e], e, row[e])
  IN
  /\ risk[r] # Absent
  /\ Roomy(e, 2)
  /\ risk' = remaining
  /\ row' = [row EXCEPT ![e] = new]
  /\ RollNoted(e, row[e], new)
  /\ RolledNow(e)
  /\ UNCHANGED <<score, job, raced>>

\* _reroll_entity_safe loads the entity.
Fetch(w) ==
  /\ job[w].verb = "signal"
  /\ Roomy(job[w].entity, 2)
  /\ job' = [job EXCEPT ![w] = Doing("reroll", job[w].entity, row[job[w].entity], job[w].next)]
  /\ UNCHANGED <<row, revisions, history, risk, score, raced, switched>>

\* recompute_entity_risk_position reads the risks and the score,
Compute(w) ==
  LET e == job[w].entity
      new == Rolled(risk, score[e], e, job[w].copy)
  IN
  /\ job[w].verb = "reroll"
  /\ job' = [job EXCEPT ![w] = IF new = job[w].copy THEN Afterwards(w)
                               ELSE [job[w] EXCEPT !.verb = "save", !.new = new]]
  /\ IF new = job[w].copy /\ Fresh(w) THEN RolledNow(e) ELSE UNCHANGED switched
  /\ UNCHANGED <<row, revisions, history, risk, score, raced>>

\* saves the columns that differ,
SaveRoll(w) ==
  LET e == job[w].entity
      inst == job[w].copy
      new == job[w].new
  IN
  /\ job[w].verb = "save"
  /\ row' = [row EXCEPT ![e] = Saved(@, inst, new)]
  /\ job' = [job EXCEPT ![w] = IF new.rating = inst.rating THEN Afterwards(w)
                               ELSE [job[w] EXCEPT !.verb = "note", !.copy = new]]
  /\ RacedUnless(Fresh(w) /\ new = Rolled(risk, score[e], e, inst), e)
  /\ RolledNow(e)
  /\ UNCHANGED <<revisions, history, risk, score>>

\* and records the rating; a version that has a revision keeps that one.
Note(w) ==
  LET e == job[w].entity IN
  /\ job[w].verb = "note"
  /\ history' = [history EXCEPT ![e] = job[w].copy.rating]
  /\ revisions' = [revisions EXCEPT ![e] = @ \cup {job[w].copy.version}]
  /\ job' = [job EXCEPT ![w] = Afterwards(w)]
  /\ RacedUnless(Fresh(w), e)
  /\ UNCHANGED <<row, risk, score, switched>>

-----------------------------------------------------------------------------
(* Writers outside the versioned ones. *)

\* No other worker holds an instance of e.
Alone(w, e) ==
  \A v \in Workers \ {w} : job[v] # Idle /\ job[v].verb # "signal" => job[v].entity # e

\* A spreadsheet row goes on to the rating it may carry, or is done.
ImportGoesOn(w, e, inst) ==
  \E then \in {Idle, Doing("imported", e, inst, None)} : job' = [job EXCEPT ![w] = then]

\* A spreadsheet row for a new entity: no revision.
ImportNew(w, e, b) ==
  /\ job[w] = Idle
  /\ row[e] = Absent
  /\ row' = [row EXCEPT ![e] = FirstVersion(b)]
  /\ ImportGoesOn(w, e, FirstVersion(b))
  /\ UNCHANGED <<revisions, history, risk, score, raced, switched>>

\* A spreadsheet row for an entity that exists: the whole instance is saved,
\* without a lock, a revision or a roll-up.
ImportSave(w, b) ==
  LET e == job[w].entity
      inst == [job[w].copy EXCEPT !.text = b.text, !.pinned = b.pinned, !.version = @ + 1]
  IN
  /\ job[w].verb = "import"
  /\ row' = [row EXCEPT ![e] = inst]
  /\ ImportGoesOn(w, e, inst)
  /\ RacedUnless(Fresh(w) /\ (job[w].copy.pinned => b.pinned), e)
  /\ UNCHANGED <<revisions, history, risk, score, switched>>

\* The rating of a spreadsheet row is pinned without a new version,
ImportPin(w, r) ==
  LET e == job[w].entity
      inst == [job[w].copy EXCEPT !.rating = r, !.pinned = TRUE]
  IN
  /\ job[w].verb = "imported"
  /\ row' = [row EXCEPT ![e].rating = r, ![e].pinned = TRUE]
  /\ job' = [job EXCEPT ![w] = Doing("overridden", e, inst, None)]
  /\ RacedUnless(Fresh(w) /\ Alone(w, e), e)
  /\ UNCHANGED <<revisions, history, risk, score, switched>>

\* and then recorded.
ImportNote(w) ==
  LET e == job[w].entity IN
  /\ job[w].verb = "overridden"
  /\ history' = [history EXCEPT ![e] = job[w].copy.rating]
  /\ job' = [job EXCEPT ![w] = Idle]
  /\ RacedUnless(Fresh(w), e)
  /\ UNCHANGED <<row, revisions, risk, score, switched>>

\* An inbound webhook sets text, rating and status; archived entities are
\* invisible to it.
Ingest(e, t, r, st) ==
  LET base == IF row[e] = Absent THEN FirstVersion([text |-> t, pinned |-> FALSE]) ELSE row[e] IN
  /\ base.status # "Archived"
  /\ row' = [row EXCEPT ![e] = [base EXCEPT !.text = t, !.rating = r, !.status = st]]
  /\ raced' = raced \cup {e}
  /\ UNCHANGED <<revisions, history, risk, score, job, switched>>

\* A weak control self-assessment raises the rating of its entity.
FlagWeak(e) ==
  /\ row[e] # Absent
  /\ row[e].rating # "Critical"
  /\ row' = [row EXCEPT ![e].rating = "High"]
  /\ raced' = raced \cup {e}
  /\ UNCHANGED <<revisions, history, risk, score, job, switched>>

-----------------------------------------------------------------------------

Next ==
  \/ \E e \in Entities, b \in Bodies : Create(e, b)
  \/ \E w \in Workers, v \in Verbs, e \in Entities : Load(w, v, e)
  \/ \E w \in Workers : Drop(w)
  \/ \E w \in Workers, b \in Bodies : Patch(w, b) \/ ImportSave(w, b)
  \/ \E w \in Workers : Archive(w) \/ Destroy(w) \/ Restore(w)
  \/ \E w \in Workers, r \in Pins : Pin(w, r) \/ ImportPin(w, r)
  \/ \E w \in Workers : PinNote(w) \/ Release(w) \/ ReleaseNote(w) \/ Reset(w)
  \/ \E w \in Workers, s \in Scores : RecordScore(w, s)
  \/ \E scores \in ModelScores : Activate(scores)
  \/ \E w \in Workers, r \in Risks, new \in RiskRows : WriteRisk(w, r, new)
  \/ \E r \in Risks : DeleteRisk(r)
  \/ \E w \in Workers : Fetch(w) \/ Compute(w) \/ SaveRoll(w) \/ Note(w) \/ ImportNote(w)
  \/ \E w \in Workers, e \in Entities, b \in Bodies : ImportNew(w, e, b)
  \/ \E e \in Entities, t \in Texts, r \in Pins, st \in {"Active", "Archived"} : Ingest(e, t, r, st)
  \/ \E e \in Entities : FlagWeak(e)

Spec == Init /\ [][Next]_vars

-----------------------------------------------------------------------------
(* Properties. *)

TypeOK ==
  /\ row \in [Entities -> Rows \cup {Absent}]
  /\ revisions \in [Entities -> SUBSET (Nat \ {0})]
  /\ history \in [Entities -> Ratings]
  /\ risk \in [Risks -> RiskRows \cup {Absent}]
  /\ score \in [Entities -> Scores \cup {None}]
  /\ job \in [Workers -> Jobs]
  /\ raced \subseteq Entities
  /\ switched \subseteq Entities

\* No handler is under way on e.
Quiet(e) == \A w \in Workers : job[w] # Idle => e \notin {job[w].entity, job[w].next}

Settled == {e \in Entities \ raced : row[e] # Absent /\ Quiet(e)}

\* The optimistic lock: a PATCH that commits was made on the text and the
\* status it overwrites, although it saves every column of an instance that
\* was loaded before the lock.
NoLostUpdate ==
  [][\A w \in Workers :
       job[w].verb = "patch" /\ job'[w] = Idle /\ row' # row /\ job[w].entity \notin raced' =>
         /\ row[job[w].entity].text = job[w].copy.text
         /\ row[job[w].entity].status = job[w].copy.status]_vars

\* An entity is archived and restored only in a step that writes the revision
\* of the version it gets.
StatusRecorded ==
  [][\A e \in Entities \ raced' :
       row[e] # Absent /\ row'[e].status # row[e].status =>
         row'[e].version \in revisions'[e] \ revisions[e]]_vars

\* The rating trail replays to the rating.
HistoryReplays == \A e \in Settled : history[e] = row[e].rating

\* Position and rating are what another roll-up would make of them, unless the
\* scores were switched under the entity since its last one: no sequence of
\* risks opened, closed, moved, deleted, scores, overrides and releases leaves
\* a stale one, and the first roll-up after a switch leaves none.
RolledUp == \A e \in Settled \ switched : Rolled(risk, score[e], e, row[e]) = row[e]

\* No revision is ahead of its entity: the next edit is not refused.
RevisionsBehind == \A e \in Settled : \A v \in revisions[e] : v <= row[e].version

\* The claim of override_rating: a released override is in the revisions.
ReleaseRecorded ==
  [][\A w \in Workers :
       job[w].verb = "released" /\ job'[w].verb = "reroll" =>
         job[w].copy.version \in revisions'[job[w].entity]]_vars
=============================================================================
