---- MODULE RiskModels ----
(***************************************************************************)
(* Which risk scoring model is live.  RiskScoringModel.save turns every    *)
(* other active model off in the transaction that writes its own row; a    *)
(* model goes live through an approval (publish, then the side effect of   *)
(* the approved request), but every PATCH of a model also saves the        *)
(* is_active it loaded.                                                    *)
(***************************************************************************)
EXTENDS Naturals, FiniteSets

CONSTANTS
  Saver,      \* processes that save models
  ScoringModel,
  ModelName    \* several versions of a model share a name

VARIABLES
  active,   \* models with is_active
  asked,    \* models with an approval request under way
  saving,   \* the save each process is in
  calm      \* history: the last activation to commit overlapped no other

modelVars == <<active, asked, saving, calm>>

NoSave == [stage |-> "none"]
Loaded(m, on) == [stage |-> "loaded", model |-> m, on |-> on, off |-> {}, apart |-> TRUE]
Clearing(w) == saving[w].stage = "cleared"

ModelTypeOK ==
  /\ active \subseteq ScoringModel /\ asked \subseteq ScoringModel
  /\ saving \in [Saver -> {NoSave} \union
       [stage : {"loaded", "cleared"}, model : ScoringModel, on : BOOLEAN,
        off : SUBSET ScoringModel, apart : BOOLEAN]]
  /\ calm \in BOOLEAN

\* Seeded with at most one live model.
ModelInit ==
  /\ active \in {{}} \union {{m} : m \in ScoringModel}
  /\ asked = {} /\ saving = [w \in Saver |-> NoSave] /\ calm = TRUE

\* POST publish: refused for a live model; a new version number, when the model
\* has scores, is saved with update_fields and leaves is_active alone.
Publish(m) ==
  /\ m \notin active
  /\ asked' = asked \union {m}
  /\ UNCHANGED <<active, saving, calm>>

\* PATCH of a model: is_active is read-only in the serializer, and saved as read.
LoadPatch(w, m) ==
  /\ saving[w] = NoSave
  /\ saving' = [saving EXCEPT ![w] = Loaded(m, m \in active)]
  /\ UNCHANGED <<active, asked, calm>>

\* The side effect of an approved request: nothing when the model is live.
LoadApproved(w, m) ==
  /\ saving[w] = NoSave /\ m \in asked
  /\ asked' = asked \ {m}
  /\ saving' = IF m \in active THEN saving ELSE [saving EXCEPT ![w] = Loaded(m, TRUE)]
  /\ UNCHANGED <<active, calm>>

\* Faulty variant: only the other versions of the model are turned off.
ClearVersions(w) ==
  /\ saving[w].stage = "loaded"
  /\ LET m == saving[w].model
     IN saving' = [saving EXCEPT ![w].stage = "cleared",
          ![w].off = IF saving[w].on THEN {x \in active \ {m} : ModelName[x] = ModelName[m]} ELSE {}]
  /\ UNCHANGED <<active, asked, calm>>

\* save(), first statement: the other live models it sees are turned off.
Clear(w) ==
  /\ saving[w].stage = "loaded"
  /\ LET on == saving[w].on
         rivals == {x \in Saver \ {w} : Clearing(x) /\ saving[x].on}
     IN saving' = [x \in Saver |->
          IF x = w THEN [saving[w] EXCEPT !.stage = "cleared", !.apart = rivals = {},
                           !.off = IF on THEN active \ {saving[w].model} ELSE {}]
          ELSE IF on /\ x \in rivals THEN [saving[x] EXCEPT !.apart = FALSE]
          ELSE saving[x]]
  /\ UNCHANGED <<active, asked, calm>>

\* save(), second statement and commit.  The row waits for a transaction that
\* is turning it off; a live model of the same name fails on the constraint.
CommitSave(w) ==
  /\ Clearing(w)
  /\ LET s == saving[w]
         rest == active \ (s.off \union {s.model})
     IN /\ \A x \in Saver \ {w} : Clearing(x) => s.model \notin saving[x].off
        /\ s.on => \A m \in rest : ModelName[m] # ModelName[s.model]
        /\ active' = IF s.on THEN rest \union {s.model} ELSE active \ {s.model}
        /\ calm' = IF s.on THEN s.apart ELSE calm
  /\ saving' = [saving EXCEPT ![w] = NoSave]
  /\ UNCHANGED asked

\* The constraint, a deadlock or a lost connection: the save is rolled back.
\* The side effect of an approval logs the error and goes on.
FailSave(w) ==
  /\ saving[w] # NoSave
  /\ saving' = [saving EXCEPT ![w] = NoSave]
  /\ UNCHANGED <<active, asked, calm>>

ModelNext ==
  \/ \E m \in ScoringModel :
       \/ Publish(m)
       \/ \E w \in Saver : LoadPatch(w, m) \/ LoadApproved(w, m)
  \/ \E w \in Saver : Clear(w) \/ CommitSave(w) \/ FailSave(w)

ModelSpec == ModelInit /\ [][ModelNext]_modelVars

----
\* One scoring model is live, whatever its name, after an activation that
\* overlapped no other: it also ends what overlapping ones had left behind.
SingleActive == calm => Cardinality(active) <= 1
====
