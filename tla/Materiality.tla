---- MODULE Materiality ----
(***************************************************************************)
(* The figures captured for each entity and the cache the register sorts   *)
(* by (iams/materiality.py, views/domain.py).  A handler commits the       *)
(* figure, then refreshes the cache of the entity in statements of their   *)
(* own: the entity is loaded, the cache built from its figures, and stored *)
(* when it differs from the one loaded.  One metric.                       *)
(***************************************************************************)
EXTENDS Integers, FiniteSets, SequencesExt

CONSTANTS
  Keeper,     \* processes that capture figures, edit entities, rebuild
  Owner,       \* entities
  Figure,     \* rows of EntityMaterialityValue
  Amounts,    \* what they may hold
  Blank,      \* no amount: the column is null
  MaxWrites,  \* bound on the writes an instance starts
  NoFigure, NoCache

ASSUME MaterialityAssumption ==
  /\ MaxWrites \in Nat /\ IsFiniteSet(Owner) /\ Owner # {} /\ Blank \notin Amounts /\ NoCache \notin Amounts

VARIABLES
  figures,   \* the rows: entity, period and amount
  code,      \* the metric's code, the key of its entry in a cache
  cache,     \* materiality_cache of each entity: code and amount, or NoCache
  keeping,   \* what each process is in the middle of
  doubt,     \* history: entities whose cache was written by a process that had
             \* missed a change, not written at all, or left by a renaming
  writes     \* writes so far

keepVars == <<figures, code, cache, keeping, doubt, writes>>

Periods == 1..2
Codes == 0..MaxWrites
FigureRow == [unit : Owner, period : Periods, amount : Amounts \union {Blank}]
Cached == [code : Codes, amount : Amounts] \union {NoCache}
Resting == [stage |-> "none"]

MaterialityTypeOK ==
  /\ figures \in [Figure -> FigureRow \union {NoFigure}]
  /\ code \in Codes /\ writes \in 0..MaxWrites
  /\ cache \in [Owner -> Cached]
  /\ \A w \in Keeper : keeping[w] # Resting =>
       /\ keeping[w].stage \in {"figure", "load", "build", "store", "entity"}
       /\ keeping[w].todo \in Seq(Owner) /\ keeping[w].missed \subseteq Owner
  /\ doubt \subseteq Owner

MaterialityInit ==
  /\ figures = [f \in Figure |-> NoFigure] /\ code = 0
  /\ cache = [u \in Owner |-> NoCache]
  /\ keeping = [w \in Keeper |-> Resting] /\ doubt = {} /\ writes = 0

Starts(w) == keeping[w] = Resting /\ writes < MaxWrites /\ writes' = writes + 1
Keeps(w, job) == keeping' = [keeping EXCEPT ![w] = job]
Refreshing(units) == [stage |-> "load", todo |-> units, missed |-> {}]

\* Whoever else had loaded these entities has missed a change of them.
Stir(w, units, job) ==
  keeping' = [x \in Keeper |->
    IF x = w THEN job
    ELSE IF keeping[x] = Resting THEN Resting ELSE [keeping[x] EXCEPT !.missed = @ \union units]]

\* build_materiality_cache: the newest period that has an amount.
Given(u) == {f \in Figure : /\ figures[f] # NoFigure
                            /\ figures[f].unit = u /\ figures[f].amount # Blank}
Newest(given) == CHOOSE f \in DOMAIN given : \A g \in DOMAIN given : given[f].period >= given[g].period
Built(u) ==
  LET given == Restrict(figures, Given(u)) IN
  IF Given(u) = {} THEN NoCache ELSE [code |-> code, amount |-> given[Newest(given)].amount]

\* One figure for an entity and a period.
Unique(f, row) ==
  \A g \in Figure \ {f} : figures[g] # NoFigure =>
    <<figures[g].unit, figures[g].period>> # <<row.unit, row.period>>

----
\* POST: the row, then the refresh.
CaptureFigure(w, f, row) ==
  /\ figures[f] = NoFigure /\ Unique(f, row) /\ Starts(w)
  /\ figures' = [figures EXCEPT ![f] = row]
  /\ Stir(w, {row.unit}, Refreshing(<<row.unit>>))
  /\ UNCHANGED <<code, cache, doubt>>

\* PATCH: the row as loaded with one field changed,
LoadFigure(w, f, row) ==
  /\ figures[f] # NoFigure /\ Starts(w)
  /\ \E field \in DOMAIN row : row = [figures[f] EXCEPT ![field] = row[field]]
  /\ Keeps(w, [stage |-> "figure", figure |-> f, row |-> row, was |-> figures[f].unit,
              todo |-> <<>>, missed |-> {}])
  /\ UNCHANGED <<figures, code, cache, doubt>>

\* written whole, or inserted again when it is gone; the refresh is of the entity
\* it is now about, and of the one it was about when it was loaded.
SaveFigure(w) ==
  /\ keeping[w].stage = "figure" /\ Unique(keeping[w].figure, keeping[w].row)
  /\ LET job == keeping[w]
         now == IF figures[job.figure] = NoFigure THEN {} ELSE {figures[job.figure].unit}
     IN /\ figures' = [figures EXCEPT ![job.figure] = job.row]
        /\ Stir(w, now \union {job.row.unit},
                Refreshing(IF job.was = job.row.unit THEN <<job.was>> ELSE <<job.row.unit, job.was>>))
        /\ doubt' = doubt \union (now \ {job.was, job.row.unit})
  /\ UNCHANGED <<code, cache, writes>>

\* DELETE
DeleteFigure(w, f) ==
  /\ figures[f] # NoFigure /\ Starts(w)
  /\ figures' = [figures EXCEPT ![f] = NoFigure]
  /\ Stir(w, {figures[f].unit}, Refreshing(<<figures[f].unit>>))
  /\ UNCHANGED <<code, cache, doubt>>

----
\* refresh_materiality_cache: the entity is loaded,
LoadUnit(w) ==
  /\ keeping[w].stage = "load"
  /\ LET u == Head(keeping[w].todo)
     IN Keeps(w, [stage |-> "build", todo |-> keeping[w].todo, missed |-> {},
                 saw |-> [x \in {u} |-> cache[u]]])
  /\ UNCHANGED <<figures, code, cache, doubt, writes>>

\* rebuild_all: all are loaded at once.
Rebuild(w, units) ==
  /\ Starts(w) /\ units \in SetToAllKPermutations(Owner) /\ Len(units) = Cardinality(Owner)
  /\ Keeps(w, [stage |-> "build", todo |-> units, missed |-> {}, saw |-> cache])
  /\ UNCHANGED <<figures, code, cache, doubt>>

\* The cache is built from the figures and the code there are now,
BuildCache(w) ==
  /\ keeping[w].stage = "build"
  /\ LET job == keeping[w]
         u == Head(job.todo)
     IN Keeps(w, [stage |-> "store", todo |-> job.todo, saw |-> job.saw, built |-> Built(u),
                 missed |-> IF cache[u] = job.saw[u] THEN job.missed \ {u} ELSE job.missed])
  /\ UNCHANGED <<figures, code, cache, doubt, writes>>

\* and stored, unless it is what was loaded.
StoreCache(w) ==
  /\ keeping[w].stage = "store"
  /\ LET job == keeping[w]
         u == Head(job.todo)
         rest == Tail(job.todo)
         next == IF rest = <<>> THEN Resting
                 ELSE IF DOMAIN job.saw = Owner
                      THEN [stage |-> "build", todo |-> rest, saw |-> job.saw, missed |-> job.missed]
                      ELSE Refreshing(rest)
         changes == job.built # job.saw[u]
     IN /\ cache' = IF changes THEN [cache EXCEPT ![u] = job.built] ELSE cache
        /\ Stir(w, IF changes THEN {u} ELSE {}, next)
        /\ doubt' = IF u \in job.missed THEN doubt \union {u} ELSE doubt \ {u}
  /\ UNCHANGED <<figures, code, writes>>

\* PATCH of the entity saves every column, the cache it loaded among them: the
\* version it is locked by does not move when the cache does.
LoadOwner(w, u) ==
  /\ Starts(w)
  /\ Keeps(w, [stage |-> "entity", todo |-> <<u>>, missed |-> {}, saw |-> [x \in {u} |-> cache[u]]])
  /\ UNCHANGED <<figures, code, cache, doubt>>
SaveOwner(w) ==
  /\ keeping[w].stage = "entity"
  /\ LET u == Head(keeping[w].todo)
         back == keeping[w].saw[u]
     IN /\ cache' = [cache EXCEPT ![u] = back]
        /\ Stir(w, IF back = cache[u] THEN {} ELSE {u}, Resting)
        /\ doubt' = IF back = cache[u] THEN doubt ELSE doubt \union {u}
  /\ UNCHANGED <<figures, code, writes>>

\* PATCH of the metric: its code changes, no cache is refreshed.
RenameMetric ==
  /\ writes < MaxWrites /\ writes' = writes + 1
  /\ code' = code + 1
  /\ LET named == {u \in Owner : Given(u) # {}} IN
       /\ doubt' = doubt \union named
       /\ keeping' = [x \in Keeper |-> IF keeping[x] = Resting THEN Resting
                                       ELSE [keeping[x] EXCEPT !.missed = @ \union named]]
  /\ UNCHANGED <<figures, cache>>

\* The worker dies: the refreshes it still owed are not made.
KeeperDies(w) ==
  /\ keeping[w] # Resting /\ Keeps(w, Resting)
  /\ doubt' = IF keeping[w].stage \in {"load", "build", "store"} THEN doubt \union Range(keeping[w].todo) ELSE doubt
  /\ UNCHANGED <<figures, code, cache, writes>>

MaterialityNext ==
  \/ \E w \in Keeper :
       \/ \E f \in Figure : \/ \E row \in FigureRow : CaptureFigure(w, f, row) \/ LoadFigure(w, f, row)
                            \/ DeleteFigure(w, f)
       \/ \E u \in Owner : LoadOwner(w, u)
       \/ \E units \in SetToAllKPermutations(Owner) : Rebuild(w, units)
       \/ SaveFigure(w) \/ LoadUnit(w) \/ BuildCache(w) \/ StoreCache(w) \/ SaveOwner(w) \/ KeeperDies(w)
  \/ RenameMetric

MaterialitySpec == MaterialityInit /\ [][MaterialityNext]_keepVars

----
\* When nobody owes an entity a refresh, its cache is its newest figure under the
\* metric's present code, but for the ones in doubt: stored, or left alone, by a
\* process that had missed a change, or over a renaming.  A move between entities
\* refreshes both, and a rebuild clears the doubt it is not itself part of.
Owed(u) == \E w \in Keeper : /\ keeping[w] # Resting /\ keeping[w].stage \in {"load", "build", "store"}
                             /\ u \in Range(keeping[w].todo)
CacheInStep == \A u \in Owner \ doubt : ~Owed(u) => cache[u] = Built(u)
====
