------------------------- MODULE AuditUniverse_proofs -------------------------
(***************************************************************************)
(* Theorems about AuditUniverse, for every number of entities, risks and   *)
(* workers, and any texts, positions, scores and pinned ratings.           *)
(***************************************************************************)
EXTENDS AuditUniverse, WellFoundedInduction, TLAPS

-----------------------------------------------------------------------------
(* The driving risk. *)

\* Orders positions as Outranks does.
Key(p) == 36 * (Likelihood(p) * Impact(p)) + 6 * Impact(p) + Likelihood(p)

LEMMA KeyRange ==
  ASSUME NEW p \in Positions
  PROVE  /\ Likelihood(p) \in 1 .. 5 /\ Impact(p) \in 1 .. 5
         /\ Likelihood(p) * Impact(p) \in 1 .. 25
         /\ Key(p) \in 0 .. 1000
<1>1. Likelihood(p) \in 1 .. 5 /\ Impact(p) \in 1 .. 5
  BY ConstantsAssumption DEF Likelihood, Impact
<1>2. \A l, i \in 1 .. 5 : l * i \in 1 .. 25
  OBVIOUS
<1> QED
  BY <1>1, <1>2 DEF Key

LEMMA KeyOutranks ==
  ASSUME NEW p \in Positions, NEW q \in Positions, Key(p) >= Key(q)
  PROVE  Outranks(p, q)
<1> DEFINE s == Likelihood(p) * Impact(p)
<1> DEFINE t == Likelihood(q) * Impact(q)
<1>1. /\ s \in 1 .. 25 /\ t \in 1 .. 25
      /\ Likelihood(p) \in 1 .. 5 /\ Impact(p) \in 1 .. 5
      /\ Likelihood(q) \in 1 .. 5 /\ Impact(q) \in 1 .. 5
  BY KeyRange
<1>2. 36 * s + 6 * Impact(p) + Likelihood(p) >= 36 * t + 6 * Impact(q) + Likelihood(q)
  BY DEF Key
<1> HIDE DEF s, t
<1>3. \/ s > t
      \/ s = t /\ Impact(p) > Impact(q)
      \/ s = t /\ Impact(p) = Impact(q) /\ Likelihood(p) >= Likelihood(q)
  BY <1>1, <1>2
<1> QED
  BY <1>3 DEF Outranks, s, t

\* A nonempty set of numbers has a least one.
LEMMA LeastExists ==
  ASSUME NEW T \in SUBSET Nat, T # {}
  PROVE  \E x \in T : \A y \in T : x <= y
<1> DEFINE R == {ss \in Nat \X Nat : ss[1] < ss[2]}
<1>1. IsWellFoundedOn(R, Nat)
  BY NatLessThanWellFounded DEF OpToRel
<1> HIDE DEF R
<1>2. PICK x \in T : \A y \in T : ~(<<y, x>> \in R)
  BY <1>1, WFMin
<1>3. ASSUME NEW y \in T PROVE x <= y
  <2>1. ~(<<y, x>> \in R)
    BY <1>2
  <2>2. ~(y < x)
    BY <2>1 DEF R
  <2> QED
    BY <2>2
<1> QED
  BY <1>3

\* Among any positions there is one that outranks the others.
LEMMA WorstExists ==
  ASSUME NEW S \in SUBSET Positions, S # {}
  PROVE  \E p \in S : \A q \in S : Outranks(p, q)
<1> DEFINE T == {1000 - Key(p) : p \in S}
<1>1. T \in SUBSET Nat /\ T # {}
  <2>1. \A p \in S : Key(p) \in 0 .. 1000
    BY KeyRange
  <2>2. \A k \in 0 .. 1000 : 1000 - k \in Nat
    OBVIOUS
  <2> QED
    BY <2>1, <2>2
<1>2. PICK x \in T : \A y \in T : x <= y
  BY <1>1, LeastExists
<1>3. PICK p \in S : x = 1000 - Key(p)
  OBVIOUS
<1>4. ASSUME NEW q \in S PROVE Outranks(p, q)
  <2>1. 1000 - Key(p) <= 1000 - Key(q)
    BY <1>2, <1>3
  <2>2. /\ p \in Positions /\ q \in Positions
        /\ Key(p) \in 0 .. 1000 /\ Key(q) \in 0 .. 1000
    BY KeyRange
  <2>3. Key(p) >= Key(q)
    <3> DEFINE k == Key(p)
               l == Key(q)
    <3>1. k \in 0 .. 1000 /\ l \in 0 .. 1000 /\ 1000 - k <= 1000 - l
      BY <2>1, <2>2
    <3> HIDE DEF k, l
    <3>2. k >= l
      BY <3>1
    <3> QED
      BY <3>2 DEF k, l
  <2> QED
    BY <2>2, <2>3, KeyOutranks
<1> QED
  BY <1>4

\* The residual position of an entity is one of its risks' or none.
LEMMA WorstType ==
  ASSUME NEW rs \in [Risks -> RiskRows \cup {Absent}], NEW e \in Entities
  PROVE  Worst(rs, e) \in (0 .. 5) \X (0 .. 5)
<1> DEFINE S == {rs[r].position : r \in {x \in Risks : rs[x] # Absent /\ rs[x].entity = e /\ rs[x].open}}
<1>1. S \subseteq Positions
  BY DEF RiskRows
<1>2. CASE S = {}
  BY <1>2 DEF Worst, NoPosition
<1>3. CASE S # {}
  <2>1. Worst(rs, e) \in S
    BY <1>1, <1>3, WorstExists DEF Worst
  <2>2. (1 .. 5) \X (1 .. 5) \subseteq (0 .. 5) \X (0 .. 5)
    OBVIOUS
  <2> QED
    BY <1>1, <2>1, <2>2, ConstantsAssumption
<1> QED
  BY <1>2, <1>3

LEMMA ResolveType ==
  ASSUME NEW inst \in Rows, NEW p \in (0 .. 5) \X (0 .. 5), NEW s \in Scores \cup {None}
  PROVE  Resolve(inst, p, s) \in Ratings
<1>1. inst.rating \in Ratings
  BY DEF Rows
<1>2. Band(p) \in Ratings
  BY DEF Band, Ratings
<1>3. s # None => s.band \in Ratings
  BY ConstantsAssumption
<1>4. \A a, b \in Ratings : WorseRating(a, b) \in Ratings
  BY DEF WorseRating
<1>5. "High" \in Ratings
  BY DEF Ratings
<1> QED
  BY <1>1, <1>2, <1>3, <1>4, <1>5 DEF Resolve

\* A roll-up keeps what people wrote, and moves to the next version with the
\* rating.
LEMMA RolledType ==
  ASSUME NEW rs \in [Risks -> RiskRows \cup {Absent}], NEW e \in Entities,
         NEW s \in Scores \cup {None}, NEW inst \in Rows,
         NEW n, n = Rolled(rs, s, e, inst)
  PROVE  /\ n \in Rows
         /\ n.text = inst.text /\ n.status = inst.status
         /\ n.version = IF n.rating # inst.rating THEN inst.version + 1 ELSE inst.version
<1> DEFINE p == Worst(rs, e)
           a == Resolve(inst, p, s)
           v == IF a # inst.rating THEN inst.version + 1 ELSE inst.version
<1>1. p \in (0 .. 5) \X (0 .. 5)
  BY WorstType
<1>2. a \in Ratings
  BY <1>1, ResolveType
<1>3. v \in Nat \ {0}
  BY DEF Rows
<1>4. n = [inst EXCEPT !.residual = p, !.rating = a, !.version = v]
  BY DEF Rolled
<1>5. /\ n \in Rows
      /\ n.text = inst.text /\ n.status = inst.status
      /\ n.version = v /\ n.rating = a
  <2> HIDE DEF p, a, v
  <2> QED
    BY <1>1, <1>2, <1>3, <1>4 DEF Rows
<1> QED
  BY <1>5

LEMMA SavedType ==
  ASSUME NEW base \in Rows, NEW inst \in Rows, NEW new \in Rows,
         NEW n, n = Saved(base, inst, new)
  PROVE  /\ n \in Rows
         /\ n.text = base.text /\ n.status = base.status
         /\ n.version = IF new.rating # inst.rating THEN new.version ELSE base.version
<1> DEFINE column(k) == IF new.residual[k] # inst.residual[k] THEN new.residual[k] ELSE base.residual[k]
           p == <<column(1), column(2)>>
           a == IF new.rating # inst.rating THEN new.rating ELSE base.rating
           v == IF new.rating # inst.rating THEN new.version ELSE base.version
<1>1. p \in (0 .. 5) \X (0 .. 5)
  BY DEF Rows
<1>2. a \in Ratings /\ v \in Nat \ {0}
  BY DEF Rows
<1>3. n = [base EXCEPT !.residual = p, !.rating = a, !.version = v]
  BY DEF Saved
<1>4. /\ n \in Rows
      /\ n.text = base.text /\ n.status = base.status /\ n.version = v
  <2> HIDE DEF p, a, v
  <2>1. n = [status |-> base.status, text |-> base.text, version |-> v, residual |-> p, rating |-> a,
             pinned |-> base.pinned]
    BY <1>3 DEF Rows
  <2>2. base.status \in {"Active", "Archived"} /\ base.text \in Texts /\ base.pinned \in BOOLEAN
    BY DEF Rows
  <2> QED
    BY <1>1, <1>2, <2>1, <2>2 DEF Rows
<1> QED
  BY <1>4

-----------------------------------------------------------------------------
(* Type correctness.  An update writes over a row, so that it is typed only *)
(* because the rows of risks and handlers exist.                            *)

\* The rows that risks and handlers refer to exist.
Anchored ==
  /\ \A r \in Risks : risk[r] # Absent => row[risk[r].entity] # Absent
  /\ \A w \in Workers : job[w] # Idle =>
       /\ row[job[w].entity] # Absent
       /\ job[w].next # None => row[job[w].next] # Absent

WellFormed == TypeOK /\ Anchored

LEMMA JobKinds ==
  ASSUME TypeOK, NEW w \in Workers, job[w] # Idle
  PROVE  /\ job[w].entity \in Entities
         /\ job[w].next \in Entities \cup {None}
         /\ job[w].verb # "signal" =>
              /\ job[w] \in [verb : Verbs \cup Stages, entity : Entities, copy : Rows, new : Rows,
                             next : Entities \cup {None}]
              /\ job[w].copy \in Rows /\ job[w].new \in Rows
BY DEF TypeOK, Jobs

LEMMA Busy ==
  ASSUME TypeOK, NEW w \in Workers, job[w].verb # "none"
  PROVE  job[w] # Idle
BY DEF Idle

LEMMA DoingType ==
  ASSUME NEW v \in Verbs \cup Stages, NEW e \in Entities, NEW inst \in Rows,
         NEW next \in Entities \cup {None}
  PROVE  /\ Doing(v, e, inst, next) \in Jobs
         /\ Doing(v, e, inst, next).entity = e
         /\ Doing(v, e, inst, next).next = next
         /\ Doing(v, e, inst, next).verb = v
BY DEF Doing, Jobs

LEMMA SignalType ==
  ASSUME NEW e \in Entities, NEW next \in Entities \cup {None}
  PROVE  [verb |-> "signal", entity |-> e, next |-> next] \in Jobs
BY DEF Jobs

LEMMA IdleType == Idle \in Jobs
BY DEF Jobs

LEMMA AfterwardsType ==
  ASSUME TypeOK, NEW w \in Workers, job[w] # Idle
  PROVE  /\ Afterwards(w) \in Jobs
         /\ Afterwards(w) # Idle =>
              /\ Afterwards(w).entity = job[w].next /\ job[w].next # None
              /\ Afterwards(w).next = None /\ Afterwards(w).verb = "signal"
<1>1. job[w].next \in Entities \cup {None}
  BY JobKinds
<1>2. CASE job[w].next = None
  BY <1>2, IdleType DEF Afterwards
<1>3. CASE job[w].next # None
  <2>1. Afterwards(w) = [verb |-> "signal", entity |-> job[w].next, next |-> None]
    BY <1>3 DEF Afterwards
  <2> QED
    BY <1>1, <1>3, <2>1, SignalType
<1> QED
  BY <1>2, <1>3

LEMMA FirstVersionType ==
  ASSUME NEW b \in Bodies
  PROVE  FirstVersion(b) \in Rows
BY DEF FirstVersion, Bodies, Rows, NoPosition, Ratings

LEMMA RecordedType ==
  ASSUME NEW before \in Rows, NEW inst \in Rows
  PROVE  Recorded(before, inst) \subseteq Nat \ {0}
BY DEF Recorded, Rows

\* The instances that handlers save.
LEMMA EditType ==
  ASSUME NEW o \in Rows, NEW b \in Bodies,
         NEW n, n = [o EXCEPT !.text = b.text, !.pinned = b.pinned, !.version = @ + 1]
  PROVE  n \in Rows /\ n.version = o.version + 1 /\ n.status = o.status /\ n.text = b.text
<1> DEFINE v == o.version + 1
<1>1. v \in Nat \ {0}
  BY DEF Rows
<1>2. n = [o EXCEPT !.text = b.text, !.pinned = b.pinned, !.version = v]
  OBVIOUS
<1> HIDE DEF v
<1>3. n \in Rows /\ n.version = v
  BY <1>1, <1>2 DEF Rows, Bodies
<1> QED
  BY <1>2, <1>3 DEF Rows, Bodies, v

LEMMA StatusType ==
  ASSUME NEW o \in Rows, NEW st \in {"Active", "Archived"},
         NEW n, n = [o EXCEPT !.status = st, !.version = @ + 1]
  PROVE  n \in Rows /\ n.version = o.version + 1 /\ n.status = st /\ n.text = o.text
<1> DEFINE v == o.version + 1
<1>1. v \in Nat \ {0}
  BY DEF Rows
<1>2. n = [o EXCEPT !.status = st, !.version = v]
  OBVIOUS
<1> HIDE DEF v
<1>3. n \in Rows /\ n.version = v
  BY <1>1, <1>2 DEF Rows
<1> QED
  BY <1>2, <1>3 DEF Rows, v

LEMMA PinType ==
  ASSUME NEW o \in Rows, NEW r \in Ratings,
         NEW n, n = [o EXCEPT !.rating = r, !.pinned = TRUE, !.version = @ + 1]
  PROVE  n \in Rows /\ n.version = o.version + 1 /\ n.status = o.status /\ n.text = o.text
<1> DEFINE v == o.version + 1
<1>1. v \in Nat \ {0}
  BY DEF Rows
<1>2. n = [o EXCEPT !.rating = r, !.pinned = TRUE, !.version = v]
  OBVIOUS
<1> HIDE DEF v
<1>3. n \in Rows /\ n.version = v
  BY <1>1, <1>2 DEF Rows
<1> QED
  BY <1>2, <1>3 DEF Rows, v

LEMMA ReleaseType ==
  ASSUME NEW o \in Rows,
         NEW n, n = [o EXCEPT !.pinned = FALSE, !.version = @ + 1]
  PROVE  n \in Rows /\ n.version = o.version + 1 /\ n.status = o.status /\ n.text = o.text
<1> DEFINE v == o.version + 1
<1>1. v \in Nat \ {0}
  BY DEF Rows
<1>2. n = [o EXCEPT !.pinned = FALSE, !.version = v]
  OBVIOUS
<1> HIDE DEF v
<1>3. n \in Rows /\ n.version = v
  BY <1>1, <1>2 DEF Rows
<1> QED
  BY <1>2, <1>3 DEF Rows, v

LEMMA QuietReleaseType ==
  ASSUME NEW o \in Rows, NEW n, n = [o EXCEPT !.pinned = FALSE]
  PROVE  n \in Rows /\ n.version = o.version /\ n.status = o.status /\ n.text = o.text
BY DEF Rows

LEMMA InitWellFormed == Init => WellFormed
BY DEF Init, WellFormed, TypeOK, Anchored, Rows, Ratings, Jobs

-----------------------------------------------------------------------------
(* What a step does to the rows. *)

\* A row that changes gets a later version, or keeps its text and status.
Advances(o, n) ==
  /\ n.version >= o.version
  /\ n.version = o.version => n.text = o.text /\ n.status = o.status

\* A row n of entity e has its old status, or a revision of its version is
\* written with it, or a PATCH that had compared the version wrote it.
StatusNoted(e, n) ==
  \/ n.status = row[e].status
  \/ n.version \in revisions'[e] \ revisions[e]
  \/ \E w \in Workers :
       /\ job[w].verb = "patch" /\ job[w].entity = e
       /\ row[e].version = job[w].copy.version /\ n.status = job[w].copy.status

\* Rows stay, and the ones that are not raced advance.
RowsAdvance ==
  /\ row' \in [Entities -> Rows \cup {Absent}]
  /\ \A e \in Entities : row[e] # Absent =>
       /\ row'[e] # Absent
       /\ e \notin raced' => Advances(row[e], row'[e]) /\ StatusNoted(e, row'[e])

LEMMA RowType ==
  ASSUME TypeOK, NEW e \in Entities, row[e] # Absent
  PROVE  row[e] \in Rows
BY DEF TypeOK

LEMMA Untouched ==
  ASSUME TypeOK, UNCHANGED row
  PROVE  RowsAdvance
BY RowType DEF RowsAdvance, Advances, StatusNoted, TypeOK, Rows

LEMMA Written ==
  ASSUME TypeOK, NEW e \in Entities, NEW n \in Rows, row' = [row EXCEPT ![e] = n],
         row[e] # Absent /\ e \notin raced' => Advances(row[e], n) /\ StatusNoted(e, n)
  PROVE  RowsAdvance
<1>1. row \in [Entities -> Rows \cup {Absent}]
  BY DEF TypeOK
<1>2. row' \in [Entities -> Rows \cup {Absent}]
  BY <1>1
<1>3. ASSUME NEW f \in Entities, row[f] # Absent
      PROVE  /\ row'[f] # Absent
             /\ f \notin raced' => Advances(row[f], row'[f]) /\ StatusNoted(f, row'[f])
  <2>1. CASE f = e
    <3>1. row'[f] = n
      BY <1>1, <2>1
    <3> QED
      BY <1>3, <2>1, <3>1, ConstantsAssumption
  <2>2. CASE f # e
    BY <1>1, <1>3, <2>2, RowType DEF Advances, StatusNoted, Rows
  <2> QED
    BY <2>1, <2>2
<1> QED
  BY <1>2, <1>3 DEF RowsAdvance

\* The handler of a worker has a typed instance, and its entity has a row.
LEMMA Held ==
  ASSUME WellFormed, NEW w \in Workers, job[w].verb \in Verbs \cup Stages
  PROVE  /\ job[w] # Idle
         /\ job[w].entity \in Entities /\ job[w].next \in Entities \cup {None}
         /\ job[w].copy \in Rows /\ job[w].new \in Rows
         /\ row[job[w].entity] \in Rows /\ row[job[w].entity] # Absent
         /\ job[w].next # None => row[job[w].next] # Absent
<1>1. job[w].verb # "none" /\ job[w].verb # "signal"
  BY DEF Verbs, Stages
<1>2. job[w] # Idle
  BY <1>1 DEF Idle
<1> QED
  BY <1>1, <1>2, JobKinds, RowType DEF WellFormed, Anchored

LEMMA CreateRows ==
  ASSUME WellFormed, NEW e \in Entities, NEW b \in Bodies,
         row[e] = Absent, row' = [row EXCEPT ![e] = FirstVersion(b)]
  PROVE  RowsAdvance
BY FirstVersionType, Written DEF WellFormed

LEMMA PatchRows ==
  ASSUME WellFormed, NEW w \in Workers, NEW b \in Bodies, Patch(w, b)
  PROVE  RowsAdvance
<1> DEFINE e == job[w].entity
           old == job[w].copy
           inst == [old EXCEPT !.text = b.text, !.pinned = b.pinned, !.version = @ + 1]
           new == Rolled(risk, score[e], e, inst)
<1>1. e \in Entities /\ old \in Rows /\ row[e] \in Rows
  BY Held DEF Patch, Verbs
<1>2. inst \in Rows /\ inst.version = old.version + 1 /\ inst.status = old.status
  <2>1. inst = [old EXCEPT !.text = b.text, !.pinned = b.pinned, !.version = @ + 1]
    OBVIOUS
  <2> HIDE DEF old, inst
  <2> QED
    BY <1>1, <2>1, EditType
<1>3. risk \in [Risks -> RiskRows \cup {Absent}] /\ score[e] \in Scores \cup {None}
  BY <1>1 DEF WellFormed, TypeOK
<1>4. row[e].version = old.version /\ row' = [row EXCEPT ![e] = new]
  BY DEF Patch
<1> HIDE DEF e, old, inst
<1>5. new \in Rows /\ new.version \in {inst.version, inst.version + 1} /\ new.status = inst.status
  <2>1. new = Rolled(risk, score[e], e, inst)
    OBVIOUS
  <2> HIDE DEF new
  <2>2. /\ new \in Rows /\ new.status = inst.status
        /\ new.version = IF new.rating # inst.rating THEN inst.version + 1 ELSE inst.version
    BY <1>1, <1>2, <1>3, <2>1, RolledType
  <2> QED
    BY <2>2
<1> HIDE DEF new
<1>6. Advances(row[e], new)
  BY <1>1, <1>2, <1>4, <1>5 DEF Advances, Rows
<1>7. StatusNoted(e, new)
  BY <1>2, <1>4, <1>5 DEF StatusNoted, Patch, e, old
<1> QED
  BY <1>1, <1>4, <1>5, <1>6, <1>7, Written DEF WellFormed

LEMMA ImportSaveRows ==
  ASSUME WellFormed, NEW w \in Workers, NEW b \in Bodies, ImportSave(w, b)
  PROVE  RowsAdvance
<1> DEFINE e == job[w].entity
           old == job[w].copy
           inst == [old EXCEPT !.text = b.text, !.pinned = b.pinned, !.version = @ + 1]
<1>1. e \in Entities /\ old \in Rows /\ row[e] \in Rows
  BY Held DEF ImportSave, Verbs
<1>2. inst \in Rows /\ inst.version = old.version + 1 /\ inst.status = old.status
  <2>1. inst = [old EXCEPT !.text = b.text, !.pinned = b.pinned, !.version = @ + 1]
    OBVIOUS
  <2> HIDE DEF old, inst
  <2> QED
    BY <1>1, <2>1, EditType
<1>3. row' = [row EXCEPT ![e] = inst] /\ (e \notin raced' => row[e] = old)
  BY DEF ImportSave, RacedUnless, Fresh
<1> HIDE DEF inst
<1>4. e \notin raced' => Advances(row[e], inst) /\ StatusNoted(e, inst)
  BY <1>1, <1>2, <1>3 DEF Advances, StatusNoted, Rows
<1> QED
  BY <1>1, <1>2, <1>3, <1>4, Written DEF WellFormed

LEMMA StatusRows ==
  ASSUME WellFormed, NEW w \in Workers, NEW st \in {"Active", "Archived"},
         job[w].verb \in Verbs, SetStatus(w, st)
  PROVE  RowsAdvance
<1> DEFINE e == job[w].entity
           inst == [job[w].copy EXCEPT !.status = st, !.version = @ + 1]
           n == [row[e] EXCEPT !.status = st, !.version = inst.version]
<1>1. e \in Entities /\ job[w].copy \in Rows /\ row[e] \in Rows
  BY Held
<1>2. inst.version = job[w].copy.version + 1 /\ inst.version \in Nat \ {0}
  <2> DEFINE old == job[w].copy
  <2>1. inst.version = old.version + 1
    <3>1. old \in Rows /\ inst = [old EXCEPT !.status = st, !.version = @ + 1]
      BY <1>1
    <3> HIDE DEF old, inst
    <3> QED
      BY <3>1, StatusType
  <2> QED
    BY <1>1, <2>1 DEF Rows
<1>3. row' = [row EXCEPT ![e].status = st, ![e].version = inst.version]
  BY DEF SetStatus
<1>4. e \notin raced' => row[e] = job[w].copy
  BY DEF SetStatus, RacedUnless, Fresh
<1> HIDE DEF inst
<1>5. row' = [row EXCEPT ![e] = n]
  BY <1>1, <1>3 DEF WellFormed, TypeOK
<1>6. n \in Rows /\ n.version = inst.version /\ n.status = st
  BY <1>1, <1>2 DEF Rows
<1> HIDE DEF n
<1>7. e \notin raced' => Advances(row[e], n)
  BY <1>1, <1>2, <1>4, <1>6 DEF Advances, Rows
<1>8. e \notin raced' => StatusNoted(e, n)
  <2> SUFFICES ASSUME e \notin raced', row[e].status # st
               PROVE  n.version \in revisions'[e] \ revisions[e]
    BY <1>6 DEF StatusNoted
  <2>1. inst.status = st
    BY <1>1 DEF inst, Rows
  <2>2. Recorded(job[w].copy, inst) = {inst.version}
    BY <1>4, <2>1 DEF Recorded, Tracked
  <2>3. /\ Unused(e, Recorded(job[w].copy, inst))
        /\ revisions' = [revisions EXCEPT ![e] = @ \cup Recorded(job[w].copy, inst)]
    BY DEF SetStatus, inst
  <2> QED
    BY <1>1, <1>6, <2>2, <2>3 DEF Unused, WellFormed, TypeOK
<1> QED
  BY <1>1, <1>5, <1>6, <1>7, <1>8, Written DEF WellFormed

\* An override writes the rating, the flag and, but for a spreadsheet, the version.
LEMMA PinRows ==
  ASSUME WellFormed, NEW w \in Workers, NEW r \in Pins, Pin(w, r)
  PROVE  RowsAdvance
<1> DEFINE e == job[w].entity
           inst == [job[w].copy EXCEPT !.rating = r, !.pinned = TRUE, !.version = @ + 1]
           n == [row[e] EXCEPT !.rating = r, !.pinned = TRUE, !.version = inst.version]
<1>1. e \in Entities /\ job[w].copy \in Rows /\ row[e] \in Rows /\ r \in Ratings
  BY Held, ConstantsAssumption DEF Pin, Verbs
<1>2. inst.version = job[w].copy.version + 1
  BY <1>1, ZenonT(60), PinType
<1>3. row' = [row EXCEPT ![e].rating = r, ![e].pinned = TRUE, ![e].version = inst.version]
  BY DEF Pin
<1>4. e \notin raced' => row[e] = job[w].copy
  BY DEF Pin, RacedUnless, Fresh
<1>5. inst.version \in Nat \ {0}
  BY <1>1, <1>2 DEF Rows
<1> HIDE DEF inst
<1>6. row' = [row EXCEPT ![e] = n]
  BY <1>1, <1>3 DEF WellFormed, TypeOK
<1>7. n \in Rows /\ n.version = inst.version /\ n.status = row[e].status
  BY <1>1, <1>5 DEF Rows
<1> HIDE DEF n
<1>8. e \notin raced' => Advances(row[e], n) /\ StatusNoted(e, n)
  BY <1>1, <1>2, <1>4, <1>7 DEF Advances, StatusNoted, Rows
<1> QED
  BY <1>1, <1>6, <1>7, <1>8, Written DEF WellFormed

LEMMA ImportPinRows ==
  ASSUME WellFormed, NEW w \in Workers, NEW r \in Pins, ImportPin(w, r)
  PROVE  RowsAdvance
<1> DEFINE e == job[w].entity
           n == [row[e] EXCEPT !.rating = r, !.pinned = TRUE]
<1>1. e \in Entities /\ row[e] \in Rows /\ r \in Ratings
  BY Held, ConstantsAssumption DEF ImportPin, Stages
<1>2. row' = [row EXCEPT ![e].rating = r, ![e].pinned = TRUE]
  BY DEF ImportPin
<1>3. row' = [row EXCEPT ![e] = n]
  BY <1>1, <1>2 DEF WellFormed, TypeOK
<1>4. n \in Rows /\ n.version = row[e].version /\ n.text = row[e].text /\ n.status = row[e].status
  BY <1>1 DEF Rows
<1> HIDE DEF n
<1>5. Advances(row[e], n) /\ StatusNoted(e, n)
  BY <1>1, <1>4 DEF Advances, StatusNoted, Rows
<1> QED
  BY <1>1, <1>3, <1>4, <1>5, Written DEF WellFormed

LEMMA ReleaseRows ==
  ASSUME WellFormed, NEW w \in Workers, Release(w)
  PROVE  RowsAdvance
<1> DEFINE e == job[w].entity
           inst == [job[w].copy EXCEPT !.pinned = FALSE, !.version = @ + 1]
           n == [row[e] EXCEPT !.pinned = FALSE, !.version = inst.version]
<1>1. e \in Entities /\ job[w].copy \in Rows /\ row[e] \in Rows
  BY Held DEF Release, Verbs
<1>2. inst.version = job[w].copy.version + 1
  BY <1>1, ReleaseType
<1>3. row' = [row EXCEPT ![e].pinned = FALSE, ![e].version = inst.version]
  BY DEF Release
<1>4. e \notin raced' => row[e] = job[w].copy
  BY DEF Release, RacedUnless, Fresh
<1>5. inst.version \in Nat \ {0}
  BY <1>1, <1>2 DEF Rows
<1> HIDE DEF inst
<1>6. row' = [row EXCEPT ![e] = n]
  BY <1>1, <1>3 DEF WellFormed, TypeOK
<1>7. n \in Rows /\ n.version = inst.version /\ n.status = row[e].status
  BY <1>1, <1>5 DEF Rows
<1> HIDE DEF n
<1>8. e \notin raced' => Advances(row[e], n) /\ StatusNoted(e, n)
  BY <1>1, <1>2, <1>4, <1>7 DEF Advances, StatusNoted, Rows
<1> QED
  BY <1>1, <1>6, <1>7, <1>8, Written DEF WellFormed

LEMMA ResetRows ==
  ASSUME WellFormed, NEW w \in Workers, Reset(w)
  PROVE  RowsAdvance
<1> DEFINE e == job[w].entity
           n == [row[e] EXCEPT !.pinned = FALSE]
<1>1. e \in Entities /\ row[e] \in Rows
  BY Held DEF Reset, Verbs
<1>2. row' = [row EXCEPT ![e].pinned = FALSE] \/ row' = row
  BY DEF Reset
<1>3. CASE row' = row
  BY <1>3, Untouched DEF WellFormed
<1>4. CASE row' = [row EXCEPT ![e].pinned = FALSE]
  <2>1. row' = [row EXCEPT ![e] = n]
    BY <1>1, <1>4 DEF WellFormed, TypeOK
  <2>2. n \in Rows /\ n.version = row[e].version /\ n.text = row[e].text /\ n.status = row[e].status
    BY <1>1, QuietReleaseType
  <2> HIDE DEF n
  <2>3. Advances(row[e], n) /\ StatusNoted(e, n)
    BY <1>1, <2>2 DEF Advances, StatusNoted, Rows
  <2> QED
    BY <1>1, <2>1, <2>2, <2>3, Written DEF WellFormed
<1> QED
  BY <1>2, <1>3, <1>4

\* A roll-up saves over a row what it changes of its instance.
LEMMA SavedRows ==
  ASSUME WellFormed, NEW e \in Entities, NEW inst \in Rows, NEW new \in Rows,
         row[e] \in Rows, row' = [row EXCEPT ![e] = Saved(@, inst, new)],
         e \notin raced' =>
           /\ row[e] = inst
           /\ new.rating # inst.rating => new.version = inst.version + 1
  PROVE  RowsAdvance
<1> DEFINE base == row[e]
           n == Saved(base, inst, new)
<1>1. row' = [row EXCEPT ![e] = n]
  BY DEF WellFormed, TypeOK
<1>2. /\ n \in Rows
      /\ n.text = base.text /\ n.status = base.status
      /\ n.version = IF new.rating # inst.rating THEN new.version ELSE base.version
  <2>1. base \in Rows /\ n = Saved(base, inst, new)
    OBVIOUS
  <2> HIDE DEF base
  <2> QED
    BY <2>1, SavedType
<1> HIDE DEF n
<1>3. e \notin raced' => Advances(row[e], n) /\ StatusNoted(e, n)
  BY <1>2 DEF Advances, StatusNoted, Rows
<1> QED
  BY <1>1, <1>2, <1>3, Written DEF WellFormed

LEMMA RecordScoreRows ==
  ASSUME WellFormed, NEW w \in Workers, NEW s \in Scores, RecordScore(w, s)
  PROVE  RowsAdvance
<1> DEFINE e == job[w].entity
           inst == job[w].copy
           new == Rolled(risk, s, e, inst)
<1>1. e \in Entities /\ inst \in Rows /\ row[e] \in Rows
  BY Held DEF RecordScore, Verbs
<1>2. risk \in [Risks -> RiskRows \cup {Absent}]
  BY DEF WellFormed, TypeOK
<1>3. row' = [row EXCEPT ![e] = Saved(@, inst, new)] /\ (e \notin raced' => row[e] = inst)
  BY DEF RecordScore, RacedUnless, Fresh
<1> HIDE DEF e, inst
<1>4. new \in Rows /\ (new.rating # inst.rating => new.version = inst.version + 1)
  BY <1>1, <1>2, RolledType
<1> HIDE DEF new
<1> QED
  BY <1>1, <1>3, <1>4, SavedRows

LEMMA SaveRollRows ==
  ASSUME WellFormed, NEW w \in Workers, SaveRoll(w)
  PROVE  RowsAdvance
<1> DEFINE e == job[w].entity
           inst == job[w].copy
           new == job[w].new
<1>1. e \in Entities /\ inst \in Rows /\ new \in Rows /\ row[e] \in Rows
  BY Held DEF SaveRoll, Stages
<1>2. risk \in [Risks -> RiskRows \cup {Absent}] /\ score[e] \in Scores \cup {None}
  BY <1>1 DEF WellFormed, TypeOK
<1>3. /\ row' = [row EXCEPT ![e] = Saved(@, inst, new)]
      /\ e \notin raced' => row[e] = inst /\ new = Rolled(risk, score[e], e, inst)
  BY DEF SaveRoll, RacedUnless, Fresh
<1> HIDE DEF e, inst, new
<1>4. new = Rolled(risk, score[e], e, inst) /\ new.rating # inst.rating =>
        new.version = inst.version + 1
  <2> SUFFICES ASSUME new = Rolled(risk, score[e], e, inst), new.rating # inst.rating
               PROVE  new.version = inst.version + 1
    OBVIOUS
  <2>1. new.version = IF new.rating # inst.rating THEN inst.version + 1 ELSE inst.version
    BY <1>1, <1>2, RolledType, SMTT(30)
  <2> QED
    BY <2>1
<1> QED
  BY <1>1, <1>3, <1>4, SavedRows

LEMMA DeleteRiskRows ==
  ASSUME WellFormed, NEW r \in Risks, DeleteRisk(r)
  PROVE  RowsAdvance
<1> DEFINE e == risk[r].entity
           remaining == [risk EXCEPT ![r] = Absent]
           new == Rolled(remaining, score[e], e, row[e])
<1>1. e \in Entities /\ row[e] # Absent
  BY DEF DeleteRisk, WellFormed, Anchored, TypeOK, RiskRows
<1>2. row[e] \in Rows /\ score[e] \in Scores \cup {None}
  BY <1>1 DEF WellFormed, TypeOK
<1>3. remaining \in [Risks -> RiskRows \cup {Absent}]
  BY DEF WellFormed, TypeOK
<1>4. row' = [row EXCEPT ![e] = new]
  BY DEF DeleteRisk
<1> HIDE DEF e, remaining
<1>5. /\ new \in Rows
      /\ new.text = row[e].text /\ new.status = row[e].status
      /\ new.version = IF new.rating # row[e].rating THEN row[e].version + 1 ELSE row[e].version
  BY <1>1, <1>2, <1>3, RolledType
<1> HIDE DEF new
<1>6. Advances(row[e], new) /\ StatusNoted(e, new)
  BY <1>2, <1>5 DEF Advances, StatusNoted, Rows
<1> QED
  BY <1>1, <1>4, <1>5, <1>6, Written DEF WellFormed

\* The writers outside the versioned ones leave a typed row, and race it.
LEMMA IngestRows ==
  ASSUME WellFormed, NEW e \in Entities, NEW t \in Texts, NEW r \in Pins,
         NEW st \in {"Active", "Archived"}, Ingest(e, t, r, st)
  PROVE  RowsAdvance
<1> DEFINE base == IF row[e] = Absent THEN FirstVersion([text |-> t, pinned |-> FALSE]) ELSE row[e]
           n == [base EXCEPT !.text = t, !.rating = r, !.status = st]
<1>1. [text |-> t, pinned |-> FALSE] \in Bodies
  BY DEF Bodies
<1>2. base \in Rows
  BY <1>1, FirstVersionType, RowType DEF WellFormed
<1>3. row' = [row EXCEPT ![e] = n] /\ e \in raced'
  BY DEF Ingest
<1> HIDE DEF base
<1>4. n \in Rows
  BY <1>2, ConstantsAssumption DEF Rows
<1> QED
  BY <1>3, <1>4, Written DEF WellFormed

LEMMA FlagWeakRows ==
  ASSUME WellFormed, NEW e \in Entities, FlagWeak(e)
  PROVE  RowsAdvance
<1> DEFINE n == [row[e] EXCEPT !.rating = "High"]
<1>1. row[e] \in Rows
  BY RowType DEF WellFormed, FlagWeak
<1>2. row' = [row EXCEPT ![e] = n] /\ e \in raced'
  BY DEF FlagWeak, WellFormed, TypeOK
<1>3. n \in Rows
  BY <1>1 DEF Rows, Ratings
<1> QED
  BY <1>2, <1>3, Written DEF WellFormed

LEMMA RowsStep ==
  ASSUME WellFormed, Next
  PROVE  RowsAdvance
<1>1. CASE \E e \in Entities, b \in Bodies : Create(e, b)
  BY <1>1, CreateRows DEF Create
<1>2. CASE \E w \in Workers, b \in Bodies : Patch(w, b) \/ ImportSave(w, b)
  BY <1>2, PatchRows, ImportSaveRows
<1>3. CASE \E w \in Workers : Archive(w) \/ Destroy(w) \/ Restore(w)
  BY <1>3, StatusRows DEF Archive, Destroy, Restore, Verbs
<1>4. CASE \E w \in Workers, r \in Pins : Pin(w, r) \/ ImportPin(w, r)
  BY <1>4, PinRows, ImportPinRows
<1>5. CASE \E w \in Workers : PinNote(w) \/ Release(w) \/ ReleaseNote(w) \/ Reset(w)
  BY <1>5, ReleaseRows, ResetRows, Untouched DEF PinNote, ReleaseNote, WellFormed
<1>6. CASE \E w \in Workers, s \in Scores : RecordScore(w, s)
  BY <1>6, RecordScoreRows
<1>7. CASE \E r \in Risks : DeleteRisk(r)
  BY <1>7, DeleteRiskRows
<1>8. CASE \E w \in Workers : Fetch(w) \/ Compute(w) \/ SaveRoll(w) \/ Note(w) \/ ImportNote(w)
  BY <1>8, SaveRollRows, Untouched DEF Fetch, Compute, Note, ImportNote, WellFormed
<1>9. CASE \E w \in Workers, e \in Entities, b \in Bodies : ImportNew(w, e, b)
  BY <1>9, CreateRows DEF ImportNew
<1>10. CASE \E e \in Entities, t \in Texts, r \in Pins, st \in {"Active", "Archived"} : Ingest(e, t, r, st)
  BY <1>10, IngestRows
<1>11. CASE \E e \in Entities : FlagWeak(e)
  BY <1>11, FlagWeakRows
<1>12. CASE \/ \E w \in Workers, v \in Verbs, e \in Entities : Load(w, v, e)
            \/ \E w \in Workers : Drop(w)
            \/ \E w \in Workers, r \in Risks, new \in RiskRows : WriteRisk(w, r, new)
            \/ \E scores \in ModelScores : Activate(scores)
  BY <1>12, Untouched DEF Load, Drop, WriteRisk, Activate, WellFormed
<1> QED
  BY <1>1, <1>2, <1>3, <1>4, <1>5, <1>6, <1>7, <1>8, <1>9, <1>10, <1>11, <1>12 DEF Next

-----------------------------------------------------------------------------
(* What a step does to the handlers. *)

\* The rows of a job.
Grounded(j) ==
  j # Idle => row[j.entity] # Absent /\ (j.next # None => row[j.next] # Absent)

JobsGrounded == job \in [Workers -> Jobs] /\ \A w \in Workers : Grounded(job[w])

LEMMA JobsKept ==
  ASSUME WellFormed, RowsAdvance, UNCHANGED job
  PROVE  JobsGrounded'
<1>1. job \in [Workers -> Jobs] /\ \A w \in Workers : Grounded(job[w])
  BY DEF WellFormed, TypeOK, Anchored, Grounded
<1>2. ASSUME NEW w \in Workers, job[w] # Idle
      PROVE  row'[job[w].entity] # Absent /\ (job[w].next # None => row'[job[w].next] # Absent)
  BY <1>1, <1>2, JobKinds DEF RowsAdvance, Grounded, WellFormed
<1> QED
  BY <1>1, <1>2 DEF JobsGrounded, Grounded

LEMMA JobWritten ==
  ASSUME WellFormed, RowsAdvance, NEW w \in Workers, NEW j \in Jobs,
         job' = [job EXCEPT ![w] = j],
         j # Idle => row'[j.entity] # Absent /\ (j.next # None => row'[j.next] # Absent)
  PROVE  JobsGrounded'
<1>1. job \in [Workers -> Jobs] /\ \A v \in Workers : Grounded(job[v])
  BY DEF WellFormed, TypeOK, Anchored, Grounded
<1>2. job' \in [Workers -> Jobs]
  BY <1>1
<1>3. ASSUME NEW v \in Workers, job'[v] # Idle
      PROVE  row'[job'[v].entity] # Absent /\ (job'[v].next # None => row'[job'[v].next] # Absent)
  <2>1. CASE v = w
    BY <1>1, <1>3, <2>1
  <2>2. CASE v # w
    BY <1>1, <1>3, <2>2, JobKinds DEF RowsAdvance, Grounded, WellFormed
  <2> QED
    BY <2>1, <2>2
<1> QED
  BY <1>2, <1>3 DEF JobsGrounded, Grounded

\* A handler that is done.
LEMMA JobDone ==
  ASSUME WellFormed, RowsAdvance, NEW w \in Workers, job' = [job EXCEPT ![w] = Idle]
  PROVE  JobsGrounded'
BY IdleType, JobWritten

\* A handler that goes on to a stage.
LEMMA JobDoing ==
  ASSUME WellFormed, RowsAdvance, NEW w \in Workers, NEW v \in Verbs \cup Stages,
         NEW e \in Entities, row[e] # Absent \/ row'[e] # Absent, NEW inst \in Rows,
         NEW next \in Entities \cup {None}, next # None => row[next] # Absent,
         job' = [job EXCEPT ![w] = Doing(v, e, inst, next)]
  PROVE  JobsGrounded'
<1> DEFINE j == Doing(v, e, inst, next)
<1>1. j \in Jobs /\ j.entity = e /\ j.next = next
  BY DoingType
<1>2. row'[e] # Absent /\ (next # None => row'[next] # Absent)
  BY DEF RowsAdvance
<1>3. job' = [job EXCEPT ![w] = j]
  OBVIOUS
<1> HIDE DEF j
<1> QED
  BY <1>1, <1>2, <1>3, JobWritten

\* A handler that goes on with its job.
LEMMA JobStage ==
  ASSUME WellFormed, RowsAdvance, NEW w \in Workers, job[w].verb \in Verbs \cup Stages,
         NEW v \in Stages, NEW c \in Rows, NEW n \in Rows,
         job' = [job EXCEPT ![w] = [job[w] EXCEPT !.verb = v, !.copy = c, !.new = n]]
  PROVE  JobsGrounded'
<1> DEFINE j == [job[w] EXCEPT !.verb = v, !.copy = c, !.new = n]
<1>1. job[w].verb # "signal"
  BY DEF Verbs, Stages
<1>2. /\ job[w] \in [verb : Verbs \cup Stages, entity : Entities, copy : Rows, new : Rows,
                     next : Entities \cup {None}]
      /\ row[job[w].entity] # Absent
      /\ job[w].next # None => row[job[w].next] # Absent
      /\ job[w].entity \in Entities /\ job[w].next \in Entities \cup {None}
  BY <1>1, Held, JobKinds DEF WellFormed
<1>3. /\ j \in [verb : Verbs \cup Stages, entity : Entities, copy : Rows, new : Rows,
                next : Entities \cup {None}]
      /\ j.entity = job[w].entity /\ j.next = job[w].next
  BY <1>2
<1>4. j \in Jobs
  BY <1>3 DEF Jobs
<1>5. row'[job[w].entity] # Absent /\ (job[w].next # None => row'[job[w].next] # Absent)
  BY <1>2 DEF RowsAdvance
<1>6. job' = [job EXCEPT ![w] = j]
  OBVIOUS
<1> HIDE DEF j
<1>7. row'[j.entity] # Absent /\ (j.next # None => row'[j.next] # Absent)
  BY <1>3, <1>5
<1> QED
  BY <1>4, <1>6, <1>7, JobWritten

LEMMA JobAfterwards ==
  ASSUME WellFormed, RowsAdvance, NEW w \in Workers, job[w].verb \in Verbs \cup Stages,
         job' = [job EXCEPT ![w] = Afterwards(w)]
  PROVE  JobsGrounded'
<1> DEFINE j == Afterwards(w)
<1>1. j \in Jobs /\ (j # Idle => j.entity = job[w].next /\ job[w].next # None /\ j.next = None)
  BY Held, AfterwardsType DEF WellFormed
<1>2. /\ job[w].next # None => row[job[w].next] # Absent
      /\ job[w].next \in Entities \cup {None}
  BY Held
<1>3. job[w].next # None => row'[job[w].next] # Absent
  BY <1>2 DEF RowsAdvance
<1>4. job' = [job EXCEPT ![w] = j]
  OBVIOUS
<1> HIDE DEF j
<1> QED
  BY <1>1, <1>3, <1>4, JobWritten

LEMMA EditJobs ==
  ASSUME WellFormed, RowsAdvance, NEW w \in Workers, NEW b \in Bodies,
         Patch(w, b) \/ ImportSave(w, b)
  PROVE  JobsGrounded'
<1>1. CASE Patch(w, b)
  BY <1>1, JobDone DEF Patch
<1>2. CASE ImportSave(w, b)
  <2> DEFINE inst == [job[w].copy EXCEPT !.text = b.text, !.pinned = b.pinned, !.version = @ + 1]
  <2>1. /\ job[w].entity \in Entities /\ row[job[w].entity] # Absent /\ job[w].copy \in Rows
    BY <1>2, Held DEF ImportSave, Verbs
  <2>2. inst \in Rows
    BY <2>1, EditType
  <2>3. \/ job' = [job EXCEPT ![w] = Idle]
        \/ job' = [job EXCEPT ![w] = Doing("imported", job[w].entity, inst, None)]
    BY <1>2 DEF ImportSave, ImportGoesOn
  <2> HIDE DEF inst
  <2> QED
    BY <2>1, <2>2, <2>3, JobDone, JobDoing DEF Stages
<1> QED
  BY <1>1, <1>2

LEMMA ImportNewJobs ==
  ASSUME WellFormed, RowsAdvance, NEW w \in Workers, NEW e \in Entities, NEW b \in Bodies,
         ImportNew(w, e, b)
  PROVE  JobsGrounded'
<1>1. FirstVersion(b) \in Rows
  BY FirstVersionType
<1>2. row'[e] # Absent
  BY <1>1, ConstantsAssumption DEF ImportNew, WellFormed, TypeOK
<1>3. \/ job' = [job EXCEPT ![w] = Idle]
      \/ job' = [job EXCEPT ![w] = Doing("imported", e, FirstVersion(b), None)]
  BY DEF ImportNew, ImportGoesOn
<1> QED
  BY <1>1, <1>2, <1>3, JobDone, JobDoing DEF Stages

LEMMA PinJobs ==
  ASSUME WellFormed, RowsAdvance, NEW w \in Workers, NEW r \in Pins, Pin(w, r) \/ ImportPin(w, r)
  PROVE  JobsGrounded'
<1> DEFINE old == job[w].copy
<1>1. /\ job[w].entity \in Entities /\ row[job[w].entity] # Absent
      /\ old \in Rows /\ r \in Ratings
  BY Held, ConstantsAssumption DEF Pin, ImportPin, Verbs, Stages
<1>2. CASE Pin(w, r)
  <2> DEFINE inst == [old EXCEPT !.rating = r, !.pinned = TRUE, !.version = @ + 1]
  <2>1. inst \in Rows
    BY <1>1, PinType
  <2>2. job' = [job EXCEPT ![w] = [job[w] EXCEPT !.verb = "pinned", !.copy = inst, !.new = old]]
    BY <1>2 DEF Pin, WellFormed, TypeOK
  <2>3. job[w].verb \in Verbs
    BY <1>2 DEF Pin, Verbs
  <2> HIDE DEF inst, old
  <2> QED
    BY <1>1, <2>1, <2>2, <2>3, JobStage DEF Stages
<1>3. CASE ImportPin(w, r)
  <2> DEFINE inst == [old EXCEPT !.rating = r, !.pinned = TRUE]
  <2>1. inst \in Rows
    BY <1>1 DEF Rows
  <2>2. job' = [job EXCEPT ![w] = Doing("overridden", job[w].entity, inst, None)]
    BY <1>3 DEF ImportPin
  <2> HIDE DEF inst
  <2> QED
    BY <1>1, <2>1, <2>2, JobDoing DEF Stages
<1> QED
  BY <1>2, <1>3

LEMMA ReleaseJobs ==
  ASSUME WellFormed, RowsAdvance, NEW w \in Workers, Release(w) \/ ReleaseNote(w) \/ Reset(w)
  PROVE  JobsGrounded'
<1> DEFINE old == job[w].copy
<1>1. job[w].entity \in Entities /\ row[job[w].entity] # Absent /\ old \in Rows
  BY Held DEF Release, ReleaseNote, Reset, Verbs, Stages
<1>2. CASE Release(w)
  <2> DEFINE inst == [old EXCEPT !.pinned = FALSE, !.version = @ + 1]
  <2>1. inst \in Rows
    BY <1>1, ReleaseType
  <2>2. job' = [job EXCEPT ![w] = [job[w] EXCEPT !.verb = "released", !.copy = inst, !.new = old]]
    BY <1>2 DEF Release, WellFormed, TypeOK
  <2>3. job[w].verb \in Verbs
    BY <1>2 DEF Release, Verbs
  <2> HIDE DEF inst, old
  <2> QED
    BY <1>1, <2>1, <2>2, <2>3, JobStage DEF Stages
<1>3. CASE ReleaseNote(w)
  BY <1>1, <1>3, JobDoing DEF ReleaseNote, Stages
<1>4. CASE Reset(w)
  <2> DEFINE inst == [old EXCEPT !.pinned = FALSE]
  <2>1. inst \in Rows
    BY <1>1, QuietReleaseType
  <2>2. job' = [job EXCEPT ![w] = Doing("reroll", job[w].entity, inst, None)]
    BY <1>4 DEF Reset
  <2> HIDE DEF inst
  <2> QED
    BY <1>1, <2>1, <2>2, JobDoing DEF Stages
<1> QED
  BY <1>2, <1>3, <1>4

LEMMA WriteRiskJobs ==
  ASSUME WellFormed, RowsAdvance, NEW w \in Workers, NEW r \in Risks, NEW new \in RiskRows,
         WriteRisk(w, r, new)
  PROVE  JobsGrounded'
<1> DEFINE next == IF risk[r] # Absent /\ risk[r].entity # new.entity THEN risk[r].entity ELSE None
           j == [verb |-> "signal", entity |-> new.entity, next |-> next]
<1>1. new.entity \in Entities /\ row[new.entity] # Absent
  BY DEF WriteRisk, RiskRows
<1>2. next \in Entities \cup {None} /\ (next # None => row[next] # Absent)
  BY DEF WellFormed, TypeOK, Anchored, RiskRows
<1>3. job' = [job EXCEPT ![w] = j]
  BY DEF WriteRisk
<1> HIDE DEF next
<1>4. j \in Jobs /\ j.entity = new.entity /\ j.next = next
  BY <1>1, <1>2, SignalType
<1>5. row'[new.entity] # Absent /\ (next # None => row'[next] # Absent)
  BY <1>1, <1>2 DEF RowsAdvance
<1> HIDE DEF j
<1>6. row'[j.entity] # Absent /\ (j.next # None => row'[j.next] # Absent)
  BY <1>4, <1>5
<1> QED
  BY <1>3, <1>4, <1>6, JobWritten

LEMMA FetchJobs ==
  ASSUME WellFormed, RowsAdvance, NEW w \in Workers, Fetch(w)
  PROVE  JobsGrounded'
<1>1. job[w] # Idle
  BY DEF Fetch, Idle
<1>2. /\ job[w].entity \in Entities /\ row[job[w].entity] # Absent
      /\ job[w].next \in Entities \cup {None} /\ (job[w].next # None => row[job[w].next] # Absent)
  BY <1>1, JobKinds DEF WellFormed, Anchored
<1>3. row[job[w].entity] \in Rows
  BY <1>2, RowType DEF WellFormed
<1>4. job' = [job EXCEPT ![w] = Doing("reroll", job[w].entity, row[job[w].entity], job[w].next)]
  BY DEF Fetch
<1> QED
  BY <1>2, <1>3, <1>4, JobDoing DEF Stages

LEMMA ComputeJobs ==
  ASSUME WellFormed, RowsAdvance, NEW w \in Workers, Compute(w)
  PROVE  JobsGrounded'
<1> DEFINE e == job[w].entity
           old == job[w].copy
           new == Rolled(risk, score[e], e, old)
<1>1. job[w].verb \in Stages
  BY DEF Compute, Stages
<1>2. e \in Entities /\ old \in Rows
  BY <1>1, Held
<1>3. risk \in [Risks -> RiskRows \cup {Absent}] /\ score[e] \in Scores \cup {None}
  BY <1>2 DEF WellFormed, TypeOK
<1>4. \/ job' = [job EXCEPT ![w] = Afterwards(w)]
      \/ job' = [job EXCEPT ![w] = [job[w] EXCEPT !.verb = "save", !.new = new]]
  BY DEF Compute
<1> HIDE DEF e
<1>5. new \in Rows
  BY <1>2, <1>3, RolledType
<1> HIDE DEF new
<1>6. CASE job' = [job EXCEPT ![w] = Afterwards(w)]
  BY <1>1, <1>6, JobAfterwards
<1>7. CASE job' = [job EXCEPT ![w] = [job[w] EXCEPT !.verb = "save", !.new = new]]
  <2>1. job[w] = [verb |-> job[w].verb, entity |-> job[w].entity, copy |-> job[w].copy,
                  new |-> job[w].new, next |-> job[w].next]
    BY <1>1, Held, JobKinds DEF WellFormed, Stages
  <2>2. [job[w] EXCEPT !.verb = "save", !.new = new]
          = [job[w] EXCEPT !.verb = "save", !.copy = old, !.new = new]
    BY <2>1
  <2>3. job' = [job EXCEPT ![w] = [job[w] EXCEPT !.verb = "save", !.copy = old, !.new = new]]
    BY <1>7, <2>2
  <2> HIDE DEF old
  <2> QED
    BY <1>1, <1>2, <1>5, <2>3, JobStage DEF Stages
<1> QED
  BY <1>4, <1>6, <1>7

LEMMA SaveRollJobs ==
  ASSUME WellFormed, RowsAdvance, NEW w \in Workers, SaveRoll(w)
  PROVE  JobsGrounded'
<1> DEFINE new == job[w].new
<1>1. job[w].verb \in Stages
  BY DEF SaveRoll, Stages
<1>2. new \in Rows
  BY <1>1, Held
<1>3. \/ job' = [job EXCEPT ![w] = Afterwards(w)]
      \/ job' = [job EXCEPT ![w] = [job[w] EXCEPT !.verb = "note", !.copy = new]]
  BY DEF SaveRoll
<1>4. CASE job' = [job EXCEPT ![w] = Afterwards(w)]
  BY <1>1, <1>4, JobAfterwards
<1>5. CASE job' = [job EXCEPT ![w] = [job[w] EXCEPT !.verb = "note", !.copy = new]]
  <2>1. job[w] = [verb |-> job[w].verb, entity |-> job[w].entity, copy |-> job[w].copy,
                  new |-> job[w].new, next |-> job[w].next]
    BY <1>1, Held, JobKinds DEF WellFormed, Stages
  <2>2. [job[w] EXCEPT !.verb = "note", !.copy = new]
          = [job[w] EXCEPT !.verb = "note", !.copy = new, !.new = new]
    BY <2>1
  <2>3. job' = [job EXCEPT ![w] = [job[w] EXCEPT !.verb = "note", !.copy = new, !.new = new]]
    BY <1>5, <2>2
  <2> HIDE DEF new
  <2> QED
    BY <1>1, <1>2, <2>3, JobStage DEF Stages
<1> QED
  BY <1>3, <1>4, <1>5

LEMMA JobsStep ==
  ASSUME WellFormed, RowsAdvance, Next
  PROVE  JobsGrounded'
<1>1. CASE \/ \E e \in Entities, b \in Bodies : Create(e, b)
           \/ \E r \in Risks : DeleteRisk(r)
           \/ \E e \in Entities, t \in Texts, r \in Pins, st \in {"Active", "Archived"} : Ingest(e, t, r, st)
           \/ \E e \in Entities : FlagWeak(e)
           \/ \E scores \in ModelScores : Activate(scores)
  BY <1>1, JobsKept DEF Activate, Create, DeleteRisk, Ingest, FlagWeak
<1>2. CASE \E w \in Workers, v \in Verbs, e \in Entities : Load(w, v, e)
  BY <1>2, RowType, JobDoing DEF Load, WellFormed
<1>3. CASE \E w \in Workers : Drop(w)
  BY <1>3, JobDone DEF Drop
<1>4. CASE \E w \in Workers, b \in Bodies : Patch(w, b) \/ ImportSave(w, b)
  BY <1>4, EditJobs
<1>5. CASE \E w \in Workers : Archive(w) \/ Destroy(w) \/ Restore(w)
  BY <1>5, JobDone DEF Archive, Destroy, Restore, SetStatus
<1>6. CASE \E w \in Workers, r \in Pins : Pin(w, r) \/ ImportPin(w, r)
  BY <1>6, PinJobs
<1>7. CASE \E w \in Workers : PinNote(w) \/ Release(w) \/ ReleaseNote(w) \/ Reset(w)
  BY <1>7, JobDone, ReleaseJobs DEF PinNote
<1>8. CASE \E w \in Workers, s \in Scores : RecordScore(w, s)
  BY <1>8, JobDone DEF RecordScore
<1>9. CASE \E w \in Workers, r \in Risks, new \in RiskRows : WriteRisk(w, r, new)
  BY <1>9, WriteRiskJobs
<1>10. CASE \E w \in Workers : Fetch(w) \/ Compute(w) \/ SaveRoll(w) \/ Note(w) \/ ImportNote(w)
  BY <1>10, FetchJobs, ComputeJobs, SaveRollJobs, JobDone, JobAfterwards DEF Note, ImportNote, Stages
<1>11. CASE \E w \in Workers, e \in Entities, b \in Bodies : ImportNew(w, e, b)
  BY <1>11, ImportNewJobs
<1> QED
  BY <1>1, <1>2, <1>3, <1>4, <1>5, <1>6, <1>7, <1>8, <1>9, <1>10, <1>11 DEF Next

-----------------------------------------------------------------------------
(* What a step does to the trails, the risks and the scores. *)

TrailTypes == revisions \in [Entities -> SUBSET (Nat \ {0})] /\ history \in [Entities -> Ratings]

RiskTypes ==
  /\ risk \in [Risks -> RiskRows \cup {Absent}]
  /\ \A r \in Risks : risk[r] # Absent => row[risk[r].entity] # Absent

\* A note of a roll-up is typed.
LEMMA RollNotedType ==
  ASSUME TypeOK, NEW e \in Entities, NEW inst \in Rows, NEW new \in Rows, RollNoted(e, inst, new)
  PROVE  TrailTypes'
<1>1. new.version \in Nat \ {0} /\ new.rating \in Ratings
  BY DEF Rows
<1> QED
  BY <1>1 DEF RollNoted, TrailTypes, TypeOK

\* Versions are added to the revisions of one entity.
LEMMA RevisedType ==
  ASSUME TypeOK, NEW e \in Entities, NEW versions \in SUBSET (Nat \ {0}),
         revisions' = [revisions EXCEPT ![e] = @ \cup versions],
         NEW a \in Ratings, history' = history \/ history' = [history EXCEPT ![e] = a]
  PROVE  TrailTypes'
BY DEF TrailTypes, TypeOK

LEMMA PatchTrails ==
  ASSUME WellFormed, NEW w \in Workers, NEW b \in Bodies, Patch(w, b)
  PROVE  TrailTypes'
<1> DEFINE e == job[w].entity
           old == job[w].copy
           inst == [old EXCEPT !.text = b.text, !.pinned = b.pinned, !.version = @ + 1]
           new == Rolled(risk, score[e], e, inst)
           versions == Recorded(old, inst) \cup (IF new.rating # inst.rating THEN {new.version} ELSE {})
<1>1. e \in Entities /\ old \in Rows
  BY Held DEF Patch, Verbs
<1>2. inst \in Rows
  BY <1>1, EditType
<1>3. risk \in [Risks -> RiskRows \cup {Absent}] /\ score[e] \in Scores \cup {None}
  BY <1>1 DEF WellFormed, TypeOK
<1>4. /\ history' = history \/ history' = [history EXCEPT ![e] = new.rating]
      /\ revisions' = [revisions EXCEPT ![e] = @ \cup versions]
  BY DEF Patch
<1> HIDE DEF e, old, inst
<1>5. new \in Rows
  BY <1>1, <1>2, <1>3, RolledType
<1> HIDE DEF new
<1>6. new.rating \in Ratings /\ new.version \in Nat \ {0}
  BY <1>5 DEF Rows
<1>7. versions \in SUBSET (Nat \ {0})
  BY <1>1, <1>2, <1>6, RecordedType
<1> HIDE DEF versions
<1> QED
  BY <1>1, <1>4, <1>6, <1>7, RevisedType DEF WellFormed

LEMMA StatusTrails ==
  ASSUME WellFormed, NEW w \in Workers, NEW st \in {"Active", "Archived"},
         job[w].verb \in Verbs, SetStatus(w, st)
  PROVE  TrailTypes'
<1> DEFINE e == job[w].entity
           old == job[w].copy
           inst == [old EXCEPT !.status = st, !.version = @ + 1]
           versions == Recorded(old, inst)
<1>1. e \in Entities /\ old \in Rows
  BY Held
<1>2. inst \in Rows
  <2>1. inst = [old EXCEPT !.status = st, !.version = @ + 1]
    OBVIOUS
  <2> HIDE DEF old, inst
  <2> QED
    BY <1>1, <2>1, StatusType
<1>3. revisions' = [revisions EXCEPT ![e] = @ \cup versions] /\ history' = history
  BY DEF SetStatus
<1> HIDE DEF inst
<1>4. versions \in SUBSET (Nat \ {0})
  BY <1>1, <1>2, RecordedType
<1> HIDE DEF versions
<1>5. "Low" \in Ratings
  BY DEF Ratings
<1> QED
  BY <1>1, <1>3, <1>4, <1>5, RevisedType DEF WellFormed

LEMMA NoteTrails ==
  ASSUME WellFormed, NEW w \in Workers,
         PinNote(w) \/ ReleaseNote(w) \/ Note(w) \/ ImportNote(w)
  PROVE  TrailTypes'
<1> DEFINE e == job[w].entity
           copy == job[w].copy
           versions == Recorded(job[w].new, copy)
<1>1. e \in Entities /\ copy \in Rows /\ job[w].new \in Rows
  BY Held DEF PinNote, ReleaseNote, Note, ImportNote, Stages
<1>2. copy.rating \in Ratings /\ copy.version \in Nat \ {0}
  BY <1>1 DEF Rows
<1>3. versions \in SUBSET (Nat \ {0})
  BY <1>1, RecordedType
<1>4. CASE PinNote(w) \/ ReleaseNote(w)
  <2>1. /\ revisions' = [revisions EXCEPT ![e] = @ \cup versions]
        /\ history' = history \/ history' = [history EXCEPT ![e] = copy.rating]
    BY <1>4 DEF PinNote, ReleaseNote
  <2> HIDE DEF e, copy, versions
  <2> QED
    BY <1>1, <1>2, <1>3, <2>1, RevisedType DEF WellFormed
<1>5. CASE Note(w) \/ ImportNote(w)
  <2>1. /\ revisions' = [revisions EXCEPT ![e] = @ \cup {copy.version}] \/ revisions' = revisions
        /\ history' = [history EXCEPT ![e] = copy.rating]
    BY <1>5 DEF Note, ImportNote
  <2> HIDE DEF e, copy, versions
  <2> QED
    BY <1>1, <1>2, <2>1 DEF WellFormed, TypeOK, TrailTypes
<1> QED
  BY <1>4, <1>5

LEMMA RollTrails ==
  ASSUME WellFormed,
         \/ \E w \in Workers, s \in Scores : RecordScore(w, s)
         \/ \E r \in Risks : DeleteRisk(r)
  PROVE  TrailTypes'
<1>1. ASSUME NEW w \in Workers, NEW s \in Scores, RecordScore(w, s)
      PROVE  TrailTypes'
  <2> DEFINE e == job[w].entity
             inst == job[w].copy
             new == Rolled(risk, s, e, inst)
  <2>1. e \in Entities /\ inst \in Rows /\ RollNoted(e, inst, new)
    BY <1>1, Held DEF RecordScore, Verbs
  <2>2. risk \in [Risks -> RiskRows \cup {Absent}]
    BY DEF WellFormed, TypeOK
  <2> HIDE DEF e, inst
  <2>3. new \in Rows
    BY <2>1, <2>2, RolledType
  <2> HIDE DEF new
  <2> QED
    BY <2>1, <2>3, RollNotedType DEF WellFormed
<1>2. ASSUME NEW r \in Risks, DeleteRisk(r)
      PROVE  TrailTypes'
  <2> DEFINE e == risk[r].entity
             remaining == [risk EXCEPT ![r] = Absent]
             inst == row[e]
             new == Rolled(remaining, score[e], e, inst)
  <2>1. e \in Entities /\ inst # Absent /\ RollNoted(e, inst, new)
    BY <1>2 DEF DeleteRisk, WellFormed, Anchored, TypeOK, RiskRows
  <2>2. inst \in Rows /\ score[e] \in Scores \cup {None}
    BY <2>1 DEF WellFormed, TypeOK
  <2>3. remaining \in [Risks -> RiskRows \cup {Absent}]
    BY DEF WellFormed, TypeOK
  <2> HIDE DEF e, inst, remaining
  <2>4. new \in Rows
    BY <2>1, <2>2, <2>3, RolledType
  <2> HIDE DEF new
  <2> QED
    BY <2>1, <2>2, <2>4, RollNotedType DEF WellFormed
<1> QED
  BY <1>1, <1>2

LEMMA TrailsStep ==
  ASSUME WellFormed, Next
  PROVE  TrailTypes'
<1>1. CASE \E e \in Entities, b \in Bodies : Create(e, b)
  BY <1>1 DEF Create, WellFormed, TypeOK, TrailTypes
<1>2. CASE \E w \in Workers, b \in Bodies : Patch(w, b) \/ ImportSave(w, b)
  <2>1. ASSUME NEW w \in Workers, NEW b \in Bodies, ImportSave(w, b)
        PROVE  TrailTypes'
    BY <2>1 DEF ImportSave, WellFormed, TypeOK, TrailTypes
  <2> QED
    BY <1>2, <2>1, PatchTrails
<1>3. CASE \E w \in Workers : Archive(w) \/ Destroy(w) \/ Restore(w)
  BY <1>3, StatusTrails DEF Archive, Destroy, Restore, Verbs
<1>4. CASE \E w \in Workers : PinNote(w) \/ ReleaseNote(w) \/ Note(w) \/ ImportNote(w)
  BY <1>4, NoteTrails
<1>5. CASE \/ \E w \in Workers, s \in Scores : RecordScore(w, s)
           \/ \E r \in Risks : DeleteRisk(r)
  BY <1>5, RollTrails
<1>6. CASE UNCHANGED <<revisions, history>>
  BY <1>6 DEF WellFormed, TypeOK, TrailTypes
<1>7. CASE \/ \E w \in Workers, v \in Verbs, e \in Entities : Load(w, v, e)
           \/ \E w \in Workers : Drop(w) \/ Release(w) \/ Reset(w)
           \/ \E w \in Workers : Fetch(w) \/ Compute(w) \/ SaveRoll(w)
           \/ \E w \in Workers, r \in Pins : Pin(w, r) \/ ImportPin(w, r)
           \/ \E w \in Workers, r \in Risks, new \in RiskRows : WriteRisk(w, r, new)
           \/ \E w \in Workers, e \in Entities, b \in Bodies : ImportNew(w, e, b)
           \/ \E e \in Entities, t \in Texts, r \in Pins, st \in {"Active", "Archived"} : Ingest(e, t, r, st)
           \/ \E e \in Entities : FlagWeak(e)
           \/ \E scores \in ModelScores : Activate(scores)
  BY <1>6, <1>7, ZenonT(60) DEF Activate, Load, Drop, Release, Reset, Fetch, Compute, SaveRoll, Pin, ImportPin,
     WriteRisk, ImportNew, Ingest, FlagWeak
<1> QED
  BY <1>1, <1>2, <1>3, <1>4, <1>5, <1>7 DEF Next

LEMMA RisksStep ==
  ASSUME WellFormed, RowsAdvance, Next
  PROVE  RiskTypes'
<1>1. /\ risk \in [Risks -> RiskRows \cup {Absent}]
      /\ \A r \in Risks : risk[r] # Absent => row'[risk[r].entity] # Absent
  BY DEF WellFormed, TypeOK, Anchored, RowsAdvance, RiskRows
<1>2. CASE UNCHANGED risk
  BY <1>1, <1>2 DEF RiskTypes
<1>3. ASSUME NEW w \in Workers, NEW r \in Risks, NEW new \in RiskRows, WriteRisk(w, r, new)
      PROVE  RiskTypes'
  <2>1. risk' = [risk EXCEPT ![r] = new] /\ row'[new.entity] # Absent
    BY <1>3 DEF WriteRisk
  <2> QED
    BY <1>1, <2>1 DEF RiskTypes
<1>4. ASSUME NEW r \in Risks, DeleteRisk(r)
      PROVE  RiskTypes'
  <2>1. risk' = [risk EXCEPT ![r] = Absent]
    BY <1>4 DEF DeleteRisk
  <2> QED
    BY <1>1, <2>1 DEF RiskTypes
<1>5. \/ UNCHANGED risk
      \/ \E w \in Workers, r \in Risks, new \in RiskRows : WriteRisk(w, r, new)
      \/ \E r \in Risks : DeleteRisk(r)
  BY ZenonT(60) DEF Next, Create, Load, Drop, Patch, ImportSave, Archive, Destroy, Restore, SetStatus, Pin,
     ImportPin, PinNote, Release, ReleaseNote, Reset, RecordScore, Activate, Fetch, Compute, SaveRoll, Note,
     ImportNote, ImportNew, Ingest, FlagWeak
<1> QED
  BY <1>2, <1>3, <1>4, <1>5

LEMMA ScoresStep ==
  ASSUME WellFormed, Next
  PROVE  /\ score' \in [Entities -> Scores \cup {None}]
         /\ raced' \subseteq Entities /\ switched' \subseteq Entities
<1>1. score \in [Entities -> Scores \cup {None}] /\ raced \subseteq Entities /\ switched \subseteq Entities
  BY DEF WellFormed, TypeOK
<1>2. \/ UNCHANGED score
      \/ \E w \in Workers, s \in Scores : RecordScore(w, s)
      \/ \E scores \in ModelScores : Activate(scores)
  BY ZenonT(60) DEF Next, Create, Load, Drop, Patch, ImportSave, Archive, Destroy, Restore, SetStatus, Pin,
     ImportPin, PinNote, Release, ReleaseNote, Reset, WriteRisk, DeleteRisk, Fetch, Compute,
     SaveRoll, Note, ImportNote, ImportNew, Ingest, FlagWeak
<1>3. score' \in [Entities -> Scores \cup {None}]
  <2>1. CASE \E scores \in ModelScores : Activate(scores)
    BY <2>1, ConstantsAssumption DEF Activate
  <2> QED
    BY <1>1, <1>2, <2>1 DEF RecordScore
<1>7. switched' \subseteq Entities
  <2>1. \/ UNCHANGED switched
        \/ \E e : RolledNow(e)
        \/ \E scores \in ModelScores : Activate(scores)
    BY ZenonT(60) DEF Next, Create, Load, Drop, Patch, ImportSave, Archive, Destroy, Restore, SetStatus, Pin,
       ImportPin, PinNote, Release, ReleaseNote, Reset, RecordScore, WriteRisk, DeleteRisk, Fetch, Compute,
       SaveRoll, Note, ImportNote, ImportNew, Ingest, FlagWeak
  <2> QED
    BY <1>1, <2>1 DEF RolledNow, Activate
<1>4. \A w \in Workers : job[w] # Idle => job[w].entity \in Entities /\ job[w].next \in Entities \cup {None}
  BY JobKinds DEF WellFormed
<1>5. \A w \in Workers : job[w].verb # "none" => job[w].entity \in Entities
  BY <1>4, Busy DEF WellFormed
<1>6. raced' \subseteq Entities
  <2>1. CASE \E w \in Workers : Drop(w)
    BY <1>1, <1>4, <2>1 DEF Drop
  <2>2. CASE \E e \in Entities : raced' = raced \/ raced' = raced \cup {e}
    BY <1>1, <2>2
  <2>3. CASE UNCHANGED raced
    BY <1>1, <2>3
  <2>4. \/ UNCHANGED raced
        \/ \E w \in Workers : Drop(w)
        \/ \E e \in Entities : raced' = raced \cup {e}
    BY <1>5, ZenonT(60) DEF Next, Activate, Create, Load, Patch, ImportSave, Archive, Destroy, Restore, SetStatus, Pin,
       ImportPin, PinNote, Release, ReleaseNote, Reset, RecordScore, WriteRisk, DeleteRisk, Fetch,
       Compute, SaveRoll, Note, ImportNote, ImportNew, Ingest, FlagWeak, RacedUnless
  <2> QED
    BY <2>1, <2>2, <2>3, <2>4
<1> QED
  BY <1>3, <1>6, <1>7

LEMMA WellFormedStep == WellFormed /\ [Next]_vars => WellFormed'
<1> SUFFICES ASSUME WellFormed, [Next]_vars
             PROVE  WellFormed'
  OBVIOUS
<1>1. CASE Next
  <2>1. RowsAdvance
    BY <1>1, RowsStep
  <2>2. JobsGrounded' /\ RiskTypes'
    BY <1>1, <2>1, JobsStep, RisksStep
  <2>3. /\ TrailTypes' /\ score' \in [Entities -> Scores \cup {None}]
        /\ raced' \subseteq Entities /\ switched' \subseteq Entities
    BY <1>1, TrailsStep, ScoresStep
  <2> QED
    BY <2>1, <2>2, <2>3
    DEF RowsAdvance, JobsGrounded, Grounded, RiskTypes, TrailTypes, WellFormed, TypeOK, Anchored
<1>2. CASE UNCHANGED vars
  BY <1>2 DEF vars, WellFormed, TypeOK, Anchored
<1> QED
  BY <1>1, <1>2

\* Every reachable state is typed, and the entities that risks and handlers
\* refer to have rows.
THEOREM WellFormedAlways == Spec => []WellFormed
<1>1. Init => WellFormed
  BY InitWellFormed
<1>2. WellFormed /\ [Next]_vars => WellFormed'
  BY WellFormedStep
<1> QED
  BY <1>1, <1>2, PTL DEF Spec

\* Type correctness of the audit universe.
THEOREM TypeCorrect == Spec => []TypeOK
<1>1. WellFormed => TypeOK
  BY DEF WellFormed
<1> QED
  BY <1>1, WellFormedAlways, PTL

-----------------------------------------------------------------------------
(* The version lock. *)

\* The invariant behind it: no PATCH holds an instance from the future, and an
\* instance with the version of the row has its text and its status.  Every
\* committed writer of a row that is not raced keeps this, because it either
\* takes a later version or leaves text and status alone.
PatchesCompare ==
  \A w \in Workers : job[w].verb = "patch" /\ job[w].entity \notin raced =>
    Advances(job[w].copy, row[job[w].entity])

\* A PATCH that is under way after a step was under way before it, or has just
\* loaded its instance.
LEMMA PatchJobs ==
  ASSUME WellFormed, Next, NEW w \in Workers, job'[w].verb = "patch"
  PROVE  \/ job'[w] = job[w]
         \/ /\ UNCHANGED row /\ job'[w].entity \in Entities
            /\ row[job'[w].entity] # Absent /\ job'[w].copy = row[job'[w].entity]
<1> DEFINE Goal == \/ job'[w] = job[w]
                   \/ /\ UNCHANGED row /\ job'[w].entity \in Entities
                      /\ row[job'[w].entity] # Absent /\ job'[w].copy = row[job'[w].entity]
<1> SUFFICES Goal
  OBVIOUS
<1>1. job \in [Workers -> Jobs]
  BY DEF WellFormed, TypeOK
<1>2. ASSUME NEW v \in Workers, NEW j, job' = [job EXCEPT ![v] = j], j.verb # "patch"
      PROVE  job'[w] = job[w]
  BY <1>1, <1>2
<1>3. \A v \in Workers : Afterwards(v).verb # "patch"
  BY DEF Afterwards, Idle
<1>4. CASE \E v \in Workers, x \in Verbs, e \in Entities : Load(v, x, e)
  <2>1. PICK v \in Workers, x \in Verbs, e \in Entities : Load(v, x, e)
    BY <1>4
  <2>2. /\ job' = [job EXCEPT ![v] = Doing(x, e, row[e], None)]
        /\ UNCHANGED row /\ row[e] # Absent
    BY <2>1 DEF Load
  <2> QED
    BY <1>1, <2>2 DEF Doing
<1>5. CASE UNCHANGED job
  BY <1>5
<1>6. CASE \E v \in Workers : job' = [job EXCEPT ![v] = Idle] \/ job' = [job EXCEPT ![v] = Afterwards(v)]
  BY <1>2, <1>3, <1>6 DEF Idle
<1>7. ASSUME NEW v \in Workers, NEW x \in Stages, NEW e, NEW inst, NEW next,
             job' = [job EXCEPT ![v] = Doing(x, e, inst, next)]
      PROVE  Goal
  <2>1. Doing(x, e, inst, next).verb # "patch"
    BY DEF Doing, Stages
  <2> QED
    BY <1>2, <1>7, <2>1
<1>8. ASSUME NEW v \in Workers, job[v].verb \in Verbs \cup Stages, NEW x \in Stages, NEW j,
             \/ \E c, n : j = [job[v] EXCEPT !.verb = x, !.copy = c, !.new = n]
             \/ \E c : j = [job[v] EXCEPT !.verb = x, !.copy = c]
             \/ \E n : j = [job[v] EXCEPT !.verb = x, !.new = n],
             job' = [job EXCEPT ![v] = j]
      PROVE  Goal
  <2>1. job[v] \in [verb : Verbs \cup Stages, entity : Entities, copy : Rows, new : Rows,
                    next : Entities \cup {None}]
    BY <1>8, Held, JobKinds DEF WellFormed, Verbs, Stages
  <2>2. j.verb = x
    BY <1>8, <2>1
  <2>3. x # "patch"
    BY DEF Stages
  <2> QED
    BY <1>2, <1>8, <2>2, <2>3
<1>9. ASSUME NEW v \in Workers, Compute(v) \/ SaveRoll(v)
      PROVE  Goal
  <2>1. job[v].verb \in Verbs \cup Stages
    BY <1>9 DEF Compute, SaveRoll, Stages
  <2>2. \/ job' = [job EXCEPT ![v] = Afterwards(v)]
        \/ \E n : job' = [job EXCEPT ![v] = [job[v] EXCEPT !.verb = "save", !.new = n]]
        \/ \E c : job' = [job EXCEPT ![v] = [job[v] EXCEPT !.verb = "note", !.copy = c]]
    BY <1>9 DEF Compute, SaveRoll
  <2>3. CASE job' = [job EXCEPT ![v] = Afterwards(v)]
    BY <1>6, <2>3
  <2>4. CASE \E n : job' = [job EXCEPT ![v] = [job[v] EXCEPT !.verb = "save", !.new = n]]
    <3>1. "save" \in Stages
      BY DEF Stages
    <3>2. PICK n : job' = [job EXCEPT ![v] = [job[v] EXCEPT !.verb = "save", !.new = n]]
      BY <2>4
    <3> QED
      BY <1>8, <2>1, <3>1, <3>2
  <2>5. CASE \E c : job' = [job EXCEPT ![v] = [job[v] EXCEPT !.verb = "note", !.copy = c]]
    <3>1. "note" \in Stages
      BY DEF Stages
    <3>2. PICK c : job' = [job EXCEPT ![v] = [job[v] EXCEPT !.verb = "note", !.copy = c]]
      BY <2>5
    <3> QED
      BY <1>8, <2>1, <3>1, <3>2
  <2> QED
    BY <2>2, <2>3, <2>4, <2>5
<1>10. ASSUME NEW v \in Workers, \/ \E r \in Pins : Pin(v, r)
                                 \/ Release(v)
      PROVE  Goal
  <2>1. job[v].verb \in Verbs \cup Stages
    BY <1>10 DEF Pin, Release, Verbs
  <2>2. PICK x \in {"pinned", "released"} : \E c, n :
          job' = [job EXCEPT ![v] = [job[v] EXCEPT !.verb = x, !.copy = c, !.new = n]]
    <3>1. CASE Release(v)
      <4> DEFINE c == [job[v].copy EXCEPT !.pinned = FALSE, !.version = @ + 1]
      <4>1. job' = [job EXCEPT ![v] = [job[v] EXCEPT !.verb = "released", !.copy = c, !.new = job[v].copy]]
        BY <1>1, <3>1 DEF Release
      <4> HIDE DEF c
      <4> QED
        BY <4>1
    <3>2. CASE \E r \in Pins : Pin(v, r)
      <4>1. PICK r \in Pins : Pin(v, r)
        BY <3>2
      <4> DEFINE c == [job[v].copy EXCEPT !.rating = r, !.pinned = TRUE, !.version = @ + 1]
      <4>2. job' = [job EXCEPT ![v] = [job[v] EXCEPT !.verb = "pinned", !.copy = c, !.new = job[v].copy]]
        BY <1>1, <4>1 DEF Pin
      <4> HIDE DEF c
      <4> QED
        BY <4>2
    <3> QED
      BY <1>10, <3>1, <3>2
  <2>3. PICK c, n : job' = [job EXCEPT ![v] = [job[v] EXCEPT !.verb = x, !.copy = c, !.new = n]]
    BY <2>2
  <2>4. x \in Stages
    BY DEF Stages
  <2> QED
    BY <1>8, <2>1, <2>3, <2>4
<1>11. CASE \E v \in Workers, r \in Pins : ImportPin(v, r)
  <2>1. "overridden" \in Stages
    BY DEF Stages
  <2>2. PICK v \in Workers, r \in Pins : ImportPin(v, r)
    BY <1>11
  <2> DEFINE inst == [job[v].copy EXCEPT !.rating = r, !.pinned = TRUE]
  <2>3. job' = [job EXCEPT ![v] = Doing("overridden", job[v].entity, inst, None)]
    BY <2>2 DEF ImportPin
  <2> HIDE DEF inst
  <2> QED
    BY <1>7, <2>1, <2>3
<1>12. CASE \E v \in Workers : ReleaseNote(v) \/ Reset(v) \/ Fetch(v)
  <2>1. "reroll" \in Stages
    BY DEF Stages
  <2> QED
    BY <1>7, <1>12, <2>1 DEF ReleaseNote, Reset, Fetch
<1>13. ASSUME NEW v \in Workers, NEW e, NEW inst, ImportGoesOn(v, e, inst)
       PROVE  Goal
  <2>1. \/ job' = [job EXCEPT ![v] = Idle]
        \/ job' = [job EXCEPT ![v] = Doing("imported", e, inst, None)]
    BY <1>13 DEF ImportGoesOn
  <2>2. "imported" \in Stages
    BY DEF Stages
  <2> QED
    BY <1>6, <1>7, <2>1, <2>2
<1>14. CASE \E v \in Workers, r \in Risks, new \in RiskRows : WriteRisk(v, r, new)
  <2>1. PICK v \in Workers, r \in Risks, new \in RiskRows : WriteRisk(v, r, new)
    BY <1>14
  <2> DEFINE j == [verb |-> "signal", entity |-> new.entity,
                   next |-> IF risk[r] # Absent /\ risk[r].entity # new.entity THEN risk[r].entity ELSE None]
  <2>2. job' = [job EXCEPT ![v] = j] /\ j.verb # "patch"
    BY <2>1 DEF WriteRisk
  <2> HIDE DEF j
  <2> QED
    BY <1>2, <2>2
<1>15. CASE \/ \E v \in Workers : Drop(v) \/ Archive(v) \/ Destroy(v) \/ Restore(v)
            \/ \E v \in Workers : PinNote(v) \/ Note(v) \/ ImportNote(v)
            \/ \E v \in Workers, b \in Bodies : Patch(v, b)
            \/ \E v \in Workers, s \in Scores : RecordScore(v, s)
  BY <1>6, <1>15, ZenonT(60)
  DEF Drop, Archive, Destroy, Restore, SetStatus, PinNote, Note, ImportNote, Patch, RecordScore
<1>16. CASE \/ \E e \in Entities, b \in Bodies : Create(e, b)
            \/ \E r \in Risks : DeleteRisk(r)
            \/ \E e \in Entities, t \in Texts, r \in Pins, st \in {"Active", "Archived"} : Ingest(e, t, r, st)
            \/ \E e \in Entities : FlagWeak(e)
            \/ \E scores \in ModelScores : Activate(scores)
  BY <1>5, <1>16 DEF Activate, Create, DeleteRisk, Ingest, FlagWeak
<1> HIDE DEF Goal
<1>17. CASE \E v \in Workers, b \in Bodies : Patch(v, b) \/ ImportSave(v, b)
  BY <1>13, <1>15, <1>17 DEF ImportSave
<1>18. CASE \E v \in Workers, e \in Entities, b \in Bodies : ImportNew(v, e, b)
  BY <1>13, <1>18 DEF ImportNew
<1>19. CASE \E v \in Workers, r \in Pins : Pin(v, r) \/ ImportPin(v, r)
  BY <1>10, <1>11, <1>19
<1>20. CASE \E v \in Workers : PinNote(v) \/ Release(v) \/ ReleaseNote(v) \/ Reset(v)
  BY <1>10, <1>12, <1>15, <1>20
<1>21. CASE \E v \in Workers : Fetch(v) \/ Compute(v) \/ SaveRoll(v) \/ Note(v) \/ ImportNote(v)
  BY <1>9, <1>12, <1>15, <1>21
<1> QED
  BY <1>4, <1>14, <1>15, <1>16, <1>17, <1>18, <1>19, <1>20, <1>21 DEF Next

\* A raced entity stays so.
LEMMA RacedGrows == Next => raced \subseteq raced'
BY ZenonT(60) DEF Next, Activate, Create, Load, Drop, Patch, ImportSave, Archive, Destroy, Restore, SetStatus, Pin,
   ImportPin, PinNote, Release, ReleaseNote, Reset, RecordScore, WriteRisk, DeleteRisk, Fetch,
   Compute, SaveRoll, Note, ImportNote, ImportNew, Ingest, FlagWeak, RacedUnless

LEMMA PatchesCompareStep == WellFormed /\ PatchesCompare /\ [Next]_vars => PatchesCompare'
<1> SUFFICES ASSUME WellFormed, PatchesCompare, [Next]_vars
             PROVE  PatchesCompare'
  OBVIOUS
<1>1. CASE Next
  <2> SUFFICES ASSUME NEW w \in Workers, job'[w].verb = "patch", job'[w].entity \notin raced'
               PROVE  Advances(job'[w].copy, row'[job'[w].entity])
    BY DEF PatchesCompare
  <2> DEFINE e == job'[w].entity
  <2>1. e \notin raced
    BY <1>1, RacedGrows
  <2>2. CASE job'[w] = job[w]
    <3>1. e \in Entities /\ row[e] \in Rows /\ row[e] # Absent /\ job[w].copy \in Rows
      BY <2>2, Held DEF Verbs
    <3>2. Advances(job[w].copy, row[e])
      BY <2>1, <2>2 DEF PatchesCompare
    <3>3. Advances(row[e], row'[e]) /\ row'[e] \in Rows
      BY <1>1, <3>1, RowsStep DEF RowsAdvance
    <3> QED
      BY <2>2, <3>1, <3>2, <3>3 DEF Advances, Rows
  <2>3. CASE UNCHANGED row /\ e \in Entities /\ row[e] # Absent /\ job'[w].copy = row[e]
    <3>1. row[e] \in Rows
      BY <2>3, RowType DEF WellFormed
    <3> QED
      BY <2>3, <3>1 DEF Advances, Rows
  <2> QED
    BY <1>1, <2>2, <2>3, PatchJobs
<1>2. CASE UNCHANGED vars
  BY <1>2 DEF vars, PatchesCompare, Advances
<1> QED
  BY <1>1, <1>2

LEMMA InitPatchesCompare == Init => PatchesCompare
BY DEF Init, PatchesCompare, Idle

\* The version of the row tells whether an instance is what it was loaded as.
THEOREM PatchesCompareAlways == Spec => [](WellFormed /\ PatchesCompare)
<1>1. Init => WellFormed /\ PatchesCompare
  BY InitWellFormed, InitPatchesCompare
<1>2. (WellFormed /\ PatchesCompare) /\ [Next]_vars => (WellFormed /\ PatchesCompare)'
  BY WellFormedStep, PatchesCompareStep
<1> QED
  BY <1>1, <1>2, PTL DEF Spec

\* A worker's PATCH ends in Patch or Drop.
LEMMA PatchEnds ==
  ASSUME WellFormed, Next, NEW w \in Workers, job[w].verb = "patch", job'[w] = Idle
  PROVE  UNCHANGED row \/ row[job[w].entity].version = job[w].copy.version
<1>1. job \in [Workers -> Jobs] /\ job[w] # Idle
  BY Busy DEF WellFormed, TypeOK
<1>2. ASSUME NEW v \in Workers, \E j : job' = [job EXCEPT ![v] = j], v # w
      PROVE  FALSE
  BY <1>1, <1>2
<1>3. CASE \/ \E v \in Workers, x \in Verbs, e \in Entities : Load(v, x, e)
           \/ \E v \in Workers : Drop(v)
           \/ \E v \in Workers, r \in Risks, new \in RiskRows : WriteRisk(v, r, new)
           \/ \E v \in Workers : PinNote(v) \/ ReleaseNote(v)
           \/ \E v \in Workers : Fetch(v) \/ Compute(v) \/ Note(v) \/ ImportNote(v)
  BY <1>3 DEF Load, Drop, WriteRisk, PinNote, ReleaseNote, Fetch, Compute, Note, ImportNote
<1>4. CASE UNCHANGED job
  BY <1>1, <1>4
<1>5. CASE \E v \in Workers, b \in Bodies : Patch(v, b)
  <2>1. PICK v \in Workers, b \in Bodies : Patch(v, b)
    BY <1>5
  <2>2. row[job[v].entity].version = job[v].copy.version /\ job' = [job EXCEPT ![v] = Idle]
    BY <2>1 DEF Patch
  <2>3. v = w
    BY <1>2, <2>2
  <2> QED
    BY <2>2, <2>3
<1>6. ASSUME NEW v \in Workers, job[v].verb # "patch", \E j : job' = [job EXCEPT ![v] = j]
      PROVE  FALSE
  BY <1>2, <1>6
<1>7. ASSUME NEW v \in Workers, NEW b \in Bodies, ImportSave(v, b)
      PROVE  FALSE
  <2>1. job[v].verb # "patch" /\ \E j : job' = [job EXCEPT ![v] = j]
    BY <1>7 DEF ImportSave, ImportGoesOn
  <2> QED
    BY <1>6, <2>1
<1>8. ASSUME NEW v \in Workers, Archive(v) \/ Destroy(v) \/ Restore(v)
      PROVE  FALSE
  BY <1>6, <1>8 DEF Archive, Destroy, Restore, SetStatus
<1>9. ASSUME NEW v \in Workers, (\E r \in Pins : ImportPin(v, r)) \/ Reset(v) \/ SaveRoll(v)
      PROVE  FALSE
  BY <1>6, <1>9 DEF ImportPin, Reset, SaveRoll
<1>10. ASSUME NEW v \in Workers, (\E r \in Pins : Pin(v, r)) \/ Release(v)
       PROVE  FALSE
  <2>1. job[v].verb # "patch" /\ \A u \in Workers \ {v} : job'[u] = job[u]
    BY <1>1, <1>10 DEF Pin, Release
  <2> QED
    BY <1>1, <2>1
<1>11. ASSUME NEW v \in Workers, NEW s \in Scores, RecordScore(v, s)
       PROVE  FALSE
  BY <1>6, <1>11 DEF RecordScore
<1>12. ASSUME NEW v \in Workers, NEW e \in Entities, NEW b \in Bodies, ImportNew(v, e, b)
       PROVE  FALSE
  <2>1. job[v].verb # "patch" /\ \E j : job' = [job EXCEPT ![v] = j]
    BY <1>12 DEF ImportNew, ImportGoesOn, Idle
  <2> QED
    BY <1>6, <2>1
<1>13. CASE \/ \E e \in Entities, b \in Bodies : Create(e, b)
            \/ \E r \in Risks : DeleteRisk(r)
            \/ \E e \in Entities, t \in Texts, r \in Pins, st \in {"Active", "Archived"} : Ingest(e, t, r, st)
            \/ \E e \in Entities : FlagWeak(e)
            \/ \E scores \in ModelScores : Activate(scores)
  BY <1>4, <1>13 DEF Activate, Create, DeleteRisk, Ingest, FlagWeak
<1> QED
  BY <1>3, <1>5, <1>7, <1>8, <1>9, <1>10, <1>11, <1>12, <1>13 DEF Next

\* PATCH saves every column of an instance that was loaded before the row was
\* locked; the version it compares then makes sure that the text and the
\* status it overwrites are those of its instance.
THEOREM LockKeepsEdits == Spec => NoLostUpdate
<1> DEFINE Kept ==
      \A w \in Workers :
        job[w].verb = "patch" /\ job'[w] = Idle /\ row' # row /\ job[w].entity \notin raced' =>
          /\ row[job[w].entity].text = job[w].copy.text
          /\ row[job[w].entity].status = job[w].copy.status
<1>1. ASSUME WellFormed, PatchesCompare, [Next]_vars
      PROVE  [Kept]_vars
  <2>1. CASE UNCHANGED vars
    BY <2>1
  <2>2. CASE Next
    <3>1. ASSUME NEW w \in Workers, job[w].verb = "patch", job'[w] = Idle, row' # row,
                 job[w].entity \notin raced'
          PROVE  /\ row[job[w].entity].text = job[w].copy.text
                 /\ row[job[w].entity].status = job[w].copy.status
      <4>1. job[w].entity \notin raced
        BY <2>2, <3>1, RacedGrows
      <4>2. row[job[w].entity].version = job[w].copy.version
        BY <1>1, <2>2, <3>1, PatchEnds
      <4> QED
        BY <1>1, <3>1, <4>1, <4>2 DEF PatchesCompare, Advances
    <3> QED
      BY <3>1
  <2> QED
    BY <1>1, <2>1, <2>2
<1> QED
  BY <1>1, PatchesCompareAlways, PTL DEF Spec, NoLostUpdate

\* The status of an entity changes only together with a revision of the version
\* it gets, although archive, restore and DELETE do not compare versions and
\* PATCH writes the status its instance had.
THEOREM StatusIsRecorded == Spec => StatusRecorded
<1> DEFINE Noted ==
      \A e \in Entities \ raced' :
        row[e] # Absent /\ row'[e].status # row[e].status =>
          row'[e].version \in revisions'[e] \ revisions[e]
<1>1. ASSUME WellFormed, PatchesCompare, [Next]_vars
      PROVE  [Noted]_vars
  <2>1. CASE UNCHANGED vars
    BY <2>1
  <2>2. CASE Next
    <3>1. ASSUME NEW e \in Entities \ raced', row[e] # Absent, row'[e].status # row[e].status
          PROVE  row'[e].version \in revisions'[e] \ revisions[e]
      <4>1. StatusNoted(e, row'[e]) /\ e \notin raced
        BY <1>1, <2>2, <3>1, RowsStep, RacedGrows DEF RowsAdvance
      <4>2. \A w \in Workers :
              job[w].verb = "patch" /\ job[w].entity = e /\ row[e].version = job[w].copy.version =>
                row[e].status = job[w].copy.status
        BY <1>1, <4>1 DEF PatchesCompare, Advances
      <4> QED
        BY <3>1, <4>1, <4>2 DEF StatusNoted
    <3> QED
      BY <3>1
  <2> QED
    BY <1>1, <2>1, <2>2
<1> QED
  BY <1>1, PatchesCompareAlways, PTL DEF Spec, StatusRecorded

-----------------------------------------------------------------------------
(***************************************************************************)
(* The trails and the roll-up.  A handler commits several times, so that   *)
(* the rating may be ahead of the history and behind the risks; but then   *)
(* some handler still owes the entry or the roll-up, and it either pays or *)
(* finds that its instance is not the row, which races the entity.         *)
(***************************************************************************)

\* A handler that has a history entry of e to write.
Notes(j, e) == j.verb \in {"pinned", "note", "overridden"} /\ j.entity = e

\* A handler that will find that e has to be rolled up.
Owes(j, rs, s, e) ==
  \/ j.verb = "signal" /\ e \in {j.entity, j.next}
  \/ j.verb \in {"reroll", "save", "note"} /\ e = j.next
  \/ j.verb = "save" /\ e = j.entity
  \/ j.verb \in {"released", "reroll"} /\ e = j.entity /\ Rolled(rs, s, e, j.copy) # j.copy

\* The revision a release has to write is not ahead of the row r, and a PATCH
\* whose version is the row's has its rating too.
Behind(j, r, e) ==
  /\ j.verb = "released" /\ j.entity = e => j.copy.version <= r.version
  /\ j.verb = "patch" /\ j.entity = e /\ j.copy.version = r.version => j.copy.rating = r.rating

IsRolled(e) == Rolled(risk, score[e], e, row[e]) = row[e]
Blank(e) == history[e] = "Medium" /\ revisions[e] = {} /\ score[e] = None

Kept(e) ==
  /\ row[e] = Absent => Blank(e)
  /\ row[e] # Absent =>
       /\ history[e] = row[e].rating \/ \E w \in Workers : Notes(job[w], e)
       /\ e \in switched \/ IsRolled(e) \/ \E w \in Workers : Owes(job[w], risk, score[e], e)
       /\ \A v \in revisions[e] : v <= row[e].version
       /\ \A w \in Workers : Behind(job[w], row[e], e)

TrailInv == \A e \in Entities \ raced : Kept(e)

-----------------------------------------------------------------------------
(* Rolling up twice changes nothing more. *)

LEMMA RolledFields ==
  ASSUME NEW rs \in [Risks -> RiskRows \cup {Absent}], NEW e \in Entities,
         NEW s \in Scores \cup {None}, NEW inst \in Rows,
         NEW n, n = Rolled(rs, s, e, inst)
  PROVE  /\ n \in Rows
         /\ n.residual = Worst(rs, e) /\ n.rating = Resolve(inst, Worst(rs, e), s)
         /\ n.pinned = inst.pinned /\ n.text = inst.text /\ n.status = inst.status
         /\ n.rating # inst.rating => n.version = inst.version + 1
         /\ n.rating = inst.rating => n.version = inst.version
         /\ n = inst <=> inst.residual = Worst(rs, e) /\ inst.rating = Resolve(inst, Worst(rs, e), s)
<1> DEFINE p == Worst(rs, e)
           a == Resolve(inst, p, s)
           v == IF a # inst.rating THEN inst.version + 1 ELSE inst.version
<1>1. p \in (0 .. 5) \X (0 .. 5)
  BY WorstType
<1>2. a \in Ratings
  BY <1>1, ResolveType
<1>3. v \in Nat \ {0}
  BY DEF Rows
<1>4. n = [inst EXCEPT !.residual = p, !.rating = a, !.version = v]
  BY DEF Rolled
<1>5. /\ n \in Rows /\ n.residual = p /\ n.rating = a /\ n.version = v
      /\ n.pinned = inst.pinned /\ n.text = inst.text /\ n.status = inst.status
  <2> HIDE DEF p, a, v
  <2> QED
    BY <1>1, <1>2, <1>3, <1>4 DEF Rows
<1>6. n = inst <=> inst.residual = p /\ inst.rating = a
  <2>1. ASSUME inst.residual = p, inst.rating = a PROVE n = inst
    <3>1. v = inst.version
      BY <2>1
    <3> HIDE DEF p, a, v
    <3> QED
      BY <1>4, <2>1, <3>1 DEF Rows
  <2> QED
    BY <1>5, <2>1
<1> QED
  BY <1>5, <1>6

LEMMA RolledTwice ==
  ASSUME NEW rs \in [Risks -> RiskRows \cup {Absent}], NEW e \in Entities,
         NEW s \in Scores \cup {None}, NEW inst \in Rows,
         NEW n, n = Rolled(rs, s, e, inst)
  PROVE  Rolled(rs, s, e, n) = n
<1> DEFINE p == Worst(rs, e)
<1>1. /\ n \in Rows /\ n.residual = p /\ n.rating = Resolve(inst, p, s) /\ n.pinned = inst.pinned
  BY RolledFields
<1>2. inst.rating \in Ratings /\ Band(p) \in Ratings /\ (s # None => s.band \in Ratings /\ s.high \in BOOLEAN)
  BY ConstantsAssumption DEF Rows, Band, Ratings
<1>3. Resolve(n, p, s) = n.rating
  <2> HIDE DEF p
  <2>1. \A a \in Ratings : /\ WorseRating(WorseRating(a, "High"), "High") = WorseRating(a, "High")
                           /\ Severity[a] \in Nat /\ Severity["High"] = 3
    BY DEF WorseRating, Ratings, Severity
  <2>2. CASE inst.pinned
    BY <1>1, <2>2 DEF Resolve
  <2>3. CASE ~inst.pinned /\ s # None /\ s.high
    BY <1>1, <1>2, <2>1, <2>3 DEF Resolve
  <2>4. CASE ~inst.pinned /\ s # None /\ ~s.high
    BY <1>1, <1>2, <2>1, <2>4 DEF Resolve
  <2>5. CASE ~inst.pinned /\ s = None
    BY <1>1, <1>2, <2>1, <2>5 DEF Resolve
  <2> QED
    BY <2>2, <2>3, <2>4, <2>5 
<1> QED
  BY <1>1, <1>3, RolledFields

\* Of equal rows, what matters to the roll-up.
LEMMA RolledAlike ==
  ASSUME NEW rs \in [Risks -> RiskRows \cup {Absent}], NEW e \in Entities,
         NEW s \in Scores \cup {None}, NEW inst \in Rows, NEW n \in Rows,
         n.residual = inst.residual, (n.rating = inst.rating /\ n.pinned = inst.pinned) \/ n.pinned,
         Rolled(rs, s, e, inst) = inst
  PROVE  Rolled(rs, s, e, n) = n
<1>1. inst.residual = Worst(rs, e) /\ inst.rating = Resolve(inst, Worst(rs, e), s)
  BY RolledFields
<1>2. n.rating = Resolve(n, Worst(rs, e), s)
  BY <1>1 DEF Resolve
<1> QED
  BY <1>1, <1>2, RolledFields

\* A save over the row its instance was loaded from leaves the new instance.
LEMMA SavedIsNew ==
  ASSUME NEW rs \in [Risks -> RiskRows \cup {Absent}], NEW e \in Entities,
         NEW s \in Scores \cup {None}, NEW inst \in Rows,
         NEW n, n = Rolled(rs, s, e, inst)
  PROVE  Saved(inst, inst, n) = n
<1>1. /\ n \in Rows /\ n.pinned = inst.pinned /\ n.text = inst.text /\ n.status = inst.status
      /\ n.rating = inst.rating => n.version = inst.version
  BY RolledFields
<1> DEFINE column(k) == IF n.residual[k] # inst.residual[k] THEN n.residual[k] ELSE inst.residual[k]
           p == <<column(1), column(2)>>
           a == IF n.rating # inst.rating THEN n.rating ELSE inst.rating
           v == IF n.rating # inst.rating THEN n.version ELSE inst.version
<1>2. p = n.residual
  <2>1. n.residual \in (0 .. 5) \X (0 .. 5)
    BY <1>1 DEF Rows
  <2>2. column(1) = n.residual[1] /\ column(2) = n.residual[2]
    OBVIOUS
  <2> HIDE DEF column
  <2> QED
    BY <2>1, <2>2
<1>3. a = n.rating /\ v = n.version
  BY <1>1
<1>4. Saved(inst, inst, n) = [inst EXCEPT !.residual = p, !.rating = a, !.version = v]
  BY DEF Saved
<1> HIDE DEF p, a, v
<1>5. /\ Saved(inst, inst, n) \in Rows
      /\ Saved(inst, inst, n).residual = n.residual /\ Saved(inst, inst, n).rating = n.rating
      /\ Saved(inst, inst, n).version = n.version /\ Saved(inst, inst, n).pinned = n.pinned
      /\ Saved(inst, inst, n).text = n.text /\ Saved(inst, inst, n).status = n.status
  <2>1. p \in (0 .. 5) \X (0 .. 5) /\ a \in Ratings /\ v \in Nat \ {0}
    BY <1>1, <1>2, <1>3 DEF Rows
  <2> QED
    BY <1>1, <1>2, <1>3, <1>4, <2>1 DEF Rows
<1> DEFINE m == Saved(inst, inst, n)
<1>6. m \in Rows /\ m.residual = n.residual /\ m.rating = n.rating /\ m.version = n.version
      /\ m.pinned = n.pinned /\ m.text = n.text /\ m.status = n.status
  BY <1>5
<1> HIDE DEF m
<1>7. m = n
  BY <1>1, <1>6 DEF Rows
<1> QED
  BY <1>7 DEF m

\* The risks of other entities do not matter.
LEMMA WorstSame ==
  ASSUME NEW rs, NEW rs2, NEW e,
         \A r \in Risks : \/ rs2[r] = rs[r]
                          \/ /\ rs[r] # Absent => rs[r].entity # e
                             /\ rs2[r] # Absent => rs2[r].entity # e
  PROVE  Worst(rs2, e) = Worst(rs, e)
<1> DEFINE Counted(x) == {r \in Risks : x[r] # Absent /\ x[r].entity = e /\ x[r].open}
           Open(x) == {x[r].position : r \in Counted(x)}
           Pick(S) == IF S = {} THEN NoPosition ELSE CHOOSE p \in S : \A q \in S : Outranks(p, q)
<1>1. Counted(rs2) = Counted(rs)
  OBVIOUS
<1>2. \A r \in Counted(rs) : rs2[r] = rs[r]
  OBVIOUS
<1>3. Open(rs2) = Open(rs)
  <2> HIDE DEF Counted
  <2> QED
    BY <1>1, <1>2
<1>4. Worst(rs2, e) = Pick(Open(rs2)) /\ Worst(rs, e) = Pick(Open(rs))
  BY DEF Worst
<1> HIDE DEF Open, Pick
<1> QED
  BY <1>3, <1>4

-----------------------------------------------------------------------------
(* What a step owes to an entity. *)

\* What the steps of handlers have in common.
Going == /\ WellFormed /\ WellFormed' /\ PatchesCompare /\ TrailInv
         /\ RowsAdvance /\ raced \subseteq raced'

\* Worker w takes a step on entity e, and hands on the roll-up it owes to
\* another.
Serves(w, e) ==
  /\ \A v \in Workers \ {w} : job'[v] = job[v]
  /\ job[w].verb # "none" => job[w].entity = e
  /\ job'[w].verb \in {"patch", "released"} => job'[w].entity = e
  /\ \A f \in Entities \ {e} :
       f \notin raced' /\ job[w].verb \in {"signal", "reroll", "save", "note"} /\ job[w].next = f =>
         \/ job'[w].verb = "signal" /\ f \in {job'[w].entity, job'[w].next}
         \/ job'[w].verb \in {"reroll", "save", "note"} /\ f = job'[w].next
  /\ \A f \in Entities \ {e} :
       /\ row'[f] = row[f] /\ history'[f] = history[f] /\ revisions'[f] = revisions[f]
       /\ score'[f] = score[f] /\ (f \in switched => f \in switched')

\* The roll-up of e sees the risks of e only.
LEMMA OwesSame ==
  ASSUME NEW j, NEW rs, NEW rs2, NEW s, NEW e, Worst(rs2, e) = Worst(rs, e)
  PROVE  Owes(j, rs2, s, e) <=> Owes(j, rs, s, e)
BY DEF Owes, Rolled

\* An entity that a step leaves alone.
LEMMA Elsewhere ==
  ASSUME NEW f \in Entities, Kept(f),
         row'[f] = row[f], history'[f] = history[f], revisions'[f] = revisions[f], score'[f] = score[f],
         f \in switched => f \in switched',
         Worst(risk', f) = Worst(risk, f),
         \A v \in Workers : \/ job'[v] = job[v]
                            \/ /\ ~Notes(job[v], f)
                               /\ Owes(job[v], risk, score[f], f) => Owes(job'[v], risk, score[f], f)
                               /\ Behind(job'[v], row[f], f)
  PROVE  Kept(f)'
<1>1. CASE row[f] = Absent
  BY <1>1 DEF Kept, Blank
<1>2. CASE row[f] # Absent
  <2>1. history'[f] = row'[f].rating \/ \E w \in Workers : Notes(job'[w], f)
    <3>1. CASE history[f] = row[f].rating
      BY <3>1
    <3>2. ASSUME NEW w \in Workers, Notes(job[w], f)
          PROVE  Notes(job'[w], f)
      BY <3>2
    <3> QED
      BY <1>2, <3>1, <3>2 DEF Kept
  <2>2. \/ f \in switched' \/ Rolled(risk', score'[f], f, row'[f]) = row'[f]
        \/ \E w \in Workers : Owes(job'[w], risk', score'[f], f)
    <3>1. CASE IsRolled(f)
      BY <3>1 DEF IsRolled, Rolled
    <3>2. ASSUME NEW w \in Workers, Owes(job[w], risk, score[f], f)
          PROVE  Owes(job'[w], risk', score'[f], f)
      <4>1. Owes(job'[w], risk, score[f], f)
        BY <3>2
      <4> QED
        BY <4>1, OwesSame
    <3> QED
      BY <1>2, <3>1, <3>2 DEF Kept
  <2>3. \A v \in revisions'[f] : v <= row'[f].version
    BY <1>2 DEF Kept
  <2>4. \A w \in Workers : Behind(job'[w], row'[f], f)
    BY <1>2 DEF Kept
  <2> QED
    BY <1>2, <2>1, <2>2, <2>3, <2>4 DEF Kept, IsRolled
<1> QED
  BY <1>1, <1>2

LEMMA OthersKept ==
  ASSUME Going, NEW w \in Workers, NEW e \in Entities, Serves(w, e), UNCHANGED risk,
         e \notin raced' => Kept(e)'
  PROVE  TrailInv'
<1>1. ASSUME NEW f \in Entities \ raced', f # e
      PROVE  Kept(f)'
  <2>1. Kept(f)
    BY <1>1 DEF Going, TrailInv
  <2>2. ~Notes(job[w], f)
    BY <1>1 DEF Notes, Serves
  <2>3. Owes(job[w], risk, score[f], f) => Owes(job'[w], risk, score[f], f)
    BY <1>1 DEF Owes, Serves
  <2>4. Behind(job'[w], row[f], f)
    BY <1>1 DEF Behind, Serves
  <2>5. \A v \in Workers : \/ job'[v] = job[v]
                            \/ /\ ~Notes(job[v], f)
                               /\ Owes(job[v], risk, score[f], f) => Owes(job'[v], risk, score[f], f)
                               /\ Behind(job'[v], row[f], f)
    BY <2>2, <2>3, <2>4 DEF Serves
  <2>6. /\ row'[f] = row[f] /\ history'[f] = history[f] /\ revisions'[f] = revisions[f]
        /\ score'[f] = score[f] /\ (f \in switched => f \in switched')
    BY <1>1 DEF Serves
  <2>7. Worst(risk', f) = Worst(risk, f)
    OBVIOUS
  <2> QED
    BY <2>1, <2>5, <2>6, <2>7, Elsewhere
<1> QED
  BY <1>1 DEF TrailInv

\* The revisions a release owes and the instance of a PATCH stay behind a row
\* that takes a new version, or none and keeps its rating.
LEMMA StaysBehind ==
  ASSUME Going, NEW e \in Entities \ raced, NEW v \in Workers, row[e] # Absent,
         row'[e] \in Rows, row'[e].version >= row[e].version,
         \/ row'[e].version > row[e].version
         \/ row'[e].rating = row[e].rating
         \/ job[v].verb = "patch" => job[v].entity # e
  PROVE  Behind(job[v], row'[e], e)
<1>1. Behind(job[v], row[e], e) /\ row[e] \in Rows
  BY RowType DEF Going, WellFormed, TrailInv, Kept
<1>2. job[v].verb \in {"patch", "released"} => job[v].copy \in Rows
  BY Held DEF Going, Verbs, Stages
<1>3. job[v].verb = "patch" /\ job[v].entity = e => Advances(job[v].copy, row[e])
  BY DEF Going, PatchesCompare
<1>4. job[v].verb = "released" /\ job[v].entity = e => job[v].copy.version <= row'[e].version
  BY <1>1, <1>2 DEF Behind, Rows
<1>5. ASSUME job[v].verb = "patch", job[v].entity = e, job[v].copy.version = row'[e].version
      PROVE  job[v].copy.rating = row'[e].rating
  <2>1. job[v].copy.version <= row[e].version
    BY <1>1, <1>2, <1>3, <1>5 DEF Advances, Rows
  <2>2. row'[e].version = row[e].version /\ row'[e].rating = row[e].rating
    BY <1>1, <1>2, <1>5, <2>1 DEF Rows
  <2> QED
    BY <1>1, <1>5, <2>2 DEF Behind
<1> QED
  BY <1>4, <1>5 DEF Behind

\* An entity that worker w writes.
LEMMA Touch ==
  ASSUME Going, NEW w \in Workers, NEW e \in Entities \ raced', row[e] # Absent, Serves(w, e),
         UNCHANGED risk,
         \/ history'[e] = row'[e].rating
         \/ Notes(job'[w], e)
         \/ history'[e] = history[e] /\ row'[e].rating = row[e].rating /\ (Notes(job[w], e) => Notes(job'[w], e)),
         \/ Rolled(risk, score'[e], e, row'[e]) = row'[e]
         \/ Owes(job'[w], risk, score'[e], e)
         \/ /\ score'[e] = score[e] /\ (e \in switched => e \in switched')
            /\ IsRolled(e) => Rolled(risk, score[e], e, row'[e]) = row'[e]
            /\ Owes(job[w], risk, score[e], e) => Owes(job'[w], risk, score[e], e),
         \A x \in revisions'[e] : x \in revisions[e] \/ x <= row'[e].version,
         \/ row'[e].version > row[e].version
         \/ row'[e].rating = row[e].rating
         \/ \A v \in Workers \ {w} : job[v].verb = "patch" => job[v].entity # e,
         Behind(job'[w], row'[e], e)
  PROVE  TrailInv'
<1>1. e \in Entities \ raced /\ row[e] \in Rows /\ Kept(e)
  BY RowType DEF Going, WellFormed, TrailInv
<1>2. row'[e] # Absent /\ row'[e] \in Rows /\ Advances(row[e], row'[e])
  <2>1. row'[e] # Absent /\ Advances(row[e], row'[e])
    BY DEF Going, RowsAdvance
  <2> QED
    BY <2>1 DEF Going, RowsAdvance
<1>3. history'[e] = row'[e].rating \/ \E v \in Workers : Notes(job'[v], e)
  <2>1. CASE history'[e] = history[e] /\ row'[e].rating = row[e].rating
             /\ (Notes(job[w], e) => Notes(job'[w], e))
    <3>1. ASSUME NEW v \in Workers, Notes(job[v], e)
          PROVE  Notes(job'[v], e)
      BY <2>1, <3>1 DEF Serves
    <3> QED
      BY <1>1, <2>1, <3>1 DEF Kept
  <2> QED
    BY <2>1
<1>4. \/ e \in switched' \/ Rolled(risk, score'[e], e, row'[e]) = row'[e]
      \/ \E v \in Workers : Owes(job'[v], risk, score'[e], e)
  <2>1. CASE /\ score'[e] = score[e] /\ (e \in switched => e \in switched')
             /\ IsRolled(e) => Rolled(risk, score[e], e, row'[e]) = row'[e]
             /\ Owes(job[w], risk, score[e], e) => Owes(job'[w], risk, score[e], e)
    <3>1. ASSUME NEW v \in Workers, Owes(job[v], risk, score[e], e)
          PROVE  Owes(job'[v], risk, score'[e], e)
      BY <2>1, <3>1 DEF Serves
    <3> QED
      BY <1>1, <2>1, <3>1 DEF Kept
  <2> QED
    BY <2>1
<1>5. \A x \in revisions'[e] : x <= row'[e].version
  <2>1. \A x \in revisions[e] : x \in Nat /\ x <= row[e].version
    BY <1>1 DEF Kept, Going, WellFormed, TypeOK
  <2> QED
    BY <1>1, <1>2, <2>1 DEF Advances, Rows
<1>6. \A v \in Workers : Behind(job'[v], row'[e], e)
  <2>1. ASSUME NEW v \in Workers, v # w
        PROVE  Behind(job[v], row'[e], e)
    BY <1>1, <1>2, <2>1, StaysBehind DEF Advances
  <2> QED
    BY <2>1 DEF Serves
<1>7. Kept(e)'
  BY <1>2, <1>3, <1>4, <1>5, <1>6 DEF Kept, IsRolled
<1> QED
  BY <1>7, OthersKept

\* A step of worker w that leaves the rows and the trails as they are.
LEMMA Goes ==
  ASSUME Going, NEW w \in Workers, NEW e \in Entities, row[e] # Absent, Serves(w, e),
         UNCHANGED <<row, revisions, history, risk, score>>,
         e \notin raced' =>
           /\ Notes(job[w], e) => Notes(job'[w], e)
           /\ Owes(job[w], risk, score[e], e) => IsRolled(e) \/ Owes(job'[w], risk, score[e], e)
           /\ e \in switched => IsRolled(e) \/ e \in switched'
           /\ Behind(job'[w], row[e], e)
  PROVE  TrailInv'
<1>1. CASE e \in raced'
  BY <1>1, OthersKept
<1>2. CASE e \notin raced'
  <2>1. \/ Rolled(risk, score'[e], e, row'[e]) = row'[e]
        \/ /\ score'[e] = score[e] /\ (e \in switched => e \in switched')
           /\ IsRolled(e) => Rolled(risk, score[e], e, row'[e]) = row'[e]
           /\ Owes(job[w], risk, score[e], e) => Owes(job'[w], risk, score[e], e)
    BY <1>2 DEF IsRolled
  <2> QED
    BY <1>2, <2>1, Touch
<1> QED
  BY <1>1, <1>2

-----------------------------------------------------------------------------
(* The steps that leave the rows alone. *)

LEMMA LoadTrail ==
  ASSUME Going, NEW w \in Workers, NEW v \in Verbs, NEW e \in Entities, Load(w, v, e)
  PROVE  TrailInv'
<1>1. /\ job[w].verb = "none" /\ job' = [job EXCEPT ![w] = Doing(v, e, row[e], None)]
      /\ row[e] # Absent /\ UNCHANGED <<row, revisions, history, risk, score, raced, switched>>
  BY DEF Load, Idle
<1>2. job'[w].verb = v /\ job'[w].entity = e /\ job'[w].copy = row[e]
      /\ \A u \in Workers \ {w} : job'[u] = job[u]
  BY <1>1 DEF Going, WellFormed, TypeOK, Doing
<1>3. Serves(w, e)
  BY <1>1, <1>2 DEF Serves
<1>4. ~Notes(job[w], e) /\ ~Owes(job[w], risk, score[e], e)
  BY <1>1 DEF Notes, Owes
<1>5. Behind(job'[w], row[e], e)
  BY <1>2 DEF Behind, Verbs
<1> QED
  BY <1>1, <1>3, <1>4, <1>5, Goes

LEMMA DropTrail ==
  ASSUME Going, NEW w \in Workers, Drop(w)
  PROVE  TrailInv'
<1> DEFINE e == job[w].entity
<1>1. /\ job[w] # Idle /\ job' = [job EXCEPT ![w] = Idle]
      /\ UNCHANGED <<row, revisions, history, risk, score, switched>>
      /\ job[w].verb \in (Stages \ {"imported"}) \cup {"signal"} => {job[w].entity, job[w].next} \ {None} \subseteq raced'
  BY DEF Drop
<1>2. e \in Entities /\ row[e] # Absent
  BY <1>1, JobKinds DEF Going, WellFormed, Anchored
<1>3. job'[w].verb = "none" /\ \A u \in Workers \ {w} : job'[u] = job[u]
  BY <1>1 DEF Going, WellFormed, TypeOK, Idle
<1>4. Serves(w, e)
  <2>1. ASSUME NEW f \in Entities \ {e}, f \notin raced', job[w].next = f
        PROVE  job[w].verb \notin {"signal", "reroll", "save", "note"}
    BY <1>1, <2>1, ConstantsAssumption DEF Stages
  <2> QED
    BY <1>1, <1>3, <2>1 DEF Serves
<1>5. ASSUME e \notin raced'
      PROVE  ~Notes(job[w], e) /\ ~Owes(job[w], risk, score[e], e)
  <2>1. job[w].verb \notin {"signal", "reroll", "save", "note", "pinned", "released", "overridden"}
    BY <1>1, <1>2, <1>5, ConstantsAssumption DEF Stages
  <2> QED
    BY <2>1 DEF Notes, Owes
<1>6. Behind(job'[w], row[e], e)
  BY <1>3 DEF Behind
<1> QED
  BY <1>1, <1>2, <1>4, <1>5, <1>6, Goes

\* The handler of a worker at a given point.
LEMMA At ==
  ASSUME Going, NEW w \in Workers, job[w].verb \in Verbs \cup Stages
  PROVE  \E e \in Entities :
           /\ job[w].entity = e /\ row[e] # Absent /\ row[e] \in Rows
           /\ job[w].copy \in Rows /\ job[w].new \in Rows
BY Held DEF Going

LEMMA PinNoteTrail ==
  ASSUME Going, NEW w \in Workers, PinNote(w)
  PROVE  TrailInv'
<1>1. job[w].verb = "pinned"
  BY DEF PinNote
<1>2. PICK e \in Entities : /\ job[w].entity = e /\ row[e] # Absent /\ row[e] \in Rows
                            /\ job[w].copy \in Rows /\ job[w].new \in Rows
  BY <1>1, At DEF Stages
<1>3. /\ history' = [history EXCEPT ![e] = job[w].copy.rating]
      /\ revisions' = [revisions EXCEPT ![e] = @ \cup Recorded(job[w].new, job[w].copy)]
      /\ job' = [job EXCEPT ![w] = Idle] /\ UNCHANGED <<row, risk, score, switched>>
      /\ e \notin raced' => row[e] = job[w].copy
  BY <1>2 DEF PinNote, RacedUnless, Fresh
<1>4. job'[w].verb = "none" /\ \A u \in Workers \ {w} : job'[u] = job[u]
  BY <1>3 DEF Going, WellFormed, TypeOK, Idle
<1>5. Serves(w, e)
  BY <1>1, <1>2, <1>3, <1>4 DEF Serves, Going, WellFormed, TypeOK
<1>6. CASE e \in raced'
  BY <1>3, <1>5, <1>6, OthersKept
<1>7. CASE e \notin raced'
  <2>1. history'[e] = row'[e].rating
    BY <1>3, <1>7 DEF Going, WellFormed, TypeOK
  <2>2. \A x \in revisions'[e] : x \in revisions[e] \/ x <= row'[e].version
    BY <1>2, <1>3, <1>7 DEF Going, WellFormed, TypeOK, Recorded, Rows
  <2>3. /\ score'[e] = score[e] /\ (e \in switched => e \in switched')
        /\ IsRolled(e) => Rolled(risk, score[e], e, row'[e]) = row'[e]
        /\ Owes(job[w], risk, score[e], e) => Owes(job'[w], risk, score[e], e)
    BY <1>1, <1>3 DEF Owes, IsRolled
  <2>4. Behind(job'[w], row'[e], e)
    BY <1>4 DEF Behind
  <2> QED
    BY <1>2, <1>3, <1>5, <1>7, <2>1, <2>2, <2>3, <2>4, Touch
<1> QED
  BY <1>6, <1>7

LEMMA ImportNoteTrail ==
  ASSUME Going, NEW w \in Workers, ImportNote(w)
  PROVE  TrailInv'
<1>1. job[w].verb = "overridden"
  BY DEF ImportNote
<1>2. PICK e \in Entities : /\ job[w].entity = e /\ row[e] # Absent /\ row[e] \in Rows
                            /\ job[w].copy \in Rows /\ job[w].new \in Rows
  BY <1>1, At DEF Stages
<1>3. /\ history' = [history EXCEPT ![e] = job[w].copy.rating]
      /\ job' = [job EXCEPT ![w] = Idle] /\ UNCHANGED <<row, revisions, risk, score, switched>>
      /\ e \notin raced' => row[e] = job[w].copy
  BY <1>2 DEF ImportNote, RacedUnless, Fresh
<1>4. job'[w].verb = "none" /\ \A u \in Workers \ {w} : job'[u] = job[u]
  BY <1>3 DEF Going, WellFormed, TypeOK, Idle
<1>5. Serves(w, e)
  BY <1>1, <1>2, <1>3, <1>4 DEF Serves, Going, WellFormed, TypeOK
<1>6. CASE e \in raced'
  BY <1>3, <1>5, <1>6, OthersKept
<1>7. CASE e \notin raced'
  <2>1. history'[e] = row'[e].rating
    BY <1>3, <1>7 DEF Going, WellFormed, TypeOK
  <2>2. /\ score'[e] = score[e] /\ (e \in switched => e \in switched')
        /\ IsRolled(e) => Rolled(risk, score[e], e, row'[e]) = row'[e]
        /\ Owes(job[w], risk, score[e], e) => Owes(job'[w], risk, score[e], e)
    BY <1>1, <1>3 DEF Owes, IsRolled
  <2>3. Behind(job'[w], row'[e], e)
    BY <1>4 DEF Behind
  <2> QED
    BY <1>2, <1>3, <1>5, <1>7, <2>1, <2>2, <2>3, Touch
<1> QED
  BY <1>6, <1>7

LEMMA ReleaseNoteTrail ==
  ASSUME Going, NEW w \in Workers, ReleaseNote(w)
  PROVE  TrailInv'
<1>1. job[w].verb = "released"
  BY DEF ReleaseNote
<1>2. PICK e \in Entities : /\ job[w].entity = e /\ row[e] # Absent /\ row[e] \in Rows
                            /\ job[w].copy \in Rows /\ job[w].new \in Rows
  BY <1>1, At DEF Stages
<1>3. /\ revisions' = [revisions EXCEPT ![e] = @ \cup Recorded(job[w].new, job[w].copy)]
      /\ job' = [job EXCEPT ![w] = Doing("reroll", e, job[w].copy, None)]
      /\ UNCHANGED <<row, history, risk, score, raced, switched>>
  BY <1>2 DEF ReleaseNote
<1>4. /\ job'[w].verb = "reroll" /\ job'[w].entity = e /\ job'[w].copy = job[w].copy
      /\ \A u \in Workers \ {w} : job'[u] = job[u]
  BY <1>3 DEF Going, WellFormed, TypeOK, Doing
<1>5. Serves(w, e)
  BY <1>1, <1>2, <1>3, <1>4 DEF Serves, Going, WellFormed, TypeOK
<1>6. CASE e \in raced'
  BY <1>3, <1>5, <1>6, OthersKept
<1>7. CASE e \notin raced'
  <2>1. history'[e] = history[e] /\ row'[e].rating = row[e].rating /\ (Notes(job[w], e) => Notes(job'[w], e))
    BY <1>1, <1>3 DEF Notes
  <2>2. job[w].copy.version <= row[e].version
    <3>1. Kept(e)
      BY <1>3, <1>7 DEF Going, TrailInv
    <3> QED
      BY <1>1, <1>2, <3>1 DEF Kept, Behind
  <2>3. \A x \in revisions'[e] : x \in revisions[e] \/ x <= row'[e].version
    BY <1>3, <2>2 DEF Going, WellFormed, TypeOK, Recorded
  <2>4. /\ score'[e] = score[e] /\ (e \in switched => e \in switched')
        /\ IsRolled(e) => Rolled(risk, score[e], e, row'[e]) = row'[e]
        /\ Owes(job[w], risk, score[e], e) => Owes(job'[w], risk, score[e], e)
    BY <1>1, <1>2, <1>3, <1>4 DEF Owes, IsRolled
  <2>5. Behind(job'[w], row'[e], e)
    BY <1>4 DEF Behind
  <2> QED
    BY <1>2, <1>3, <1>5, <1>7, <2>1, <2>3, <2>4, <2>5, Touch
<1> QED
  BY <1>6, <1>7

LEMMA FetchTrail ==
  ASSUME Going, NEW w \in Workers, Fetch(w)
  PROVE  TrailInv'
<1> DEFINE e == job[w].entity
<1>1. /\ job[w].verb = "signal" /\ job' = [job EXCEPT ![w] = Doing("reroll", e, row[e], job[w].next)]
      /\ UNCHANGED <<row, revisions, history, risk, score, raced, switched>>
  BY DEF Fetch
<1>2. e \in Entities /\ row[e] # Absent
  BY <1>1, Busy, JobKinds DEF Going, WellFormed, Anchored
<1>3. /\ job'[w].verb = "reroll" /\ job'[w].entity = e /\ job'[w].copy = row[e] /\ job'[w].next = job[w].next
      /\ \A u \in Workers \ {w} : job'[u] = job[u]
  BY <1>1 DEF Going, WellFormed, TypeOK, Doing
<1>4. Serves(w, e)
  BY <1>1, <1>3 DEF Serves
<1>5. ~Notes(job[w], e)
  BY <1>1 DEF Notes
<1>6. IsRolled(e) \/ Owes(job'[w], risk, score[e], e)
  BY <1>3 DEF IsRolled, Owes
<1>7. Behind(job'[w], row[e], e)
  BY <1>3 DEF Behind
<1> QED
  BY <1>1, <1>2, <1>4, <1>5, <1>6, <1>7, Goes

\* What a handler owes to its next entity it still owes afterwards.
LEMMA AfterwardsOwes ==
  ASSUME NEW w \in Workers
  PROVE  /\ Afterwards(w).verb \in {"none", "signal"}
         /\ job[w].next # None => Afterwards(w).verb = "signal" /\ Afterwards(w).entity = job[w].next
BY DEF Afterwards, Idle

LEMMA ComputeTrail ==
  ASSUME Going, NEW w \in Workers, Compute(w)
  PROVE  TrailInv'
<1>1. job[w].verb = "reroll"
  BY DEF Compute
<1>2. PICK e \in Entities : /\ job[w].entity = e /\ row[e] # Absent /\ row[e] \in Rows
                            /\ job[w].copy \in Rows /\ job[w].new \in Rows
  BY <1>1, At DEF Stages
<1> DEFINE new == Rolled(risk, score[e], e, job[w].copy)
<1>3. /\ job' = [job EXCEPT ![w] = IF new = job[w].copy THEN Afterwards(w)
                                   ELSE [job[w] EXCEPT !.verb = "save", !.new = new]]
      /\ UNCHANGED <<row, revisions, history, risk, score, raced>>
      /\ switched' = switched \/ (switched' = switched \ {e} /\ new = job[w].copy /\ row[e] = job[w].copy)
  BY <1>2 DEF Compute, Fresh, RolledNow
<1>4. \A u \in Workers \ {w} : job'[u] = job[u]
  BY <1>3 DEF Going, WellFormed, TypeOK
<1>5. CASE new = job[w].copy
  <2>1. job'[w] = Afterwards(w)
    BY <1>3, <1>5 DEF Going, WellFormed, TypeOK
  <2>2. Serves(w, e)
    BY <1>2, <1>3, <1>4, <2>1, AfterwardsOwes, ConstantsAssumption DEF Serves
  <2>3. ~Notes(job[w], e) /\ Behind(job'[w], row[e], e)
    BY <1>1, <2>1, AfterwardsOwes DEF Notes, Behind
  <2>4. Owes(job[w], risk, score[e], e) => Owes(job'[w], risk, score[e], e)
    BY <1>1, <1>5, <2>1, AfterwardsOwes, ConstantsAssumption DEF Owes
  <2>5. e \in switched => IsRolled(e) \/ e \in switched'
    BY <1>3 DEF IsRolled
  <2> QED
    BY <1>2, <1>3, <2>2, <2>3, <2>4, <2>5, Goes
<1>6. CASE new # job[w].copy
  <2>1. /\ job'[w].verb = "save" /\ job'[w].entity = e /\ job'[w].next = job[w].next
    <3>1. job'[w] = [job[w] EXCEPT !.verb = "save", !.new = new]
      BY <1>3, <1>6 DEF Going, WellFormed, TypeOK
    <3>2. job[w] \in [verb : Verbs \cup Stages, entity : Entities, copy : Rows, new : Rows,
                       next : Entities \cup {None}]
      BY <1>1, Busy, JobKinds DEF Going, WellFormed
    <3> HIDE DEF new
    <3> QED
      BY <1>2, <3>1, <3>2
  <2>2. Serves(w, e)
    BY <1>2, <1>3, <1>4, <2>1 DEF Serves
  <2>3. ~Notes(job[w], e) /\ Behind(job'[w], row[e], e) /\ Owes(job'[w], risk, score[e], e)
    BY <1>1, <2>1 DEF Notes, Behind, Owes
  <2>4. e \in switched => e \in switched'
    BY <1>3, <1>6
  <2> QED
    BY <1>2, <1>3, <2>2, <2>3, <2>4, Goes
<1> QED
  BY <1>5, <1>6

LEMMA NoteTrail ==
  ASSUME Going, NEW w \in Workers, Note(w)
  PROVE  TrailInv'
<1>1. job[w].verb = "note"
  BY DEF Note
<1>2. PICK e \in Entities : /\ job[w].entity = e /\ row[e] # Absent /\ row[e] \in Rows
                            /\ job[w].copy \in Rows /\ job[w].new \in Rows
  BY <1>1, At DEF Stages
<1>3. /\ history' = [history EXCEPT ![e] = job[w].copy.rating]
      /\ revisions' = [revisions EXCEPT ![e] = @ \cup {job[w].copy.version}]
      /\ job' = [job EXCEPT ![w] = Afterwards(w)] /\ UNCHANGED <<row, risk, score, switched>>
      /\ e \notin raced' => row[e] = job[w].copy
  BY <1>2 DEF Note, RacedUnless, Fresh
<1>4. job'[w] = Afterwards(w) /\ \A u \in Workers \ {w} : job'[u] = job[u]
  BY <1>3 DEF Going, WellFormed, TypeOK
<1>5. Serves(w, e)
  BY <1>1, <1>2, <1>3, <1>4, AfterwardsOwes, ConstantsAssumption DEF Serves, Going, WellFormed, TypeOK
<1>6. CASE e \in raced'
  BY <1>3, <1>5, <1>6, OthersKept
<1>7. CASE e \notin raced'
  <2>1. history'[e] = row'[e].rating
    BY <1>3, <1>7 DEF Going, WellFormed, TypeOK
  <2>2. \A x \in revisions'[e] : x \in revisions[e] \/ x <= row'[e].version
    BY <1>2, <1>3, <1>7 DEF Going, WellFormed, TypeOK, Rows
  <2>3. /\ score'[e] = score[e] /\ (e \in switched => e \in switched')
        /\ IsRolled(e) => Rolled(risk, score[e], e, row'[e]) = row'[e]
        /\ Owes(job[w], risk, score[e], e) => Owes(job'[w], risk, score[e], e)
    BY <1>1, <1>3, <1>4, AfterwardsOwes, ConstantsAssumption DEF Owes, IsRolled
  <2>4. Behind(job'[w], row'[e], e)
    BY <1>4, AfterwardsOwes DEF Behind
  <2> QED
    BY <1>2, <1>3, <1>5, <1>7, <2>1, <2>2, <2>3, <2>4, Touch
<1> QED
  BY <1>6, <1>7

-----------------------------------------------------------------------------
(* The steps that write the row. *)

LEMMA PatchTrail ==
  ASSUME Going, NEW w \in Workers, NEW b \in Bodies, Patch(w, b)
  PROVE  TrailInv'
<1>1. job[w].verb = "patch"
  BY DEF Patch
<1>2. PICK e \in Entities : /\ job[w].entity = e /\ row[e] # Absent /\ row[e] \in Rows
                            /\ job[w].copy \in Rows /\ job[w].new \in Rows
  BY <1>1, At DEF Verbs
<1> DEFINE old == job[w].copy
           inst == [old EXCEPT !.text = b.text, !.pinned = b.pinned, !.version = @ + 1]
           new == Rolled(risk, score[e], e, inst)
<1>3. /\ row[e].version = old.version /\ row' = [row EXCEPT ![e] = new]
      /\ history' = IF new.rating # inst.rating THEN [history EXCEPT ![e] = new.rating] ELSE history
      /\ revisions' = [revisions EXCEPT ![e] =
           @ \cup Recorded(old, inst) \cup (IF new.rating # inst.rating THEN {new.version} ELSE {})]
      /\ job' = [job EXCEPT ![w] = Idle] /\ UNCHANGED <<risk, score, raced>>
      /\ switched' = switched \ {e}
  BY <1>2 DEF Patch, RolledNow
<1>4. job'[w].verb = "none" /\ \A u \in Workers \ {w} : job'[u] = job[u]
  BY <1>3 DEF Going, WellFormed, TypeOK, Idle
<1>5. inst \in Rows /\ inst.version = old.version + 1 /\ inst.rating = old.rating
  <2>1. inst = [old EXCEPT !.text = b.text, !.pinned = b.pinned, !.version = @ + 1]
    OBVIOUS
  <2>2. old \in Rows
    BY <1>2
  <2> HIDE DEF old, inst
  <2>3. inst \in Rows /\ inst.version = old.version + 1
    BY <2>1, <2>2, EditType
  <2>4. inst.rating = old.rating
    BY <2>1, <2>2 DEF Rows
  <2> QED
    BY <2>3, <2>4
<1> HIDE DEF inst
<1>6. /\ new \in Rows /\ new.version \in {inst.version, inst.version + 1}
      /\ Rolled(risk, score[e], e, new) = new
  <2>1. new = Rolled(risk, score[e], e, inst)
    OBVIOUS
  <2>2. risk \in [Risks -> RiskRows \cup {Absent}] /\ score[e] \in Scores \cup {None}
    BY DEF Going, WellFormed, TypeOK
  <2> HIDE DEF new
  <2>3. /\ new \in Rows
        /\ new.version = IF new.rating # inst.rating THEN inst.version + 1 ELSE inst.version
    BY <1>5, <2>1, <2>2, RolledType
  <2>4. Rolled(risk, score[e], e, new) = new
    BY <1>5, <2>1, <2>2, RolledTwice
  <2> QED
    BY <2>3, <2>4
<1> HIDE DEF new
<1>7. Serves(w, e)
  <2>1. \A f \in Entities \ {e} : row'[f] = row[f] /\ history'[f] = history[f] /\ revisions'[f] = revisions[f]
    BY <1>3 DEF Going, WellFormed, TypeOK
  <2> QED
    BY <1>1, <1>2, <1>3, <1>4, <2>1 DEF Serves
<1>8. row'[e] = new /\ revisions'[e] =
        revisions[e] \cup Recorded(old, inst) \cup (IF new.rating # inst.rating THEN {new.version} ELSE {})
  BY <1>3 DEF Going, WellFormed, TypeOK
<1>9. CASE e \in raced'
  BY <1>3, <1>7, <1>9, OthersKept
<1>10. CASE e \notin raced'
  <2>1. old.rating = row[e].rating
    <3>1. Kept(e)
      BY <1>3, <1>10 DEF Going, TrailInv
    <3> QED
      BY <1>1, <1>2, <1>3, <3>1 DEF Kept, Behind
  <2>2. \/ history'[e] = row'[e].rating
        \/ history'[e] = history[e] /\ row'[e].rating = row[e].rating /\ (Notes(job[w], e) => Notes(job'[w], e))
    <3>1. CASE new.rating # inst.rating
      BY <1>3, <1>8, <3>1 DEF Going, WellFormed, TypeOK
    <3>2. CASE new.rating = inst.rating
      BY <1>1, <1>3, <1>5, <1>8, <2>1, <3>2 DEF Notes
    <3> QED
      BY <3>1, <3>2
  <2>3. \A x \in revisions'[e] : x \in revisions[e] \/ x <= row'[e].version
    <3>1. inst.version <= new.version /\ new.version <= new.version
      BY <1>5, <1>6 DEF Rows
    <3> QED
      BY <1>8, <3>1 DEF Recorded
  <2>4. row'[e].version > row[e].version
    BY <1>2, <1>3, <1>5, <1>6, <1>8 DEF Rows
  <2>5. Behind(job'[w], row'[e], e)
    BY <1>4 DEF Behind
  <2>6. Rolled(risk, score'[e], e, row'[e]) = row'[e]
    BY <1>3, <1>6, <1>8
  <2> QED
    BY <1>2, <1>3, <1>7, <1>10, <2>2, <2>3, <2>4, <2>5, <2>6, Touch
<1> QED
  BY <1>9, <1>10

LEMMA StatusTrail ==
  ASSUME Going, NEW w \in Workers, NEW st \in {"Active", "Archived"},
         job[w].verb \in {"archive", "destroy", "restore"}, SetStatus(w, st)
  PROVE  TrailInv'
<1>1. PICK e \in Entities : /\ job[w].entity = e /\ row[e] # Absent /\ row[e] \in Rows
                            /\ job[w].copy \in Rows /\ job[w].new \in Rows
  BY At DEF Verbs
<1> DEFINE inst == [job[w].copy EXCEPT !.status = st, !.version = @ + 1]
           n == [row[e] EXCEPT !.status = st, !.version = inst.version]
<1>2. /\ row' = [row EXCEPT ![e].status = st, ![e].version = inst.version]
      /\ revisions' = [revisions EXCEPT ![e] = @ \cup Recorded(job[w].copy, inst)]
      /\ job' = [job EXCEPT ![w] = Idle] /\ UNCHANGED <<history, risk, score, switched>>
      /\ e \notin raced' => row[e] = job[w].copy
  BY <1>1 DEF SetStatus, RacedUnless, Fresh
<1>3. job'[w].verb = "none" /\ \A u \in Workers \ {w} : job'[u] = job[u]
  BY <1>2 DEF Going, WellFormed, TypeOK, Idle
<1>4. inst.version = job[w].copy.version + 1
  BY <1>1 DEF Rows
<1>5. n \in Rows /\ n.version = inst.version /\ n.residual = row[e].residual
      /\ n.rating = row[e].rating /\ n.pinned = row[e].pinned
  <2>1. inst.version \in Nat \ {0}
    BY <1>1, <1>4 DEF Rows
  <2> HIDE DEF inst
  <2> QED
    BY <1>1, <2>1 DEF Rows
<1>6. row' = [row EXCEPT ![e] = n]
  <2> HIDE DEF inst
  <2> QED
    BY <1>1, <1>2 DEF Going, WellFormed, TypeOK
<1> HIDE DEF n, inst
<1>7. row'[e] = n /\ revisions'[e] = revisions[e] \cup Recorded(job[w].copy, inst)
  BY <1>2, <1>6 DEF Going, WellFormed, TypeOK
<1>8. Serves(w, e)
  <2>1. \A f \in Entities \ {e} : row'[f] = row[f] /\ revisions'[f] = revisions[f]
    BY <1>2, <1>6 DEF Going, WellFormed, TypeOK
  <2> QED
    BY <1>1, <1>2, <1>3, <2>1 DEF Serves
<1>9. CASE e \in raced'
  BY <1>2, <1>8, <1>9, OthersKept
<1>10. CASE e \notin raced'
  <2>1. history'[e] = history[e] /\ row'[e].rating = row[e].rating /\ (Notes(job[w], e) => Notes(job'[w], e))
    BY <1>2, <1>5, <1>7 DEF Notes
  <2>2. \A x \in revisions'[e] : x \in revisions[e] \/ x <= row'[e].version
    BY <1>5, <1>7 DEF Recorded, Rows
  <2>3. row'[e].version > row[e].version
    BY <1>1, <1>2, <1>4, <1>5, <1>7, <1>10 DEF Rows
  <2>4. Behind(job'[w], row'[e], e)
    BY <1>3 DEF Behind
  <2>5. IsRolled(e) => Rolled(risk, score[e], e, row'[e]) = row'[e]
    <3>1. risk \in [Risks -> RiskRows \cup {Absent}] /\ score[e] \in Scores \cup {None}
      BY DEF Going, WellFormed, TypeOK
    <3>2. Rolled(risk, score[e], e, row[e]) = row[e] => Rolled(risk, score[e], e, n) = n
      BY <1>1, <1>5, <3>1, RolledAlike
    <3> QED
      BY <1>7, <3>2 DEF IsRolled
  <2>6. score'[e] = score[e] /\ (e \in switched => e \in switched') /\ ~Owes(job[w], risk, score[e], e)
    BY <1>2 DEF Owes
  <2> QED
    BY <1>1, <1>2, <1>8, <1>10, <2>1, <2>2, <2>3, <2>4, <2>5, <2>6, Touch
<1> QED
  BY <1>9, <1>10

LEMMA PinTrail ==
  ASSUME Going, NEW w \in Workers, NEW r \in Pins, Pin(w, r)
  PROVE  TrailInv'
<1>1. job[w].verb = "pin" /\ r \in Ratings
  BY ConstantsAssumption DEF Pin
<1>2. PICK e \in Entities : /\ job[w].entity = e /\ row[e] # Absent /\ row[e] \in Rows
                            /\ job[w].copy \in Rows /\ job[w].new \in Rows
  BY <1>1, At DEF Verbs
<1> DEFINE inst == [job[w].copy EXCEPT !.rating = r, !.pinned = TRUE, !.version = @ + 1]
           n == [row[e] EXCEPT !.rating = r, !.pinned = TRUE, !.version = inst.version]
<1>3. /\ row' = [row EXCEPT ![e].rating = r, ![e].pinned = TRUE, ![e].version = inst.version]
      /\ job' = [job EXCEPT ![w].verb = "pinned", ![w].copy = inst, ![w].new = job[w].copy]
      /\ UNCHANGED <<revisions, history, risk, score, switched>>
      /\ e \notin raced' => row[e] = job[w].copy
  BY <1>2 DEF Pin, RacedUnless, Fresh
<1>4. /\ job'[w].verb = "pinned" /\ job'[w].entity = e
      /\ \A u \in Workers \ {w} : job'[u] = job[u]
  <2>1. job[w] \in [verb : Verbs \cup Stages, entity : Entities, copy : Rows, new : Rows,
                    next : Entities \cup {None}]
    BY <1>1, Busy, JobKinds DEF Going, WellFormed
  <2> HIDE DEF inst
  <2> QED
    BY <1>2, <1>3, <2>1 DEF Going, WellFormed, TypeOK
<1>5. inst.version = job[w].copy.version + 1
  BY <1>2 DEF Rows
<1>6. n \in Rows /\ n.version = inst.version /\ n.residual = row[e].residual /\ n.pinned
  <2>1. inst.version \in Nat \ {0}
    BY <1>2, <1>5 DEF Rows
  <2> HIDE DEF inst
  <2> QED
    BY <1>1, <1>2, <2>1 DEF Rows
<1>7. row' = [row EXCEPT ![e] = n]
  <2> HIDE DEF inst
  <2> QED
    BY <1>2, <1>3 DEF Going, WellFormed, TypeOK
<1> HIDE DEF n, inst
<1>8. row'[e] = n
  BY <1>7 DEF Going, WellFormed, TypeOK
<1>9. Serves(w, e)
  <2>1. \A f \in Entities \ {e} : row'[f] = row[f]
    BY <1>7 DEF Going, WellFormed, TypeOK
  <2> QED
    BY <1>1, <1>2, <1>3, <1>4, <2>1 DEF Serves
<1>10. CASE e \in raced'
  BY <1>3, <1>9, <1>10, OthersKept
<1>11. CASE e \notin raced'
  <2>1. Notes(job'[w], e)
    BY <1>4 DEF Notes
  <2>2. row'[e].version > row[e].version
    BY <1>2, <1>3, <1>5, <1>6, <1>8, <1>11 DEF Rows
  <2>3. Behind(job'[w], row'[e], e)
    BY <1>4 DEF Behind
  <2>4. IsRolled(e) => Rolled(risk, score[e], e, row'[e]) = row'[e]
    <3>1. risk \in [Risks -> RiskRows \cup {Absent}] /\ score[e] \in Scores \cup {None}
      BY DEF Going, WellFormed, TypeOK
    <3>2. n \in Rows /\ n.residual = row[e].residual /\ ((n.rating = row[e].rating /\ n.pinned = row[e].pinned) \/ n.pinned)
      BY <1>6
    <3>3. Rolled(risk, score[e], e, row[e]) = row[e] => Rolled(risk, score[e], e, n) = n
      BY <1>2, <3>1, <3>2, RolledAlike
    <3> QED
      BY <1>8, <3>3 DEF IsRolled
  <2>5. score'[e] = score[e] /\ (e \in switched => e \in switched') /\ ~Owes(job[w], risk, score[e], e)
    BY <1>1, <1>3 DEF Owes
  <2> QED
    BY <1>2, <1>3, <1>9, <1>11, <2>1, <2>2, <2>3, <2>4, <2>5, Touch
<1> QED
  BY <1>10, <1>11

LEMMA ImportPinTrail ==
  ASSUME Going, NEW w \in Workers, NEW r \in Pins, ImportPin(w, r)
  PROVE  TrailInv'
<1>1. job[w].verb = "imported" /\ r \in Ratings
  BY ConstantsAssumption DEF ImportPin
<1>2. PICK e \in Entities : /\ job[w].entity = e /\ row[e] # Absent /\ row[e] \in Rows
                            /\ job[w].copy \in Rows /\ job[w].new \in Rows
  BY <1>1, At DEF Stages
<1> DEFINE inst == [job[w].copy EXCEPT !.rating = r, !.pinned = TRUE]
           n == [row[e] EXCEPT !.rating = r, !.pinned = TRUE]
<1>3. /\ row' = [row EXCEPT ![e].rating = r, ![e].pinned = TRUE]
      /\ job' = [job EXCEPT ![w] = Doing("overridden", e, inst, None)]
      /\ UNCHANGED <<revisions, history, risk, score, switched>>
      /\ e \notin raced' => Alone(w, e)
  BY <1>2 DEF ImportPin, RacedUnless
<1>4. /\ job'[w].verb = "overridden" /\ job'[w].entity = e
      /\ \A u \in Workers \ {w} : job'[u] = job[u]
  BY <1>3 DEF Going, WellFormed, TypeOK, Doing
<1>5. n \in Rows /\ n.version = row[e].version /\ n.residual = row[e].residual /\ n.pinned
  BY <1>1, <1>2 DEF Rows
<1>6. row' = [row EXCEPT ![e] = n]
  BY <1>3
<1> HIDE DEF n, inst
<1>7. row'[e] = n
  BY <1>6 DEF Going, WellFormed, TypeOK
<1>8. Serves(w, e)
  <2>1. \A f \in Entities \ {e} : row'[f] = row[f]
    BY <1>6 DEF Going, WellFormed, TypeOK
  <2> QED
    BY <1>1, <1>2, <1>3, <1>4, <2>1 DEF Serves
<1>9. CASE e \in raced'
  BY <1>3, <1>8, <1>9, OthersKept
<1>10. CASE e \notin raced'
  <2>1. Notes(job'[w], e)
    BY <1>4 DEF Notes
  <2>2. \A v \in Workers \ {w} : job[v].verb = "patch" => job[v].entity # e
    BY <1>3, <1>10 DEF Alone, Idle
  <2>3. Behind(job'[w], row'[e], e)
    BY <1>4 DEF Behind
  <2>4. IsRolled(e) => Rolled(risk, score[e], e, row'[e]) = row'[e]
    <3>1. risk \in [Risks -> RiskRows \cup {Absent}] /\ score[e] \in Scores \cup {None}
      BY DEF Going, WellFormed, TypeOK
    <3>2. Rolled(risk, score[e], e, row[e]) = row[e] => Rolled(risk, score[e], e, n) = n
      BY <1>2, <1>5, <3>1, RolledAlike
    <3> QED
      BY <1>7, <3>2 DEF IsRolled
  <2>5. score'[e] = score[e] /\ (e \in switched => e \in switched') /\ ~Owes(job[w], risk, score[e], e)
    BY <1>1, <1>3 DEF Owes
  <2> QED
    BY <1>2, <1>3, <1>8, <1>10, <2>1, <2>2, <2>3, <2>4, <2>5, Touch
<1> QED
  BY <1>9, <1>10

LEMMA ReleaseTrail ==
  ASSUME Going, NEW w \in Workers, Release(w)
  PROVE  TrailInv'
<1>1. job[w].verb = "release"
  BY DEF Release
<1>2. PICK e \in Entities : /\ job[w].entity = e /\ row[e] # Absent /\ row[e] \in Rows
                            /\ job[w].copy \in Rows /\ job[w].new \in Rows
  BY <1>1, At DEF Verbs
<1> DEFINE inst == [job[w].copy EXCEPT !.pinned = FALSE, !.version = @ + 1]
           n == [row[e] EXCEPT !.pinned = FALSE, !.version = inst.version]
<1>3. /\ row' = [row EXCEPT ![e].pinned = FALSE, ![e].version = inst.version]
      /\ job' = [job EXCEPT ![w].verb = "released", ![w].copy = inst, ![w].new = job[w].copy]
      /\ UNCHANGED <<revisions, history, risk, score, switched>>
      /\ e \notin raced' => row[e] = job[w].copy
  BY <1>2 DEF Release, RacedUnless, Fresh
<1>4. inst.version = job[w].copy.version + 1 /\ inst.version \in Nat \ {0}
  BY <1>2 DEF Rows
<1>5. n \in Rows /\ n.version = inst.version /\ n.rating = row[e].rating
  <2> HIDE DEF inst
  <2> QED
    BY <1>2, <1>4 DEF Rows
<1>6. e \notin raced' => n = inst
  <2>1. ASSUME row[e] = job[w].copy PROVE n = inst
    BY <2>1
  <2> QED
    BY <1>3, <2>1
<1>7. row' = [row EXCEPT ![e] = n]
  <2> HIDE DEF inst
  <2> QED
    BY <1>2, <1>3 DEF Going, WellFormed, TypeOK
<1> HIDE DEF n, inst
<1>8. /\ job'[w].verb = "released" /\ job'[w].entity = e /\ job'[w].copy = inst
      /\ \A u \in Workers \ {w} : job'[u] = job[u]
  <2>1. job[w] \in [verb : Verbs \cup Stages, entity : Entities, copy : Rows, new : Rows,
                    next : Entities \cup {None}]
    BY <1>1, Busy, JobKinds DEF Going, WellFormed
  <2> QED
    BY <1>2, <1>3, <2>1 DEF Going, WellFormed, TypeOK
<1>9. row'[e] = n
  BY <1>7 DEF Going, WellFormed, TypeOK
<1>10. Serves(w, e)
  <2>1. \A f \in Entities \ {e} : row'[f] = row[f]
    BY <1>7 DEF Going, WellFormed, TypeOK
  <2> QED
    BY <1>1, <1>2, <1>3, <1>8, <2>1 DEF Serves
<1>11. CASE e \in raced'
  BY <1>3, <1>10, <1>11, OthersKept
<1>12. CASE e \notin raced'
  <2>1. history'[e] = history[e] /\ row'[e].rating = row[e].rating /\ (Notes(job[w], e) => Notes(job'[w], e))
    BY <1>1, <1>3, <1>5, <1>9 DEF Notes
  <2>2. row'[e].version > row[e].version
    BY <1>2, <1>3, <1>4, <1>5, <1>9, <1>12 DEF Rows
  <2>3. Behind(job'[w], row'[e], e)
    BY <1>4, <1>5, <1>8, <1>9 DEF Behind, Rows
  <2>4. Rolled(risk, score'[e], e, row'[e]) = row'[e] \/ Owes(job'[w], risk, score'[e], e)
    BY <1>6, <1>8, <1>9, <1>12 DEF Owes
  <2> QED
    BY <1>2, <1>3, <1>10, <1>12, <2>1, <2>2, <2>3, <2>4, Touch
<1> QED
  BY <1>11, <1>12

LEMMA ResetTrail ==
  ASSUME Going, NEW w \in Workers, Reset(w)
  PROVE  TrailInv'
<1>1. job[w].verb = "reset"
  BY DEF Reset
<1>2. PICK e \in Entities : /\ job[w].entity = e /\ row[e] # Absent /\ row[e] \in Rows
                            /\ job[w].copy \in Rows /\ job[w].new \in Rows
  BY <1>1, At DEF Verbs
<1> DEFINE inst == [job[w].copy EXCEPT !.pinned = FALSE]
           n == [row[e] EXCEPT !.pinned = FALSE]
<1>3. /\ row' = IF job[w].copy.pinned THEN [row EXCEPT ![e].pinned = FALSE] ELSE row
      /\ job' = [job EXCEPT ![w] = Doing("reroll", e, inst, None)]
      /\ UNCHANGED <<revisions, history, risk, score, switched>>
      /\ e \notin raced' /\ job[w].copy.pinned => row[e] = job[w].copy
  BY <1>2 DEF Reset, RacedUnless, Fresh
<1>4. /\ job'[w].verb = "reroll" /\ job'[w].entity = e /\ job'[w].copy = inst
      /\ \A u \in Workers \ {w} : job'[u] = job[u]
  BY <1>3 DEF Going, WellFormed, TypeOK, Doing
<1>5. n \in Rows /\ n.version = row[e].version /\ n.rating = row[e].rating
  BY <1>2 DEF Rows
<1>6. row[e] = job[w].copy => n = inst
  OBVIOUS
<1>7. \/ job[w].copy.pinned /\ row' = [row EXCEPT ![e] = n]
      \/ ~job[w].copy.pinned /\ row' = row
  BY <1>3
<1> HIDE DEF n, inst
<1>8. \/ job[w].copy.pinned /\ row'[e] = n
      \/ ~job[w].copy.pinned /\ row'[e] = row[e]
  BY <1>7 DEF Going, WellFormed, TypeOK
<1>9. Serves(w, e)
  <2>1. \A f \in Entities \ {e} : row'[f] = row[f]
    BY <1>7 DEF Going, WellFormed, TypeOK
  <2> QED
    BY <1>1, <1>2, <1>3, <1>4, <2>1 DEF Serves
<1>10. CASE e \in raced'
  BY <1>3, <1>9, <1>10, OthersKept
<1>11. CASE e \notin raced'
  <2>1. history'[e] = history[e] /\ row'[e].rating = row[e].rating /\ (Notes(job[w], e) => Notes(job'[w], e))
    BY <1>1, <1>3, <1>5, <1>8 DEF Notes
  <2>2. Behind(job'[w], row'[e], e)
    BY <1>4 DEF Behind
  <2>3. \/ Rolled(risk, score'[e], e, row'[e]) = row'[e] \/ Owes(job'[w], risk, score'[e], e)
        \/ /\ score'[e] = score[e] /\ (e \in switched => e \in switched')
           /\ IsRolled(e) => Rolled(risk, score[e], e, row'[e]) = row'[e]
           /\ Owes(job[w], risk, score[e], e) => Owes(job'[w], risk, score[e], e)
    <3>1. CASE job[w].copy.pinned
      <4>1. row'[e] = inst /\ job'[w].copy = inst
        BY <1>3, <1>4, <1>6, <1>8, <1>11, <3>1
      <4> QED
        BY <1>3, <1>4, <4>1 DEF Owes
    <3>2. CASE ~job[w].copy.pinned
      BY <1>1, <1>3, <1>8, <3>2 DEF Owes, IsRolled
    <3> QED
      BY <3>1, <3>2
  <2> QED
    BY <1>2, <1>3, <1>9, <1>11, <2>1, <2>2, <2>3, Touch
<1> QED
  BY <1>10, <1>11

LEMMA ImportSaveTrail ==
  ASSUME Going, NEW w \in Workers, NEW b \in Bodies, ImportSave(w, b)
  PROVE  TrailInv'
<1>1. job[w].verb = "import"
  BY DEF ImportSave
<1>2. PICK e \in Entities : /\ job[w].entity = e /\ row[e] # Absent /\ row[e] \in Rows
                            /\ job[w].copy \in Rows /\ job[w].new \in Rows
  BY <1>1, At DEF Verbs
<1> DEFINE inst == [job[w].copy EXCEPT !.text = b.text, !.pinned = b.pinned, !.version = @ + 1]
<1>3. /\ row' = [row EXCEPT ![e] = inst]
      /\ \E then \in {Idle, Doing("imported", e, inst, None)} : job' = [job EXCEPT ![w] = then]
      /\ UNCHANGED <<revisions, history, risk, score, switched>>
      /\ e \notin raced' => row[e] = job[w].copy /\ (job[w].copy.pinned => b.pinned)
  BY <1>2 DEF ImportSave, RacedUnless, Fresh, ImportGoesOn
<1>4. job'[w].verb \in {"none", "imported"} /\ \A u \in Workers \ {w} : job'[u] = job[u]
  BY <1>3 DEF Going, WellFormed, TypeOK, Doing, Idle
<1>5. /\ inst \in Rows /\ inst.version = job[w].copy.version + 1 /\ inst.rating = job[w].copy.rating
      /\ inst.residual = job[w].copy.residual /\ inst.pinned = b.pinned
  <2> DEFINE v == job[w].copy.version + 1
  <2>1. v \in Nat \ {0}
    BY <1>2 DEF Rows
  <2>2. inst = [job[w].copy EXCEPT !.text = b.text, !.pinned = b.pinned, !.version = v]
    OBVIOUS
  <2> HIDE DEF v, inst
  <2>3. /\ inst \in Rows /\ inst.version = v /\ inst.rating = job[w].copy.rating
        /\ inst.residual = job[w].copy.residual /\ inst.pinned = b.pinned
    BY <1>2, <2>1, <2>2 DEF Rows, Bodies
  <2> QED
    BY <2>3 DEF v
<1> HIDE DEF inst
<1>6. row'[e] = inst
  BY <1>3 DEF Going, WellFormed, TypeOK
<1>7. Serves(w, e)
  <2>1. \A f \in Entities \ {e} : row'[f] = row[f]
    BY <1>3 DEF Going, WellFormed, TypeOK
  <2> QED
    BY <1>1, <1>2, <1>3, <1>4, <2>1 DEF Serves
<1>8. CASE e \in raced'
  BY <1>3, <1>7, <1>8, OthersKept
<1>9. CASE e \notin raced'
  <2>1. history'[e] = history[e] /\ row'[e].rating = row[e].rating /\ (Notes(job[w], e) => Notes(job'[w], e))
    BY <1>1, <1>3, <1>5, <1>6, <1>9 DEF Notes
  <2>2. row'[e].version > row[e].version
    BY <1>2, <1>3, <1>5, <1>6, <1>9 DEF Rows
  <2>3. Behind(job'[w], row'[e], e)
    BY <1>4 DEF Behind
  <2>4. IsRolled(e) => Rolled(risk, score[e], e, row'[e]) = row'[e]
    <3>1. risk \in [Risks -> RiskRows \cup {Absent}] /\ score[e] \in Scores \cup {None}
      BY DEF Going, WellFormed, TypeOK
    <3>2. inst.pinned = row[e].pinned \/ inst.pinned
      BY <1>2, <1>3, <1>5, <1>9 DEF Rows, Bodies
    <3>3. inst.residual = row[e].residual /\ inst.rating = row[e].rating
      BY <1>3, <1>5, <1>9
    <3>4. Rolled(risk, score[e], e, row[e]) = row[e] => Rolled(risk, score[e], e, inst) = inst
      BY <1>2, <1>5, <3>1, <3>2, <3>3, RolledAlike
    <3> QED
      BY <1>6, <3>4 DEF IsRolled
  <2>5. score'[e] = score[e] /\ (e \in switched => e \in switched') /\ ~Owes(job[w], risk, score[e], e)
    BY <1>1, <1>3 DEF Owes
  <2> QED
    BY <1>2, <1>3, <1>7, <1>9, <2>1, <2>2, <2>3, <2>4, <2>5, Touch
<1> QED
  BY <1>8, <1>9

LEMMA RecordScoreTrail ==
  ASSUME Going, NEW w \in Workers, NEW s \in Scores, RecordScore(w, s)
  PROVE  TrailInv'
<1>1. job[w].verb = "score"
  BY DEF RecordScore
<1>2. PICK e \in Entities : /\ job[w].entity = e /\ row[e] # Absent /\ row[e] \in Rows
                            /\ job[w].copy \in Rows /\ job[w].new \in Rows
  BY <1>1, At DEF Verbs
<1> DEFINE inst == job[w].copy
           new == Rolled(risk, s, e, inst)
<1>3. /\ score' = [score EXCEPT ![e] = s] /\ row' = [row EXCEPT ![e] = Saved(@, inst, new)]
      /\ RollNoted(e, inst, new) /\ job' = [job EXCEPT ![w] = Idle] /\ UNCHANGED risk
      /\ e \notin raced' => row[e] = inst
      /\ switched' = switched \ {e}
  BY <1>2 DEF RecordScore, RacedUnless, Fresh, RolledNow
<1>4. job'[w].verb = "none" /\ \A u \in Workers \ {w} : job'[u] = job[u]
  BY <1>3 DEF Going, WellFormed, TypeOK, Idle
<1>5. new = Rolled(risk, s, e, inst)
  OBVIOUS
<1>6. risk \in [Risks -> RiskRows \cup {Absent}] /\ s \in Scores \cup {None} /\ inst \in Rows
  BY <1>2 DEF Going, WellFormed, TypeOK
<1> HIDE DEF new, inst
<1>7. /\ new \in Rows
      /\ new.rating # inst.rating => new.version = inst.version + 1
      /\ new.rating = inst.rating => new.version = inst.version
  BY <1>5, <1>6, RolledFields
<1>8. Rolled(risk, s, e, new) = new
  BY <1>5, <1>6, RolledTwice
<1>9. Saved(inst, inst, new) = new
  BY <1>5, <1>6, SavedIsNew
<1>10. Serves(w, e)
  <2>1. \A f \in Entities \ {e} : row'[f] = row[f] /\ score'[f] = score[f]
    BY <1>3 DEF Going, WellFormed, TypeOK
  <2>2. \A f \in Entities \ {e} : history'[f] = history[f] /\ revisions'[f] = revisions[f]
    BY <1>3 DEF Going, WellFormed, TypeOK, RollNoted
  <2> QED
    BY <1>1, <1>2, <1>3, <1>4, <2>1, <2>2 DEF Serves
<1>11. CASE e \in raced'
  BY <1>3, <1>10, <1>11, OthersKept
<1>12. CASE e \notin raced'
  <2>1. row'[e] = new /\ score'[e] = s /\ row[e] = inst
    BY <1>3, <1>9, <1>12 DEF Going, WellFormed, TypeOK
  <2>2. CASE new.rating # inst.rating
    <3>1. history'[e] = new.rating /\ revisions'[e] = revisions[e] \cup {new.version}
      BY <1>3, <2>2 DEF RollNoted, Going, WellFormed, TypeOK
    <3>2. history'[e] = row'[e].rating /\ \A x \in revisions'[e] : x \in revisions[e] \/ x <= row'[e].version
      BY <1>7, <2>1, <3>1 DEF Rows
    <3>3. row'[e].version > row[e].version
      BY <1>6, <1>7, <2>1, <2>2 DEF Rows
    <3>4. Behind(job'[w], row'[e], e) /\ Rolled(risk, score'[e], e, row'[e]) = row'[e]
      BY <1>4, <1>8, <2>1 DEF Behind
    <3> QED
      BY <1>2, <1>3, <1>10, <1>12, <3>2, <3>3, <3>4, Touch
  <2>3. CASE new.rating = inst.rating
    <3>1. history'[e] = history[e] /\ revisions'[e] = revisions[e]
      BY <1>3, <2>3 DEF RollNoted
    <3>2. row'[e].rating = row[e].rating /\ (Notes(job[w], e) => Notes(job'[w], e))
      BY <1>1, <2>1, <2>3 DEF Notes
    <3>3. Behind(job'[w], row'[e], e) /\ Rolled(risk, score'[e], e, row'[e]) = row'[e]
      BY <1>4, <1>8, <2>1 DEF Behind
    <3> QED
      BY <1>2, <1>3, <1>10, <1>12, <3>1, <3>2, <3>3, Touch
  <2> QED
    BY <2>2, <2>3
<1> QED
  BY <1>11, <1>12

LEMMA SaveRollTrail ==
  ASSUME Going, NEW w \in Workers, SaveRoll(w)
  PROVE  TrailInv'
<1>1. job[w].verb = "save"
  BY DEF SaveRoll
<1>2. PICK e \in Entities : /\ job[w].entity = e /\ row[e] # Absent /\ row[e] \in Rows
                            /\ job[w].copy \in Rows /\ job[w].new \in Rows
  BY <1>1, At DEF Stages
<1> DEFINE inst == job[w].copy
           new == job[w].new
<1>3. /\ row' = [row EXCEPT ![e] = Saved(@, inst, new)]
      /\ job' = [job EXCEPT ![w] = IF new.rating = inst.rating THEN Afterwards(w)
                                   ELSE [job[w] EXCEPT !.verb = "note", !.copy = new]]
      /\ UNCHANGED <<revisions, history, risk, score>>
      /\ e \notin raced' => row[e] = inst /\ new = Rolled(risk, score[e], e, inst)
      /\ switched' = switched \ {e}
  BY <1>2 DEF SaveRoll, RacedUnless, Fresh, RolledNow
<1>4. /\ \A u \in Workers \ {w} : job'[u] = job[u]
      /\ new.rating = inst.rating => job'[w] = Afterwards(w)
      /\ new.rating # inst.rating => job'[w].verb = "note" /\ job'[w].entity = e /\ job'[w].next = job[w].next
  <2>1. job[w] \in [verb : Verbs \cup Stages, entity : Entities, copy : Rows, new : Rows,
                    next : Entities \cup {None}]
    BY <1>1, Busy, JobKinds DEF Going, WellFormed
  <2> HIDE DEF inst, new
  <2>2. new.rating # inst.rating => job'[w] = [job[w] EXCEPT !.verb = "note", !.copy = new]
    BY <1>3 DEF Going, WellFormed, TypeOK
  <2> QED
    BY <1>2, <1>3, <2>1, <2>2 DEF Going, WellFormed, TypeOK
<1> HIDE DEF inst, new
<1>5. Serves(w, e)
  <2>1. \A f \in Entities \ {e} : row'[f] = row[f]
    BY <1>3 DEF Going, WellFormed, TypeOK
  <2>2. CASE new.rating = inst.rating
    BY <1>1, <1>2, <1>3, <1>4, <2>1, <2>2, AfterwardsOwes, ConstantsAssumption DEF Serves
  <2>3. CASE new.rating # inst.rating
    BY <1>1, <1>2, <1>3, <1>4, <2>1, <2>3 DEF Serves
  <2> QED
    BY <2>2, <2>3
<1>6. CASE e \in raced'
  BY <1>3, <1>5, <1>6, OthersKept
<1>7. CASE e \notin raced'
  <2>1. /\ row[e] = inst /\ new = Rolled(risk, score[e], e, inst) /\ inst \in Rows
        /\ risk \in [Risks -> RiskRows \cup {Absent}] /\ score[e] \in Scores \cup {None}
    BY <1>2, <1>3, <1>7 DEF Going, WellFormed, TypeOK, inst
  <2>2. /\ new \in Rows
        /\ new.rating # inst.rating => new.version = inst.version + 1
        /\ new.rating = inst.rating => new.version = inst.version
    BY <2>1, RolledFields
  <2>3. Rolled(risk, score[e], e, new) = new
    BY <2>1, RolledTwice
  <2>4. Saved(inst, inst, new) = new
    BY <2>1, SavedIsNew
  <2>5. row'[e] = new
    BY <1>3, <2>1, <2>4 DEF Going, WellFormed, TypeOK
  <2>6. Rolled(risk, score'[e], e, row'[e]) = row'[e]
    BY <1>3, <2>3, <2>5
  <2>7. CASE new.rating = inst.rating
    <3>1. history'[e] = history[e] /\ row'[e].rating = row[e].rating /\ (Notes(job[w], e) => Notes(job'[w], e))
      BY <1>1, <1>3, <2>1, <2>5, <2>7 DEF Notes
    <3>2. Behind(job'[w], row'[e], e)
      BY <1>4, <2>7, AfterwardsOwes DEF Behind
    <3> QED
      BY <1>2, <1>3, <1>5, <1>7, <2>6, <3>1, <3>2, Touch
  <2>8. CASE new.rating # inst.rating
    <3>1. Notes(job'[w], e) /\ Behind(job'[w], row'[e], e)
      BY <1>4, <2>8 DEF Notes, Behind
    <3>2. row'[e].version > row[e].version
      BY <2>1, <2>2, <2>5, <2>8 DEF Rows
    <3> QED
      BY <1>2, <1>3, <1>5, <1>7, <2>6, <3>1, <3>2, Touch
  <2> QED
    BY <2>7, <2>8
<1> QED
  BY <1>6, <1>7

-----------------------------------------------------------------------------
(* Risks, entities that are born, and writers outside the handlers. *)

LEMMA WriteRiskTrail ==
  ASSUME Going, NEW w \in Workers, NEW r \in Risks, NEW new \in RiskRows, WriteRisk(w, r, new)
  PROVE  TrailInv'
<1> DEFINE j == [verb |-> "signal", entity |-> new.entity,
                 next |-> IF risk[r] # Absent /\ risk[r].entity # new.entity THEN risk[r].entity ELSE None]
<1>1. /\ job[w].verb = "none" /\ risk' = [risk EXCEPT ![r] = new] /\ job' = [job EXCEPT ![w] = j]
      /\ UNCHANGED <<row, revisions, history, score, raced, switched>> /\ row[new.entity] # Absent
  BY DEF WriteRisk, Idle
<1>2. job'[w] = j /\ j.verb = "signal" /\ \A u \in Workers \ {w} : job'[u] = job[u]
  BY <1>1 DEF Going, WellFormed, TypeOK
<1>3. ASSUME NEW f \in Entities \ raced'
      PROVE  Kept(f)'
  <2>1. Kept(f)
    BY <1>1, <1>3 DEF Going, TrailInv
  <2>2. \A v \in Workers : \/ job'[v] = job[v]
                            \/ /\ ~Notes(job[v], f)
                               /\ ~Owes(job[v], risk, score[f], f)
                               /\ Behind(job'[v], row[f], f)
    BY <1>1, <1>2 DEF Notes, Owes, Behind
  <2>3. CASE f \in {j.entity, j.next}
    <3>1. Owes(job'[w], risk', score'[f], f)
      BY <1>2, <2>3 DEF Owes
    <3>2. row[f] # Absent
      BY <1>1, <2>3, ConstantsAssumption DEF Going, WellFormed, Anchored
    <3>3. history'[f] = row'[f].rating \/ \E v \in Workers : Notes(job'[v], f)
      <4>1. ASSUME NEW v \in Workers, Notes(job[v], f)
            PROVE  Notes(job'[v], f)
        BY <2>2, <4>1
      <4> QED
        BY <1>1, <2>1, <3>2, <4>1 DEF Kept
    <3>4. \A v \in revisions'[f] : v <= row'[f].version
      BY <1>1, <2>1, <3>2 DEF Kept
    <3>5. \A v \in Workers : Behind(job'[v], row'[f], f)
      BY <1>1, <2>1, <2>2, <3>2 DEF Kept
    <3> QED
      BY <1>1, <3>1, <3>2, <3>3, <3>4, <3>5 DEF Kept
  <2>4. CASE f \notin {j.entity, j.next}
    <3>1. \A x \in Risks : \/ risk'[x] = risk[x]
                           \/ /\ risk[x] # Absent => risk[x].entity # f
                              /\ risk'[x] # Absent => risk'[x].entity # f
      BY <1>1, <2>4 DEF Going, WellFormed, TypeOK
    <3>2. Worst(risk', f) = Worst(risk, f)
      BY <3>1, WorstSame
    <3> QED
      BY <1>1, <2>1, <2>2, <3>2, Elsewhere
  <2> QED
    BY <2>3, <2>4
<1> QED
  BY <1>3 DEF TrailInv

LEMMA DeleteRiskTrail ==
  ASSUME Going, NEW r \in Risks, DeleteRisk(r)
  PROVE  TrailInv'
<1>0. risk[r].entity \in Entities /\ row[risk[r].entity] # Absent
  BY DEF DeleteRisk, Going, WellFormed, TypeOK, Anchored, RiskRows
<1> PICK e \in Entities : e = risk[r].entity
  BY <1>0
<1> DEFINE remaining == [risk EXCEPT ![r] = Absent]
           new == Rolled(remaining, score[e], e, row[e])
<1>1. /\ risk[r] # Absent /\ risk' = remaining /\ row' = [row EXCEPT ![e] = new]
      /\ RollNoted(e, row[e], new) /\ UNCHANGED <<score, job, raced>>
      /\ switched' = switched \ {e}
  BY DEF DeleteRisk, RolledNow
<1>2. row[e] # Absent /\ row[e] \in Rows
  BY <1>0, RowType DEF Going, WellFormed
<1>3. remaining \in [Risks -> RiskRows \cup {Absent}] /\ score[e] \in Scores \cup {None}
  BY <1>2 DEF Going, WellFormed, TypeOK
<1>4. new = Rolled(remaining, score[e], e, row[e])
  OBVIOUS
<1>5. \A f \in Entities \ {e} : \A x \in Risks : \/ remaining[x] = risk[x]
                                                 \/ /\ risk[x] # Absent => risk[x].entity # f
                                                    /\ remaining[x] # Absent => remaining[x].entity # f
  BY DEF Going, WellFormed, TypeOK
<1> HIDE DEF new, remaining
<1>6. /\ new \in Rows
      /\ new.rating # row[e].rating => new.version = row[e].version + 1
      /\ new.rating = row[e].rating => new.version = row[e].version
  BY <1>2, <1>3, <1>4, RolledFields
<1>7. Rolled(remaining, score[e], e, new) = new
  BY <1>2, <1>3, <1>4, RolledTwice
<1>8. /\ row'[e] = new
      /\ \A f \in Entities \ {e} : row'[f] = row[f] /\ history'[f] = history[f] /\ revisions'[f] = revisions[f]
  BY <1>1, <1>2 DEF Going, WellFormed, TypeOK, RollNoted
<1>9. ASSUME NEW f \in Entities \ raced', f # e
      PROVE  Kept(f)'
  <2>1. Kept(f)
    BY <1>1, <1>9 DEF Going, TrailInv
  <2>2. Worst(risk', f) = Worst(risk, f)
    BY <1>1, <1>5, <1>9, WorstSame
  <2> QED
    BY <1>1, <1>8, <1>9, <2>1, <2>2, Elsewhere
<1>10. ASSUME e \notin raced'
       PROVE  Kept(e)'
  <2>1. Kept(e)
    BY <1>1, <1>2, <1>10 DEF Going, TrailInv
  <2>2. row'[e] \in Rows /\ row'[e] # Absent /\ row'[e].version >= row[e].version
    BY <1>2, <1>6, <1>8, ConstantsAssumption DEF Rows
  <2>3. row'[e].version > row[e].version \/ row'[e].rating = row[e].rating
    BY <1>2, <1>6, <1>8 DEF Rows
  <2>4. \A v \in Workers : Behind(job'[v], row'[e], e)
    BY <1>1, <1>2, <1>10, <2>2, <2>3, StaysBehind
  <2>5. history'[e] = row'[e].rating \/ \E v \in Workers : Notes(job'[v], e)
    BY <1>1, <1>2, <1>8, <2>1 DEF Kept, RollNoted, Going, WellFormed, TypeOK
  <2>6. \A v \in revisions'[e] : v <= row'[e].version
    <3>1. \A v \in revisions[e] : v \in Nat /\ v <= row[e].version
      BY <1>2, <2>1 DEF Kept, Going, WellFormed, TypeOK
    <3>2. revisions'[e] \subseteq revisions[e] \cup {new.version}
      BY <1>1, <1>2 DEF RollNoted, Going, WellFormed, TypeOK
    <3> QED
      BY <1>2, <1>6, <1>8, <2>2, <3>1, <3>2 DEF Rows
  <2>7. Rolled(risk', score'[e], e, row'[e]) = row'[e]
    BY <1>1, <1>7, <1>8
  <2> QED
    BY <2>2, <2>4, <2>5, <2>6, <2>7 DEF Kept, IsRolled
<1> QED
  BY <1>9, <1>10 DEF TrailInv

\* A new entity has no risks, no score and no handler.
LEMMA Born ==
  ASSUME Going, NEW e \in Entities, NEW b \in Bodies, e \notin raced', row[e] = Absent,
         row'[e] = FirstVersion(b), history'[e] = history[e], score'[e] = score[e],
         \A x \in revisions'[e] : x \in revisions[e] \/ x = 1,
         UNCHANGED risk,
         \A v \in Workers : job'[v] = job[v] \/ job'[v].verb \notin {"patch", "released"}
  PROVE  Kept(e)'
<1>1. Kept(e)
  BY DEF Going, TrailInv
<1>2. /\ history[e] = "Medium" /\ revisions[e] = {} /\ score[e] = None
  BY <1>1 DEF Kept, Blank
<1>3. /\ row'[e] \in Rows /\ row'[e] # Absent /\ row'[e].rating = "Medium" /\ row'[e].version = 1
      /\ row'[e].residual = NoPosition
  <2>1. FirstVersion(b) \in Rows
    BY FirstVersionType
  <2> QED
    BY <2>1, ConstantsAssumption DEF FirstVersion
<1>4. Worst(risk, e) = NoPosition
  <2>1. {x \in Risks : risk[x] # Absent /\ risk[x].entity = e /\ risk[x].open} = {}
    BY DEF Going, WellFormed, Anchored
  <2>2. {risk[x].position : x \in {x \in Risks : risk[x] # Absent /\ risk[x].entity = e /\ risk[x].open}} = {}
    BY <2>1
  <2> QED
    BY <2>2 DEF Worst
<1>5. Resolve(row'[e], NoPosition, None) = row'[e].rating
  BY <1>3 DEF Resolve
<1>6. Rolled(risk, None, e, row'[e]) = row'[e]
  <2>1. risk \in [Risks -> RiskRows \cup {Absent}] /\ None \in Scores \cup {None}
    BY DEF Going, WellFormed, TypeOK
  <2>2. PICK inst \in Rows : inst = row'[e]
    BY <1>3
  <2>3. PICK s \in Scores \cup {None} : s = None
    OBVIOUS
  <2>4. PICK n : n = Rolled(risk, s, e, inst)
    OBVIOUS
  <2>5. n = inst <=> inst.residual = Worst(risk, e) /\ inst.rating = Resolve(inst, Worst(risk, e), s)
    BY <2>1, <2>4, RolledFields
  <2> QED
    BY <1>3, <1>4, <1>5, <2>2, <2>3, <2>4, <2>5
<1>7. ASSUME NEW v \in Workers
      PROVE  Behind(job'[v], row'[e], e)
  <2>1. CASE job'[v].verb \notin {"patch", "released"}
    BY <2>1 DEF Behind
  <2>2. CASE job'[v] = job[v] /\ job'[v].verb \in {"patch", "released"}
    <3>1. job[v] # Idle
      BY <2>2 DEF Idle
    <3>2. job[v].entity # e
      BY <3>1 DEF Going, WellFormed, Anchored
    <3> QED
      BY <2>2, <3>2 DEF Behind
  <2> QED
    BY <2>1, <2>2
<1>8. history'[e] = row'[e].rating /\ \A x \in revisions'[e] : x <= row'[e].version
  BY <1>2, <1>3
<1> QED
  BY <1>2, <1>3, <1>6, <1>7, <1>8 DEF Kept, IsRolled

LEMMA CreateTrail ==
  ASSUME Going, NEW e \in Entities, NEW b \in Bodies, Create(e, b)
  PROVE  TrailInv'
<1>1. /\ row[e] = Absent /\ row' = [row EXCEPT ![e] = FirstVersion(b)]
      /\ revisions' = [revisions EXCEPT ![e] = {1}] /\ UNCHANGED <<history, risk, score, job, raced, switched>>
  BY DEF Create
<1>2. row'[e] = FirstVersion(b) /\ revisions'[e] = {1}
  BY <1>1 DEF Going, WellFormed, TypeOK
<1>3. ASSUME NEW f \in Entities \ raced', f # e
      PROVE  Kept(f)'
  <2>1. Kept(f)
    BY <1>1, <1>3 DEF Going, TrailInv
  <2>2. row'[f] = row[f] /\ revisions'[f] = revisions[f]
    BY <1>1, <1>3 DEF Going, WellFormed, TypeOK
  <2>3. Worst(risk', f) = Worst(risk, f)
    BY <1>1
  <2> QED
    BY <1>1, <2>1, <2>2, <2>3, Elsewhere
<1>4. e \notin raced' => Kept(e)'
  BY <1>1, <1>2, Born
<1> QED
  BY <1>3, <1>4 DEF TrailInv

LEMMA ImportNewTrail ==
  ASSUME Going, NEW w \in Workers, NEW e \in Entities, NEW b \in Bodies, ImportNew(w, e, b)
  PROVE  TrailInv'
<1>1. /\ job[w].verb = "none" /\ row[e] = Absent /\ row' = [row EXCEPT ![e] = FirstVersion(b)]
      /\ \E then \in {Idle, Doing("imported", e, FirstVersion(b), None)} : job' = [job EXCEPT ![w] = then]
      /\ UNCHANGED <<revisions, history, risk, score, raced, switched>>
  <2>1. job[w].verb = "none"
    BY DEF ImportNew, Idle
  <2> QED
    BY <2>1 DEF ImportNew, ImportGoesOn
<1>2. job'[w].verb \in {"none", "imported"} /\ \A u \in Workers \ {w} : job'[u] = job[u]
  BY <1>1 DEF Going, WellFormed, TypeOK, Idle, Doing
<1>3. row'[e] = FirstVersion(b) /\ \A f \in Entities \ {e} : row'[f] = row[f]
  BY <1>1 DEF Going, WellFormed, TypeOK
<1>4. Serves(w, e)
  BY <1>1, <1>2, <1>3 DEF Serves
<1>5. e \notin raced' => Kept(e)'
  BY <1>1, <1>2, <1>3, Born
<1> QED
  BY <1>1, <1>4, <1>5, OthersKept

\* Ingest and FlagWeak mark the entity they write.
LEMMA OutsideTrail ==
  ASSUME Going, NEW e \in Entities,
         FlagWeak(e) \/ \E t \in Texts, r \in Pins, st \in {"Active", "Archived"} : Ingest(e, t, r, st)
  PROVE  TrailInv'
<1>1. /\ \E n : row' = [row EXCEPT ![e] = n]
      /\ raced' = raced \cup {e} /\ UNCHANGED <<revisions, history, risk, score, job, switched>>
  BY DEF FlagWeak, Ingest
<1>2. ASSUME NEW f \in Entities \ raced'
      PROVE  Kept(f)'
  <2>1. Kept(f) /\ f # e
    BY <1>1, <1>2 DEF Going, TrailInv
  <2>2. row'[f] = row[f]
    BY <1>1, <2>1 DEF Going, WellFormed, TypeOK
  <2>3. Worst(risk', f) = Worst(risk, f)
    BY <1>1
  <2> QED
    BY <1>1, <2>1, <2>2, <2>3, Elsewhere
<1> QED
  BY <1>2 DEF TrailInv

\* Whose score another model has changed is marked; nothing else changes.
LEMMA ActivateTrail ==
  ASSUME Going, NEW scores \in ModelScores, Activate(scores)
  PROVE  TrailInv'
<1>1. /\ score' = scores /\ UNCHANGED <<row, revisions, history, risk, job, raced>>
      /\ \A e \in Entities : row[e] = Absent => scores[e] = None
      /\ \A e \in Entities : e \in switched \/ scores[e] # score[e] => e \in switched'
  BY DEF Activate
<1>2. ASSUME NEW f \in Entities \ raced'
      PROVE  Kept(f)'
  <2>1. Kept(f)
    BY <1>1, <1>2 DEF Going, TrailInv
  <2>2. CASE row[f] = Absent
    BY <1>1, <2>1, <2>2 DEF Kept, Blank
  <2>3. CASE row[f] # Absent /\ scores[f] = score[f]
    <3>1. score'[f] = score[f] /\ (f \in switched => f \in switched') /\ Worst(risk', f) = Worst(risk, f)
      BY <1>1, <2>3
    <3> QED
      BY <1>1, <2>1, <3>1, Elsewhere
  <2>4. CASE row[f] # Absent /\ scores[f] # score[f]
    <3>1. f \in switched'
      BY <1>1, <2>4
    <3> QED
      BY <1>1, <2>1, <2>4, <3>1 DEF Kept, Notes, Behind
  <2> QED
    BY <2>2, <2>3, <2>4
<1> QED
  BY <1>2 DEF TrailInv

-----------------------------------------------------------------------------

LEMMA TrailStep == WellFormed /\ PatchesCompare /\ TrailInv /\ [Next]_vars => TrailInv'
<1> SUFFICES ASSUME WellFormed, PatchesCompare, TrailInv, [Next]_vars
             PROVE  TrailInv'
  OBVIOUS
<1>1. CASE UNCHANGED vars
  BY <1>1 DEF vars, TrailInv, Kept, Blank, IsRolled
<1>2. CASE Next
  <2>1. Going
    <3>1. WellFormed'
      BY <1>2, WellFormedStep
    <3> QED
      BY <1>2, <3>1, RowsStep, RacedGrows DEF Going
  <2>2. CASE \E e \in Entities, b \in Bodies : Create(e, b)
    BY <2>1, <2>2, CreateTrail
  <2>3. CASE \E w \in Workers, v \in Verbs, e \in Entities : Load(w, v, e)
    BY <2>1, <2>3, LoadTrail
  <2>4. CASE \E w \in Workers : Drop(w)
    BY <2>1, <2>4, DropTrail
  <2>5. CASE \E w \in Workers, b \in Bodies : Patch(w, b) \/ ImportSave(w, b)
    BY <2>1, <2>5, PatchTrail, ImportSaveTrail
  <2>6. CASE \E w \in Workers : Archive(w) \/ Destroy(w) \/ Restore(w)
    BY <2>1, <2>6, StatusTrail DEF Archive, Destroy, Restore
  <2>7. CASE \E w \in Workers, r \in Pins : Pin(w, r) \/ ImportPin(w, r)
    BY <2>1, <2>7, PinTrail, ImportPinTrail
  <2>8. CASE \E w \in Workers : PinNote(w) \/ Release(w) \/ ReleaseNote(w) \/ Reset(w)
    BY <2>1, <2>8, PinNoteTrail, ReleaseTrail, ReleaseNoteTrail, ResetTrail
  <2>9. CASE \E w \in Workers, s \in Scores : RecordScore(w, s)
    BY <2>1, <2>9, RecordScoreTrail
  <2>10. CASE \E w \in Workers, r \in Risks, new \in RiskRows : WriteRisk(w, r, new)
    BY <2>1, <2>10, WriteRiskTrail
  <2>11. CASE \E r \in Risks : DeleteRisk(r)
    BY <2>1, <2>11, DeleteRiskTrail
  <2>12. CASE \E w \in Workers : Fetch(w) \/ Compute(w) \/ SaveRoll(w) \/ Note(w) \/ ImportNote(w)
    BY <2>1, <2>12, FetchTrail, ComputeTrail, SaveRollTrail, NoteTrail, ImportNoteTrail
  <2>13. CASE \E w \in Workers, e \in Entities, b \in Bodies : ImportNew(w, e, b)
    BY <2>1, <2>13, ImportNewTrail
  <2>14. CASE \E e \in Entities : FlagWeak(e)
              \/ \E t \in Texts, r \in Pins, st \in {"Active", "Archived"} : Ingest(e, t, r, st)
    BY <2>1, <2>14, OutsideTrail
  <2>15. CASE \E scores \in ModelScores : Activate(scores)
    BY <2>1, <2>15, ActivateTrail
  <2> QED
    BY <1>2, <2>15, <2>2, <2>3, <2>4, <2>5, <2>6, <2>7, <2>8, <2>9, <2>10, <2>11, <2>12, <2>13, <2>14 DEF Next
<1> QED
  BY <1>1, <1>2

LEMMA InitTrail == Init => TrailInv
BY DEF Init, TrailInv, Kept, Blank

\* Behind the three trails: whoever leaves an entity half-way still owes what
\* is missing, unless the entity is raced.
THEOREM TrailsKept == Spec => [](WellFormed /\ TrailInv)
<1>1. Init => WellFormed /\ PatchesCompare /\ TrailInv
  BY InitWellFormed, InitPatchesCompare, InitTrail
<1>2. (WellFormed /\ PatchesCompare /\ TrailInv) /\ [Next]_vars => (WellFormed /\ PatchesCompare /\ TrailInv)'
  BY WellFormedStep, PatchesCompareStep, TrailStep
<1> QED
  BY <1>1, <1>2, PTL DEF Spec

\* Nobody owes anything to an entity that no handler is under way on.
LEMMA QuietOwes ==
  ASSUME WellFormed, NEW e \in Entities, Quiet(e), NEW w \in Workers
  PROVE  ~Notes(job[w], e) /\ ~Owes(job[w], risk, score[e], e)
<1>1. CASE job[w] = Idle
  BY <1>1 DEF Idle, Notes, Owes
<1>2. CASE job[w] # Idle
  <2>1. e # job[w].entity /\ e # job[w].next
    BY <1>2 DEF Quiet
  <2> QED
    BY <2>1 DEF Notes, Owes
<1> QED
  BY <1>1, <1>2

\* Of an entity that is settled and not raced: the latest history entry has
\* the rating of the row.
THEOREM HistoryAlwaysReplays == Spec => []HistoryReplays
<1>1. WellFormed /\ TrailInv => HistoryReplays
  BY QuietOwes DEF HistoryReplays, Settled, TrailInv, Kept
<1> QED
  BY <1>1, TrailsKept, PTL

\* another roll-up of its risks and its score would change nothing, if its last
\* one came after the last activation of another scoring model,
THEOREM AlwaysRolledUp == Spec => []RolledUp
<1>1. WellFormed /\ TrailInv => RolledUp
  BY QuietOwes DEF RolledUp, Settled, TrailInv, Kept, IsRolled
<1> QED
  BY <1>1, TrailsKept, PTL

\* and no revision has a later version than the row, so that the next edit
\* finds its version free.
THEOREM RevisionsStayBehind == Spec => []RevisionsBehind
<1>1. WellFormed /\ TrailInv => RevisionsBehind
  BY DEF RevisionsBehind, Settled, TrailInv, Kept
<1> QED
  BY <1>1, TrailsKept, PTL
=============================================================================
