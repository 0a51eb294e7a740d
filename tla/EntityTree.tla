---- MODULE EntityTree ----
(***************************************************************************)
(* The hierarchy of the audit universe: the parent of each entity, checked *)
(* for cycles by a walk over rows other requests may be moving, archived   *)
(* rows among them; the tree and the rolled-up ratings the register is     *)
(* shown as; and the structural links the backfill derives                 *)
(* (iams/domain_serializers.py, views/domain.py, backfills.py).            *)
(***************************************************************************)
EXTENDS Integers, FiniteSets, FiniteSetsExt

CONSTANTS
  Editor,     \* processes that write entities
  Entity,
  Departments, \* entities of type Department
  Severity,   \* RATING_SEVERITY of each entity's own rating
  MaxEdits,   \* bound on the PATCHes, import rows, changes of status and backfills
             \* an instance starts
  Top, NoLink, NoEntity

Parents == Entity \union {Top}
TreeRow == [parent : Parents, dept : Departments \union {NoLink}, archived : BOOLEAN,
            version : 1..(MaxEdits + 1)]

ASSUME EntityTreeAssumption ==
  /\ IsFiniteSet(Entity) /\ Departments \subseteq Entity /\ Top \notin Entity /\ NoLink \notin Entity /\ NoEntity \notin TreeRow
  /\ Severity \in [Entity -> 0..4] /\ MaxEdits \in Nat

VARIABLES
  tree,      \* the rows: parent, department_entity, whether Archived, and version
  editing,   \* what each process has loaded
  filling,   \* the rows a backfill has loaded, or none
  overtaken,   \* history: a parent was written by a handler that had not seen
             \* another one change
  filled,    \* history: the rows as the last backfill found them, until another
             \* write commits
  edits      \* PATCHes, import rows, changes of status and backfills so far

treeVars == <<tree, editing, filling, overtaken, filled, edits>>

NoEdit == [stage |-> "none"]
NoRows == [e \in {} |-> NoEntity]

TreeTypeOK ==
  /\ tree \in [Entity -> TreeRow \union {NoEntity}]
  /\ \A w \in Editor : editing[w] # NoEdit =>
       /\ editing[w].stage \in {"walk", "save", "status"} /\ editing[w].row \in TreeRow
       /\ editing[w].seen \subseteq Entity /\ editing[w].next \in Parents
  /\ overtaken \in BOOLEAN /\ edits \in 0..MaxEdits

TreeInit ==
  /\ tree = [e \in Entity |-> NoEntity]
  /\ editing = [w \in Editor |-> NoEdit]
  /\ filling = NoRows /\ overtaken = FALSE /\ filled = NoRows /\ edits = 0

Present == {e \in Entity : tree[e] # NoEntity}
Live == {e \in Present : ~tree[e].archived} \* what the default manager finds
TreeRows == [e \in Present |-> tree[e]]
Edits(w, job) == editing' = [editing EXCEPT ![w] = job]

\* A write of one row: whoever had loaded before it has not seen its parent.
Put(w, e, row) ==
  /\ tree' = [tree EXCEPT ![e] = row]
  /\ editing' = [x \in Editor |->
       IF x = w THEN NoEdit
       ELSE IF editing[x] = NoEdit \/ tree[e] = NoEntity \/ row.parent = tree[e].parent THEN editing[x]
       ELSE [editing[x] EXCEPT !.moved = TRUE]]
  /\ filled' = NoRows

----
\* POST: a new leaf; its parent, which may be archived, is walked too, but nothing
\* can be below it yet.
CreateEntity(e, parent, dept) ==
  /\ tree[e] = NoEntity /\ parent \in Present \union {Top} /\ dept \in Live \union {NoLink}
  /\ tree' = [tree EXCEPT ![e] = [parent |-> parent, dept |-> dept, archived |-> FALSE, version |-> 1]]
  /\ filled' = NoRows
  /\ UNCHANGED <<editing, filling, overtaken, edits>>

\* POST clone: a leaf beside its source, with its links.  A detail route finds
\* archived rows when the request says includeArchived.
CloneEntity(e, src) ==
  /\ tree[e] = NoEntity /\ src \in Present
  /\ tree' = [tree EXCEPT ![e] = [tree[src] EXCEPT !.archived = FALSE, !.version = 1]]
  /\ filled' = NoRows
  /\ UNCHANGED <<editing, filling, overtaken, edits>>

\* A PATCH (locked), or a row of an import: the entity is loaded, the version the
\* client or the file names is the loaded one, and the parent asked for, if any,
\* is walked to the top.
LoadEntity(w, e, locked) ==
  /\ editing[w] = NoEdit /\ e \in Present
  /\ edits < MaxEdits /\ edits' = edits + 1
  /\ \E row \in {[tree[e] EXCEPT !.parent = p] : p \in (Present \ {e}) \union {Top}}
          \union {[tree[e] EXCEPT !.dept = d] : d \in (Departments \intersect Live) \union {NoLink}} :
       Edits(w, [stage |-> IF row.parent = tree[e].parent THEN "save" ELSE "walk", entity |-> e,
                 locked |-> locked, row |-> row, next |-> row.parent, seen |-> {}, moved |-> FALSE])
  /\ UNCHANGED <<tree, filling, overtaken, filled>>

\* Faulty variant: the walk stops at rows seen before, but not at the entity itself.
WalkPastItself(w) ==
  /\ editing[w].stage = "walk"
  /\ LET job == editing[w] IN
       IF job.next = Top \/ job.next \in job.seen THEN Edits(w, [job EXCEPT !.stage = "save"])
       ELSE Edits(w, [job EXCEPT !.seen = @ \union {job.next}, !.next = tree[job.next].parent])
  /\ UNCHANGED <<tree, filling, overtaken, filled, edits>>

\* One step of validate_parentId: the next row up is read.  A row seen before,
\* or the entity itself, is refused.
Walk(w) ==
  /\ editing[w].stage = "walk"
  /\ LET job == editing[w] IN
       CASE job.next = Top -> Edits(w, [job EXCEPT !.stage = "save"])
         [] job.next \in job.seen \union {job.entity} -> Edits(w, NoEdit)
         [] OTHER -> Edits(w, [job EXCEPT !.seen = @ \union {job.next}, !.next = tree[job.next].parent])
  /\ UNCHANGED <<tree, filling, overtaken, filled, edits>>

\* The row is written whole.  perform_update locks it first and refuses when it
\* has another version; an import does neither.
SaveEntity(w) ==
  /\ editing[w].stage = "save"
  /\ LET job == editing[w] IN
       IF job.locked /\ tree[job.entity].version # job.row.version
       THEN Edits(w, NoEdit) /\ UNCHANGED <<tree, overtaken, filled>>
       ELSE /\ Put(w, job.entity, [job.row EXCEPT !.version = job.row.version + 1])
            /\ overtaken' = (overtaken \/ (job.moved /\ job.row.parent # tree[job.entity].parent))
  /\ UNCHANGED <<filling, edits>>

\* POST archive, DELETE, or POST restore, which refuses a row that is not
\* archived: the row is loaded,
LoadStatus(w, e, archived) ==
  /\ editing[w] = NoEdit /\ e \in Present /\ (archived \/ tree[e].archived)
  /\ edits < MaxEdits /\ edits' = edits + 1
  /\ Edits(w, [stage |-> "status", entity |-> e, locked |-> FALSE, row |-> [tree[e] EXCEPT !.archived = archived],
               next |-> tree[e].parent, seen |-> {}, moved |-> FALSE])
  /\ UNCHANGED <<tree, filling, overtaken, filled>>

\* and its status and version are written, whatever else the row has become.
\* What is below it stays as it is.
SaveStatus(w) ==
  /\ editing[w].stage = "status"
  /\ LET row == editing[w].row  e == editing[w].entity IN
       Put(w, e, [tree[e] EXCEPT !.archived = row.archived, !.version = row.version + 1])
  /\ UNCHANGED <<filling, overtaken, edits>>

\* An error, or the worker dies.
GiveUpEdit(w) ==
  /\ editing[w] # NoEdit /\ Edits(w, NoEdit)
  /\ UNCHANGED <<tree, filling, overtaken, filled, edits>>

----
\* A search through the rows: where it is, and what it has seen, which ends it
\* in a loop.
Trails(S) == [at : S, seen : SUBSET Entity]

\* The first of some entities on the way up from e, in a set of rows;
\* NoLink when there is none.
FirstAbove(rows, e, wanted) ==
  LET up[x \in Trails(Parents)] ==
        IF x.at \notin DOMAIN rows \/ x.at \in x.seen THEN NoLink
        ELSE IF x.at \in wanted THEN x.at
        ELSE up[[at |-> rows[x.at].parent, seen |-> x.seen \union {x.at}]]
  IN up[[at |-> rows[e].parent, seen |-> {}]]

\* derive_structural_links: the rows are read once,
BeginFill ==
  /\ filling = NoRows /\ Present # {} /\ edits < MaxEdits /\ edits' = edits + 1
  /\ filling' = TreeRows
  /\ UNCHANGED <<tree, editing, overtaken, filled>>

\* and blank links take the nearest Department above.  The business unit is
\* derived alike, and both links of a row that had one filled are written over
\* whatever they have become by then: others had only the business unit filled.
Filled(rows, others) ==
  LET nearest(e) == FirstAbove(rows, e, Departments)
      dirty == {e \in DOMAIN rows : rows[e].dept = NoLink /\ nearest(e) \in Departments}
      dept(e) == IF e \in dirty THEN nearest(e) ELSE rows[e].dept
  IN [e \in Entity |->
        IF e \in dirty \union others THEN [tree[e] EXCEPT !.dept = dept(e)] ELSE tree[e]]
EndFill ==
  /\ filling # NoRows
  /\ \E others \in SUBSET {e \in DOMAIN filling : filling[e].parent # Top} :
       tree' = Filled(filling, others)
  /\ filled' = IF \A e \in Entity : tree[e] = (IF e \in DOMAIN filling THEN filling[e] ELSE NoEntity)
               THEN filling ELSE NoRows
  /\ filling' = NoRows
  /\ UNCHANGED <<editing, overtaken, edits>>

TreeNext ==
  \/ \E e \in Entity :
       \/ \E p \in Parents, d \in Departments \union {NoLink} : CreateEntity(e, p, d)
       \/ \E src \in Entity : CloneEntity(e, src)
       \/ \E w \in Editor, locked \in BOOLEAN : LoadEntity(w, e, locked)
       \/ \E w \in Editor, archived \in BOOLEAN : LoadStatus(w, e, archived)
  \/ \E w \in Editor : Walk(w) \/ SaveEntity(w) \/ SaveStatus(w) \/ GiveUpEdit(w)
  \/ BeginFill \/ EndFill

TreeSpec == TreeInit /\ [][TreeNext]_treeVars

----
\* Nothing is above itself: from any rows some parent leads out of them.
Rooted == \A S \in SUBSET Present : S # {} => \E e \in S : tree[e].parent \notin S

\* The tree endpoint reads some of the rows, S, and goes down from those without
\* a parent: what hangs below a row it has not read is not reached.
Children(S, n) == {e \in S : tree[e].parent = n}
Further(S, x) == {[at |-> c, seen |-> x.seen \union {c}] : c \in Children(S, x.at) \ x.seen}
Shown(S) ==
  LET down[x \in Trails(Parents)] == Children(S, x.at) \union UNION {down[y] : y \in Further(S, x)}
  IN down[[at |-> Top, seen |-> {}]]

\* subtree_rating: the worst of a row's own severity and its children's.
SubtreeSeverity(S) ==
  [n \in S |->
     LET worst[x \in Trails(S)] == Max({Severity[x.at]} \union {worst[y] : y \in Further(S, x)})
     IN worst[[at |-> n, seen |-> {n}]]]

\* What is above an entity, as a relation on the rows; and what is below it with
\* no row outside S in between.
Above(e) == {a \in Present : FirstAbove(TreeRows, e, {a}) = a}
Below(S, n) == {n} \union {e \in S : n \in Above(e) /\ \A a \in Above(e) : n \in Above(a) => a \in S}

\* As long as no parent was written by a handler that had missed another one's
\* move, the register shows every entity that is not archived, unless an archived
\* one is above it, and every entity when it is asked for archived ones too; each
\* node with the worst rating of all it reaches below it.  The walk is done over
\* rows that move while it goes on, and only the row that is written is locked.
\* What a backfill that nobody wrote under leaves behind is what was there, or,
\* where that was blank, the department that has no other in between, archived
\* ones included.
TreeHolds ==
  /\ ~overtaken =>
       /\ Rooted
       /\ \A S \in {Live, Present} :
            /\ Shown(S) = {e \in S : Above(e) \subseteq S}
            /\ \A n \in S : SubtreeSeverity(S)[n] = Max({Severity[e] : e \in Below(S, n)})
  /\ ~overtaken /\ filled # NoRows => \A e \in Present :
       LET above == Above(e) \intersect Departments IN
       IF filled[e].dept # NoLink THEN tree[e].dept = filled[e].dept
       ELSE IF above = {} THEN tree[e].dept = NoLink
       ELSE tree[e].dept \in above /\ \A a \in above : tree[e].dept \notin Above(a)
====
