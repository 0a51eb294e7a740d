---------------------------- MODULE WorkingPapers ----------------------------
(***************************************************************************)
(* Engagement working papers: versions, the two signatures and the lock    *)
(* that follows them (iams/working_papers.py, WorkingPaperViewSet and the  *)
(* save() and delete() of the WorkingPaper model).                         *)
(*                                                                         *)
(* Every handler loads the row, checks the copy it holds and writes later; *)
(* nothing locks the row in between, and a PATCH writes every column back. *)
(* raced is a history variable: the papers that some handler wrote from a  *)
(* copy whose chain, current flag or signatures were no longer those of    *)
(* the row.                                                                *)
(***************************************************************************)
EXTENDS Naturals, FiniteSets

CONSTANTS
  Papers,       \* primary keys of working papers
  Workers,      \* web processes
  Users,        \* people who sign
  Audits,       \* engagements
  Refs,         \* (audit, reference) pairs
  AuditOf,      \* [Refs -> Audits]
  Contents,     \* what a paper may say: title, description, file
  PatchStatus,  \* status values a PATCH body may carry
  MaxPatches,   \* bound on PATCH requests
  None, Absent

Statuses == {"Draft", "Under Review", "Signed", "Archived"}

Rows == [ref : Refs, parent : Papers \cup {None}, version : Nat \ {0}, current : BOOLEAN,
         status : Statuses, content : Contents,
         auditor : Users \cup {None}, reviewer : Users \cup {None}, signed : BOOLEAN]

ASSUME ConstantsAssumption ==
  /\ AuditOf \in [Refs -> Audits]
  /\ PatchStatus \subseteq Statuses
  /\ MaxPatches \in Nat
  /\ None \notin Papers \cup Users
  /\ Absent \notin Rows

VARIABLES
  paper,    \* paper[p]: the WorkingPaper row, or Absent
  used,     \* primary keys ever used
  audits,   \* engagements that exist
  job,      \* job[w]: the verb worker w is serving and the row it has loaded
  raced,    \* papers written from a stale copy
  patches   \* PATCH requests so far

vars == <<paper, used, audits, job, raced, patches>>

Verbs == {"patch", "sign/auditor", "sign/reviewer", "new-version", "delete"}
Idle == [verb |-> "none"]
Jobs == {Idle} \cup [verb : Verbs, paper : Papers, copy : Rows]

Init ==
  /\ paper = [p \in Papers |-> Absent]
  /\ used = {}
  /\ audits = Audits
  /\ job = [w \in Workers |-> Idle]
  /\ raced = {}
  /\ patches = 0

-----------------------------------------------------------------------------

Stored == {p \in Papers : paper[p] # Absent}

Heads(f) == {p \in Stored : paper[p].current /\ paper[p].ref = f}

\* iams_wp_one_current_per_audit_ref and the foreign key to the engagement:
\* p may be stored as row.
Admissible(p, row) ==
  /\ AuditOf[row.ref] \in audits
  /\ row.parent = None \/ row.parent \in Stored
  /\ row.current => Heads(row.ref) \subseteq {p}

\* Faulty variant: versions are numbered from zero.
FirstVersionZero(f, c) ==
  [ref |-> f, parent |-> None, version |-> 0, current |-> TRUE, status |-> "Draft",
   content |-> c, auditor |-> None, reviewer |-> None, signed |-> FALSE]

FirstVersion(f, c) ==
  [ref |-> f, parent |-> None, version |-> 1, current |-> TRUE, status |-> "Draft",
   content |-> c, auditor |-> None, reviewer |-> None, signed |-> FALSE]

\* What create_new_version keeps of its parent.
NextVersion(p, row, c) ==
  [row EXCEPT !.parent = p, !.version = @ + 1, !.current = TRUE, !.status = "Draft",
              !.content = c, !.auditor = None, !.reviewer = None, !.signed = FALSE]

\* What a handler relies on between its read and its write.
ReliedOn(row) == <<row.ref, row.current, row.auditor, row.reviewer, row.signed>>

\* The copy of worker w still says of them what the row says.
Fresh(w) ==
  /\ paper[job[w].paper] # Absent
  /\ ReliedOn(paper[job[w].paper]) = ReliedOn(job[w].copy)

\* Worker w has written its paper and is done.
Written(w) ==
  /\ job' = [job EXCEPT ![w] = Idle]
  /\ raced' = IF Fresh(w) THEN raced ELSE raced \cup {job[w].paper}

-----------------------------------------------------------------------------

\* POST /working-papers/
Create(p, f, c) ==
  /\ p \notin used
  /\ Admissible(p, FirstVersion(f, c))
  /\ paper' = [paper EXCEPT ![p] = FirstVersion(f, c)]
  /\ used' = used \cup {p}
  /\ UNCHANGED <<audits, job, raced, patches>>

\* get_object, for any of the verbs.
Load(w, p, v) ==
  /\ job[w] = Idle
  /\ paper[p] # Absent
  /\ job' = [job EXCEPT ![w] = [verb |-> v, paper |-> p, copy |-> paper[p]]]
  /\ UNCHANGED <<paper, used, audits, raced, patches>>

\* The handler refuses, the database refuses, or the worker dies: nothing
\* is written.
Drop(w) ==
  /\ job[w] # Idle
  /\ job' = [job EXCEPT ![w] = Idle]
  /\ UNCHANGED <<paper, used, audits, raced, patches>>

\* Faulty variant: neither perform_update nor save() looks at the lock.
PatchAlways(w, f, c, st) ==
  LET p == job[w].paper
      row == [job[w].copy EXCEPT !.ref = f, !.content = c, !.status = st]
  IN
  /\ job[w].verb = "patch"
  /\ patches < MaxPatches
  /\ st \in PatchStatus \cup {job[w].copy.status}
  /\ Admissible(p, row)
  /\ paper' = [paper EXCEPT ![p] = row]
  /\ patches' = patches + 1
  /\ Written(w)
  /\ UNCHANGED <<used, audits>>

\* PATCH: not once the copy is signed off; writes the whole copy back, and
\* inserts it again if the row was deleted meanwhile.
Patch(w, f, c, st) ==
  LET p == job[w].paper
      row == [job[w].copy EXCEPT !.ref = f, !.content = c, !.status = st]
  IN
  /\ job[w].verb = "patch"
  /\ patches < MaxPatches
  /\ ~job[w].copy.signed
  /\ st \in PatchStatus \cup {job[w].copy.status}
  /\ Admissible(p, row)
  /\ paper' = [paper EXCEPT ![p] = row]
  /\ patches' = patches + 1
  /\ Written(w)
  /\ UNCHANGED <<used, audits>>

\* sign_as_auditor: three columns of the row.
SignAuditor(w, u) ==
  LET p == job[w].paper
      copy == job[w].copy
  IN
  /\ job[w].verb = "sign/auditor"
  /\ ~copy.signed /\ copy.auditor = None
  /\ paper[p] # Absent
  /\ paper' = [paper EXCEPT ![p].auditor = u,
                            ![p].status = IF copy.status = "Draft" THEN "Under Review" ELSE copy.status]
  /\ Written(w)
  /\ UNCHANGED <<used, audits, patches>>

\* Faulty variant: the separation of duties is not checked.
SignReviewerAnyone(w, u) ==
  LET p == job[w].paper
      copy == job[w].copy
  IN
  /\ job[w].verb = "sign/reviewer"
  /\ ~copy.signed /\ copy.auditor # None
  /\ paper[p] # Absent
  /\ paper' = [paper EXCEPT ![p].reviewer = u, ![p].signed = TRUE, ![p].status = "Signed"]
  /\ Written(w)
  /\ UNCHANGED <<used, audits, patches>>

\* sign_as_reviewer: after the auditor, by someone else; locks the row.
SignReviewer(w, u) ==
  LET p == job[w].paper
      copy == job[w].copy
  IN
  /\ job[w].verb = "sign/reviewer"
  /\ ~copy.signed /\ copy.auditor # None /\ copy.auditor # u
  /\ paper[p] # Absent
  /\ paper' = [paper EXCEPT ![p].reviewer = u, ![p].signed = TRUE, ![p].status = "Signed"]
  /\ Written(w)
  /\ UNCHANGED <<used, audits, patches>>

\* Faulty variant: the flag of the parent is committed on its own.
NewVersionFlips(w, q, c) ==
  LET p == job[w].paper IN
  /\ job[w].verb = "new-version"
  /\ q \notin used
  /\ paper[p] # Absent
  /\ paper' = [paper EXCEPT ![p].current = FALSE]
  /\ job' = [job EXCEPT ![w] = Idle]
  /\ UNCHANGED <<used, audits, raced, patches>>

\* create_new_version: the parent loses its flag and the successor is stored
\* in one transaction, which fails if another row of the chain is current.
NewVersion(w, q, c) ==
  LET p == job[w].paper
      row == NextVersion(p, job[w].copy, c)
  IN
  /\ job[w].verb = "new-version"
  /\ q \notin used
  /\ paper[p] # Absent
  /\ AuditOf[row.ref] \in audits
  /\ Heads(row.ref) \subseteq {p}
  /\ paper' = [paper EXCEPT ![p].current = FALSE, ![q] = row]
  /\ used' = used \cup {q}
  /\ Written(w)
  /\ UNCHANGED <<audits, patches>>

\* DELETE: not once the copy is signed off; successors lose their parent.
Delete(w) ==
  LET p == job[w].paper IN
  /\ job[w].verb = "delete"
  /\ ~job[w].copy.signed
  /\ paper[p] # Absent
  /\ paper' = [q \in Papers |->
       IF q = p THEN Absent
       ELSE IF q \in Stored /\ paper[q].parent = p THEN [paper[q] EXCEPT !.parent = None]
       ELSE paper[q]]
  /\ Written(w)
  /\ UNCHANGED <<used, audits, patches>>

\* DELETE of the engagement: the cascade asks no model, signed or not.
DeleteAudit(a) ==
  LET doomed == {p \in Stored : AuditOf[paper[p].ref] = a} IN
  /\ a \in audits
  /\ audits' = audits \ {a}
  /\ paper' = [q \in Papers |->
       IF q \in doomed THEN Absent
       ELSE IF q \in Stored /\ paper[q].parent \in doomed THEN [paper[q] EXCEPT !.parent = None]
       ELSE paper[q]]
  /\ UNCHANGED <<used, job, raced, patches>>

Next ==
  \/ \E p \in Papers, f \in Refs, c \in Contents : Create(p, f, c)
  \/ \E w \in Workers :
       \/ \E p \in Papers, v \in Verbs : Load(w, p, v)
       \/ Drop(w)
       \/ \E f \in Refs, c \in Contents, st \in Statuses : Patch(w, f, c, st)
       \/ \E u \in Users : SignAuditor(w, u) \/ SignReviewer(w, u)
       \/ \E q \in Papers, c \in Contents : NewVersion(w, q, c)
       \/ Delete(w)
  \/ \E a \in Audits : DeleteAudit(a)

Spec == Init /\ [][Next]_vars

-----------------------------------------------------------------------------
(* Properties. *)

\* Every variable has its type.
TypeOK ==
  /\ paper \in [Papers -> Rows \cup {Absent}]
  /\ used \subseteq Papers
  /\ audits \subseteq Audits
  /\ job \in [Workers -> Jobs]
  /\ raced \subseteq Papers
  /\ patches \in Nat

\* IIA 2330: a paper that is signed off carries the signatures of two
\* different people, unless handlers raced on it.
SignedByTwo ==
  \A p \in Stored \ raced : paper[p].signed =>
    /\ paper[p].auditor # None
    /\ paper[p].reviewer # None
    /\ paper[p].auditor # paper[p].reviewer

\* The lock of save() and delete(): what is signed off keeps its content,
\* status and signatures, in its place, until its engagement is deleted or
\* a handler that loaded it before writes it.
LockedOnceSigned ==
  [][\A p \in Stored \ raced' : paper[p].signed =>
       \/ /\ paper'[p] # Absent
          /\ [paper'[p] EXCEPT !.current = paper[p].current, !.parent = paper[p].parent] = paper[p]
       \/ AuditOf[paper[p].ref] \notin audits']_vars

\* A chain that has a current version loses it only when that version itself
\* is deleted, moved to another chain, or superseded in the chain it has just
\* been moved from.
HeadKept ==
  [][\A f \in Refs : Heads(f) # {} =>
       \/ Heads(f)' # {}
       \/ \E p \in Heads(f) : paper'[p] = Absent \/ paper'[p].ref # f \/ p \in raced']_vars

\* The claim of perform_update: a paper under review is not edited.
UnderReviewFrozen ==
  [][\A p \in Stored : paper[p].status = "Under Review" /\ paper'[p] # Absent =>
       paper'[p].content = paper[p].content]_vars
=============================================================================
