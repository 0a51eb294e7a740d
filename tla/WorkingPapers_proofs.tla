------------------------- MODULE WorkingPapers_proofs -------------------------
(***************************************************************************)
(* Theorems about WorkingPapers, for every number of papers, web workers,  *)
(* signers, engagements and PATCH requests.                                *)
(***************************************************************************)
EXTENDS WorkingPapers, TLAPS

-----------------------------------------------------------------------------
(* Rows. *)

\* What a PATCH makes of a row.
LEMMA PatchedRow ==
  ASSUME NEW row \in Rows, NEW f \in Refs, NEW c \in Contents, NEW st \in Statuses, NEW new,
         new = [row EXCEPT !.ref = f, !.content = c, !.status = st]
  PROVE  /\ new \in Rows
         /\ new.ref = f
         /\ new.current = row.current
         /\ new.auditor = row.auditor
         /\ new.reviewer = row.reviewer
         /\ new.signed = row.signed
BY DEF Rows

\* What the auditor's signature makes of a row.
LEMMA AuditorSignedRow ==
  ASSUME NEW row \in Rows, NEW u \in Users, NEW st \in Statuses, NEW new,
         new = [row EXCEPT !.auditor = u, !.status = st]
  PROVE  /\ new \in Rows
         /\ new.ref = row.ref
         /\ new.current = row.current
         /\ new.signed = row.signed
BY DEF Rows

\* What the reviewer's signature makes of a row.
LEMMA ReviewerSignedRow ==
  ASSUME NEW row \in Rows, NEW u \in Users, NEW new,
         new = [row EXCEPT !.reviewer = u, !.signed = TRUE, !.status = "Signed"]
  PROVE  /\ new \in Rows
         /\ new.ref = row.ref
         /\ new.current = row.current
         /\ new.auditor = row.auditor
         /\ new.reviewer = u
         /\ new.signed = TRUE
BY DEF Rows, Statuses

\* What the lock protects of a row: all but its place in the chain.
Locked(row, new) == [new EXCEPT !.current = row.current, !.parent = row.parent] = row

\* A superseded version keeps its chain and signatures.
LEMMA SupersededRow ==
  ASSUME NEW row \in Rows, NEW new, new = [row EXCEPT !.current = FALSE]
  PROVE  /\ new \in Rows
         /\ new.ref = row.ref
         /\ new.auditor = row.auditor
         /\ new.reviewer = row.reviewer
         /\ new.signed = row.signed
         /\ Locked(row, new)
BY DEF Rows, Locked

\* So does one whose predecessor is deleted; it also stays current.
LEMMA OrphanedRow ==
  ASSUME NEW row \in Rows, NEW new, new = [row EXCEPT !.parent = None]
  PROVE  /\ new \in Rows
         /\ new.ref = row.ref
         /\ new.current = row.current
         /\ new.auditor = row.auditor
         /\ new.reviewer = row.reviewer
         /\ new.signed = row.signed
         /\ Locked(row, new)
BY DEF Rows, Locked

\* A first version is a row without signatures.
LEMMA FirstVersionRow ==
  ASSUME NEW f \in Refs, NEW c \in Contents
  PROVE  /\ FirstVersion(f, c) \in Rows
         /\ FirstVersion(f, c).signed = FALSE
<1>1. FirstVersion(f, c) \in Rows
  BY DEF Rows, Statuses, FirstVersion
<1>2. FirstVersion(f, c).signed = FALSE
  BY DEF FirstVersion
<1>3. QED
  BY <1>1, <1>2

\* So is a following version; it is current in the chain of its parent.
LEMMA NextVersionRow ==
  ASSUME NEW p \in Papers, NEW row \in Rows, NEW c \in Contents
  PROVE  /\ NextVersion(p, row, c) \in Rows
         /\ NextVersion(p, row, c).signed = FALSE
         /\ NextVersion(p, row, c).current = TRUE
         /\ NextVersion(p, row, c).ref = row.ref
<1> DEFINE n == row.version + 1
           filed == [row EXCEPT !.parent = p, !.version = n, !.current = TRUE, !.status = "Draft"]
           next == [filed EXCEPT !.content = c, !.auditor = None, !.reviewer = None, !.signed = FALSE]
<1>1. n \in Nat \ {0}
  BY DEF Rows
<1>2. filed \in Rows /\ filed.ref = row.ref /\ filed.current = TRUE
  <2> HIDE DEF n
  <2> QED
    BY <1>1 DEF Rows, Statuses
<1>3. next \in Rows /\ next.ref = filed.ref /\ next.current = filed.current /\ next.signed = FALSE
  <2> HIDE DEF filed
  <2> QED
    BY <1>2 DEF Rows
<1>4. NextVersion(p, row, c) = next
  BY DEF NextVersion
<1>5. QED
  BY <1>2, <1>3, <1>4

-----------------------------------------------------------------------------
(* Jobs and keys. *)

\* A worker that serves a verb holds a row of a paper.
LEMMA BusyJob ==
  ASSUME TypeOK, NEW w \in Workers, job[w].verb \in Verbs
  PROVE  job[w].paper \in Papers /\ job[w].copy \in Rows
<1>1. job[w] \in Jobs
  BY DEF TypeOK
<1>2. job[w] # Idle
  BY DEF Idle, Verbs
<1>3. QED
  BY <1>1, <1>2 DEF Jobs

\* A write leaves the worker idle and marks at most its paper.
LEMMA WrittenType ==
  ASSUME TypeOK, NEW w \in Workers, job[w].verb \in Verbs, Written(w)
  PROVE  job' \in [Workers -> Jobs] /\ raced' \subseteq Papers
<1>1. job[w].paper \in Papers
  BY BusyJob
<1>2. QED
  BY <1>1 DEF TypeOK, Written, Jobs

\* The type invariant is inductive.
LEMMA TypeStep == TypeOK /\ [Next]_vars => TypeOK'
<1> SUFFICES ASSUME TypeOK, [Next]_vars PROVE TypeOK'
  OBVIOUS
<1>1. ASSUME NEW p \in Papers, NEW f \in Refs, NEW c \in Contents, Create(p, f, c)
      PROVE  TypeOK'
  <2>1. FirstVersion(f, c) \in Rows
    BY FirstVersionRow
  <2>2. QED
    BY <1>1, <2>1 DEF Create, TypeOK
<1>2. ASSUME NEW w \in Workers, NEW p \in Papers, NEW v \in Verbs, Load(w, p, v)
      PROVE  TypeOK'
  <2>1. paper[p] \in Rows
    BY <1>2 DEF Load, TypeOK
  <2>2. [verb |-> v, paper |-> p, copy |-> paper[p]] \in Jobs
    BY <2>1 DEF Jobs
  <2>3. QED
    BY <1>2, <2>2 DEF Load, TypeOK
<1>3. ASSUME NEW w \in Workers, Drop(w)
      PROVE  TypeOK'
  BY <1>3 DEF Drop, TypeOK, Jobs
<1>4. ASSUME NEW w \in Workers, NEW f \in Refs, NEW c \in Contents, NEW st \in Statuses,
             Patch(w, f, c, st)
      PROVE  TypeOK'
  <2>1. job[w].verb \in Verbs /\ Written(w)
    BY <1>4 DEF Patch, Verbs
  <2>2. job[w].paper \in Papers /\ job[w].copy \in Rows
    BY <2>1, BusyJob
  <2>3. [job[w].copy EXCEPT !.ref = f, !.content = c, !.status = st] \in Rows
    BY <2>2, PatchedRow
  <2>4. paper' \in [Papers -> Rows \cup {Absent}]
    BY <1>4, <2>2, <2>3 DEF Patch, TypeOK
  <2>5. patches' \in Nat /\ used' = used /\ audits' = audits
    BY <1>4 DEF Patch, TypeOK
  <2>6. QED
    BY <2>1, <2>4, <2>5, WrittenType DEF TypeOK
<1>5. ASSUME NEW w \in Workers, NEW u \in Users, SignAuditor(w, u)
      PROVE  TypeOK'
  <2>1. job[w].verb \in Verbs /\ Written(w)
    BY <1>5 DEF SignAuditor, Verbs
  <2>2. job[w].paper \in Papers /\ job[w].copy \in Rows
    BY <2>1, BusyJob
  <2> DEFINE p == job[w].paper
             st == IF job[w].copy.status = "Draft" THEN "Under Review" ELSE job[w].copy.status
  <2>3. st \in Statuses
    BY <2>2 DEF Rows, Statuses
  <2>4. paper[p] \in Rows
    BY <1>5, <2>2 DEF SignAuditor, TypeOK
  <2>5. [paper[p] EXCEPT !.auditor = u, !.status = st] \in Rows
    BY <2>3, <2>4, AuditorSignedRow
  <2>6. paper' = [paper EXCEPT ![p] = [paper[p] EXCEPT !.auditor = u, !.status = st]]
    BY <1>5 DEF SignAuditor, TypeOK
  <2>7. paper' \in [Papers -> Rows \cup {Absent}]
    BY <2>2, <2>5, <2>6 DEF TypeOK
  <2>8. patches' = patches /\ used' = used /\ audits' = audits
    BY <1>5 DEF SignAuditor
  <2>9. QED
    BY <2>1, <2>7, <2>8, WrittenType DEF TypeOK
<1>6. ASSUME NEW w \in Workers, NEW u \in Users, SignReviewer(w, u)
      PROVE  TypeOK'
  <2>1. job[w].verb \in Verbs /\ Written(w)
    BY <1>6 DEF SignReviewer, Verbs
  <2>2. job[w].paper \in Papers
    BY <2>1, BusyJob
  <2> DEFINE p == job[w].paper
  <2>3. paper[p] \in Rows
    BY <1>6, <2>2 DEF SignReviewer, TypeOK
  <2>4. [paper[p] EXCEPT !.reviewer = u, !.signed = TRUE, !.status = "Signed"] \in Rows
    BY <2>3, ReviewerSignedRow
  <2>5. paper' = [paper EXCEPT ![p] =
                   [paper[p] EXCEPT !.reviewer = u, !.signed = TRUE, !.status = "Signed"]]
    BY <1>6 DEF SignReviewer, TypeOK
  <2>6. paper' \in [Papers -> Rows \cup {Absent}]
    BY <2>2, <2>4, <2>5 DEF TypeOK
  <2>7. patches' = patches /\ used' = used /\ audits' = audits
    BY <1>6 DEF SignReviewer
  <2>8. QED
    BY <2>1, <2>6, <2>7, WrittenType DEF TypeOK
<1>7. ASSUME NEW w \in Workers, NEW q \in Papers, NEW c \in Contents, NewVersion(w, q, c)
      PROVE  TypeOK'
  <2>1. job[w].verb \in Verbs /\ Written(w)
    BY <1>7 DEF NewVersion, Verbs
  <2>2. job[w].paper \in Papers /\ job[w].copy \in Rows
    BY <2>1, BusyJob
  <2> DEFINE p == job[w].paper
  <2>3. paper[p] \in Rows
    BY <1>7, <2>2 DEF NewVersion, TypeOK
  <2>4. [paper[p] EXCEPT !.current = FALSE] \in Rows
    BY <2>3, SupersededRow
  <2>5. NextVersion(p, job[w].copy, c) \in Rows
    BY <2>2, NextVersionRow
  <2>6. paper' = [paper EXCEPT ![p] = [paper[p] EXCEPT !.current = FALSE],
                               ![q] = NextVersion(p, job[w].copy, c)]
    BY <1>7 DEF NewVersion, TypeOK
  <2>7. paper' \in [Papers -> Rows \cup {Absent}]
    BY <2>2, <2>4, <2>5, <2>6 DEF TypeOK
  <2>8. patches' = patches /\ used' \subseteq Papers /\ audits' = audits
    BY <1>7 DEF NewVersion, TypeOK
  <2>9. QED
    BY <2>1, <2>7, <2>8, WrittenType DEF TypeOK
<1>8. ASSUME NEW w \in Workers, Delete(w)
      PROVE  TypeOK'
  <2>1. job[w].verb \in Verbs /\ Written(w)
    BY <1>8 DEF Delete, Verbs
  <2>2. ASSUME NEW q \in Stored PROVE [paper[q] EXCEPT !.parent = None] \in Rows
    <3>1. paper[q] \in Rows
      BY DEF Stored, TypeOK
    <3>2. QED
      BY <3>1, OrphanedRow
  <2>3. paper' \in [Papers -> Rows \cup {Absent}]
    BY <1>8, <2>2 DEF Delete, TypeOK
  <2>4. patches' = patches /\ used' = used /\ audits' = audits
    BY <1>8 DEF Delete
  <2>5. QED
    BY <2>1, <2>3, <2>4, WrittenType DEF TypeOK
<1>9. ASSUME NEW a \in Audits, DeleteAudit(a)
      PROVE  TypeOK'
  <2>1. ASSUME NEW q \in Stored PROVE [paper[q] EXCEPT !.parent = None] \in Rows
    <3>1. paper[q] \in Rows
      BY DEF Stored, TypeOK
    <3>2. QED
      BY <3>1, OrphanedRow
  <2>2. paper' \in [Papers -> Rows \cup {Absent}]
    BY <1>9, <2>1 DEF DeleteAudit, TypeOK
  <2>3. QED
    BY <1>9, <2>2 DEF DeleteAudit, TypeOK
<1>10. CASE UNCHANGED vars
  BY <1>10 DEF vars, TypeOK
<1>11. QED
  BY <1>1, <1>2, <1>3, <1>4, <1>5, <1>6, <1>7, <1>8, <1>9, <1>10 DEF Next

\* Every variable keeps its type.
THEOREM TypeCorrect == Spec => []TypeOK
<1>1. Init => TypeOK
  BY ConstantsAssumption DEF Init, TypeOK, Jobs
<1>2. QED
  BY <1>1, TypeStep, PTL DEF Spec

-----------------------------------------------------------------------------
(* Writes from copies that are up to date. *)

\* Papers that were written from a stale copy stay marked.
LEMMA RacedGrows == [Next]_vars => raced \subseteq raced'
BY ZenonT(60) DEF Next, vars, Create, Load, Drop, Patch, SignAuditor, SignReviewer, NewVersion,
       Delete, DeleteAudit, Written

\* If a write does not mark its paper, the paper is stored and the copy says
\* of chain, flag and signatures what the row says.
LEMMA FreshWrite ==
  ASSUME TypeOK, NEW w \in Workers, job[w].verb \in Verbs, Written(w),
         job[w].paper \notin raced'
  PROVE  LET row == paper[job[w].paper]
             copy == job[w].copy
         IN
         /\ row \in Rows
         /\ row.ref = copy.ref /\ row.current = copy.current
         /\ row.auditor = copy.auditor /\ row.reviewer = copy.reviewer
         /\ row.signed = copy.signed
<1>1. job[w].paper \in Papers
  BY BusyJob
<1>2. Fresh(w)
  BY DEF Written
<1>3. QED
  BY <1>1, <1>2 DEF Fresh, ReliedOn, TypeOK

-----------------------------------------------------------------------------
(* Two signatures. *)

TwoSigners(row) ==
  row.signed => row.auditor # None /\ row.reviewer # None /\ row.auditor # row.reviewer

\* No step leaves a signed paper with fewer than two signers, unless it
\* writes from a stale copy.
LEMMA SignersStep == TypeOK /\ SignedByTwo /\ [Next]_vars => SignedByTwo'
<1> SUFFICES ASSUME TypeOK, SignedByTwo, [Next]_vars,
                    NEW p \in Papers, paper'[p] # Absent, p \notin raced'
             PROVE  TwoSigners(paper'[p])
  BY DEF SignedByTwo, Stored, TwoSigners
<1>1. /\ p \notin raced
      /\ paper[p] # Absent => paper[p] \in Rows /\ TwoSigners(paper[p])
  BY RacedGrows DEF SignedByTwo, Stored, TypeOK, TwoSigners
<1>2. ASSUME paper'[p] = paper[p] PROVE TwoSigners(paper'[p])
  BY <1>1, <1>2
<1>3. ASSUME paper[p] # Absent, paper'[p] = [paper[p] EXCEPT !.parent = None]
      PROVE  TwoSigners(paper'[p])
  BY <1>1, <1>3, OrphanedRow DEF TwoSigners
<1>4. ASSUME NEW q \in Papers, NEW f \in Refs, NEW c \in Contents, Create(q, f, c)
      PROVE  TwoSigners(paper'[p])
  <2>1. CASE p = q
    BY <1>4, <2>1, FirstVersionRow DEF Create, TypeOK, TwoSigners
  <2>2. CASE p # q
    BY <1>2, <1>4, <2>2 DEF Create
  <2>3. QED
    BY <2>1, <2>2
<1>5. ASSUME NEW w \in Workers, NEW f \in Refs, NEW c \in Contents, NEW st \in Statuses,
             Patch(w, f, c, st)
      PROVE  TwoSigners(paper'[p])
  <2>1. job[w].verb \in Verbs /\ Written(w)
    BY <1>5 DEF Patch, Verbs
  <2>2. CASE p = job[w].paper
    <3>1. job[w].copy \in Rows /\ ~job[w].copy.signed
      BY <1>5, <2>1, BusyJob DEF Patch
    <3>2. paper'[p] = [job[w].copy EXCEPT !.ref = f, !.content = c, !.status = st]
      BY <1>5, <2>2 DEF Patch, TypeOK
    <3>3. paper'[p].signed = job[w].copy.signed
      BY <3>1, <3>2 DEF Rows
    <3>4. QED
      BY <3>1, <3>3 DEF TwoSigners
  <2>3. CASE p # job[w].paper
    BY <1>2, <1>5, <2>3 DEF Patch
  <2>4. QED
    BY <2>2, <2>3
<1>6. ASSUME NEW w \in Workers, NEW u \in Users, SignAuditor(w, u)
      PROVE  TwoSigners(paper'[p])
  <2>1. job[w].verb \in Verbs /\ Written(w)
    BY <1>6 DEF SignAuditor, Verbs
  <2>2. CASE p = job[w].paper
    <3> DEFINE st == IF job[w].copy.status = "Draft" THEN "Under Review" ELSE job[w].copy.status
    <3>1. paper[p] \in Rows /\ ~paper[p].signed
      BY <1>6, <2>1, <2>2, FreshWrite DEF SignAuditor
    <3>2. st \in Statuses
      BY <2>1, BusyJob DEF Rows, Statuses
    <3>3. paper'[p] = [paper[p] EXCEPT !.auditor = u, !.status = st]
      BY <1>6, <2>2 DEF SignAuditor, TypeOK
    <3>4. paper'[p].signed = paper[p].signed
      BY <3>1, <3>3 DEF Rows
    <3>5. QED
      BY <3>1, <3>4 DEF TwoSigners
  <2>3. CASE p # job[w].paper
    BY <1>2, <1>6, <2>3 DEF SignAuditor, TypeOK
  <2>4. QED
    BY <2>2, <2>3
<1>7. ASSUME NEW w \in Workers, NEW u \in Users, SignReviewer(w, u)
      PROVE  TwoSigners(paper'[p])
  <2>1. job[w].verb \in Verbs /\ Written(w)
    BY <1>7 DEF SignReviewer, Verbs
  <2>2. CASE p = job[w].paper
    <3>1. paper[p] \in Rows /\ paper[p].auditor # None /\ paper[p].auditor # u
      BY <1>7, <2>1, <2>2, FreshWrite DEF SignReviewer
    <3>2. paper'[p] = [paper[p] EXCEPT !.reviewer = u, !.signed = TRUE, !.status = "Signed"]
      BY <1>7, <2>2 DEF SignReviewer, TypeOK
    <3>3. u # None
      BY ConstantsAssumption
    <3>4. paper'[p].auditor = paper[p].auditor /\ paper'[p].reviewer = u
      BY <3>1, <3>2 DEF Rows
    <3>5. QED
      BY <3>1, <3>3, <3>4 DEF TwoSigners
  <2>3. CASE p # job[w].paper
    BY <1>2, <1>7, <2>3 DEF SignReviewer, TypeOK
  <2>4. QED
    BY <2>2, <2>3
<1>8. ASSUME NEW w \in Workers, NEW q \in Papers, NEW c \in Contents, NewVersion(w, q, c)
      PROVE  TwoSigners(paper'[p])
  <2>1. job[w].verb \in Verbs
    BY <1>8 DEF NewVersion, Verbs
  <2>2. CASE p = q
    <3>1. paper'[p] = NextVersion(job[w].paper, job[w].copy, c)
      BY <1>8, <2>2 DEF NewVersion, TypeOK
    <3>2. QED
      BY <2>1, <3>1, BusyJob, NextVersionRow DEF TwoSigners
  <2>3. CASE p # q /\ p = job[w].paper
    <3>1. paper[p] # Absent /\ paper'[p] = [paper[p] EXCEPT !.current = FALSE]
      BY <1>8, <2>3 DEF NewVersion, TypeOK
    <3>2. QED
      BY <1>1, <3>1, SupersededRow DEF TwoSigners
  <2>4. CASE p # q /\ p # job[w].paper
    BY <1>2, <1>8, <2>4 DEF NewVersion, TypeOK
  <2>5. QED
    BY <2>2, <2>3, <2>4
<1>9. ASSUME NEW w \in Workers, Delete(w)
      PROVE  TwoSigners(paper'[p])
  BY <1>2, <1>3, <1>9 DEF Delete, Stored
<1>10. ASSUME NEW a \in Audits, DeleteAudit(a)
       PROVE  TwoSigners(paper'[p])
  BY <1>2, <1>3, <1>10 DEF DeleteAudit, Stored
<1>11. ASSUME UNCHANGED paper PROVE TwoSigners(paper'[p])
  BY <1>2, <1>11
<1>12. QED
  BY <1>4, <1>5, <1>6, <1>7, <1>8, <1>9, <1>10, <1>11 DEF Next, vars, Load, Drop

\* A paper that is signed off carries the signatures of two people, however
\* many handlers overlap, unless one of them wrote it from a stale copy.
THEOREM SignedByTwoPeople == Spec => []SignedByTwo
<1>1. Init => SignedByTwo
  BY DEF Init, SignedByTwo, Stored
<1>2. TypeOK /\ SignedByTwo /\ [Next]_vars => SignedByTwo'
  BY SignersStep
<1>3. QED
  BY <1>1, <1>2, TypeCorrect, PTL DEF Spec

-----------------------------------------------------------------------------
(* Primary keys are used once: what is stored, and what a handler holds, has *)
(* a key that no later insert takes.                                       *)

KeysUsed ==
  /\ Stored \subseteq used
  /\ \A w \in Workers : job[w] # Idle => job[w].paper \in used

LEMMA KeysStep == TypeOK /\ KeysUsed /\ [Next]_vars => KeysUsed'
<1> SUFFICES ASSUME TypeOK, KeysUsed, [Next]_vars PROVE KeysUsed'
  OBVIOUS
<1>1. ASSUME NEW p \in Papers, NEW f \in Refs, NEW c \in Contents, Create(p, f, c)
      PROVE  KeysUsed'
  BY <1>1 DEF Create, KeysUsed, Stored
<1>2. ASSUME NEW w \in Workers, NEW p \in Papers, NEW v \in Verbs, Load(w, p, v)
      PROVE  KeysUsed'
  BY <1>2 DEF Load, KeysUsed, Stored
<1>3. ASSUME NEW w \in Workers, Drop(w)
      PROVE  KeysUsed'
  BY <1>3 DEF Drop, KeysUsed, Stored
\* A write of worker w, which holds a paper and stores no other key but q.
<1>4. ASSUME NEW w \in Workers, job[w].verb \in Verbs, Written(w), NEW new,
             used' = used \cup new, Stored' \subseteq Stored \cup new \cup {job[w].paper}
      PROVE  KeysUsed'
  <2>1. job[w] # Idle
    BY <1>4 DEF Idle, Verbs
  <2>2. job[w].paper \in used
    BY <2>1 DEF KeysUsed
  <2>3. \A v \in Workers : job'[v] # Idle => job'[v] = job[v]
    BY <1>4 DEF Written, TypeOK
  <2>4. QED
    BY <1>4, <2>2, <2>3 DEF KeysUsed
<1>5. ASSUME NEW w \in Workers, NEW f \in Refs, NEW c \in Contents, NEW st \in Statuses,
             Patch(w, f, c, st)
      PROVE  KeysUsed'
  BY <1>4, <1>5 DEF Patch, Verbs, Stored
<1>6. ASSUME NEW w \in Workers, NEW u \in Users, SignAuditor(w, u)
      PROVE  KeysUsed'
  <2>1. used' = used \cup {} /\ Stored' \subseteq Stored \cup {} \cup {job[w].paper}
    BY <1>6 DEF SignAuditor, Stored, TypeOK
  <2>2. QED
    BY <1>4, <1>6, <2>1 DEF SignAuditor, Verbs
<1>7. ASSUME NEW w \in Workers, NEW u \in Users, SignReviewer(w, u)
      PROVE  KeysUsed'
  <2>1. used' = used \cup {} /\ Stored' \subseteq Stored \cup {} \cup {job[w].paper}
    BY <1>7 DEF SignReviewer, Stored, TypeOK
  <2>2. QED
    BY <1>4, <1>7, <2>1 DEF SignReviewer, Verbs
<1>8. ASSUME NEW w \in Workers, NEW q \in Papers, NEW c \in Contents, NewVersion(w, q, c)
      PROVE  KeysUsed'
  <2>1. used' = used \cup {q} /\ Stored' \subseteq Stored \cup {q} \cup {job[w].paper}
    BY <1>8 DEF NewVersion, Stored, TypeOK
  <2>2. QED
    BY <1>4, <1>8, <2>1 DEF NewVersion, Verbs
<1>9. ASSUME NEW w \in Workers, Delete(w)
      PROVE  KeysUsed'
  BY <1>4, <1>9 DEF Delete, Verbs, Stored
<1>10. ASSUME NEW a \in Audits, DeleteAudit(a)
       PROVE  KeysUsed'
  BY <1>10 DEF DeleteAudit, KeysUsed, Stored
<1>11. CASE UNCHANGED vars
  BY <1>11 DEF vars, KeysUsed, Stored
<1>12. QED
  BY <1>1, <1>2, <1>3, <1>5, <1>6, <1>7, <1>8, <1>9, <1>10, <1>11 DEF Next

\* The invariant behind the two theorems that follow.
LEMMA KeysInv == Spec => [](TypeOK /\ KeysUsed)
<1>1. Init => KeysUsed
  BY DEF Init, KeysUsed, Stored
<1>2. QED
  BY <1>1, TypeCorrect, KeysStep, PTL DEF Spec

-----------------------------------------------------------------------------
(* The lock. *)

LEMMA LockStep ==
  TypeOK /\ KeysUsed /\ [Next]_vars =>
    \A p \in Stored \ raced' : paper[p].signed =>
      \/ paper'[p] # Absent /\ Locked(paper[p], paper'[p])
      \/ AuditOf[paper[p].ref] \notin audits'
<1> SUFFICES ASSUME TypeOK, KeysUsed, [Next]_vars,
                    NEW p \in Stored, p \notin raced', paper[p].signed
             PROVE  \/ paper'[p] # Absent /\ Locked(paper[p], paper'[p])
                    \/ AuditOf[paper[p].ref] \notin audits'
  OBVIOUS
<1> DEFINE Kept == paper'[p] # Absent /\ Locked(paper[p], paper'[p])
<1>1. p \in Papers /\ paper[p] \in Rows /\ p \in used
  BY DEF Stored, TypeOK, KeysUsed
<1>2. ASSUME paper'[p] = paper[p] PROVE Kept
  <2>1. Locked(paper[p], paper[p])
    BY <1>1 DEF Locked, Rows
  <2>2. QED
    BY <1>2, <2>1 DEF Stored
<1>3. ASSUME paper'[p] = [paper[p] EXCEPT !.parent = None] PROVE Kept
  BY <1>1, <1>3, OrphanedRow, ConstantsAssumption
<1>4. ASSUME NEW w \in Workers, job[w].verb \in Verbs, Written(w), ~job[w].copy.signed
      PROVE  p # job[w].paper
  BY <1>4, FreshWrite
<1>5. ASSUME NEW q \in Papers, NEW f \in Refs, NEW c \in Contents, Create(q, f, c)
      PROVE  Kept
  BY <1>1, <1>2, <1>5 DEF Create
<1>6. ASSUME NEW w \in Workers, NEW f \in Refs, NEW c \in Contents, NEW st \in Statuses,
             Patch(w, f, c, st)
      PROVE  Kept
  BY <1>1, <1>2, <1>4, <1>6 DEF Patch, Verbs
<1>7. ASSUME NEW w \in Workers, NEW u \in Users, SignAuditor(w, u) \/ SignReviewer(w, u)
      PROVE  Kept
  <2>1. p # job[w].paper
    BY <1>4, <1>7 DEF SignAuditor, SignReviewer, Verbs
  <2>2. QED
    BY <1>1, <1>2, <1>7, <2>1 DEF SignAuditor, SignReviewer, TypeOK
<1>8. ASSUME NEW w \in Workers, NEW q \in Papers, NEW c \in Contents, NewVersion(w, q, c)
      PROVE  Kept
  <2>1. p # q
    BY <1>1, <1>8 DEF NewVersion
  <2>2. CASE p = job[w].paper
    <3>1. paper'[p] = [paper[p] EXCEPT !.current = FALSE]
      BY <1>1, <1>8, <2>1, <2>2 DEF NewVersion, TypeOK
    <3>2. QED
      BY <1>1, <3>1, SupersededRow, ConstantsAssumption
  <2>3. CASE p # job[w].paper
    BY <1>1, <1>2, <1>8, <2>1, <2>3 DEF NewVersion, TypeOK
  <2>4. QED
    BY <2>2, <2>3
<1>9. ASSUME NEW w \in Workers, Delete(w)
      PROVE  Kept
  <2>1. p # job[w].paper
    BY <1>4, <1>9 DEF Delete, Verbs
  <2>2. QED
    BY <1>1, <1>2, <1>3, <1>9, <2>1 DEF Delete
<1>10. ASSUME NEW a \in Audits, DeleteAudit(a)
       PROVE  Kept \/ AuditOf[paper[p].ref] \notin audits'
  BY <1>1, <1>2, <1>3, <1>10 DEF DeleteAudit
<1>11. ASSUME UNCHANGED paper PROVE Kept
  BY <1>2, <1>11
<1>12. QED
  BY <1>5, <1>6, <1>7, <1>8, <1>9, <1>10, <1>11 DEF Next, vars, Load, Drop

\* A signed paper stays as it was signed until its engagement is deleted,
\* whatever handlers overlap, unless one writes it from a stale copy.
THEOREM SignedStaysLocked == Spec => LockedOnceSigned
<1>1. TypeOK /\ KeysUsed /\ [Next]_vars =>
        [\A p \in Stored \ raced' : paper[p].signed =>
           \/ /\ paper'[p] # Absent
              /\ [paper'[p] EXCEPT !.current = paper[p].current, !.parent = paper[p].parent] = paper[p]
           \/ AuditOf[paper[p].ref] \notin audits']_vars
  BY LockStep DEF Locked
<1>2. QED
  BY <1>1, KeysInv, PTL DEF Spec, LockedOnceSigned

-----------------------------------------------------------------------------
(* The current version of a chain. *)

LEMMA HeadStep ==
  TypeOK /\ KeysUsed /\ [Next]_vars =>
    \A f \in Refs : Heads(f) # {} =>
      \/ Heads(f)' # {}
      \/ \E p \in Heads(f) : paper'[p] = Absent \/ paper'[p].ref # f \/ p \in raced'
<1> SUFFICES ASSUME TypeOK, KeysUsed, [Next]_vars, NEW f \in Refs, NEW p \in Heads(f),
                    paper'[p] # Absent, paper'[p].ref = f, p \notin raced'
             PROVE  Heads(f)' # {}
  OBVIOUS
<1>1. p \in Papers /\ paper[p] \in Rows /\ p \in used /\ paper[p].current /\ paper[p].ref = f
  BY DEF Heads, Stored, TypeOK, KeysUsed
<1>2. ASSUME NEW q \in Papers, paper'[q] # Absent, paper'[q].current, paper'[q].ref = f
      PROVE  Heads(f)' # {}
  BY <1>2 DEF Heads, Stored
<1>3. ASSUME paper'[p].current = paper[p].current PROVE Heads(f)' # {}
  BY <1>1, <1>2, <1>3
<1>4. ASSUME NEW q \in Papers, NEW g \in Refs, NEW c \in Contents, Create(q, g, c)
      PROVE  Heads(f)' # {}
  BY <1>1, <1>3, <1>4 DEF Create, TypeOK
<1>5. ASSUME NEW w \in Workers, NEW g \in Refs, NEW c \in Contents, NEW st \in Statuses,
             Patch(w, g, c, st)
      PROVE  Heads(f)' # {}
  <2>1. job[w].verb \in Verbs /\ Written(w)
    BY <1>5 DEF Patch, Verbs
  <2>2. CASE p = job[w].paper
    <3>1. job[w].copy \in Rows /\ job[w].copy.current = paper[p].current
      BY <2>1, <2>2, BusyJob, FreshWrite
    <3>2. paper'[p] = [job[w].copy EXCEPT !.ref = g, !.content = c, !.status = st]
      BY <1>1, <1>5, <2>2 DEF Patch, TypeOK
    <3>3. paper'[p].current = job[w].copy.current
      BY <3>1, <3>2 DEF Rows
    <3>4. QED
      BY <1>3, <3>1, <3>3
  <2>3. CASE p # job[w].paper
    BY <1>1, <1>3, <1>5, <2>3 DEF Patch, TypeOK
  <2>4. QED
    BY <2>2, <2>3
<1>6. ASSUME NEW w \in Workers, NEW u \in Users, SignAuditor(w, u) \/ SignReviewer(w, u)
      PROVE  Heads(f)' # {}
  <2>1. CASE p = job[w].paper
    <3>1. ASSUME NEW st, paper'[p] = [paper[p] EXCEPT !.auditor = u, !.status = st]
          PROVE  paper'[p].current = paper[p].current
      BY <1>1, <3>1 DEF Rows
    <3>2. ASSUME paper'[p] = [paper[p] EXCEPT !.reviewer = u, !.signed = TRUE, !.status = "Signed"]
          PROVE  paper'[p].current = paper[p].current
      BY <1>1, <3>2 DEF Rows
    <3>3. CASE SignAuditor(w, u)
      BY <1>1, <1>3, <2>1, <3>1, <3>3 DEF SignAuditor, TypeOK
    <3>4. CASE SignReviewer(w, u)
      BY <1>1, <1>3, <2>1, <3>2, <3>4 DEF SignReviewer, TypeOK
    <3>5. QED
      BY <1>6, <3>3, <3>4
  <2>2. CASE p # job[w].paper
    BY <1>1, <1>3, <1>6, <2>2 DEF SignAuditor, SignReviewer, TypeOK
  <2>3. QED
    BY <2>1, <2>2
<1>7. ASSUME NEW w \in Workers, NEW q \in Papers, NEW c \in Contents, NewVersion(w, q, c)
      PROVE  Heads(f)' # {}
  <2>1. job[w].verb \in Verbs /\ Written(w)
    BY <1>7 DEF NewVersion, Verbs
  <2>2. CASE p = job[w].paper
    <3>1. job[w].copy \in Rows /\ job[w].copy.ref = f
      BY <1>1, <2>1, <2>2, BusyJob, FreshWrite
    <3>2. paper'[q] = NextVersion(p, job[w].copy, c)
      BY <1>7, <2>2 DEF NewVersion, TypeOK
    <3>3. /\ NextVersion(p, job[w].copy, c) \in Rows
          /\ NextVersion(p, job[w].copy, c).current = TRUE
          /\ NextVersion(p, job[w].copy, c).ref = f
      BY <1>1, <3>1, NextVersionRow
    <3>4. QED
      BY <1>2, <3>2, <3>3, ConstantsAssumption
  <2>3. CASE p # job[w].paper
    <3>1. p # q
      BY <1>1, <1>7 DEF NewVersion
    <3>2. paper'[p] = paper[p]
      BY <1>1, <1>7, <2>3, <3>1 DEF NewVersion, TypeOK
    <3>3. QED
      BY <1>3, <3>2
  <2>4. QED
    BY <2>2, <2>3
<1>8. ASSUME paper'[p] = [paper[p] EXCEPT !.parent = None] PROVE Heads(f)' # {}
  BY <1>1, <1>3, <1>8, OrphanedRow
<1>9. ASSUME NEW w \in Workers, Delete(w)
      PROVE  Heads(f)' # {}
  BY <1>1, <1>3, <1>8, <1>9 DEF Delete
<1>10. ASSUME NEW a \in Audits, DeleteAudit(a)
       PROVE  Heads(f)' # {}
  BY <1>1, <1>3, <1>8, <1>10 DEF DeleteAudit
<1>11. ASSUME UNCHANGED paper PROVE Heads(f)' # {}
  BY <1>3, <1>11
<1>12. QED
  BY <1>4, <1>5, <1>6, <1>7, <1>9, <1>10, <1>11 DEF Next, vars, Load, Drop

\* A chain loses its current version only when that very row is deleted,
\* moved, or written from a stale copy.
THEOREM ChainKeepsHead == Spec => HeadKept
<1>1. TypeOK /\ KeysUsed /\ [Next]_vars =>
        [\A f \in Refs : Heads(f) # {} =>
           \/ Heads(f)' # {}
           \/ \E p \in Heads(f) : paper'[p] = Absent \/ paper'[p].ref # f \/ p \in raced']_vars
  BY HeadStep
<1>2. QED
  BY <1>1, KeysInv, PTL DEF Spec, HeadKept
=============================================================================
