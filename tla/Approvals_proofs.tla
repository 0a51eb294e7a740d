--------------------------- MODULE Approvals_proofs ---------------------------
(***************************************************************************)
(* Theorems about Approvals, for every number of requests, workers, tasks  *)
(* and users and every chain.  The first four hold however web requests    *)
(* overlap; that a status is the verdict of its steps, that a request is   *)
(* decided once and that it always waits for somebody need the requests to *)
(* be served one after another, which Orderly says.                     *)
(***************************************************************************)
EXTENDS Approvals, SequenceTheorems, WellFoundedInduction, TLAPS

-----------------------------------------------------------------------------
(* Chains as sequences of rows. *)

\* A function on 1..n is a sequence of its values.
LEMMA FunctionIsSeq ==
  ASSUME NEW S, NEW n \in Nat, NEW f \in [1..n -> S]
  PROVE  f \in Seq(S)
BY SeqDef

\* The rows a template expands to are well-formed step rows.
LEMMA TemplateRowsType ==
  ASSUME NEW r \in Requests
  PROVE  TemplateRows(r) \in Seq(NewRows)
<1>1. /\ Template[r] \in Seq(Descriptors)
      /\ \A i \in 1..Len(Template[r]) : Template[r][i] \in Descriptors
  BY ConstantsAssumption
<1>2. TemplateRows(r) \in [1..Len(Template[r]) -> NewRows]
  BY <1>1 DEF TemplateRows, NewRows, Rows, Descriptors, Statuses, StatusesSent
<1>3. Len(Template[r]) \in Nat
  BY <1>1
<1>4. QED
  BY <1>2, <1>3, FunctionIsSeq

\* The rows of a chain sent inline are well-formed step rows.
LEMMA InlineRowsType ==
  ASSUME NEW b \in Bodies
  PROVE  InlineRows(b.steps) \in Seq(NewRows)
<1> DEFINE c == b.steps
<1>1. c \in Seq(InlineSteps) /\ \A i \in 1..Len(c) : c[i] \in InlineSteps
  BY ConstantsAssumption DEF CreateBodies
<1>2. \A i \in 1..Len(c) : c[i].status \in StatusesSent
  BY <1>1 DEF StatusesSent
<1>3. \A i \in 1..Len(c) : InlineRows(c)[i] \in NewRows
  BY <1>1, <1>2, ConstantsAssumption DEF InlineRows, InlineSteps, NewRows, Rows
<1>4. InlineRows(c) \in [1..Len(c) -> NewRows]
  BY <1>3 DEF InlineRows
<1>5. Len(c) \in Nat
  BY <1>1
<1>6. QED
  BY <1>4, <1>5, FunctionIsSeq

\* Replacing the row at i, if there is one, by another leaves a chain.
LEMMA RowUpdate ==
  ASSUME NEW s \in Seq(Rows), NEW i, NEW row, i \in DOMAIN s => row \in Rows
  PROVE  [s EXCEPT ![i] = row] \in Seq(Rows)
<1>1. CASE i \in DOMAIN s
  <2>1. i \in 1..Len(s)
    BY <1>1
  <2>2. QED
    BY <1>1, <2>1, ExceptSeq
<1>2. CASE i \notin DOMAIN s
  <2>1. [s EXCEPT ![i] = row] = s
    BY <1>2
  <2>2. QED
    BY <2>1
<1>3. QED
  BY <1>1, <1>2

\* The chain s with row i decided by u.
Decision(s, i, u, v) == [s EXCEPT ![i] = DecidedBy(s[i], u, v)]

\* A decision changes one row's status and signature.
LEMMA DecideType ==
  ASSUME NEW s \in Seq(Rows), NEW i, NEW u \in Users,
         NEW v \in {"Approved", "Rejected"}
  PROVE  Decision(s, i, u, v) \in Seq(Rows)
<1>1. ASSUME i \in DOMAIN s
      PROVE  DecidedBy(s[i], u, v) \in Rows
  <2>1. s[i] \in Rows
    BY <1>1
  <2>2. QED
    BY <2>1 DEF Rows, DecidedBy, Statuses
<1>2. QED
  BY <1>1, RowUpdate DEF Decision

\* The row decided and the others.
LEMMA DecisionRows ==
  ASSUME NEW s \in Seq(Rows), NEW i \in DOMAIN s, NEW u \in Users,
         NEW v \in {"Approved", "Rejected"}
  PROVE  /\ DOMAIN Decision(s, i, u, v) = DOMAIN s
         /\ Decision(s, i, u, v)[i].status = v
         /\ Decision(s, i, u, v)[i].by = u
         /\ \A k \in DOMAIN s \ {i} : Decision(s, i, u, v)[k] = s[k]
         /\ \A k \in DOMAIN s :
              /\ Decision(s, i, u, v)[k].order = s[k].order
              /\ Decision(s, i, u, v)[k].role = s[k].role
              /\ Decision(s, i, u, v)[k].approver = s[k].approver
              /\ Decision(s, i, u, v)[k].sla = s[k].sla
              /\ Decision(s, i, u, v)[k].due = s[k].due
              /\ Decision(s, i, u, v)[k].esc = s[k].esc
<1>1. \A k \in DOMAIN s : s[k] \in Rows
  OBVIOUS
<1>2. QED
  BY <1>1 DEF Decision, DecidedBy, Rows

\* An escalation or the passing of time changes one row's stamps.
LEMMA StampType ==
  ASSUME NEW s \in Seq(Rows), NEW i
  PROVE  [s EXCEPT ![i].esc = 0] \in Seq(Rows)
<1>1. ASSUME i \in DOMAIN s
      PROVE  [s[i] EXCEPT !.esc = 0] \in Rows
  <2>1. s[i] \in Rows
    BY <1>1
  <2>2. QED
    BY <2>1 DEF Rows
<1>2. QED
  BY <1>1, RowUpdate

\* Starting a clock only sets a due date.
LEMMA StartClockType ==
  ASSUME NEW s \in Seq(Rows), NEW j \in DOMAIN s
  PROVE  StartClock(s, j) \in Seq(Rows)
<1>1. j \in 1..Len(s) /\ s[j] \in Rows
  OBVIOUS
<1>2. s[j].sla \in Int \cup {NoTime}
  BY <1>1 DEF Rows
<1>3. [s[j] EXCEPT !.due = s[j].sla] \in Rows
  BY <1>1, <1>2 DEF Rows
<1>4. [s EXCEPT ![j] = [s[j] EXCEPT !.due = s[j].sla]] \in Seq(Rows)
  BY <1>1, <1>3, ExceptSeq
<1>5. QED
  BY <1>4 DEF StartClock

\* Whatever clock an approval starts, rows keep their identity, order and
\* status.
LEMMA PromotedShape ==
  ASSUME NEW s \in Seq(Rows), NEW t \in Promoted(s)
  PROVE  /\ t \in Seq(Rows)
         /\ DOMAIN t = DOMAIN s
         /\ \A i \in DOMAIN s :
              /\ t[i].order = s[i].order /\ t[i].status = s[i].status
              /\ t[i].role = s[i].role /\ t[i].approver = s[i].approver /\ t[i].by = s[i].by
<1>1. CASE t = s
  BY <1>1
<1>2. CASE t # s
  <2>1. PICK j \in CurrentSteps(s) : t = StartClock(s, j)
    BY <1>2 DEF Promoted
  <2>2. j \in DOMAIN s
    BY DEF CurrentSteps, Pending
  <2>3. \A i \in DOMAIN s : s[i] \in Rows
    OBVIOUS
  <2>4. t = [s EXCEPT ![j].due = s[j].sla]
    BY <1>2, <2>1 DEF StartClock
  <2>5. DOMAIN t = DOMAIN s
    BY <2>4
  <2>6. \A i \in DOMAIN s :
              /\ t[i].order = s[i].order /\ t[i].status = s[i].status
              /\ t[i].role = s[i].role /\ t[i].approver = s[i].approver /\ t[i].by = s[i].by
    BY <2>2, <2>3, <2>4 DEF Rows
  <2>7. QED
    BY <2>1, <2>2, <2>5, <2>6, StartClockType
<1>3. QED
  BY <1>1, <1>2

\* Time keeps a row a row, with its order and status.
LEMMA AgedType ==
  ASSUME NEW row \in Rows
  PROVE  /\ Aged(row) \in Rows
         /\ Aged(row).order = row.order
         /\ Aged(row).status = row.status
<1>1. row.due = NoTime \/ row.due \in Int
  BY DEF Rows
<1>2. row.esc = NoTime \/ row.esc \in Nat
  BY DEF Rows
<1>3. (IF row.due = NoTime \/ row.due < 0 THEN row.due ELSE row.due - 1) \in Int \cup {NoTime}
  BY <1>1
<1>4. (IF row.esc = NoTime \/ row.esc > Dedupe THEN row.esc ELSE row.esc + 1) \in Nat \cup {NoTime}
  BY <1>2
<1>5. QED
  BY <1>3, <1>4 DEF Aged, Rows

LEMMA AgedChain ==
  ASSUME NEW s \in Seq(Rows)
  PROVE  [i \in DOMAIN s |-> Aged(s[i])] \in Seq(Rows)
<1>1. DOMAIN s = 1..Len(s) /\ Len(s) \in Nat
  OBVIOUS
<1>2. [i \in DOMAIN s |-> Aged(s[i])] \in [1..Len(s) -> Rows]
  BY <1>1, AgedType
<1>3. QED
  BY <1>1, <1>2, FunctionIsSeq

-----------------------------------------------------------------------------
(* Jobs. *)

\* The stage of a job tells what it carries.
LEMMA JobByStage ==
  ASSUME NEW j \in Jobs
  PROVE  /\ j.at = "create" => j \in CreateJobs
         /\ j.at = "loaded" => j \in LoadedJobs
         /\ j.at = "checked" => j \in CheckedJobs
         /\ j.at = "patch" => j \in PatchJobs
BY DEF Jobs, Idle, CreateJobs, LoadedJobs, CheckedJobs, PatchJobs

LEMMA AfterInsertType ==
  ASSUME NEW j \in CreateJobs
  PROVE  AfterInsert(j) \in Jobs
BY DEF AfterInsert, Jobs

LEMMA CreationType ==
  ASSUME NEW r \in Requests, NEW c \in {b.steps : b \in Bodies} \cup {<<>>}
  PROVE  Creation(r, c) \in Jobs
<1>1. InlineRows(c) \in Seq(NewRows)
  <2>1. CASE c \in {b.steps : b \in Bodies}
    BY <2>1, InlineRowsType
  <2>2. CASE c = <<>>
    <3>1. InlineRows(c) \in [1..0 -> NewRows]
      BY <2>2 DEF InlineRows
    <3>2. QED
      BY <3>1, FunctionIsSeq
  <2>3. QED
    BY <2>1, <2>2
<1>2. [at |-> "create", req |-> r, tmpl |-> TemplateRows(r), inline |-> InlineRows(c)] \in CreateJobs
  BY <1>1, TemplateRowsType DEF CreateJobs
<1>3. QED
  BY <1>2, AfterInsertType DEF Creation

-----------------------------------------------------------------------------
(* Type correctness. *)

LEMMA InitType == Init => TypeOK
<1>1. \A S : <<>> \in Seq(S)
  BY EmptySeq
<1>2. QED
  BY <1>1 DEF Init, TypeOK, Jobs, Bounded

LEMMA CreateJobType ==
  ASSUME NEW j \in CreateJobs
  PROVE  /\ j.req \in Requests
         /\ j.tmpl # <<>> => /\ Head(j.tmpl) \in NewRows
                             /\ Head(j.tmpl) \in Rows
                             /\ AfterInsert([j EXCEPT !.tmpl = Tail(@)]) \in Jobs
         /\ j.inline # <<>> => /\ Head(j.inline) \in NewRows
                               /\ Head(j.inline) \in Rows
                               /\ AfterInsert([j EXCEPT !.inline = Tail(@)]) \in Jobs
         /\ AfterInsert([j EXCEPT !.tmpl = <<>>]) \in Jobs
<1>1. j.tmpl \in Seq(NewRows) /\ j.inline \in Seq(NewRows) /\ j.req \in Requests
  BY DEF CreateJobs
<1>2. ASSUME j.tmpl # <<>>
      PROVE  Head(j.tmpl) \in NewRows /\ Head(j.tmpl) \in Rows /\ [j EXCEPT !.tmpl = Tail(@)] \in CreateJobs
  BY <1>1, <1>2, HeadTailProperties DEF CreateJobs, NewRows
<1>3. ASSUME j.inline # <<>>
      PROVE  Head(j.inline) \in NewRows /\ Head(j.inline) \in Rows /\ [j EXCEPT !.inline = Tail(@)] \in CreateJobs
  BY <1>1, <1>3, HeadTailProperties DEF CreateJobs, NewRows
<1>4. [j EXCEPT !.tmpl = <<>>] \in CreateJobs
  BY EmptySeq DEF CreateJobs
<1>5. QED
  BY <1>1, <1>2, <1>3, <1>4, AfterInsertType

LEMMA SpendType ==
  ASSUME NEW k \in Bounded, spent \in [Bounded -> Nat], Spend(k)
  PROVE  spent' \in [Bounded -> Nat]
BY DEF Spend

LEMMA CreateTypeOK ==
  ASSUME TypeOK, NEW w \in Workers, NEW r \in Requests, NEW b \in Bodies, Create(w, r, b)
  PROVE  TypeOK'
<1>1. b.status \in Statuses /\ b.cur \in Nat
  BY ConstantsAssumption DEF CreateBodies
<1>2. Creation(r, b.steps) \in Jobs
  BY CreationType
<1>3. QED
  BY <1>1, <1>2 DEF TypeOK, Create

LEMMA InsertTypeOK ==
  ASSUME TypeOK, NEW w \in Workers, InsertTemplateStep(w) \/ InsertInlineStep(w)
  PROVE  TypeOK'
<1> DEFINE j == job[w]
<1>1. j \in CreateJobs
  BY JobByStage DEF TypeOK, InsertTemplateStep, InsertInlineStep
<1>2. /\ steps[j.req] \in Seq(Rows)
      /\ j.tmpl # <<>> => Append(steps[j.req], Head(j.tmpl)) \in Seq(Rows)
      /\ j.inline # <<>> => Append(steps[j.req], Head(j.inline)) \in Seq(Rows)
  BY <1>1, CreateJobType, AppendProperties DEF TypeOK
<1>3. steps' \in [Requests -> Seq(Rows)]
  BY <1>1, <1>2, CreateJobType DEF TypeOK, InsertTemplateStep, InsertInlineStep
<1>4. job' \in [Workers -> Jobs]
  BY <1>1, CreateJobType DEF TypeOK, InsertTemplateStep, InsertInlineStep
<1>5. QED
  BY <1>3, <1>4 DEF TypeOK, InsertTemplateStep, InsertInlineStep

LEMMA FaultTypeOK ==
  ASSUME TypeOK, NEW w \in Workers, ChainFails(w) \/ CreateDies(w)
  PROVE  TypeOK'
<1>1. job[w] \in CreateJobs
  BY JobByStage DEF TypeOK, ChainFails, CreateDies
<1>2. job' \in [Workers -> Jobs]
  BY <1>1, CreateJobType DEF TypeOK, ChainFails, CreateDies, Jobs
<1>3. spent' \in [Bounded -> Nat]
  BY SpendType DEF TypeOK, ChainFails, CreateDies, Bounded
<1>4. QED
  BY <1>2, <1>3 DEF TypeOK, ChainFails, CreateDies, rows

LEMMA LoadTypeOK ==
  ASSUME TypeOK, NEW w \in Workers, NEW u \in Users, NEW r \in Requests,
         NEW v \in {"approve", "reject"}, Load(w, u, r, v)
  PROVE  TypeOK'
<1>1. Len(steps[r]) \in Nat
  BY DEF TypeOK
<1>2. [at |-> "loaded", verb |-> v, user |-> u, req |-> r, cur |-> cur[r],
       count |-> Len(steps[r])] \in LoadedJobs
  BY <1>1 DEF TypeOK, LoadedJobs
<1>3. job' \in [Workers -> Jobs]
  BY <1>2 DEF TypeOK, Load, Jobs
<1>4. QED
  BY <1>3 DEF TypeOK, Load, rows

LEMMA CheckTypeOK ==
  ASSUME TypeOK, NEW w \in Workers, Check(w) \/ Refuse(w)
  PROVE  TypeOK'
<1> DEFINE j == job[w]
<1>1. j \in LoadedJobs
  BY JobByStage DEF TypeOK, Check, Refuse
<1>2. steps[j.req] \in Seq(Rows)
  BY <1>1 DEF TypeOK, LoadedJobs
<1>3. \A i \in CurrentSteps(steps[j.req]) : i \in Nat
  BY <1>2 DEF CurrentSteps, Pending
<1>4. \A i \in Nat :
        [at |-> "checked", verb |-> j.verb, user |-> j.user, req |-> j.req,
         cur |-> j.cur, count |-> j.count, step |-> i] \in CheckedJobs
  BY <1>1 DEF LoadedJobs, CheckedJobs
<1>5. CASE Check(w)
  <2>1. PICK i \in CurrentSteps(steps[j.req]) :
          job' = [job EXCEPT ![w] =
            [at |-> "checked", verb |-> j.verb, user |-> j.user, req |-> j.req,
             cur |-> j.cur, count |-> j.count, step |-> i]]
    BY <1>5 DEF Check
  <2>2. job' \in [Workers -> Jobs]
    BY <1>3, <1>4, <2>1 DEF TypeOK, Jobs
  <2>3. QED
    BY <1>5, <2>2 DEF TypeOK, Check, rows
<1>6. CASE Refuse(w)
  <2>1. job' \in [Workers -> Jobs]
    BY <1>6 DEF TypeOK, Refuse, Jobs
  <2>2. QED
    BY <1>6, <2>1 DEF TypeOK, Refuse, rows
<1>7. QED
  BY <1>5, <1>6

LEMMA CommitTypeOK ==
  ASSUME TypeOK, NEW w \in Workers, CommitApprove(w) \/ CommitReject(w) \/ CommitLost(w)
  PROVE  TypeOK'
<1> DEFINE j == job[w]
           r == j.req
<1>1. /\ j \in CheckedJobs
      /\ r \in Requests
      /\ j.cur \in Nat /\ j.count \in Nat /\ j.user \in Users
  BY JobByStage DEF TypeOK, CommitApprove, CommitReject, CommitLost, CheckedJobs
<1>2. job' \in [Workers -> Jobs]
  BY DEF TypeOK, CommitApprove, CommitReject, CommitLost, Jobs
<1>3. steps[r] \in Seq(Rows)
  BY <1>1 DEF TypeOK
<1>4. CASE CommitApprove(w)
  <2>1. Decision(steps[r], j.step, j.user, "Approved") \in Seq(Rows)
    BY <1>1, <1>3, DecideType
  <2>2. PICK s \in Promoted(Decision(steps[r], j.step, j.user, "Approved")) :
          /\ steps' = [steps EXCEPT ![r] = s]
          /\ status' = [status EXCEPT ![r] = "Approved"] \/ status' = status
          /\ fired' = [fired EXCEPT ![r] = @ + 1] \/ fired' = fired
          /\ done' = done \cup ({Ref[r]} \cap Targets) \/ done' = done
    BY <1>4 DEF CommitApprove, Decision
  <2>3. s \in Seq(Rows)
    BY <2>1, PromotedShape
  <2>4. steps' \in [Requests -> Seq(Rows)]
    BY <2>2, <2>3 DEF TypeOK
  <2>5. status' \in [Requests -> Statuses \cup {Absent}]
    BY <2>2 DEF TypeOK, Statuses
  <2>6. fired' \in [Requests -> Nat]
    <3>1. fired[r] + 1 \in Nat
      BY <1>1 DEF TypeOK
    <3>2. QED
      BY <2>2, <3>1 DEF TypeOK
  <2>7. done' \subseteq Targets
    BY <2>2 DEF TypeOK
  <2>8. cur' \in [Requests -> Nat]
    BY <1>1, <1>4 DEF TypeOK, CommitApprove, Advanced
  <2>9. QED
    BY <1>2, <1>4, <2>4, <2>5, <2>6, <2>7, <2>8 DEF TypeOK, CommitApprove
<1>5. CASE CommitReject(w)
  <2>1. steps' \in [Requests -> Seq(Rows)]
    <3>1. Decision(steps[r], j.step, j.user, "Rejected") \in Seq(Rows)
      BY <1>1, <1>3, DecideType
    <3>2. steps' = [steps EXCEPT ![r] = Decision(steps[r], j.step, j.user, "Rejected")]
      BY <1>1, <1>5 DEF TypeOK, CommitReject, Decision
    <3>3. QED
      BY <1>1, <3>1, <3>2 DEF TypeOK
  <2>2. status' \in [Requests -> Statuses \cup {Absent}]
    BY <1>5 DEF TypeOK, CommitReject, Statuses
  <2>3. QED
    BY <1>2, <1>5, <2>1, <2>2 DEF TypeOK, CommitReject
<1>6. CASE CommitLost(w)
  BY <1>2, <1>6 DEF TypeOK, CommitLost, rows
<1>7. QED
  BY <1>4, <1>5, <1>6

LEMMA PatchTypeOK ==
  ASSUME TypeOK, NEW w \in Workers, NEW r \in Requests, LoadPatch(w, r) \/ CommitPatch(w)
  PROVE  TypeOK'
<1>1. CASE LoadPatch(w, r)
  <2>0. PICK st \in PatchStatus \cup {status[r]}, c \in PatchCur \cup {cur[r]} :
          job' = [job EXCEPT ![w] = [at |-> "patch", req |-> r, status |-> st, cur |-> c]]
    BY <1>1 DEF LoadPatch
  <2>1. [at |-> "patch", req |-> r, status |-> st, cur |-> c] \in PatchJobs
    BY <1>1, ConstantsAssumption DEF TypeOK, PatchJobs, LoadPatch
  <2>2. job' \in [Workers -> Jobs]
    BY <2>0, <2>1 DEF TypeOK, Jobs
  <2>3. QED
    BY <1>1, <2>2 DEF TypeOK, LoadPatch, rows
<1>2. CASE CommitPatch(w)
  <2>1. job[w] \in PatchJobs
    BY <1>2, JobByStage DEF TypeOK, CommitPatch
  <2>2. job[w].req \in Requests /\ job[w].status \in Statuses /\ job[w].cur \in Nat
    BY <2>1 DEF PatchJobs
  <2>3. Creation(job[w].req, <<>>) \in Jobs
    BY <2>2, CreationType
  <2>4. job' \in [Workers -> Jobs]
    BY <1>2, <2>3 DEF TypeOK, CommitPatch, Jobs
  <2>5. QED
    BY <1>2, <2>2, <2>4 DEF TypeOK, CommitPatch
<1>3. QED
  BY <1>1, <1>2

LEMMA DeleteTypeOK ==
  ASSUME TypeOK, NEW r \in Requests, Delete(r)
  PROVE  TypeOK'
<1>1. status' \in [Requests -> Statuses \cup {Absent}]
  BY DEF TypeOK, Delete
<1>2. steps' \in [Requests -> Seq(Rows)]
  BY EmptySeq DEF TypeOK, Delete
<1>3. job' \in [Workers -> Jobs]
  <2>1. ASSUME NEW w \in Workers, job[w].at = "checked"
        PROVE  [job[w] EXCEPT !.step = 0] \in Jobs
    <3>1. job[w] \in CheckedJobs
      BY <2>1, JobByStage DEF TypeOK
    <3>2. QED
      BY <3>1 DEF CheckedJobs, Jobs
  <2>2. QED
    BY <2>1 DEF TypeOK, Delete
<1>4. scan' \in [Scanners -> SUBSET (Requests \X Nat)]
  BY DEF TypeOK, Delete
<1>5. spent' \in [Bounded -> Nat]
  BY SpendType DEF TypeOK, Delete, Bounded
<1>6. QED
  BY <1>1, <1>2, <1>3, <1>4, <1>5 DEF TypeOK, Delete

LEMMA ScanTypeOK ==
  ASSUME TypeOK, NEW b \in Scanners, StartScan(b) \/ EscalateStep(b) \/ ScanDies(b)
  PROVE  TypeOK'
<1>1. CASE StartScan(b)
  <2>1. StepIds \subseteq Requests \X Nat
    <3>1. \A r \in Requests : DOMAIN steps[r] \subseteq Nat
      BY DEF TypeOK
    <3>2. QED
      BY <3>1 DEF StepIds
  <2>2. OverdueRows \subseteq Requests \X Nat
    BY <2>1 DEF OverdueRows
  <2>3. QED
    BY <1>1, <2>2 DEF TypeOK, StartScan, rows
<1>2. CASE EscalateStep(b)
  <2>1. PICK x \in scan[b] :
          /\ steps' = [steps EXCEPT ![x[1]][x[2]].esc = 0]
          /\ scan' = [scan EXCEPT ![b] = @ \ {x}]
    BY <1>2 DEF EscalateStep
  <2>2. x[1] \in Requests
    BY DEF TypeOK
  <2>3. [steps[x[1]] EXCEPT ![x[2]].esc = 0] \in Seq(Rows)
    BY <2>2, StampType DEF TypeOK
  <2>4. steps' \in [Requests -> Seq(Rows)]
    BY <2>1, <2>2, <2>3 DEF TypeOK
  <2>5. scan' \in [Scanners -> SUBSET (Requests \X Nat)]
    BY <2>1 DEF TypeOK
  <2>6. QED
    BY <1>2, <2>4, <2>5 DEF TypeOK, EscalateStep
<1>3. CASE ScanDies(b)
  <2>1. spent' \in [Bounded -> Nat]
    BY <1>3, SpendType DEF TypeOK, ScanDies, Bounded
  <2>2. QED
    BY <1>3, <2>1 DEF TypeOK, ScanDies, rows
<1>4. QED
  BY <1>1, <1>2, <1>3

LEMMA TickTypeOK ==
  ASSUME TypeOK, Tick
  PROVE  TypeOK'
<1>1. steps' \in [Requests -> Seq(Rows)]
  BY AgedChain DEF TypeOK, Tick
<1>2. QED
  BY <1>1 DEF TypeOK, Tick

LEMMA NextTypeOK == TypeOK /\ [Next]_vars => TypeOK'
<1> SUFFICES ASSUME TypeOK, [Next]_vars PROVE TypeOK'
  OBVIOUS
<1>1. ASSUME NEW w \in Workers, NEW r \in Requests,
             \/ \E b \in Bodies : Create(w, r, b)
             \/ \E u \in Users, v \in {"approve", "reject"} : Load(w, u, r, v)
             \/ LoadPatch(w, r)
      PROVE  TypeOK'
  BY <1>1, CreateTypeOK, LoadTypeOK, PatchTypeOK
<1>2. ASSUME NEW w \in Workers,
             \/ InsertTemplateStep(w) \/ InsertInlineStep(w) \/ ChainFails(w) \/ CreateDies(w)
             \/ Check(w) \/ Refuse(w) \/ CommitApprove(w) \/ CommitReject(w) \/ CommitLost(w)
      PROVE  TypeOK'
  BY <1>2, InsertTypeOK, FaultTypeOK, CheckTypeOK, CommitTypeOK
<1>3. ASSUME NEW w \in Workers, CommitPatch(w)
      PROVE  TypeOK'
  <2>1. job[w] \in PatchJobs
    BY <1>3, JobByStage DEF TypeOK, CommitPatch
  <2>2. QED
    BY <1>3, <2>1, PatchTypeOK DEF PatchJobs
<1>4. ASSUME NEW r \in Requests, Delete(r)
      PROVE  TypeOK'
  BY <1>4, DeleteTypeOK
<1>5. ASSUME NEW b \in Scanners, StartScan(b) \/ EscalateStep(b) \/ ScanDies(b)
      PROVE  TypeOK'
  BY <1>5, ScanTypeOK
<1>6. CASE Tick
  BY <1>6, TickTypeOK
<1>7. CASE UNCHANGED vars
  BY <1>7 DEF TypeOK, vars
<1>8. QED
  BY <1>1, <1>2, <1>3, <1>4, <1>5, <1>6, <1>7 DEF Next

\* Whatever the callers, the races and the crashes, the stored rows and the
\* jobs in flight are well-formed.
THEOREM TypeCorrect == Spec => []TypeOK
BY InitType, NextTypeOK, PTL DEF Spec

-----------------------------------------------------------------------------
(* Steps are decided in order, by people who may. *)

\* The rows of t are those of s as far as turns and entitlement go.
SameTurns(s, t) ==
  /\ DOMAIN s \subseteq DOMAIN t
  /\ \A k \in DOMAIN s :
       /\ t[k].order = s[k].order
       /\ t[k].role = s[k].role
       /\ t[k].approver = s[k].approver
       /\ Decided(s[k]) => Decided(t[k])
  /\ \A i \in DOMAIN s, k \in DOMAIN t : k < i => k \in DOMAIN s

\* t is s after time passed or rows were stamped.
SameDecisions(s, t) ==
  /\ SameTurns(s, t)
  /\ DOMAIN t = DOMAIN s
  /\ \A k \in DOMAIN s : t[k].status = s[k].status /\ t[k].by = s[k].by

\* Who may decide a step in turn still may: neither turn nor entitlement is
\* lost.
LEMMA ClearedStable ==
  ASSUME NEW s, NEW t, NEW i, NEW u, SameTurns(s, t), InTurn(s, i)
  PROVE  /\ InTurn(t, i)
         /\ Eligible(u, s[i]) => Eligible(u, t[i])
BY DEF SameTurns, InTurn, Eligible

\* A signature that holds still does on a row with the same people.
LEMMA SignedStable ==
  ASSUME NEW row, NEW other, Signed(row), other.by = row.by, other.status = row.status,
         other.role = row.role, other.approver = row.approver
  PROVE  Signed(other)
BY DEF Signed, Eligible

\* A new step at the end of the chain takes nobody's turn.
LEMMA AppendTurns ==
  ASSUME NEW s \in Seq(Rows), NEW row \in NewRows
  PROVE  /\ SameTurns(s, Append(s, row))
         /\ \A k \in DOMAIN s : Append(s, row)[k] = s[k]
         /\ (\A k \in DOMAIN s : Signed(s[k])) =>
              \A k \in DOMAIN Append(s, row) : Signed(Append(s, row)[k])
<1>1. Append(s, row) \in Seq(Rows) /\ Len(Append(s, row)) = Len(s) + 1
  BY AppendProperties DEF NewRows
<1>2. DOMAIN s = 1..Len(s) /\ DOMAIN Append(s, row) = 1..(Len(s) + 1) /\ Len(s) \in Nat
  BY <1>1
<1>3. \A i \in DOMAIN s : Append(s, row)[i] = s[i]
  BY <1>2, AppendProperties
<1>4. SameTurns(s, Append(s, row))
  BY <1>2, <1>3 DEF SameTurns
<1>5. Signed(Append(s, row)[Len(s) + 1])
  BY AppendProperties DEF NewRows, Signed
<1>6. QED
  BY <1>2, <1>3, <1>4, <1>5

\* The step current_step picks is in turn.
LEMMA CurrentInTurn ==
  ASSUME NEW s \in Seq(Rows), NEW i \in CurrentSteps(s)
  PROVE  InTurn(s, i)
<1>1. i \in DOMAIN s
  BY DEF CurrentSteps, Pending
<1>2. ASSUME NEW k \in DOMAIN s, s[k].order < s[i].order, ~Decided(s[k])
      PROVE  FALSE
  <2>1. k \in Pending(s)
    BY <1>2 DEF Pending, Decided
  <2>2. s[i].order <= s[k].order
    BY <2>1 DEF CurrentSteps
  <2>3. s[i] \in Rows /\ s[k] \in Rows
    BY <1>1
  <2>4. s[i].order \in Nat /\ s[k].order \in Nat
    BY <2>3 DEF Rows
  <2>5. QED
    BY <1>2, <2>2, <2>4
<1>3. QED
  BY <1>1, <1>2 DEF InTurn

\* What a decision does to its chain: row i, which is there, is decided and
\* signed; the others keep status and signature.
LEMMA DecideTurns ==
  ASSUME NEW s \in Seq(Rows), NEW i \in DOMAIN s, NEW u \in Users,
         NEW v \in {"Approved", "Rejected"},
         NEW t \in Promoted(Decision(s, i, u, v)) \cup {Decision(s, i, u, v)}
  PROVE  /\ SameTurns(s, t)
         /\ t \in Seq(Rows)
         /\ DOMAIN t = DOMAIN s
         /\ t[i].status = v /\ t[i].by = u
         /\ \A k \in DOMAIN s \ {i} : t[k].status = s[k].status /\ t[k].by = s[k].by
<1> DEFINE d == Decision(s, i, u, v)
<1>1. d \in Seq(Rows)
  BY DecideType
<1>2. /\ DOMAIN t = DOMAIN d
      /\ t \in Seq(Rows)
      /\ \A k \in DOMAIN d :
           /\ t[k].order = d[k].order /\ t[k].status = d[k].status
           /\ t[k].role = d[k].role /\ t[k].approver = d[k].approver /\ t[k].by = d[k].by
  BY <1>1, PromotedShape
<1>3. /\ DOMAIN d = DOMAIN s
      /\ d[i].status = v /\ d[i].by = u
      /\ \A k \in DOMAIN s \ {i} : d[k] = s[k]
      /\ \A k \in DOMAIN s :
           d[k].order = s[k].order /\ d[k].role = s[k].role /\ d[k].approver = s[k].approver
  BY DecisionRows
<1> HIDE DEF d
<1>4. SameTurns(s, t)
  BY <1>2, <1>3 DEF SameTurns, Decided
<1>5. QED
  BY <1>2, <1>3, <1>4

-----------------------------------------------------------------------------
(* The signing invariant, action by action. *)

LEMMA InitSigning == Init => Cleared /\ SignaturesHold
BY DEF Init, Cleared, SignaturesHold, Idle

\* A worker who stays cleared stays so while no chain loses a row or a turn.
LEMMA StillCleared ==
  ASSUME SigningInv, NEW x \in Workers, job'[x] = job[x],
         job[x].at = "checked", job[x].step # 0,
         \A r \in Requests : SameTurns(steps[r], steps'[r])
  PROVE  /\ InTurn(steps'[job'[x].req], job'[x].step)
         /\ Eligible(job'[x].user, steps'[job'[x].req][job'[x].step])
<1>1. job[x].req \in Requests
  BY JobByStage DEF SigningInv, TypeOK, CheckedJobs
<1>2. /\ InTurn(steps[job[x].req], job[x].step)
      /\ Eligible(job[x].user, steps[job[x].req][job[x].step])
  BY DEF SigningInv, Cleared
<1>3. SameTurns(steps[job[x].req], steps'[job[x].req])
  BY <1>1
<1>4. QED
  BY <1>2, <1>3, ClearedStable

\* Actions that touch no step row and clear nobody for one.
LEMMA QuietSigning ==
  ASSUME SigningInv, steps' = steps,
         \A w \in Workers : job'[w].at = "checked" => job'[w] = job[w]
  PROVE  Cleared' /\ SignaturesHold'
BY DEF SigningInv, Cleared, SignaturesHold

\* An insertion starts or ends no check.
LEMMA NotChecked ==
  ASSUME NEW j, j.at = "create" \/ j = Idle
  PROVE  AfterInsert(j).at # "checked"
BY DEF AfterInsert, Idle

LEMMA CreateSigning ==
  ASSUME SigningInv, NEW w \in Workers, NEW r \in Requests, NEW b \in Bodies, Create(w, r, b)
  PROVE  Cleared' /\ SignaturesHold'
<1>1. Creation(r, b.steps).at # "checked"
  BY NotChecked DEF Creation
<1>2. \A v \in Workers : job'[v].at = "checked" => job'[v] = job[v]
  BY <1>1 DEF Create, SigningInv, TypeOK
<1>3. QED
  BY <1>2, QuietSigning DEF Create

LEMMA InsertSigning ==
  ASSUME SigningInv, NEW w \in Workers, InsertTemplateStep(w) \/ InsertInlineStep(w)
  PROVE  /\ Cleared' /\ SignaturesHold'
         /\ \A q \in Requests : \A i \in DOMAIN steps[q] : steps'[q][i] = steps[q][i]
<1> DEFINE j == job[w]
           r == j.req
<1>1. j \in CreateJobs /\ r \in Requests
  BY JobByStage, CreateJobType DEF SigningInv, TypeOK, InsertTemplateStep, InsertInlineStep
<1>2. PICK row \in NewRows : steps' = [steps EXCEPT ![r] = Append(steps[r], row)]
  BY <1>1, CreateJobType DEF InsertTemplateStep, InsertInlineStep
<1>3. \A v \in Workers : job'[v].at = "checked" => job'[v] = job[v]
  <2>1. /\ AfterInsert([j EXCEPT !.tmpl = Tail(@)]).at # "checked"
        /\ AfterInsert([j EXCEPT !.inline = Tail(@)]).at # "checked"
    BY <1>1, NotChecked DEF CreateJobs
  <2>2. QED
    BY <2>1 DEF InsertTemplateStep, InsertInlineStep, SigningInv, TypeOK
<1>4. ASSUME NEW q \in Requests
      PROVE  /\ SameTurns(steps[q], steps'[q])
             /\ \A i \in DOMAIN steps[q] : steps'[q][i] = steps[q][i]
             /\ \A i \in DOMAIN steps'[q] : Signed(steps'[q][i])
  <2>1. steps[q] \in Seq(Rows) /\ \A i \in DOMAIN steps[q] : Signed(steps[q][i])
    BY DEF SigningInv, TypeOK, SignaturesHold
  <2>2. CASE q = r
    <3>1. steps'[q] = Append(steps[q], row)
      BY <1>1, <1>2, <2>2 DEF SigningInv, TypeOK
    <3>2. QED
      BY <2>1, <3>1, AppendTurns
  <2>3. CASE q # r
    <3>1. steps'[q] = steps[q]
      BY <1>1, <1>2, <2>3 DEF SigningInv, TypeOK
    <3>2. QED
      BY <2>1, <3>1 DEF SameTurns
  <2>4. QED
    BY <2>2, <2>3
<1>5. SignaturesHold'
  BY <1>4 DEF SignaturesHold
<1>6. Cleared'
  BY <1>3, <1>4, StillCleared DEF Cleared
<1>7. QED
  BY <1>4, <1>5, <1>6

LEMMA FaultSigning ==
  ASSUME SigningInv, NEW w \in Workers, ChainFails(w) \/ CreateDies(w)
  PROVE  Cleared' /\ SignaturesHold'
<1>1. job[w] \in CreateJobs
  BY JobByStage DEF SigningInv, TypeOK, ChainFails, CreateDies
<1>2. AfterInsert([job[w] EXCEPT !.tmpl = <<>>]).at # "checked"
  BY <1>1, NotChecked DEF CreateJobs
<1>3. \A v \in Workers : job'[v].at = "checked" => job'[v] = job[v]
  BY <1>2 DEF ChainFails, CreateDies, SigningInv, TypeOK, Idle
<1>4. QED
  BY <1>3, QuietSigning DEF ChainFails, CreateDies, rows

LEMMA LoadSigning ==
  ASSUME SigningInv, NEW w \in Workers, NEW u \in Users, NEW r \in Requests,
         NEW v \in {"approve", "reject"}, Load(w, u, r, v)
  PROVE  Cleared' /\ SignaturesHold'
<1>1. \A x \in Workers : job'[x].at = "checked" => job'[x] = job[x]
  BY DEF Load, SigningInv, TypeOK
<1>2. QED
  BY <1>1, QuietSigning DEF Load, rows

\* The step a worker is cleared for is current, so it is in turn, and the
\* worker's user may decide it.
LEMMA CheckSigning ==
  ASSUME SigningInv, NEW w \in Workers, Check(w) \/ Refuse(w)
  PROVE  Cleared' /\ SignaturesHold'
<1> DEFINE j == job[w]
<1>1. j \in LoadedJobs /\ j.req \in Requests
  BY JobByStage DEF SigningInv, TypeOK, Check, Refuse, LoadedJobs
<1>2. CASE Check(w)
  <2>1. PICK i \in CurrentSteps(steps[j.req]) :
          /\ Eligible(j.user, steps[j.req][i])
          /\ job' = [job EXCEPT ![w] =
               [at |-> "checked", verb |-> j.verb, user |-> j.user, req |-> j.req,
                cur |-> j.cur, count |-> j.count, step |-> i]]
    BY <1>2 DEF Check
  <2>2. InTurn(steps[j.req], i)
    BY <1>1, CurrentInTurn DEF SigningInv, TypeOK
  <2>3. steps' = steps
    BY <1>2 DEF Check, rows
  <2>4. SignaturesHold'
    BY <2>3 DEF SigningInv, SignaturesHold
  <2>5. job'[w].req = j.req /\ job'[w].step = i /\ job'[w].user = j.user
    BY <2>1 DEF SigningInv, TypeOK
  <2>6. \A v \in Workers \ {w} : job'[v] = job[v]
    BY <2>1 DEF SigningInv, TypeOK
  <2>7. Cleared'
    BY <2>1, <2>2, <2>3, <2>5, <2>6 DEF SigningInv, Cleared
  <2>8. QED
    BY <2>4, <2>7
<1>3. CASE Refuse(w)
  <2>1. \A v \in Workers : job'[v].at = "checked" => job'[v] = job[v]
    BY <1>3 DEF Refuse, SigningInv, TypeOK, Idle
  <2>2. QED
    BY <1>3, <2>1, QuietSigning DEF Refuse, rows
<1>4. QED
  BY <1>2, <1>3

\* Both decisions change one row, the one the worker was cleared for, and
\* only when it is in turn.
LEMMA DecideSigning ==
  ASSUME SigningInv, NEW w \in Workers, job[w].at = "checked", job[w].step # 0,
         NEW v \in {"Approved", "Rejected"},
         NEW t \in Promoted(Decision(steps[job[w].req], job[w].step, job[w].user, v))
                     \cup {Decision(steps[job[w].req], job[w].step, job[w].user, v)},
         steps' = [steps EXCEPT ![job[w].req] = t],
         job' = [job EXCEPT ![w] = Idle]
  PROVE  /\ Cleared' /\ SignaturesHold'
         /\ \A q \in Requests : \A i \in DOMAIN steps[q] :
              steps'[q][i].status # steps[q][i].status => InTurn(steps'[q], i)
<1> DEFINE j == job[w]
           r == j.req
           s == steps[r]
<1>1. r \in Requests /\ s \in Seq(Rows) /\ j.user \in Users
  BY JobByStage DEF SigningInv, TypeOK, CheckedJobs
<1>2. InTurn(s, j.step) /\ Eligible(j.user, s[j.step])
  BY DEF SigningInv, Cleared
<1>3. j.step \in DOMAIN s
  BY <1>2 DEF InTurn
<1>4. /\ SameTurns(s, t)
      /\ DOMAIN t = DOMAIN s
      /\ t[j.step].status = v /\ t[j.step].by = j.user
      /\ \A k \in DOMAIN s \ {j.step} : t[k].status = s[k].status /\ t[k].by = s[k].by
  <2> HIDE DEF s
  <2>1. t \in Promoted(Decision(s, j.step, j.user, v)) \cup {Decision(s, j.step, j.user, v)}
    BY DEF s
  <2>2. QED
    BY <1>1, <1>3, <2>1, DecideTurns
<1>5. steps'[r] = t /\ \A q \in Requests \ {r} : steps'[q] = steps[q]
  BY <1>1 DEF SigningInv, TypeOK
<1>6. InTurn(t, j.step) /\ Eligible(j.user, t[j.step])
  BY <1>2, <1>4, ClearedStable
<1>7. \A q \in Requests : SameTurns(steps[q], steps'[q])
  <2>1. \A q \in Requests : SameTurns(steps[q], steps[q])
    BY DEF SameTurns
  <2>2. QED
    BY <1>4, <1>5, <2>1
<1>8. SignaturesHold'
  <2>1. Signed(t[j.step])
    BY <1>4, <1>6 DEF Signed
  <2>2. ASSUME NEW k \in DOMAIN s \ {j.step}
        PROVE  Signed(t[k])
    <3>1. Signed(s[k])
      BY <1>1 DEF SigningInv, SignaturesHold
    <3>2. t[k].role = s[k].role /\ t[k].approver = s[k].approver
      BY <1>4 DEF SameTurns
    <3>3. QED
      BY <1>4, <3>1, <3>2, SignedStable
  <2>3. QED
    BY <1>4, <1>5, <2>1, <2>2 DEF SigningInv, SignaturesHold
<1>9. Cleared'
  <2>1. \A x \in Workers : job'[x].at = "checked" => job'[x] = job[x]
    BY DEF SigningInv, TypeOK, Idle
  <2>2. QED
    BY <1>7, <2>1, StillCleared DEF Cleared
<1>10. \A q \in Requests : \A i \in DOMAIN steps[q] :
         steps'[q][i].status # steps[q][i].status => InTurn(steps'[q], i)
  BY <1>4, <1>5, <1>6
<1>11. QED
  BY <1>8, <1>9, <1>10

LEMMA CommitSigning ==
  ASSUME SigningInv, NEW w \in Workers, CommitApprove(w) \/ CommitReject(w) \/ CommitLost(w)
  PROVE  /\ Cleared' /\ SignaturesHold'
         /\ \A q \in Requests : \A i \in DOMAIN steps[q] :
              steps'[q][i].status # steps[q][i].status => InTurn(steps'[q], i)
<1> DEFINE j == job[w]
<1>1. CASE CommitApprove(w)
  <2>1. PICK s \in Promoted(Decision(steps[j.req], j.step, j.user, "Approved")) :
          steps' = [steps EXCEPT ![j.req] = s]
    BY <1>1 DEF CommitApprove, Decision
  <2>2. j.at = "checked" /\ j.step # 0 /\ job' = [job EXCEPT ![w] = Idle]
    BY <1>1 DEF CommitApprove
  <2>3. QED
    BY <2>1, <2>2, DecideSigning
<1>2. CASE CommitReject(w)
  <2>1. j.req \in Requests
    BY <1>2, JobByStage DEF SigningInv, TypeOK, CheckedJobs, CommitReject
  <2>2. steps' = [steps EXCEPT ![j.req] = Decision(steps[j.req], j.step, j.user, "Rejected")]
    BY <1>2, <2>1 DEF CommitReject, SigningInv, TypeOK, Decision
  <2>3. j.at = "checked" /\ j.step # 0 /\ job' = [job EXCEPT ![w] = Idle]
    BY <1>2 DEF CommitReject
  <2>4. QED
    BY <2>2, <2>3, DecideSigning
<1>3. CASE CommitLost(w)
  <2>1. \A v \in Workers : job'[v].at = "checked" => job'[v] = job[v]
    BY <1>3 DEF CommitLost, SigningInv, TypeOK, Idle
  <2>2. steps' = steps
    BY <1>3 DEF CommitLost, rows
  <2>3. QED
    BY <2>1, <2>2, QuietSigning
<1>4. QED
  BY <1>1, <1>2, <1>3

LEMMA PatchSigning ==
  ASSUME SigningInv, NEW w \in Workers, CommitPatch(w) \/ \E r \in Requests : LoadPatch(w, r)
  PROVE  Cleared' /\ SignaturesHold'
<1>1. Creation(job[w].req, <<>>).at # "checked"
  BY NotChecked DEF Creation
<1>2. \A v \in Workers : job'[v].at = "checked" => job'[v] = job[v]
  <2>1. CASE CommitPatch(w)
    BY <1>1, <2>1 DEF CommitPatch, SigningInv, TypeOK, Idle
  <2>2. CASE \E r \in Requests : LoadPatch(w, r)
    BY <2>2 DEF LoadPatch, SigningInv, TypeOK
  <2>3. QED
    BY <2>1, <2>2
<1>3. steps' = steps
  BY DEF CommitPatch, LoadPatch, rows
<1>4. QED
  BY <1>2, <1>3, QuietSigning

\* Deletion empties the chain and marks whoever was cleared for one of it.
LEMMA DeleteSigning ==
  ASSUME SigningInv, NEW r \in Requests, Delete(r)
  PROVE  /\ Cleared' /\ SignaturesHold'
         /\ steps'[r] = <<>> /\ \A q \in Requests \ {r} : steps'[q] = steps[q]
<1>1. steps'[r] = <<>> /\ \A q \in Requests \ {r} : steps'[q] = steps[q]
  BY DEF Delete, SigningInv, TypeOK
<1>2. SignaturesHold'
  BY <1>1 DEF SigningInv, SignaturesHold
<1>3. ASSUME NEW w \in Workers, job'[w].at = "checked", job'[w].step # 0
      PROVE  /\ InTurn(steps'[job'[w].req], job'[w].step)
             /\ Eligible(job'[w].user, steps'[job'[w].req][job'[w].step])
  <2>1. job[w].at = "checked" => job[w] \in CheckedJobs
    BY JobByStage DEF SigningInv, TypeOK
  <2>2. job'[w] = job[w] /\ job[w].req # r
    BY <1>3, <2>1 DEF Delete, CheckedJobs
  <2>3. job[w].req \in Requests
    BY <1>3, <2>1, <2>2 DEF CheckedJobs
  <2>4. QED
    BY <1>1, <1>3, <2>2, <2>3 DEF SigningInv, Cleared
<1>4. QED
  BY <1>1, <1>2, <1>3 DEF Cleared

\* Stamps and clocks leave turns and signatures alone.
LEMMA StampSigning ==
  ASSUME SigningInv, job' = job, \A r \in Requests : SameDecisions(steps[r], steps'[r])
  PROVE  Cleared' /\ SignaturesHold'
<1>1. ASSUME NEW r \in Requests, NEW i \in DOMAIN steps'[r]
      PROVE  Signed(steps'[r][i])
  <2>1. i \in DOMAIN steps[r] /\ Signed(steps[r][i])
    BY <1>1 DEF SigningInv, SignaturesHold, SameDecisions
  <2>2. QED
    BY <2>1, SignedStable DEF SameDecisions, SameTurns
<1>2. \A r \in Requests : SameTurns(steps[r], steps'[r])
  BY DEF SameDecisions
<1>3. Cleared'
  BY <1>2, StillCleared DEF Cleared
<1>4. QED
  BY <1>1, <1>3 DEF SignaturesHold

LEMMA TaskDecisions ==
  ASSUME SigningInv, NEW r \in Requests,
         Tick \/ \E b \in Scanners : StartScan(b) \/ EscalateStep(b) \/ ScanDies(b)
  PROVE  SameDecisions(steps[r], steps'[r])
<1>1. \A i \in DOMAIN steps[r] : steps[r][i] \in Rows
  BY DEF SigningInv, TypeOK
<1>2. CASE Tick
  <2>1. steps'[r] = [i \in DOMAIN steps[r] |-> Aged(steps[r][i])]
    BY <1>2 DEF Tick
  <2>2. \A i \in DOMAIN steps[r] :
          /\ Aged(steps[r][i]).order = steps[r][i].order
          /\ Aged(steps[r][i]).role = steps[r][i].role
          /\ Aged(steps[r][i]).approver = steps[r][i].approver
          /\ Aged(steps[r][i]).status = steps[r][i].status
          /\ Aged(steps[r][i]).by = steps[r][i].by
    BY <1>1 DEF Aged, Rows
  <2>3. QED
    BY <2>1, <2>2 DEF SameDecisions, SameTurns, Decided
<1>3. CASE \E b \in Scanners : EscalateStep(b)
  <2>1. PICK x \in Requests \X Nat : steps' = [steps EXCEPT ![x[1]][x[2]].esc = 0]
    BY <1>3 DEF EscalateStep, SigningInv, TypeOK
  <2>2. steps'[r] = steps[r] \/ steps'[r] = [steps[r] EXCEPT ![x[2]].esc = 0]
    BY <2>1 DEF SigningInv, TypeOK
  <2>3. CASE steps'[r] = [steps[r] EXCEPT ![x[2]].esc = 0]
    BY <1>1, <2>3 DEF Rows, SameDecisions, SameTurns, Decided
  <2>4. CASE steps'[r] = steps[r]
    BY <2>4 DEF SameDecisions, SameTurns
  <2>5. QED
    BY <2>2, <2>3, <2>4
<1>4. CASE \E b \in Scanners : StartScan(b) \/ ScanDies(b)
  BY <1>4 DEF StartScan, ScanDies, rows, SameDecisions, SameTurns
<1>5. QED
  BY <1>2, <1>3, <1>4

\* Every step keeps the invariant, and a row that gets a status gets it in
\* turn.
LEMMA NextSigns ==
  ASSUME SigningInv, [Next]_vars
  PROVE  /\ Cleared' /\ SignaturesHold'
         /\ \A r \in Requests : \A i \in DOMAIN steps[r] \cap DOMAIN steps'[r] :
              steps'[r][i].status # steps[r][i].status => InTurn(steps'[r], i)
<1>1. ASSUME NEW w \in Workers, NEW r \in Requests,
             \/ \E b \in Bodies : Create(w, r, b)
             \/ \E u \in Users, v \in {"approve", "reject"} : Load(w, u, r, v)
             \/ LoadPatch(w, r)
      PROVE  Cleared' /\ SignaturesHold' /\ steps' = steps
  <2>1. steps' = steps
    BY <1>1 DEF Create, Load, LoadPatch, rows
  <2>2. QED
    BY <1>1, <2>1, CreateSigning, LoadSigning, PatchSigning
<1>2. ASSUME NEW w \in Workers,
             \/ ChainFails(w) \/ CreateDies(w) \/ Check(w) \/ Refuse(w) \/ CommitPatch(w)
      PROVE  Cleared' /\ SignaturesHold' /\ steps' = steps
  <2>1. steps' = steps
    BY <1>2 DEF ChainFails, CreateDies, Check, Refuse, CommitPatch, rows
  <2>2. QED
    BY <1>2, <2>1, FaultSigning, CheckSigning, PatchSigning
<1>3. CASE \E w \in Workers : InsertTemplateStep(w) \/ InsertInlineStep(w)
  BY <1>3, InsertSigning
<1>4. CASE \E w \in Workers : CommitApprove(w) \/ CommitReject(w) \/ CommitLost(w)
  BY <1>4, CommitSigning
<1>5. CASE \E r \in Requests : Delete(r)
  <2>1. PICK r \in Requests : Delete(r)
    BY <1>5
  <2>2. /\ Cleared' /\ SignaturesHold'
        /\ steps'[r] = <<>> /\ \A q \in Requests \ {r} : steps'[q] = steps[q]
    BY <2>1, DeleteSigning
  <2>3. DOMAIN steps'[r] = {}
    BY <2>2
  <2>4. QED
    BY <2>2, <2>3
<1>6. CASE Tick \/ \E b \in Scanners : StartScan(b) \/ EscalateStep(b) \/ ScanDies(b)
  <2>1. \A r \in Requests : SameDecisions(steps[r], steps'[r])
    BY <1>6, TaskDecisions
  <2>2. job' = job
    BY <1>6 DEF Tick, StartScan, EscalateStep, ScanDies
  <2>3. QED
    BY <2>1, <2>2, StampSigning DEF SameDecisions
<1>7. CASE UNCHANGED vars
  BY <1>7 DEF SigningInv, Cleared, SignaturesHold, vars
<1>8. QED
  BY <1>1, <1>2, <1>3, <1>4, <1>5, <1>6, <1>7, ZenonT(60) DEF Next

LEMMA NextSigning == SigningInv /\ [Next]_vars => SigningInv'
BY NextTypeOK, NextSigns DEF SigningInv

LEMMA SigningInvariant == Spec => []SigningInv
<1>1. Init => SigningInv
  BY InitType, InitSigning DEF SigningInv
<1>2. QED
  BY <1>1, NextSigning, PTL DEF Spec

\* However the handlers of any number of workers overlap, crash or overwrite
\* each other, approve and reject decide no step before the lower-order steps
\* that were there when it was inserted.
THEOREM ChainInOrder == Spec => SignedInTurn
<1>1. SigningInv /\ [Next]_vars =>
        [\A r \in Requests : \A i \in DOMAIN steps[r] \cap DOMAIN steps'[r] :
           steps'[r][i].status # steps[r][i].status => InTurn(steps'[r], i)]_vars
  BY NextSigns
<1>2. QED
  BY <1>1, SigningInvariant, PTL DEF Spec, SignedInTurn

-----------------------------------------------------------------------------
(* Nothing is finalised before it is signed. *)

\* What the announcement of an approval needs of a row.
Settled(row) ==
  IF row.by = NoUser
  THEN row.status \in StatusesSent \cap {"Approved", "Returned"}
  ELSE row.status = "Approved" /\ Eligible(row.by, row)

\* Nobody signed a row that still has the status it was inserted with.
UnsignedAsSent ==
  \A r \in Requests : \A i \in DOMAIN steps[r] :
    steps[r][i].by = NoUser => steps[r][i].status \in StatusesSent

LEMMA NextAsSent == SigningInv /\ UnsignedAsSent /\ [Next]_vars => UnsignedAsSent'
<1> SUFFICES ASSUME SigningInv, UnsignedAsSent, [Next]_vars,
                    NEW r \in Requests, NEW i \in DOMAIN steps'[r], steps'[r][i].by = NoUser
             PROVE  steps'[r][i].status \in StatusesSent
  BY DEF UnsignedAsSent
<1>1. CASE steps' = steps
  BY <1>1 DEF UnsignedAsSent
<1>2. CASE \E w \in Workers : InsertTemplateStep(w) \/ InsertInlineStep(w)
  <2>1. PICK w \in Workers : InsertTemplateStep(w) \/ InsertInlineStep(w)
    BY <1>2
  <2>2. job[w] \in CreateJobs /\ job[w].req \in Requests
    BY <2>1, JobByStage, CreateJobType DEF SigningInv, TypeOK, InsertTemplateStep, InsertInlineStep
  <2>3. PICK row \in NewRows :
          steps' = [steps EXCEPT ![job[w].req] = Append(steps[job[w].req], row)]
    BY <2>1, <2>2, CreateJobType DEF InsertTemplateStep, InsertInlineStep
  <2>4. steps'[r] = steps[r] \/ steps'[r] = Append(steps[r], row)
    BY <2>2, <2>3 DEF SigningInv, TypeOK
  <2>5. steps[r] \in Seq(Rows) /\ row \in Rows
    BY DEF SigningInv, TypeOK, NewRows
  <2>6. (i \in DOMAIN steps[r] /\ steps'[r][i] = steps[r][i]) \/ steps'[r][i] = row
    BY <2>4, <2>5, AppendProperties
  <2>7. QED
    BY <2>6 DEF UnsignedAsSent, NewRows
<1>3. CASE \E w \in Workers : CommitApprove(w) \/ CommitReject(w)
  <2>1. PICK w \in Workers : CommitApprove(w) \/ CommitReject(w)
    BY <1>3
  <2>2. PICK j : j = job[w]
    OBVIOUS
  <2>3. j.req \in Requests /\ j.user \in Users /\ j.step \in DOMAIN steps[j.req]
    BY <2>1, <2>2, JobByStage
    DEF SigningInv, TypeOK, CheckedJobs, CommitApprove, CommitReject, Cleared, InTurn
  <2>4. PICK v \in {"Approved", "Rejected"} :
          \E t \in Promoted(Decision(steps[j.req], j.step, j.user, v))
                     \cup {Decision(steps[j.req], j.step, j.user, v)} :
            steps' = [steps EXCEPT ![j.req] = t]
    <3>1. CASE CommitApprove(w)
      BY <2>2, <3>1 DEF CommitApprove, Decision
    <3>2. CASE CommitReject(w)
      <4>1. steps' = [steps EXCEPT ![j.req] = Decision(steps[j.req], j.step, j.user, "Rejected")]
        BY <2>2, <2>3, <3>2 DEF CommitReject, SigningInv, TypeOK, Decision
      <4>2. QED
        BY <4>1
    <3>3. QED
      BY <2>1, <3>1, <3>2
  <2>5. PICK t \in Promoted(Decision(steps[j.req], j.step, j.user, v))
                     \cup {Decision(steps[j.req], j.step, j.user, v)} :
          steps' = [steps EXCEPT ![j.req] = t]
    BY <2>4
  <2>6. PICK s : s = steps[j.req]
    OBVIOUS
  <2>7. /\ DOMAIN t = DOMAIN s /\ t[j.step].by = j.user
        /\ \A k \in DOMAIN s \ {j.step} : t[k].status = s[k].status /\ t[k].by = s[k].by
    <3>1. s \in Seq(Rows) /\ j.step \in DOMAIN s
      BY <2>3, <2>6 DEF SigningInv, TypeOK
    <3>2. t \in Promoted(Decision(s, j.step, j.user, v)) \cup {Decision(s, j.step, j.user, v)}
      BY <2>6
    <3>3. QED
      BY <2>3, <3>1, <3>2, DecideTurns
  <2>8. j.user # NoUser
    BY <2>3, ConstantsAssumption
  <2>9. CASE r = j.req
    <3>1. steps'[r] = t
      BY <2>3, <2>5, <2>9 DEF SigningInv, TypeOK
    <3>2. i # j.step /\ i \in DOMAIN s /\ s = steps[r]
      BY <2>6, <2>7, <2>8, <2>9, <3>1
    <3>3. QED
      BY <2>7, <3>1, <3>2 DEF UnsignedAsSent
  <2>10. CASE r # j.req
    <3>1. steps'[r] = steps[r]
      BY <2>3, <2>5, <2>10 DEF SigningInv, TypeOK
    <3>2. QED
      BY <3>1 DEF UnsignedAsSent
  <2>11. QED
    BY <2>9, <2>10
<1>4. CASE \E q \in Requests : Delete(q)
  <2>1. PICK q \in Requests : Delete(q)
    BY <1>4
  <2>2. steps'[r] = <<>> \/ steps'[r] = steps[r]
    BY <2>1, DeleteSigning
  <2>3. QED
    BY <2>2 DEF UnsignedAsSent
<1>5. CASE Tick \/ \E b \in Scanners : EscalateStep(b)
  <2>1. SameDecisions(steps[r], steps'[r])
    BY <1>5, TaskDecisions
  <2>2. QED
    BY <2>1 DEF SameDecisions, UnsignedAsSent
<1>6. QED
  BY <1>1, <1>2, <1>3, <1>4, <1>5, ZenonT(60)
  DEF Next, vars, Create, Load, LoadPatch, ChainFails, CreateDies, Check, Refuse, CommitLost,
      CommitPatch, StartScan, ScanDies, rows

LEMMA AsSentInvariant == Spec => []UnsignedAsSent
<1>1. Init => UnsignedAsSent
  BY DEF Init, UnsignedAsSent
<1>2. QED
  BY <1>1, NextAsSent, SigningInvariant, PTL DEF Spec

LEMMA ApproveSigned ==
  ASSUME SigningInv, SigningInv', UnsignedAsSent', NEW w \in Workers, CommitApprove(w),
         NEW r \in Requests, fired'[r] # fired[r]
  PROVE  /\ steps'[r] # <<>>
         /\ \A i \in DOMAIN steps'[r] : Settled(steps'[r][i])
<1> DEFINE j == job[w]
           d == Decision(steps[j.req], j.step, j.user, "Approved")
<1>1. PICK s \in Promoted(d) :
        /\ steps' = [steps EXCEPT ![j.req] = s]
        /\ \/ FullyApproved(s) /\ fired' = [fired EXCEPT ![j.req] = @ + 1]
           \/ fired' = fired
  BY DEF CommitApprove, Decision
<1>2. r = j.req /\ FullyApproved(s)
  BY <1>1 DEF SigningInv, TypeOK
<1>3. steps'[r] = s
  BY <1>1, <1>2 DEF SigningInv, TypeOK
<1>4. j.step \in DOMAIN steps[r] /\ j.user \in Users
  BY <1>2, JobByStage DEF CommitApprove, SigningInv, TypeOK, Cleared, InTurn, CheckedJobs
<1>5. d \in Seq(Rows) /\ DOMAIN d = DOMAIN steps[r]
  BY <1>2, <1>4, DecideType DEF SigningInv, TypeOK, Decision
<1>6. s \in Seq(Rows) /\ j.step \in DOMAIN s
  BY <1>4, <1>5, PromotedShape
<1>7. s # <<>>
  BY <1>6
<1>8. ASSUME NEW i \in DOMAIN s
      PROVE  Settled(s[i])
  <2>1. s[i] \in Rows /\ s[i].status \notin {"Pending", "Rejected"}
    BY <1>2, <1>6 DEF FullyApproved
  <2>2. Signed(s[i])
    BY <1>3 DEF SigningInv, SignaturesHold
  <2>3. s[i].by = NoUser => s[i].status \in StatusesSent
    BY <1>3 DEF UnsignedAsSent
  <2>4. s[i].status \in {"Approved", "Returned"}
    BY <2>1 DEF Rows, Statuses
  <2>5. QED
    BY <2>1, <2>2, <2>3, <2>4 DEF Settled, Signed
<1>9. QED
  BY <1>3, <1>7, <1>8

LEMMA StepSigned ==
  SigningInv /\ SigningInv' /\ UnsignedAsSent' /\ [Next]_vars =>
    [\A r \in Requests : fired'[r] # fired[r] =>
       /\ steps'[r] # <<>>
       /\ \A i \in DOMAIN steps'[r] : LET row == steps'[r][i] IN
            IF row.by = NoUser
            THEN row.status \in StatusesSent \cap {"Approved", "Returned"}
            ELSE row.status = "Approved" /\ Eligible(row.by, row)]_vars
<1> SUFFICES ASSUME SigningInv, SigningInv', UnsignedAsSent', Next,
                    NEW r \in Requests, fired'[r] # fired[r]
             PROVE  /\ steps'[r] # <<>>
                    /\ \A i \in DOMAIN steps'[r] : Settled(steps'[r][i])
  BY DEF Settled
<1>1. /\ ~Tick /\ \A q \in Requests : ~Delete(q)
      /\ \A b \in Scanners : ~StartScan(b) /\ ~EscalateStep(b) /\ ~ScanDies(b)
  BY DEF Tick, Delete, StartScan, EscalateStep, ScanDies, rows
<1>2. \A w \in Workers, q \in Requests :
        /\ \A b \in Bodies : ~Create(w, q, b)
        /\ \A u \in Users, v \in {"approve", "reject"} : ~Load(w, u, q, v)
        /\ ~LoadPatch(w, q)
  BY DEF Create, Load, LoadPatch, rows
<1>3. \A w \in Workers :
        /\ ~InsertTemplateStep(w) /\ ~InsertInlineStep(w) /\ ~ChainFails(w) /\ ~CreateDies(w)
        /\ ~Check(w) /\ ~Refuse(w) /\ ~CommitReject(w) /\ ~CommitLost(w) /\ ~CommitPatch(w)
  BY DEF InsertTemplateStep, InsertInlineStep, ChainFails, CreateDies, Check, Refuse,
         CommitReject, CommitLost, CommitPatch, rows
<1>4. PICK w \in Workers : CommitApprove(w)
  BY <1>1, <1>2, <1>3 DEF Next
<1>5. QED
  BY <1>4, ApproveSigned

\* The announcement that finalises a corrective action, a report or a scoring
\* model is sent only for a chain that has steps, each approved by somebody
\* who may decide it, or never decided and created as Approved or Returned.
THEOREM EffectSigned == Spec => SignedBeforeEffect
BY SigningInvariant, AsSentInvariant, StepSigned, PTL DEF Spec, SignedBeforeEffect

-----------------------------------------------------------------------------
(* No step is escalated twice within the dedupe window. *)

\* One Celery process runs the escalation task.
OneScanner == \A a, b \in Scanners : a = b

\* Outside the dedupe window.
Quiet(row) == row.esc = NoTime \/ row.esc > Dedupe

\* A row the task has read and not yet stamped is still stored, or marked as
\* deleted, and nobody stamped it meanwhile.
DedupeInv ==
  /\ TypeOK
  /\ \A b \in Scanners : \A x \in scan[b] :
       x[2] # 0 => x[2] \in DOMAIN steps[x[1]] /\ Quiet(steps[x[1]][x[2]])

\* Every row of s is in t, with the escalation stamp it had.
StampsKept(s, t) == \A i \in DOMAIN s : i \in DOMAIN t /\ t[i].esc = s[i].esc

\* The rows of s, with the status and the due date they have in t.
SameRows(s, t) ==
  /\ DOMAIN t = DOMAIN s
  /\ \A i \in DOMAIN s :
       /\ t[i].order = s[i].order
       /\ t[i].role = s[i].role
       /\ t[i].approver = s[i].approver
       /\ t[i].esc = s[i].esc

\* Starting a clock touches nothing but due dates.
LEMMA PromotedRows ==
  ASSUME NEW s \in Seq(Rows), NEW t \in Promoted(s)
  PROVE  SameRows(s, t)
<1>1. CASE t = s
  BY <1>1 DEF SameRows
<1>2. CASE t # s
  <2>1. PICK j \in CurrentSteps(s) : t = StartClock(s, j)
    BY <1>2 DEF Promoted
  <2>2. t = [s EXCEPT ![j].due = s[j].sla]
    BY <1>2, <2>1 DEF StartClock
  <2>3. \A i \in DOMAIN s : s[i] \in Rows
    OBVIOUS
  <2>4. QED
    BY <2>2, <2>3 DEF Rows, SameRows
<1>3. QED
  BY <1>1, <1>2

\* Nor does a decision, but for the status of the row decided.
LEMMA DecidedRows ==
  ASSUME NEW s \in Seq(Rows), NEW i \in DOMAIN s, NEW u \in Users,
         NEW v \in {"Approved", "Rejected"},
         NEW t \in Promoted(Decision(s, i, u, v)) \cup {Decision(s, i, u, v)}
  PROVE  SameRows(s, t)
<1> DEFINE d == Decision(s, i, u, v)
<1>1. d \in Seq(Rows)
  BY DecideType
<1>3. SameRows(s, d)
  BY DecisionRows DEF SameRows
<1>4. t \in Promoted(d) \/ t = d
  OBVIOUS
<1> HIDE DEF d
<1>5. CASE t = d
  BY <1>3, <1>5
<1>6. CASE t \in Promoted(d)
  <2>1. SameRows(d, t)
    BY <1>1, <1>6, PromotedRows
  <2>2. QED
    BY <1>3, <2>1 DEF SameRows
<1>7. QED
  BY <1>4, <1>5, <1>6

\* A row added at the end leaves the others as they are.
LEMMA AppendedRows ==
  ASSUME NEW s \in Seq(Rows), NEW row \in Rows
  PROVE  /\ Append(s, row) \in Seq(Rows)
         /\ DOMAIN Append(s, row) = DOMAIN s \cup {Len(s) + 1}
         /\ Len(s) + 1 \notin DOMAIN s
         /\ \A i \in DOMAIN s : Append(s, row)[i] = s[i]
         /\ Append(s, row)[Len(s) + 1] = row
<1>1. Append(s, row) \in Seq(Rows) /\ Len(Append(s, row)) = Len(s) + 1 /\ Len(s) \in Nat
  BY AppendProperties
<1>2. DOMAIN s = 1..Len(s) /\ DOMAIN Append(s, row) = 1..(Len(s) + 1)
  BY <1>1
<1>3. QED
  BY <1>1, <1>2, AppendProperties

\* Insertions and decisions leave every stamp alone.
LEMMA WebKeepsStamps ==
  ASSUME SigningInv, NEW w \in Workers,
         \/ InsertTemplateStep(w) \/ InsertInlineStep(w) \/ CommitApprove(w) \/ CommitReject(w),
         NEW r \in Requests
  PROVE  StampsKept(steps[r], steps'[r])
<1> DEFINE j == job[w]
<1>1. \A i \in DOMAIN steps[r] : steps[r][i] \in Rows
  BY DEF SigningInv, TypeOK
<1>2. CASE InsertTemplateStep(w) \/ InsertInlineStep(w)
  <2>1. j \in CreateJobs /\ j.req \in Requests
    BY <1>2, JobByStage, CreateJobType DEF SigningInv, TypeOK, InsertTemplateStep, InsertInlineStep
  <2>2. PICK row \in Rows : steps' = [steps EXCEPT ![j.req] = Append(steps[j.req], row)]
    BY <1>2, <2>1, CreateJobType DEF InsertTemplateStep, InsertInlineStep
  <2>3. StampsKept(steps[j.req], Append(steps[j.req], row))
    BY <2>1, AppendedRows DEF SigningInv, TypeOK, StampsKept
  <2>4. QED
    BY <2>1, <2>2, <2>3 DEF SigningInv, TypeOK, StampsKept
<1>3. CASE CommitApprove(w) \/ CommitReject(w)
  <2>1. j.req \in Requests /\ j.user \in Users
    <3>1. j.at = "checked" /\ j \in Jobs
      BY <1>3 DEF SigningInv, TypeOK, CommitApprove, CommitReject
    <3>2. QED
      BY <3>1, JobByStage DEF CheckedJobs
  <2>2. PICK v \in {"Approved", "Rejected"} :
          \E t \in Promoted(Decision(steps[j.req], j.step, j.user, v))
                     \cup {Decision(steps[j.req], j.step, j.user, v)} :
            steps' = [steps EXCEPT ![j.req] = t]
    <3>1. CASE CommitApprove(w)
      BY <3>1 DEF CommitApprove, Decision
    <3>2. CASE CommitReject(w)
      <4>1. steps' = [steps EXCEPT ![j.req] = Decision(steps[j.req], j.step, j.user, "Rejected")]
        BY <2>1, <3>2 DEF CommitReject, SigningInv, TypeOK, Decision
      <4>2. QED
        BY <4>1
    <3>3. QED
      BY <1>3, <3>1, <3>2
  <2>3. PICK t \in Promoted(Decision(steps[j.req], j.step, j.user, v))
                     \cup {Decision(steps[j.req], j.step, j.user, v)} :
          steps' = [steps EXCEPT ![j.req] = t]
    BY <2>2
  <2>4. steps[j.req] \in Seq(Rows) /\ j.step \in DOMAIN steps[j.req]
    BY <1>3, <2>1 DEF SigningInv, TypeOK, Cleared, InTurn, CommitApprove, CommitReject
  <2>5. StampsKept(steps[j.req], t)
    <3> DEFINE s == steps[j.req]
    <3> HIDE DEF s
    <3>1. t \in Promoted(Decision(s, j.step, j.user, v)) \cup {Decision(s, j.step, j.user, v)}
      BY DEF s
    <3>2. s \in Seq(Rows) /\ j.step \in DOMAIN s /\ v \in {"Approved", "Rejected"}
      BY <2>2, <2>4 DEF s
    <3>3. SameRows(s, t)
      BY <2>1, <3>1, <3>2, DecidedRows
    <3>4. QED
      BY <3>3 DEF s, SameRows, StampsKept
  <2>6. QED
    BY <2>1, <2>3, <2>5 DEF SigningInv, TypeOK, StampsKept
<1>4. QED
  BY <1>2, <1>3

\* Every step keeps the rows of every chain and their stamps, except a
\* deletion, an escalation and the passing of time.
LEMMA StampsStay ==
  ASSUME SigningInv, [Next]_vars, ~Tick,
         \A r \in Requests : ~Delete(r), \A b \in Scanners : ~EscalateStep(b),
         NEW r \in Requests
  PROVE  StampsKept(steps[r], steps'[r])
<1>1. CASE steps' = steps
  BY <1>1 DEF StampsKept
<1>2. CASE steps' # steps
  <2>1. PICK w \in Workers :
          InsertTemplateStep(w) \/ InsertInlineStep(w) \/ CommitApprove(w) \/ CommitReject(w)
    BY <1>2, ZenonT(60) DEF Next, Create, Load, LoadPatch, ChainFails, CreateDies, Check, Refuse,
         CommitLost, CommitPatch, StartScan, ScanDies, rows, vars
  <2>2. QED
    BY <2>1, WebKeepsStamps
<1>3. QED
  BY <1>1, <1>2

\* Time does not move a row back into the window.
LEMMA AgedQuiet ==
  ASSUME NEW row \in Rows
  PROVE  /\ Quiet(row) => Quiet(Aged(row))
         /\ row.esc \notin {NoTime, 0} => Aged(row).esc # 0
<1>1. Dedupe \in Nat /\ (row.esc = NoTime \/ row.esc \in Nat)
  BY ConstantsAssumption DEF Rows
<1>2. Aged(row).esc = IF row.esc = NoTime \/ row.esc > Dedupe THEN row.esc ELSE row.esc + 1
  BY DEF Aged, Rows
<1>3. QED
  BY <1>1, <1>2 DEF Quiet

LEMMA InitDedupe == Init => DedupeInv
BY InitType DEF Init, DedupeInv

\* Where stamps stay and no task reads new rows, what the tasks hold is still
\* unstamped.
LEMMA HeldStays ==
  ASSUME DedupeInv, [Next]_vars,
         \A r \in Requests : StampsKept(steps[r], steps'[r]),
         \A b \in Scanners : scan'[b] \subseteq scan[b]
  PROVE  DedupeInv'
<1>1. \A b \in Scanners : \A x \in scan[b] : x[1] \in Requests
  BY DEF DedupeInv, TypeOK
<1>2. QED
  BY <1>1, NextTypeOK DEF DedupeInv, StampsKept, Quiet

LEMMA DeleteDedupe ==
  ASSUME DedupeInv, NEW r \in Requests, Delete(r)
  PROVE  DedupeInv'
<1>1. TypeOK'
  BY DeleteTypeOK DEF DedupeInv
<1>2. ASSUME NEW b \in Scanners, NEW x \in scan'[b], x[2] # 0
      PROVE  x[2] \in DOMAIN steps'[x[1]] /\ Quiet(steps'[x[1]][x[2]])
  <2>1. PICK y \in scan[b] : x = IF y[1] = r THEN <<r, 0>> ELSE y
    BY <1>2 DEF Delete
  <2>2. x = y /\ x[1] # r
    BY <1>2, <2>1
  <2>3. x[1] \in Requests
    BY <2>2 DEF DedupeInv, TypeOK
  <2>4. steps'[x[1]] = steps[x[1]]
    BY <2>2, <2>3 DEF Delete, DedupeInv, TypeOK
  <2>5. QED
    BY <1>2, <2>1, <2>2, <2>4 DEF DedupeInv
<1>3. QED
  BY <1>1, <1>2 DEF DedupeInv

\* What a task reads is outside the window.
LEMMA ReadQuiet ==
  ASSUME NEW b \in Scanners, StartScan(b), DedupeInv
  PROVE  \A x \in scan'[b] : x[2] \in DOMAIN steps[x[1]] /\ Quiet(steps[x[1]][x[2]])
<1>1. scan'[b] = OverdueRows
  BY DEF StartScan, DedupeInv, TypeOK
<1>2. ASSUME NEW x \in StepIds
      PROVE  x[2] \in DOMAIN steps[x[1]]
  BY DEF StepIds
<1>3. QED
  BY <1>1, <1>2 DEF OverdueRows, Escalatable, Quiet

\* One task stamps the rows it has read one by one: each of them is another
\* row.
LEMMA ScanDedupe ==
  ASSUME OneScanner, DedupeInv, NEW b \in Scanners,
         StartScan(b) \/ EscalateStep(b) \/ ScanDies(b)
  PROVE  DedupeInv'
<1>1. TypeOK'
  BY ScanTypeOK DEF DedupeInv
<1>2. CASE StartScan(b)
  <2>1. steps' = steps /\ \A a \in Scanners : a = b
    BY <1>2 DEF StartScan, rows, OneScanner
  <2>2. QED
    BY <1>1, <1>2, <2>1, ReadQuiet DEF DedupeInv
<1>3. CASE EscalateStep(b)
  <2>1. PICK x \in scan[b] :
          /\ steps' = [steps EXCEPT ![x[1]][x[2]].esc = 0]
          /\ scan' = [scan EXCEPT ![b] = @ \ {x}]
    BY <1>3 DEF EscalateStep
  <2>2. ASSUME NEW y \in scan[b], y # x, y[2] # 0
        PROVE  y[2] \in DOMAIN steps'[y[1]] /\ Quiet(steps'[y[1]][y[2]])
    <3>1. /\ x \in Requests \X Nat /\ y \in Requests \X Nat
          /\ y[2] \in DOMAIN steps[y[1]] /\ Quiet(steps[y[1]][y[2]])
      BY <2>2 DEF DedupeInv, TypeOK
    <3>2. x[1] # y[1] \/ x[2] # y[2]
      BY <2>2, <3>1
    <3>3. DOMAIN steps'[y[1]] = DOMAIN steps[y[1]]
      BY <2>1, <3>1 DEF DedupeInv, TypeOK
    <3>4. steps'[y[1]][y[2]] = steps[y[1]][y[2]]
      BY <2>1, <3>1, <3>2 DEF DedupeInv, TypeOK
    <3>5. QED
      BY <3>1, <3>3, <3>4
  <2>3. \A a \in Scanners : a = b
    BY DEF OneScanner
  <2>4. scan'[b] = scan[b] \ {x}
    BY <2>1 DEF DedupeInv, TypeOK
  <2>5. QED
    BY <1>1, <2>2, <2>3, <2>4 DEF DedupeInv
<1>4. CASE ScanDies(b)
  <2>1. steps' = steps /\ \A a \in Scanners : scan'[a] \subseteq scan[a]
    BY <1>4 DEF ScanDies, rows, DedupeInv, TypeOK
  <2>2. QED
    BY <1>1, <2>1 DEF DedupeInv
<1>5. QED
  BY <1>2, <1>3, <1>4

LEMMA TickDedupe ==
  ASSUME DedupeInv, Tick
  PROVE  DedupeInv'
<1>1. TypeOK'
  BY TickTypeOK DEF DedupeInv
<1>2. ASSUME NEW b \in Scanners, NEW x \in scan'[b], x[2] # 0
      PROVE  x[2] \in DOMAIN steps'[x[1]] /\ Quiet(steps'[x[1]][x[2]])
  <2>1. x \in scan[b] /\ x[1] \in Requests
    BY DEF Tick, DedupeInv, TypeOK
  <2>2. x[2] \in DOMAIN steps[x[1]] /\ Quiet(steps[x[1]][x[2]])
    BY <1>2, <2>1 DEF DedupeInv
  <2>3. steps[x[1]][x[2]] \in Rows
    BY <2>1, <2>2 DEF DedupeInv, TypeOK
  <2>4. /\ DOMAIN steps'[x[1]] = DOMAIN steps[x[1]]
        /\ steps'[x[1]][x[2]] = Aged(steps[x[1]][x[2]])
    BY <2>1, <2>2 DEF Tick
  <2>5. QED
    BY <2>2, <2>3, <2>4, AgedQuiet
<1>3. QED
  BY <1>1, <1>2 DEF DedupeInv

LEMMA NextDedupe == OneScanner /\ SigningInv /\ DedupeInv /\ [Next]_vars => DedupeInv'
<1> SUFFICES ASSUME OneScanner, SigningInv, DedupeInv, [Next]_vars PROVE DedupeInv'
  OBVIOUS
<1>1. ASSUME NEW r \in Requests, Delete(r)
      PROVE  DedupeInv'
  BY <1>1, DeleteDedupe
<1>2. ASSUME NEW b \in Scanners, StartScan(b) \/ EscalateStep(b) \/ ScanDies(b)
      PROVE  DedupeInv'
  BY <1>2, ScanDedupe
<1>3. CASE Tick
  BY <1>3, TickDedupe
<1>4. CASE /\ ~Tick
           /\ \A r \in Requests : ~Delete(r)
           /\ \A b \in Scanners : ~(StartScan(b) \/ EscalateStep(b) \/ ScanDies(b))
  <2>1. scan' = scan
    BY <1>4, ZenonT(60) DEF Next, Create, Load, LoadPatch, InsertTemplateStep, InsertInlineStep,
         ChainFails, CreateDies, Check, Refuse, CommitApprove, CommitReject, CommitLost,
         CommitPatch, rows, vars
  <2>2. \A r \in Requests : StampsKept(steps[r], steps'[r])
    BY <1>4, StampsStay
  <2>3. QED
    BY <2>1, <2>2, HeldStays
<1>5. QED
  BY <1>1, <1>2, <1>3, <1>4

LEMMA StepDeduped ==
  SigningInv /\ DedupeInv /\ [Next]_vars =>
    [\A r \in Requests : \A i \in DOMAIN steps[r] \cap DOMAIN steps'[r] :
       steps'[r][i].esc = 0 /\ steps[r][i].esc # NoTime /\ steps[r][i].esc # 0
         => steps[r][i].esc > Dedupe]_vars
<1> SUFFICES ASSUME SigningInv, DedupeInv, [Next]_vars,
                    NEW r \in Requests, NEW i \in DOMAIN steps[r] \cap DOMAIN steps'[r],
                    steps'[r][i].esc = 0, steps[r][i].esc # NoTime, steps[r][i].esc # 0
             PROVE  steps[r][i].esc > Dedupe
  OBVIOUS
<1>1. steps[r][i] \in Rows
  BY DEF DedupeInv, TypeOK
<1>2. CASE Tick
  <2>1. steps'[r][i] = Aged(steps[r][i])
    BY <1>2 DEF Tick
  <2>2. QED
    BY <1>1, <2>1, AgedQuiet
<1>3. ASSUME NEW q \in Requests, Delete(q)
      PROVE  steps[r][i].esc > Dedupe
  <2>1. steps'[r] = steps[r] \/ steps'[r] = <<>>
    BY <1>3 DEF Delete, DedupeInv, TypeOK
  <2>2. QED
    BY <2>1
<1>4. ASSUME NEW b \in Scanners, EscalateStep(b)
      PROVE  steps[r][i].esc > Dedupe
  <2>1. PICK x \in scan[b] : x[2] # 0 /\ steps' = [steps EXCEPT ![x[1]][x[2]].esc = 0]
    BY <1>4 DEF EscalateStep
  <2>2. r = x[1] /\ i = x[2]
    BY <2>1 DEF DedupeInv, TypeOK
  <2>3. QED
    BY <2>1, <2>2 DEF DedupeInv, Quiet
<1>5. CASE ~Tick /\ (\A q \in Requests : ~Delete(q)) /\ \A b \in Scanners : ~EscalateStep(b)
  BY <1>5, StampsStay DEF StampsKept
<1>6. QED
  BY <1>2, <1>3, <1>4, <1>5

\* However web requests overlap, delete, revive and decide while the nightly
\* task works through the rows it has read, and however often it dies and is
\* started again, no step is escalated twice within the dedupe window, as long
\* as the task does not overlap itself.
THEOREM ReminderSpaced == OneScanner /\ Spec => EscalationDeduped
<1> SUFFICES ASSUME OneScanner PROVE Spec => EscalationDeduped
  BY DEF OneScanner
<1>1. Init => DedupeInv
  BY InitDedupe
<1>2. SigningInv /\ DedupeInv /\ [Next]_vars => DedupeInv'
  BY NextDedupe
<1>3. SigningInv /\ DedupeInv /\ [Next]_vars =>
        [\A r \in Requests : \A i \in DOMAIN steps[r] \cap DOMAIN steps'[r] :
           steps'[r][i].esc = 0 /\ steps[r][i].esc # NoTime /\ steps[r][i].esc # 0
             => steps[r][i].esc > Dedupe]_vars
  BY StepDeduped
<1>4. QED
  BY <1>1, <1>2, <1>3, SigningInvariant, PTL DEF Spec, EscalationDeduped

-----------------------------------------------------------------------------
(* When handlers do not overlap, a request's status is the verdict of its *)
(* steps and is given once.                                               *)

\* Create bodies leave every status at its default.
PlainBodies ==
  \A b \in Bodies :
    b.status = "Pending" /\ \A i \in DOMAIN b.steps : b.steps[i].status = "Pending"

\* The web requests are served one after another, nobody writes a row back
\* with a PATCH, and no create body names a status.
Orderly ==
  /\ \A v, w \in Workers : v = w
  /\ "patch" \notin Verbs
  /\ PlainBodies

\* Then a step is pending when it is inserted.
LEMMA PlainRows ==
  ASSUME Orderly
  PROVE  \A row \in NewRows : row.status = "Pending"
BY DEF Orderly, PlainBodies, NewRows, StatusesSent

\* The status st is what the steps s say.
Verdict(st, s) ==
  /\ st = "Approved" => s # <<>> /\ \A i \in DOMAIN s : s[i].status = "Approved"
  /\ st # Absent => (st = "Rejected" <=> \E i \in DOMAIN s : s[i].status = "Rejected")
  /\ \A i \in DOMAIN s : s[i].status # "Returned"

\* Nobody decides on a request whose chain is being inserted, and a worker
\* cleared for a step finds it pending.
Undisturbed(w) ==
  LET j == job[w] IN
  /\ j.at # "patch"
  /\ j.at = "create" /\ status[j.req] # Absent =>
       /\ status[j.req] = "Pending"
       /\ \A i \in DOMAIN steps[j.req] : steps[j.req][i].status = "Pending"
  /\ j.at = "checked" /\ j.step # 0 => steps[j.req][j.step].status = "Pending"

\* What is stored of one request.
Stored(r) ==
  /\ r \notin born => status[r] = Absent
  /\ status[r] = Absent => steps[r] = <<>>
  /\ status[r] # "Returned"
  /\ Verdict(status[r], steps[r])

VerdictInv ==
  /\ SigningInv
  /\ \A r \in Requests : Stored(r)
  /\ \A w \in Workers : Undisturbed(w)

\* The rows of s, with v as the status of row i.
Decides(s, i, v, t) ==
  /\ t \in Seq(Rows)
  /\ DOMAIN t = DOMAIN s
  /\ t[i].status = v
  /\ \A k \in DOMAIN s \ {i} : t[k].status = s[k].status

\* A chain whose rows are neither pending nor rejected is approved, unless
\* one was returned.
LEMMA AllApproved ==
  ASSUME NEW s \in Seq(Rows), FullyApproved(s), \A i \in DOMAIN s : s[i].status # "Returned"
  PROVE  \A i \in DOMAIN s : s[i].status = "Approved"
<1>1. \A i \in DOMAIN s : s[i] \in Rows
  OBVIOUS
<1>2. QED
  BY <1>1 DEF FullyApproved, Rows, Statuses

\* A decision changes the status of one row.
LEMMA DecidedStatus ==
  ASSUME NEW s \in Seq(Rows), NEW i \in DOMAIN s, NEW u \in Users,
         NEW v \in {"Approved", "Rejected"},
         NEW t \in Promoted(Decision(s, i, u, v)) \cup {Decision(s, i, u, v)}
  PROVE  Decides(s, i, v, t)
BY DecideTurns DEF Decides

\* What a decision on a pending step of a stored request makes of the verdict:
\* a rejection rejects, and an approval that completes the chain finds the
\* request pending.
LEMMA DecidedVerdict ==
  ASSUME NEW s \in Seq(Rows), NEW i \in DOMAIN s, s[i].status = "Pending",
         NEW st \in Statuses, st # "Returned", Verdict(st, s),
         NEW v \in {"Approved", "Rejected"}, NEW u \in Users,
         NEW t \in Promoted(Decision(s, i, u, v)) \cup {Decision(s, i, u, v)}
  PROVE  /\ st \in {"Pending", "Rejected"}
         /\ v = "Rejected" => Verdict("Rejected", t)
         /\ v = "Approved" /\ FullyApproved(t) => st = "Pending" /\ Verdict("Approved", t)
         /\ v = "Approved" /\ ~FullyApproved(t) => Verdict(st, t)
<1>0. Decides(s, i, v, t)
  BY DecidedStatus
<1>1. /\ t \in Seq(Rows)
      /\ DOMAIN t = DOMAIN s
      /\ t[i].status = v
      /\ \A k \in DOMAIN s \ {i} : t[k].status = s[k].status
  BY <1>0 DEF Decides
<1>2. st # Absent /\ st \in {"Pending", "Rejected"}
  BY ConstantsAssumption DEF Verdict, Statuses
<1>0a. \A k \in DOMAIN t : t[k].status # "Returned"
  BY <1>1 DEF Verdict
<1>3. v = "Rejected" => Verdict("Rejected", t)
  BY <1>0a, <1>1 DEF Verdict
<1>4. v = "Approved" => ((\E k \in DOMAIN s : s[k].status = "Rejected")
                          <=> (\E k \in DOMAIN t : t[k].status = "Rejected"))
  BY <1>1
<1>5. v = "Approved" => Verdict(st, t)
  BY <1>0a, <1>2, <1>4 DEF Verdict
<1>6. ASSUME v = "Approved", FullyApproved(t)
      PROVE  st = "Pending" /\ Verdict("Approved", t)
  <2>1. \A k \in DOMAIN t : t[k].status = "Approved"
    BY <1>0a, <1>1, <1>6, AllApproved
  <2>2. t # <<>>
    BY <1>1
  <2>3. Verdict("Approved", t)
    BY <2>1, <2>2 DEF Verdict
  <2>4. ~ \E k \in DOMAIN s : s[k].status = "Rejected"
    BY <1>4, <1>6, <2>1
  <2>5. QED
    BY <1>2, <2>3, <2>4 DEF Verdict
<1>7. QED
  BY <1>2, <1>3, <1>5, <1>6

LEMMA InitVerdict == Init => VerdictInv
<1> SUFFICES ASSUME Init PROVE VerdictInv
  OBVIOUS
<1>1. SigningInv
  BY InitType, InitSigning DEF SigningInv
<1>2. \A r \in Requests : Stored(r)
  BY ConstantsAssumption DEF Init, Stored, Verdict, Statuses
<1>3. \A w \in Workers : Undisturbed(w)
  BY DEF Init, Undisturbed, Idle
<1>4. QED
  BY <1>1, <1>2, <1>3 DEF VerdictInv

\* A job that has just been taken up or given up disturbs nobody.
LEMMA IdleUndisturbed ==
  ASSUME NEW w \in Workers, job'[w] = Idle \/ job'[w].at = "loaded"
  PROVE  Undisturbed(w)'
BY DEF Undisturbed, Idle

LEMMA CreateVerdict ==
  ASSUME VerdictInv, Orderly, NEW w \in Workers, NEW r \in Requests, NEW b \in Bodies,
         Create(w, r, b)
  PROVE  (\A q \in Requests : Stored(q)') /\ \A v \in Workers : Undisturbed(v)'
<1>1. status[r] = Absent /\ steps[r] = <<>>
  BY DEF Create, VerdictInv, Stored
<1>2. /\ status'[r] = "Pending" /\ steps' = steps /\ born' = born \cup {r}
      /\ \A q \in Requests \ {r} : status'[q] = status[q]
      /\ job'[w] = Creation(r, b.steps)
  BY DEF Create, VerdictInv, SigningInv, TypeOK, Orderly, PlainBodies
<1>3. \A q \in Requests : Stored(q)'
  <2>1. Stored(r)'
    BY <1>1, <1>2, ConstantsAssumption DEF Stored, Verdict, Statuses
  <2>2. \A q \in Requests \ {r} : Stored(q)'
    BY <1>2 DEF VerdictInv, Stored
  <2>3. QED
    BY <2>1, <2>2
<1>4. job'[w] = Idle \/ (job'[w].at = "create" /\ job'[w].req = r)
  BY <1>2 DEF Creation, AfterInsert
<1>5. Undisturbed(w)'
  BY <1>1, <1>2, <1>4 DEF Undisturbed, Idle
<1>6. QED
  BY <1>3, <1>5 DEF Orderly

LEMMA InsertVerdict ==
  ASSUME VerdictInv, Orderly, NEW w \in Workers, InsertTemplateStep(w) \/ InsertInlineStep(w)
  PROVE  (\A q \in Requests : Stored(q)') /\ \A v \in Workers : Undisturbed(v)'
<1> DEFINE j == job[w]
<1>0. PICK r : r = j.req
  OBVIOUS
<1>1. j \in CreateJobs /\ r \in Requests
  BY <1>0, JobByStage, CreateJobType DEF VerdictInv, SigningInv, TypeOK, InsertTemplateStep, InsertInlineStep
<1>2. PICK row \in NewRows : steps' = [steps EXCEPT ![r] = Append(steps[r], row)]
  BY <1>0, <1>1, CreateJobType DEF InsertTemplateStep, InsertInlineStep
<1>3. status' = status /\ born' = born /\ status[r] # Absent
  BY <1>0 DEF InsertTemplateStep, InsertInlineStep
<1>4. status[r] = "Pending" /\ \A i \in DOMAIN steps[r] : steps[r][i].status = "Pending"
  BY <1>0, <1>1, <1>3 DEF VerdictInv, Undisturbed, InsertTemplateStep, InsertInlineStep
<1>5. steps[r] \in Seq(Rows) /\ row \in Rows /\ row.status = "Pending"
  BY <1>1, PlainRows DEF VerdictInv, SigningInv, TypeOK, NewRows
<1>6. \A i \in DOMAIN Append(steps[r], row) : Append(steps[r], row)[i].status = "Pending"
  BY <1>4, <1>5, AppendedRows
<1>7. steps'[r] = Append(steps[r], row) /\ \A q \in Requests \ {r} : steps'[q] = steps[q]
  BY <1>1, <1>2 DEF VerdictInv, SigningInv, TypeOK
<1>8. \A q \in Requests : Stored(q)'
  <2>1. Stored(r)'
    <3>1. r \in born
      BY <1>1, <1>3 DEF VerdictInv, Stored
    <3>2. Verdict("Pending", Append(steps[r], row))
      BY <1>6 DEF Verdict
    <3>3. QED
      BY <1>3, <1>4, <1>7, <3>1, <3>2 DEF Stored
  <2>2. \A q \in Requests \ {r} : Stored(q)'
    BY <1>3, <1>7 DEF VerdictInv, Stored
  <2>3. QED
    BY <2>1, <2>2
<1>9. job'[w] = Idle \/ (job'[w].at = "create" /\ job'[w].req = r)
  <2>1. \/ job'[w] = AfterInsert([j EXCEPT !.tmpl = Tail(@)])
        \/ job'[w] = AfterInsert([j EXCEPT !.inline = Tail(@)])
    BY DEF InsertTemplateStep, InsertInlineStep, VerdictInv, SigningInv, TypeOK
  <2>2. /\ [j EXCEPT !.tmpl = Tail(@)].at = "create" /\ [j EXCEPT !.tmpl = Tail(@)].req = r
        /\ [j EXCEPT !.inline = Tail(@)].at = "create" /\ [j EXCEPT !.inline = Tail(@)].req = r
    BY <1>0, <1>1 DEF CreateJobs
  <2>3. QED
    BY <2>1, <2>2 DEF AfterInsert
<1>10. Undisturbed(w)'
  <2>1. CASE job'[w] = Idle
    BY <2>1, IdleUndisturbed
  <2>2. CASE job'[w].at = "create" /\ job'[w].req = r
    <3>1. status'[r] = "Pending" /\ \A i \in DOMAIN steps'[r] : steps'[r][i].status = "Pending"
      BY <1>3, <1>4, <1>6, <1>7
    <3>2. QED
      BY <2>2, <3>1 DEF Undisturbed
  <2>3. QED
    BY <1>9, <2>1, <2>2
<1>11. QED
  BY <1>8, <1>10 DEF Orderly

LEMMA QuietVerdict ==
  ASSUME VerdictInv, Orderly, NEW w \in Workers,
         \/ ChainFails(w) \/ CreateDies(w) \/ Check(w) \/ Refuse(w) \/ CommitLost(w)
         \/ \E u \in Users, r \in Requests, v \in {"approve", "reject"} : Load(w, u, r, v)
  PROVE  (\A q \in Requests : Stored(q)') /\ \A v \in Workers : Undisturbed(v)'
<1> DEFINE j == job[w]
<1>1. UNCHANGED rows
  BY DEF ChainFails, CreateDies, Check, Refuse, CommitLost, Load
<1>2. \A q \in Requests : Stored(q)'
  BY <1>1 DEF VerdictInv, Stored, rows
<1>3. Undisturbed(w)'
  <2>1. CASE ChainFails(w)
    <3>1. j \in CreateJobs
      BY <2>1, JobByStage DEF VerdictInv, SigningInv, TypeOK, ChainFails
    <3>2. job'[w] = Idle \/ (job'[w].at = "create" /\ job'[w].req = j.req)
      BY <2>1, <3>1 DEF ChainFails, AfterInsert, CreateJobs, VerdictInv, SigningInv, TypeOK
    <3>3. j.at = "create"
      BY <2>1 DEF ChainFails
    <3>4. QED
      BY <1>1, <3>2, <3>3 DEF VerdictInv, Undisturbed, rows, Idle
  <2>2. CASE Check(w)
    <3>1. PICK i \in CurrentSteps(steps[j.req]) :
            job' = [job EXCEPT ![w] =
              [at |-> "checked", verb |-> j.verb, user |-> j.user, req |-> j.req,
               cur |-> j.cur, count |-> j.count, step |-> i]]
      BY <2>2 DEF Check
    <3>2. job'[w].at = "checked" /\ job'[w].req = j.req /\ job'[w].step = i
      BY <3>1 DEF VerdictInv, SigningInv, TypeOK
    <3>3. steps[j.req][i].status = "Pending"
      BY DEF CurrentSteps, Pending
    <3>4. QED
      BY <1>1, <3>2, <3>3 DEF Undisturbed, rows
  <2>3. CASE CreateDies(w) \/ Refuse(w) \/ CommitLost(w)
             \/ \E u \in Users, r \in Requests, v \in {"approve", "reject"} : Load(w, u, r, v)
    <3>1. job'[w] = Idle \/ job'[w].at = "loaded"
      BY <2>3 DEF CreateDies, Refuse, CommitLost, Load, VerdictInv, SigningInv, TypeOK
    <3>2. QED
      BY <3>1, IdleUndisturbed
  <2>4. QED
    BY <2>1, <2>2, <2>3
<1>4. QED
  BY <1>2, <1>3 DEF Orderly

\* What a worker does who decides on a step.
LEMMA CommitVerdict ==
  ASSUME VerdictInv, Orderly, NEW w \in Workers, CommitApprove(w) \/ CommitReject(w)
  PROVE  \E r \in Requests :
           /\ \A q \in Requests : Stored(q)'
           /\ \A v \in Workers : Undisturbed(v)'
           /\ \A q \in Requests \ {r} : status'[q] = status[q]
           /\ r = job[w].req /\ status[r] \in {"Pending", "Rejected"}
           /\ \/ status'[r] = "Rejected" /\ done' = done
              \/ status'[r] = status[r] /\ done' = done
              \/ /\ status[r] = "Pending" /\ status'[r] = "Approved"
                 /\ done' = done \cup ({Ref[r]} \cap Targets)
<1> DEFINE j == job[w]
<1>0. PICK r, i : r = j.req /\ i = j.step
  OBVIOUS
<1>1. r \in Requests /\ steps[r] \in Seq(Rows) /\ j.user \in Users
  BY <1>0, JobByStage DEF VerdictInv, SigningInv, TypeOK, CommitApprove, CommitReject, CheckedJobs
<1>2. i \in DOMAIN steps[r] /\ steps[r][i].status = "Pending"
  BY <1>0 DEF VerdictInv, SigningInv, Cleared, InTurn, Undisturbed, CommitApprove, CommitReject
<1>3. /\ status[r] \in Statuses
      /\ status[r] # "Returned"
      /\ Verdict(status[r], steps[r])
      /\ r \in born
  <2>1. steps[r] # <<>>
    BY <1>2
  <2>2. status[r] # Absent /\ status[r] \in Statuses \cup {Absent}
    BY <1>1, <2>1 DEF VerdictInv, SigningInv, TypeOK, Stored
  <2>3. QED
    BY <1>1, <2>2 DEF VerdictInv, Stored
<1>4. job'[w] = Idle /\ born' = born
  BY DEF VerdictInv, SigningInv, TypeOK, CommitApprove, CommitReject
<1>5. \A v \in Workers : Undisturbed(v)'
  BY <1>4, IdleUndisturbed DEF Orderly
<1>6. ASSUME NEW v \in {"Approved", "Rejected"},
             NEW t \in Promoted(Decision(steps[r], i, j.user, v))
                         \cup {Decision(steps[r], i, j.user, v)}
      PROVE  /\ status[r] \in {"Pending", "Rejected"}
             /\ v = "Rejected" => Verdict("Rejected", t)
             /\ v = "Approved" /\ FullyApproved(t) => status[r] = "Pending" /\ Verdict("Approved", t)
             /\ v = "Approved" /\ ~FullyApproved(t) => Verdict(status[r], t)
             /\ t # <<>>
  <2>1. PICK s, st, u : s = steps[r] /\ st = status[r] /\ u = j.user
    OBVIOUS
  <2>2. t \in Promoted(Decision(s, i, u, v)) \cup {Decision(s, i, u, v)} /\ u \in Users
    BY <1>1, <2>1
  <2>3. s \in Seq(Rows) /\ i \in DOMAIN s /\ s[i].status = "Pending"
    BY <1>1, <1>2, <2>1
  <2>4. st \in Statuses /\ st # "Returned" /\ Verdict(st, s)
    BY <1>3, <2>1
  <2>5. Decides(s, i, v, t)
    BY <2>2, <2>3, DecidedStatus
  <2>6. t # <<>>
    BY <2>3, <2>5 DEF Decides
  <2>7. /\ st \in {"Pending", "Rejected"}
        /\ v = "Rejected" => Verdict("Rejected", t)
        /\ v = "Approved" /\ FullyApproved(t) => st = "Pending" /\ Verdict("Approved", t)
        /\ v = "Approved" /\ ~FullyApproved(t) => Verdict(st, t)
    BY <2>2, <2>3, <2>4, DecidedVerdict
  <2>8. QED
    BY <2>1, <2>6, <2>7
<1>7. ASSUME NEW t, NEW st, t # <<>>, st \in {"Pending", "Approved", "Rejected"}, Verdict(st, t),
             steps' = [steps EXCEPT ![r] = t], status'[r] = st,
             \A q \in Requests \ {r} : status'[q] = status[q]
      PROVE  \A q \in Requests : Stored(q)'
  <2>1. steps'[r] = t /\ \A q \in Requests \ {r} : steps'[q] = steps[q]
    BY <1>1, <1>7 DEF VerdictInv, SigningInv, TypeOK
  <2>2. st # Absent
    BY <1>7, ConstantsAssumption DEF Statuses
  <2>3. Stored(r)'
    BY <1>3, <1>4, <1>7, <2>1, <2>2 DEF Stored
  <2>4. \A q \in Requests \ {r} : Stored(q)'
    BY <1>4, <1>7, <2>1 DEF VerdictInv, Stored
  <2>5. QED
    BY <2>3, <2>4
<1>8. CASE CommitApprove(w)
  <2>1. PICK t \in Promoted(Decision(steps[r], i, j.user, "Approved")) :
          /\ steps' = [steps EXCEPT ![r] = t]
          /\ \/ /\ FullyApproved(t)
                /\ status' = [status EXCEPT ![r] = "Approved"]
                /\ done' = done \cup ({Ref[r]} \cap Targets)
             \/ /\ ~FullyApproved(t)
                /\ UNCHANGED <<status, done>>
    BY <1>0, <1>8 DEF CommitApprove, Decision
  <2>2. /\ status[r] \in {"Pending", "Rejected"}
        /\ FullyApproved(t) => status[r] = "Pending" /\ Verdict("Approved", t)
        /\ ~FullyApproved(t) => Verdict(status[r], t)
        /\ t # <<>>
    BY <1>6
  <2>3. CASE FullyApproved(t)
    <3>1. status'[r] = "Approved" /\ \A q \in Requests \ {r} : status'[q] = status[q]
      BY <1>1, <2>1, <2>3 DEF VerdictInv, SigningInv, TypeOK
    <3>2. \A q \in Requests : Stored(q)'
      BY <1>7, <2>1, <2>2, <2>3, <3>1
    <3>3. QED
      BY <1>0, <1>1, <1>5, <2>1, <2>2, <2>3, <3>1, <3>2
  <2>4. CASE ~FullyApproved(t)
    <3>1. status' = status
      BY <2>1, <2>4
    <3>2. \A q \in Requests : Stored(q)'
      BY <1>7, <2>1, <2>2, <2>4, <3>1
    <3>3. QED
      BY <1>0, <1>1, <1>5, <2>1, <2>2, <2>4, <3>1, <3>2
  <2>5. QED
    BY <2>3, <2>4
<1>9. CASE CommitReject(w)
  <2>1. PICK t : t = Decision(steps[r], i, j.user, "Rejected")
    OBVIOUS
  <2>2. steps' = [steps EXCEPT ![r] = t] /\ done' = done
    BY <1>0, <1>1, <1>9, <2>1 DEF CommitReject, VerdictInv, SigningInv, TypeOK, Decision
  <2>3. status'[r] = "Rejected" /\ \A q \in Requests \ {r} : status'[q] = status[q]
    BY <1>0, <1>1, <1>9 DEF CommitReject, VerdictInv, SigningInv, TypeOK
  <2>4. status[r] \in {"Pending", "Rejected"} /\ Verdict("Rejected", t) /\ t # <<>>
    BY <1>6, <2>1
  <2>5. \A q \in Requests : Stored(q)'
    BY <1>7, <2>2, <2>3, <2>4
  <2>6. QED
    BY <1>0, <1>1, <1>5, <2>2, <2>3, <2>4, <2>5
<1>10. QED
  BY <1>8, <1>9

LEMMA DeleteVerdict ==
  ASSUME VerdictInv, NEW r \in Requests, Delete(r)
  PROVE  (\A q \in Requests : Stored(q)') /\ \A v \in Workers : Undisturbed(v)'
<1>1. /\ status'[r] = Absent /\ steps'[r] = <<>> /\ born' = born
      /\ \A q \in Requests \ {r} : status'[q] = status[q] /\ steps'[q] = steps[q]
  BY DEF Delete, VerdictInv, SigningInv, TypeOK
<1>2. \A q \in Requests : Stored(q)'
  <2>1. Stored(r)'
    BY <1>1, ConstantsAssumption DEF Stored, Verdict, Statuses
  <2>2. \A q \in Requests \ {r} : Stored(q)'
    BY <1>1 DEF VerdictInv, Stored
  <2>3. QED
    BY <2>1, <2>2
<1>3. ASSUME NEW w \in Workers
      PROVE  Undisturbed(w)'
  <2>1. CASE job[w].at = "checked" /\ job[w].req = r
    <3>1. job[w] \in CheckedJobs
      BY <2>1, JobByStage DEF VerdictInv, SigningInv, TypeOK
    <3>2. job'[w].at = "checked" /\ job'[w].step = 0
      BY <2>1, <3>1 DEF Delete, CheckedJobs
    <3>3. QED
      BY <3>2 DEF Undisturbed
  <2>2. CASE ~(job[w].at = "checked" /\ job[w].req = r)
    <3>1. job'[w] = job[w]
      BY <2>2 DEF Delete
    <3>2. job[w].at \in {"create", "checked"} => job[w].req \in Requests
      BY JobByStage DEF VerdictInv, SigningInv, TypeOK, CreateJobs, CheckedJobs
    <3>3. Undisturbed(w)
      BY DEF VerdictInv
    <3>4. CASE job[w].at = "checked"
      BY <1>1, <2>2, <3>1, <3>2, <3>3, <3>4 DEF Undisturbed
    <3>5. CASE job[w].at = "create"
      <4>1. CASE job[w].req = r
        BY <1>1, <3>1, <3>5, <4>1 DEF Undisturbed
      <4>2. CASE job[w].req # r
        BY <1>1, <3>1, <3>2, <3>3, <3>5, <4>2 DEF Undisturbed
      <4>3. QED
        BY <4>1, <4>2
    <3>6. CASE job[w].at \notin {"create", "checked"}
      BY <3>1, <3>3, <3>6 DEF Undisturbed
    <3>7. QED
      BY <3>4, <3>5, <3>6
  <2>3. QED
    BY <2>1, <2>2
<1>4. QED
  BY <1>2, <1>3

\* Stamps and clocks leave the verdict alone.
LEMMA StampVerdict ==
  ASSUME VerdictInv, job' = job, status' = status, born' = born,
         \A r \in Requests : /\ DOMAIN steps'[r] = DOMAIN steps[r]
                             /\ steps'[r] \in Seq(Rows)
                             /\ \A i \in DOMAIN steps[r] : steps'[r][i].status = steps[r][i].status
  PROVE  (\A q \in Requests : Stored(q)') /\ \A v \in Workers : Undisturbed(v)'
<1>1. ASSUME NEW q \in Requests
      PROVE  Stored(q)'
  <2>1. steps[q] = <<>> <=> steps'[q] = <<>>
    <3>1. steps[q] \in Seq(Rows) /\ steps'[q] \in Seq(Rows) /\ DOMAIN steps'[q] = DOMAIN steps[q]
      BY DEF VerdictInv, SigningInv, TypeOK
    <3>2. QED
      BY <3>1
  <2>2. Stored(q)
    BY DEF VerdictInv
  <2>3. Verdict(status'[q], steps'[q])
    BY <2>1, <2>2 DEF Stored, Verdict
  <2>4. QED
    BY <2>1, <2>2, <2>3 DEF Stored
<1>2. ASSUME NEW w \in Workers
      PROVE  Undisturbed(w)'
  <2>1. job[w].at \in {"create", "checked"} => job[w].req \in Requests
    BY JobByStage DEF VerdictInv, SigningInv, TypeOK, CreateJobs, CheckedJobs
  <2>2. Undisturbed(w)
    BY DEF VerdictInv
  <2>3. job[w].at = "checked" /\ job[w].step # 0 => job[w].step \in DOMAIN steps[job[w].req]
    BY DEF VerdictInv, SigningInv, Cleared, InTurn
  <2>4. QED
    BY <2>1, <2>2, <2>3 DEF Undisturbed
<1>3. QED
  BY <1>1, <1>2

\* The rows of s with other stamps, none of them a clock that starts or stops.
SameChain(s, t) ==
  /\ DOMAIN t = DOMAIN s
  /\ \A i \in DOMAIN s :
       /\ t[i].order = s[i].order
       /\ t[i].role = s[i].role
       /\ t[i].approver = s[i].approver
       /\ t[i].status = s[i].status
       /\ t[i].due = NoTime <=> s[i].due = NoTime

LEMMA AgedDue ==
  ASSUME NEW row \in Rows
  PROVE  /\ Aged(row).role = row.role
         /\ Aged(row).approver = row.approver
         /\ Aged(row).due = NoTime <=> row.due = NoTime
<1>1. row.due = NoTime \/ row.due \in Int
  BY DEF Rows
<1>2. /\ Aged(row).role = row.role
      /\ Aged(row).approver = row.approver
      /\ Aged(row).due = IF row.due = NoTime \/ row.due < 0 THEN row.due ELSE row.due - 1
  BY DEF Aged, Rows
<1>3. row.due \in Int => row.due # NoTime /\ row.due - 1 # NoTime
  BY ConstantsAssumption
<1>4. QED
  BY <1>1, <1>2, <1>3

LEMMA TaskKeepsChain ==
  ASSUME TypeOK, NEW r \in Requests,
         Tick \/ \E b \in Scanners : StartScan(b) \/ EscalateStep(b) \/ ScanDies(b)
  PROVE  SameChain(steps[r], steps'[r])
<1>1. \A i \in DOMAIN steps[r] : steps[r][i] \in Rows
  BY DEF TypeOK
<1>2. CASE Tick
  <2>1. steps'[r] = [i \in DOMAIN steps[r] |-> Aged(steps[r][i])]
    BY <1>2 DEF Tick
  <2>2. QED
    BY <1>1, <2>1, AgedType, AgedDue DEF SameChain
<1>3. CASE \E b \in Scanners : EscalateStep(b)
  <2>1. PICK x \in Requests \X Nat : steps' = [steps EXCEPT ![x[1]][x[2]].esc = 0]
    BY <1>3 DEF EscalateStep, TypeOK
  <2>2. steps'[r] = steps[r] \/ steps'[r] = [steps[r] EXCEPT ![x[2]].esc = 0]
    BY <2>1 DEF TypeOK
  <2>3. QED
    BY <1>1, <2>2 DEF Rows, SameChain
<1>4. CASE \E b \in Scanners : StartScan(b) \/ ScanDies(b)
  BY <1>4 DEF StartScan, ScanDies, rows, SameChain
<1>5. QED
  BY <1>2, <1>3, <1>4

LEMMA TaskVerdict ==
  ASSUME VerdictInv, TypeOK',
         Tick \/ \E b \in Scanners : StartScan(b) \/ EscalateStep(b) \/ ScanDies(b)
  PROVE  (\A q \in Requests : Stored(q)') /\ \A v \in Workers : Undisturbed(v)'
<1>1. \A r \in Requests : SameChain(steps[r], steps'[r])
  BY TaskKeepsChain DEF VerdictInv, SigningInv
<1>2. job' = job /\ status' = status /\ born' = born
  BY DEF Tick, StartScan, EscalateStep, ScanDies, rows
<1>3. \A r \in Requests : /\ DOMAIN steps'[r] = DOMAIN steps[r]
                          /\ steps'[r] \in Seq(Rows)
                          /\ \A i \in DOMAIN steps[r] : steps'[r][i].status = steps[r][i].status
  BY <1>1 DEF SameChain, TypeOK
<1>4. QED
  BY <1>2, <1>3, StampVerdict

\* With one web request at a time a step is a decision, a task's step or the
\* passing of time, a deletion, or one of the steps around them.
LEMMA SerialSteps ==
  ASSUME VerdictInv, Orderly, Next
  PROVE  \/ \E w \in Workers, r \in Requests, b \in Bodies : Create(w, r, b)
         \/ \E w \in Workers : InsertTemplateStep(w) \/ InsertInlineStep(w)
         \/ \E w \in Workers :
              \/ ChainFails(w) \/ CreateDies(w) \/ Check(w) \/ Refuse(w) \/ CommitLost(w)
              \/ \E u \in Users, r \in Requests, v \in {"approve", "reject"} : Load(w, u, r, v)
         \/ \E w \in Workers : CommitApprove(w) \/ CommitReject(w)
         \/ \E r \in Requests : Delete(r)
         \/ Tick \/ \E b \in Scanners : StartScan(b) \/ EscalateStep(b) \/ ScanDies(b)
<1>1. \A w \in Workers : ~CommitPatch(w)
  BY DEF VerdictInv, Undisturbed, CommitPatch
<1>2. \A w \in Workers, r \in Requests : ~LoadPatch(w, r)
  BY DEF Orderly, LoadPatch
<1>3. QED
  BY <1>1, <1>2, ZenonT(60) DEF Next

LEMMA NextVerdict == Orderly /\ VerdictInv /\ [Next]_vars => VerdictInv'
<1> SUFFICES ASSUME Orderly, VerdictInv, [Next]_vars
             PROVE  (\A q \in Requests : Stored(q)') /\ \A v \in Workers : Undisturbed(v)'
  BY NextSigning DEF VerdictInv
<1>1. CASE UNCHANGED vars
  BY <1>1 DEF VerdictInv, Stored, Undisturbed, vars
<1>2. CASE \E w \in Workers, r \in Requests, b \in Bodies : Create(w, r, b)
  BY <1>2, CreateVerdict
<1>3. CASE \E w \in Workers : InsertTemplateStep(w) \/ InsertInlineStep(w)
  BY <1>3, InsertVerdict
<1>4. CASE \E w \in Workers :
             \/ ChainFails(w) \/ CreateDies(w) \/ Check(w) \/ Refuse(w) \/ CommitLost(w)
             \/ \E u \in Users, r \in Requests, v \in {"approve", "reject"} : Load(w, u, r, v)
  BY <1>4, QuietVerdict
<1>5. CASE \E w \in Workers : CommitApprove(w) \/ CommitReject(w)
  BY <1>5, CommitVerdict
<1>6. CASE \E r \in Requests : Delete(r)
  BY <1>6, DeleteVerdict
<1>7. CASE Tick \/ \E b \in Scanners : StartScan(b) \/ EscalateStep(b) \/ ScanDies(b)
  <2>1. TypeOK'
    BY NextTypeOK DEF VerdictInv, SigningInv
  <2>2. QED
    BY <1>7, <2>1, TaskVerdict
<1>8. QED
  BY <1>1, <1>2, <1>3, <1>4, <1>5, <1>6, <1>7, SerialSteps

LEMMA VerdictInvariant ==
  ASSUME Orderly
  PROVE  Spec => []VerdictInv
BY InitVerdict, NextVerdict, PTL DEF Spec

\* While web requests do not overlap, a request's status is the verdict of its
\* steps, also after approvers went on acting on what a rejection left
\* pending, after faults in creating the chain and after deletions.
THEOREM StatusTells == Orderly /\ Spec => []OutcomeMatchesSteps
<1> SUFFICES ASSUME Orderly PROVE Spec => []OutcomeMatchesSteps
  BY DEF Orderly
<1>1. VerdictInv => OutcomeMatchesSteps
  BY DEF VerdictInv, Stored, Verdict, OutcomeMatchesSteps
<1>2. QED
  BY <1>1, VerdictInvariant, PTL

-----------------------------------------------------------------------------
(* The contract of an approval request. *)

LEMMA InitContract == Init => Contract!Init
BY ConstantsAssumption DEF Init, Outcome, Contract!Init

\* Only what has become of one request changes: its row is there, or it was
\* and is not any more.
LEMMA OutcomeOfOne ==
  ASSUME VerdictInv, VerdictInv', NEW r \in Requests,
         \A q \in Requests \ {r} : status'[q] = status[q] /\ (q \in born' <=> q \in born)
  PROVE  /\ Outcome' = [Outcome EXCEPT ![r] = Outcome'[r]]
         /\ Outcome[r] = IF status[r] = Absent /\ r \in born THEN "Withdrawn" ELSE status[r]
         /\ Outcome'[r] = IF status'[r] = Absent /\ r \in born' THEN "Withdrawn" ELSE status'[r]
BY DEF Outcome

LEMMA StepContract ==
  Orderly /\ VerdictInv /\ VerdictInv' /\ [Next]_vars => [Contract!Next]_<<Outcome, done>>
<1> SUFFICES ASSUME Orderly, VerdictInv, VerdictInv', [Next]_vars
             PROVE  Contract!Next \/ UNCHANGED <<Outcome, done>>
  OBVIOUS
<1>0. /\ \A q \in Requests : status[q] # Absent => q \in born
      /\ status \in [Requests -> Statuses \cup {Absent}]
      /\ Absent \notin Statuses
  BY ConstantsAssumption DEF VerdictInv, Stored, SigningInv, TypeOK
<1>1. CASE UNCHANGED vars
  BY <1>1 DEF vars, Outcome
<1>2. ASSUME NEW w \in Workers, NEW r \in Requests, NEW b \in Bodies, Create(w, r, b)
      PROVE  Contract!Next
  <2>1. /\ status[r] = Absent /\ r \notin born /\ born' = born \cup {r}
        /\ status' = [status EXCEPT ![r] = "Pending"] /\ done' = done
    BY <1>0, <1>2 DEF Create, Orderly, PlainBodies
  <2>2. Outcome[r] = Absent /\ Outcome' = [Outcome EXCEPT ![r] = "Pending"]
    <3>1. \A q \in Requests \ {r} : status'[q] = status[q] /\ (q \in born' <=> q \in born)
      BY <1>0, <2>1
    <3>2. status'[r] = "Pending" /\ "Pending" # Absent
      BY <1>0, <2>1 DEF Statuses
    <3>3. QED
      BY <2>1, <3>1, <3>2, OutcomeOfOne
  <2>3. Contract!Open(r)
    BY <2>1, <2>2 DEF Contract!Open
  <2>4. QED
    BY <2>3 DEF Contract!Next
<1>3. CASE \/ \E w \in Workers : InsertTemplateStep(w) \/ InsertInlineStep(w)
           \/ \E w \in Workers :
                \/ ChainFails(w) \/ CreateDies(w) \/ Check(w) \/ Refuse(w) \/ CommitLost(w)
                \/ \E u \in Users, r \in Requests, v \in {"approve", "reject"} : Load(w, u, r, v)
           \/ Tick \/ \E b \in Scanners : StartScan(b) \/ EscalateStep(b) \/ ScanDies(b)
  <2>1. UNCHANGED <<status, born, done>>
    BY <1>3, ZenonT(60) DEF InsertTemplateStep, InsertInlineStep, ChainFails, CreateDies, Check, Refuse,
       CommitLost, Load, Tick, StartScan, EscalateStep, ScanDies, rows
  <2>2. QED
    BY <2>1 DEF Outcome
<1>4. ASSUME NEW w \in Workers, CommitApprove(w) \/ CommitReject(w)
      PROVE  Contract!Next \/ UNCHANGED <<Outcome, done>>
  <2>1. PICK r \in Requests :
          /\ \A q \in Requests \ {r} : status'[q] = status[q]
          /\ status[r] \in {"Pending", "Rejected"}
          /\ \/ status'[r] = "Rejected" /\ done' = done
             \/ status'[r] = status[r] /\ done' = done
             \/ /\ status[r] = "Pending" /\ status'[r] = "Approved"
                /\ done' = done \cup ({Ref[r]} \cap Targets)
    BY <1>4, CommitVerdict
  <2>2. born' = born
    BY <1>4 DEF CommitApprove, CommitReject
  <2>3. /\ Outcome' = [Outcome EXCEPT ![r] = Outcome'[r]]
        /\ Outcome[r] = status[r] /\ Outcome'[r] = status'[r]
    <3>1. status[r] # Absent /\ status'[r] # Absent
      BY <1>0, <2>1 DEF Statuses
    <3>2. QED
      BY <2>1, <2>2, <3>1, OutcomeOfOne
  <2>4. CASE status'[r] = status[r] /\ done' = done
    <3>1. Outcome' = Outcome
      BY <2>3, <2>4 DEF Outcome
    <3>2. QED
      BY <2>4, <3>1
  <2>5. CASE status[r] = "Pending" /\ status'[r] = "Rejected" /\ done' = done
    <3>1. Contract!Reject(r)
      BY <2>3, <2>5 DEF Contract!Reject
    <3>2. QED
      BY <3>1 DEF Contract!Next
  <2>6. CASE /\ status[r] = "Pending" /\ status'[r] = "Approved"
             /\ done' = done \cup ({Ref[r]} \cap Targets)
    <3>1. Contract!Approve(r)
      BY <2>3, <2>6 DEF Contract!Approve
    <3>2. QED
      BY <3>1 DEF Contract!Next
  <2>7. QED
    BY <2>1, <2>4, <2>5, <2>6
<1>5. ASSUME NEW r \in Requests, Delete(r)
      PROVE  Contract!Next
  <2>1. /\ status[r] # Absent /\ status' = [status EXCEPT ![r] = Absent]
        /\ born' = born /\ done' = done /\ r \in born
    BY <1>0, <1>5 DEF Delete
  <2>2. Outcome[r] = status[r] /\ Outcome' = [Outcome EXCEPT ![r] = "Withdrawn"]
    <3>1. \A q \in Requests \ {r} : status'[q] = status[q] /\ (q \in born' <=> q \in born)
      BY <1>0, <2>1
    <3>2. status'[r] = Absent
      BY <1>0, <2>1
    <3>3. QED
      BY <2>1, <3>1, <3>2, OutcomeOfOne
  <2>3. status[r] \in {"Pending", "Approved", "Rejected"}
    BY <1>0, <2>1 DEF VerdictInv, Stored, Statuses
  <2>4. Contract!Withdraw(r)
    BY <2>1, <2>2, <2>3 DEF Contract!Withdraw
  <2>5. QED
    BY <2>4 DEF Contract!Next
<1>6. QED
  BY <1>1, <1>2, <1>3, <1>4, <1>5, SerialSteps

\* While web requests do not overlap, an approval request implements its
\* contract: it is opened once, decided at most once, its target is finalised in
\* the step that approves it, and a deletion ends it for good.
THEOREM OneDecision == Orderly /\ Spec => ContractSpec
<1> SUFFICES ASSUME Orderly PROVE Spec => ContractSpec
  BY DEF Orderly
<1>1. Init => Contract!Init
  BY InitContract
<1>2. VerdictInv /\ VerdictInv' /\ [Next]_vars => [Contract!Next]_<<Outcome, done>>
  BY StepContract
<1>3. QED
  BY <1>1, <1>2, VerdictInvariant, PTL DEF Spec, ContractSpec, Contract!Spec

-----------------------------------------------------------------------------
(* An open request waits for somebody, and not unnoticed. *)

\* Chains come from the templates, expanding one does not fail half-way, and
\* every step of a template has a user who may take it.
Staffed ==
  /\ \A b \in Bodies : b.steps = <<>>
  /\ Budget["web"] = 0
  /\ \A r \in Requests :
       /\ Template[r] # <<>>
       /\ \A i \in DOMAIN Template[r] : \E u \in Users :
            u \in SuperAdmins \/ (RoleOf[u] # NoRole /\ Template[r][i].role = RoleOf[u])

Servable(row) == \E u \in Users : Eligible(u, row)

\* Rows carry their position and have somebody to take them.
Numbered(s) == \A i \in DOMAIN s : s[i].order = i - 1 /\ Servable(s[i])

Clocked(s) == \A i \in CurrentSteps(s) : s[i].due # NoTime

\* What is stored of one request goes on to somebody.
Waiting(r) ==
  /\ Numbered(steps[r])
  /\ status[r] = "Pending" =>
       /\ Clocked(steps[r])
       /\ Creating(r) \/ Pending(steps[r]) # {}

\* The rows still to be inserted continue the numbering of those that are
\* there, and the first of a chain brings its clock along.
Continues(s, t) ==
  /\ \A k \in DOMAIN t : t[k].order = Len(s) + k - 1 /\ Servable(t[k])
  /\ s = <<>> => t[1].due # NoTime

Delivers(w) ==
  LET j == job[w] IN
  j.at = "create" =>
    /\ j.inline = <<>>
    /\ j.tmpl # <<>>
    /\ status[j.req] # Absent => Continues(steps[j.req], j.tmpl)

ServedInv ==
  /\ VerdictInv
  /\ \A r \in Requests : Waiting(r)
  /\ \A w \in Workers : Delivers(w)

\* A chain with a pending step has a current one.
LEMMA CurrentExists ==
  ASSUME NEW s \in Seq(Rows), Pending(s) # {}
  PROVE  CurrentSteps(s) # {}
<1> DEFINE R == {p \in Nat \X Nat : p[1] < p[2]}
           T == {s[i].order : i \in Pending(s)}
<1>1. IsWellFoundedOn(R, Nat)
  BY NatLessThanWellFounded DEF OpToRel
<1>2. \A i \in Pending(s) : s[i].order \in Nat
  <2>1. \A i \in DOMAIN s : s[i] \in Rows
    OBVIOUS
  <2>2. QED
    BY <2>1 DEF Pending, Rows
<1>3. T \subseteq Nat /\ T # {}
  BY <1>2
<1>4. PICK n \in T : \A m \in T : ~(<<m, n>> \in R)
  <2> HIDE DEF R, T
  <2>1. QED
    BY <1>1, <1>3, WFMin
<1>5. PICK i \in Pending(s) : n = s[i].order
  OBVIOUS
<1>6. ASSUME NEW k \in Pending(s)
      PROVE  s[i].order <= s[k].order
  <2>1. s[k].order \in T /\ s[k].order \in Nat /\ s[i].order \in Nat
    BY <1>2
  <2>2. ~(<<s[k].order, n>> \in R)
    BY <1>4, <2>1
  <2>3. QED
    BY <1>5, <2>1, <2>2
<1>7. i \in CurrentSteps(s)
  BY <1>6 DEF CurrentSteps
<1>8. QED
  BY <1>7

\* Stamps change neither the turn nor the clocks.
LEMMA ChainServes ==
  ASSUME NEW s, NEW t, SameChain(s, t)
  PROVE  /\ Numbered(s) => Numbered(t)
         /\ Clocked(s) => Clocked(t)
         /\ Pending(t) = Pending(s)
<1>1. Pending(t) = Pending(s)
  BY DEF SameChain, Pending
<1>2. \A i \in Pending(s) : i \in DOMAIN s
  BY DEF Pending
<1>3. CurrentSteps(t) = CurrentSteps(s)
  BY <1>1, <1>2 DEF SameChain, CurrentSteps
<1>4. \A i \in CurrentSteps(s) : i \in DOMAIN s
  BY <1>2 DEF CurrentSteps
<1>5. Numbered(s) => Numbered(t)
  BY DEF SameChain, Numbered, Servable, Eligible
<1>6. QED
  BY <1>1, <1>3, <1>4, <1>5 DEF SameChain, Clocked

\* The next row of a chain nobody has decided on yet.
LEMMA AppendServes ==
  ASSUME NEW s \in Seq(Rows), Numbered(s), Clocked(s),
         \A i \in DOMAIN s : s[i].status = "Pending",
         NEW row \in NewRows, row.status = "Pending", row.order = Len(s), Servable(row),
         s = <<>> => row.due # NoTime
  PROVE  /\ Numbered(Append(s, row))
         /\ Clocked(Append(s, row))
         /\ Pending(Append(s, row)) # {}
<1> DEFINE t == Append(s, row)
           n == Len(s) + 1
<1>0. row \in Rows /\ row.status = "Pending" /\ Len(s) \in Nat /\ DOMAIN s = 1..Len(s)
  BY DEF NewRows
<1>1. /\ t \in Seq(Rows)
      /\ DOMAIN t = DOMAIN s \cup {n}
      /\ n \notin DOMAIN s
      /\ \A i \in DOMAIN s : t[i] = s[i]
      /\ t[n] = row
  BY <1>0, AppendedRows
<1> HIDE DEF t
<1>2. Numbered(t)
  BY <1>0, <1>1 DEF Numbered
<1>3. n \in Pending(t) /\ \A i \in DOMAIN s : i \in Pending(t)
  BY <1>0, <1>1 DEF Pending
<1>4. ASSUME NEW i \in CurrentSteps(t)
      PROVE  t[i].due # NoTime
  <2>1. i \in DOMAIN t /\ \A k \in Pending(t) : t[i].order <= t[k].order
    BY DEF CurrentSteps, Pending
  <2>2. CASE s = <<>>
    BY <1>0, <1>1, <2>1, <2>2
  <2>3. CASE s # <<>>
    <3>1. 1 \in DOMAIN s
      BY <1>0, <2>3
    <3>2. t[i].order <= t[1].order
      BY <1>3, <2>1, <3>1
    <3>3. t[i].order = i - 1 /\ t[1].order = 1 - 1 /\ i \in 1..n
      BY <1>0, <1>1, <1>2, <2>1, <3>1 DEF Numbered
    <3>4. i = 1
      BY <1>0, <3>2, <3>3
    <3>5. \A k \in Pending(s) : s[1].order <= s[k].order
      <4>1. \A k \in DOMAIN s : k \in Nat /\ k >= 1 /\ s[k].order = k - 1 /\ s[1].order = 1 - 1
        BY <1>0, <3>1 DEF Numbered
      <4>2. QED
        BY <4>1 DEF Pending
    <3>6. 1 \in CurrentSteps(s)
      BY <3>1, <3>5 DEF CurrentSteps, Pending
    <3>7. QED
      BY <1>1, <3>1, <3>4, <3>6 DEF Clocked
  <2>4. QED
    BY <2>2, <2>3
<1>5. QED
  BY <1>2, <1>3, <1>4 DEF t, Clocked

LEMMA RowsServe ==
  ASSUME NEW s, NEW t, SameRows(s, t), Numbered(s)
  PROVE  Numbered(t)
BY DEF SameRows, Numbered, Servable, Eligible

\* An approval passes the turn on and starts the clock of the next step, of
\* which there is one.
LEMMA ApproveServes ==
  ASSUME NEW s \in Seq(Rows), NEW i \in DOMAIN s, NEW u \in Users, Numbered(s),
         NEW t \in Promoted(Decision(s, i, u, "Approved"))
  PROVE  Numbered(t) /\ Clocked(t)
<1> DEFINE d == Decision(s, i, u, "Approved")
<1>1. SameRows(s, t) /\ SameRows(s, d)
  BY DecidedRows
<1>2. d \in Seq(Rows)
  BY DecideType
<1>3. t \in Promoted(d)
  OBVIOUS
<1> HIDE DEF d
<1>4. Numbered(t) /\ Numbered(d)
  BY <1>1, RowsServe
<1>5. CASE Pending(d) = {}
  <2>1. t = d
    BY <1>3, <1>5 DEF Promoted
  <2>2. QED
    BY <1>4, <1>5, <2>1 DEF Clocked, CurrentSteps
<1>6. CASE Pending(d) # {}
  <2>1. PICK j \in CurrentSteps(d) : t = StartClock(d, j)
    BY <1>3, <1>6 DEF Promoted
  <2>2. /\ DOMAIN t = DOMAIN d
        /\ \A k \in DOMAIN d : t[k].order = d[k].order /\ t[k].status = d[k].status
    BY <1>2, <1>3, PromotedShape
  <2>3. j \in Pending(d) /\ \A k \in Pending(d) : d[j].order <= d[k].order
    BY DEF CurrentSteps
  <2>4. j \in DOMAIN d /\ d[j] \in Rows
    BY <1>2, <2>3 DEF Pending
  <2>5. t[j].due # NoTime
    <3>1. d[j].sla # NoTime
      BY <2>4, ConstantsAssumption DEF Rows
    <3>2. QED
      BY <2>1, <2>4, <3>1 DEF StartClock, Rows
  <2>6. ASSUME NEW k \in CurrentSteps(t)
        PROVE  k = j
    <3>1. k \in Pending(t) /\ \A m \in Pending(t) : t[k].order <= t[m].order
      BY DEF CurrentSteps
    <3>2. Pending(t) = Pending(d)
      BY <2>2 DEF Pending
    <3>3. t[k].order <= t[j].order /\ d[j].order <= d[k].order
      BY <2>3, <3>1, <3>2
    <3>4. k \in DOMAIN t /\ k \in DOMAIN d
      BY <2>2, <3>1 DEF Pending
    <3>5. /\ t[k].order = k - 1 /\ t[j].order = j - 1
          /\ d[k].order = k - 1 /\ d[j].order = j - 1
      BY <1>4, <2>2, <2>4, <3>4 DEF Numbered
    <3>6. k \in Nat /\ j \in Nat
      BY <1>2, <2>4, <3>4
    <3>7. QED
      BY <3>3, <3>5, <3>6
  <2>7. QED
    BY <1>4, <2>5, <2>6 DEF Clocked
<1>7. QED
  BY <1>5, <1>6

LEMMA InitServed == Init => ServedInv
<1> SUFFICES ASSUME Init PROVE ServedInv
  OBVIOUS
<1>1. VerdictInv
  BY InitVerdict
<1>2. \A r \in Requests : Waiting(r)
  BY ConstantsAssumption DEF Init, Waiting, Numbered, Statuses
<1>3. \A w \in Workers : Delivers(w)
  BY DEF Init, Delivers, Idle
<1>4. QED
  BY <1>1, <1>2, <1>3 DEF ServedInv

\* The rows of a template that everybody can take continue an empty chain.
LEMMA TemplateContinues ==
  ASSUME Staffed, NEW r \in Requests
  PROVE  TemplateRows(r) # <<>> /\ Continues(<<>>, TemplateRows(r))
<1>1. /\ Template[r] \in Seq(Descriptors)
      /\ \A i \in 1..Len(Template[r]) : Template[r][i] \in Descriptors
  BY ConstantsAssumption
<1>2. Len(Template[r]) \in Nat /\ Len(Template[r]) # 0 /\ DOMAIN Template[r] = 1..Len(Template[r])
  BY <1>1 DEF Staffed
<1>3. DOMAIN TemplateRows(r) = 1..Len(Template[r])
  BY DEF TemplateRows
<1>4. ASSUME NEW k \in 1..Len(Template[r])
      PROVE  /\ TemplateRows(r)[k].order = k - 1
             /\ TemplateRows(r)[k].role = Template[r][k].role
             /\ k = 1 => TemplateRows(r)[k].due = Template[r][k].sla
  BY DEF TemplateRows
<1>5. ASSUME NEW k \in 1..Len(Template[r])
      PROVE  Servable(TemplateRows(r)[k])
  <2>1. PICK u \in Users : u \in SuperAdmins \/ (RoleOf[u] # NoRole /\ Template[r][k].role = RoleOf[u])
    BY <1>2 DEF Staffed
  <2>2. QED
    BY <1>4, <2>1 DEF Servable, Eligible
<1>6. TemplateRows(r)[1].due # NoTime
  <2>1. 1 \in 1..Len(Template[r])
    BY <1>2
  <2>2. Template[r][1].sla \in Nat
    BY <1>1, <2>1 DEF Descriptors
  <2>3. QED
    BY <1>4, <2>1, <2>2, ConstantsAssumption
<1>7. TemplateRows(r) # <<>>
  BY <1>2, <1>3
<1>8. QED
  BY <1>3, <1>4, <1>5, <1>6, <1>7 DEF Continues

LEMMA CreateServed ==
  ASSUME ServedInv, Orderly, Staffed, NEW w \in Workers, NEW r \in Requests, NEW b \in Bodies,
         Create(w, r, b)
  PROVE  (\A q \in Requests : Waiting(q)') /\ \A v \in Workers : Delivers(v)'
<1>1. steps[r] = <<>>
  BY DEF Create, ServedInv, VerdictInv, Stored
<1>2. /\ steps' = steps
      /\ \A q \in Requests \ {r} : status'[q] = status[q]
      /\ job'[w] = Creation(r, b.steps)
  BY DEF Create, ServedInv, VerdictInv, SigningInv, TypeOK
<1>3. b.steps = <<>> /\ InlineRows(b.steps) = <<>>
  <2>1. b.steps = <<>>
    BY DEF Staffed
  <2>2. InlineRows(b.steps) \in [1..0 -> NewRows]
    BY <2>1 DEF InlineRows
  <2>3. InlineRows(b.steps) = <<>>
    BY <2>2
  <2>4. QED
    BY <2>1, <2>3
<1>4. /\ job'[w].at = "create" /\ job'[w].req = r
      /\ job'[w].inline = <<>> /\ job'[w].tmpl = TemplateRows(r)
  BY <1>2, <1>3, TemplateContinues DEF Creation, AfterInsert
<1>5. ASSUME NEW q \in Requests
      PROVE  Waiting(q)'
  <2>1. CASE q = r
    <3>1. Numbered(<<>>) /\ Clocked(<<>>)
      BY DEF Numbered, Clocked, CurrentSteps, Pending
    <3>2. Creating(q)'
      BY <1>4, <2>1 DEF Creating
    <3>3. QED
      BY <1>1, <1>2, <2>1, <3>1, <3>2 DEF Waiting
  <2>2. CASE q # r
    <3>1. ~Creating(q)
      BY DEF Create, Orderly, Creating, Idle
    <3>2. QED
      BY <1>2, <2>2, <3>1 DEF ServedInv, Waiting
  <2>3. QED
    BY <2>1, <2>2
<1>6. Delivers(w)'
  BY <1>1, <1>2, <1>4, TemplateContinues DEF Delivers
<1>7. QED
  BY <1>5, <1>6 DEF Orderly

LEMMA InsertServed ==
  ASSUME ServedInv, Orderly, NEW w \in Workers, InsertTemplateStep(w) \/ InsertInlineStep(w)
  PROVE  (\A q \in Requests : Waiting(q)') /\ \A v \in Workers : Delivers(v)'
<1> DEFINE j == job[w]
<1>0. PICK r, s, m : r = j.req /\ s = steps[r] /\ m = j.tmpl
  OBVIOUS
<1>1. j \in CreateJobs /\ r \in Requests /\ m \in Seq(NewRows) /\ j.at = "create"
  BY <1>0, JobByStage DEF ServedInv, VerdictInv, SigningInv, TypeOK, InsertTemplateStep, InsertInlineStep,
         CreateJobs
<1>2. status[r] # Absent /\ status' = status
  BY <1>0 DEF InsertTemplateStep, InsertInlineStep
<1>3. m # <<>> /\ j.inline = <<>> /\ Continues(s, m)
  BY <1>0, <1>1, <1>2 DEF ServedInv, Delivers
<1>4. /\ steps' = [steps EXCEPT ![r] = Append(s, Head(m))]
      /\ job' = [job EXCEPT ![w] = AfterInsert([j EXCEPT !.tmpl = Tail(m)])]
  BY <1>0, <1>1, <1>3 DEF InsertTemplateStep, InsertInlineStep, CreateJobs
<1>5. /\ status[r] = "Pending"
      /\ \A i \in DOMAIN s : s[i].status = "Pending"
      /\ s \in Seq(Rows)
      /\ Numbered(s) /\ Clocked(s)
  <2>1. status[r] = "Pending" /\ \A i \in DOMAIN s : s[i].status = "Pending"
    BY <1>0, <1>1, <1>2 DEF ServedInv, VerdictInv, Undisturbed
  <2>2. QED
    BY <1>0, <1>1, <2>1 DEF ServedInv, VerdictInv, SigningInv, TypeOK, Waiting
<1>6. /\ Head(m) \in NewRows /\ Head(m) = m[1] /\ 1 \in DOMAIN m
      /\ Tail(m) \in Seq(NewRows) /\ Len(Tail(m)) = Len(m) - 1
      /\ Len(m) \in Nat /\ DOMAIN m = 1..Len(m)
      /\ \A k \in 1..Len(Tail(m)) : Tail(m)[k] = m[k + 1]
  BY <1>1, <1>3, HeadTailProperties
<1>7. Len(s) \in Nat
  BY <1>5
<1>8. Head(m).order = Len(s) /\ Servable(Head(m)) /\ (s = <<>> => Head(m).due # NoTime)
  BY <1>3, <1>6, <1>7 DEF Continues
<1>9. /\ Numbered(Append(s, Head(m))) /\ Clocked(Append(s, Head(m)))
      /\ Pending(Append(s, Head(m))) # {}
  BY <1>5, <1>6, <1>8, PlainRows, AppendServes
<1>10. steps'[r] = Append(s, Head(m)) /\ \A q \in Requests \ {r} : steps'[q] = steps[q]
  BY <1>1, <1>4 DEF ServedInv, VerdictInv, SigningInv, TypeOK
<1>11. ASSUME NEW q \in Requests
       PROVE  Waiting(q)'
  <2>1. CASE q = r
    BY <1>9, <1>10, <2>1 DEF Waiting
  <2>2. CASE q # r
    <3>1. ~Creating(q)
      BY <1>0, <2>2 DEF Orderly, Creating
    <3>2. QED
      BY <1>2, <1>10, <2>2, <3>1 DEF ServedInv, Waiting
  <2>3. QED
    BY <2>1, <2>2
<1>12. Delivers(w)'
  <2>1. PICK k : k = [j EXCEPT !.tmpl = Tail(m)]
    OBVIOUS
  <2>2. k.at = "create" /\ k.req = r /\ k.inline = <<>> /\ k.tmpl = Tail(m)
    BY <1>0, <1>1, <1>3, <2>1 DEF CreateJobs
  <2>3. job'[w] = AfterInsert(k)
    BY <1>4, <2>1 DEF ServedInv, VerdictInv, SigningInv, TypeOK
  <2>4. CASE Tail(m) = <<>>
    <3>1. job'[w] = Idle
      BY <2>2, <2>3, <2>4 DEF AfterInsert
    <3>2. QED
      BY <3>1 DEF Delivers, Idle
  <2>5. CASE Tail(m) # <<>>
    <3>1. job'[w] = k
      BY <2>2, <2>3, <2>5 DEF AfterInsert
    <3>2. Head(m) \in Rows
      BY <1>6 DEF NewRows
    <3>3. Len(Append(s, Head(m))) = Len(s) + 1 /\ Append(s, Head(m)) # <<>>
      BY <1>5, <3>2, AppendProperties
    <3>4. DOMAIN Tail(m) = 1..Len(Tail(m)) /\ Len(Tail(m)) \in Nat
      BY <1>6
    <3>5. Continues(Append(s, Head(m)), Tail(m))
      <4>1. ASSUME NEW i \in DOMAIN Tail(m)
            PROVE  Tail(m)[i].order = Len(s) + 1 + i - 1 /\ Servable(Tail(m)[i])
        <5>1. i + 1 \in DOMAIN m /\ Tail(m)[i] = m[i + 1] /\ i \in Nat
          BY <1>6, <3>4
        <5>2. m[i + 1].order = Len(s) + (i + 1) - 1 /\ Servable(m[i + 1])
          BY <1>3, <5>1 DEF Continues
        <5>3. QED
          BY <1>7, <5>1, <5>2
      <4>2. QED
        BY <3>3, <4>1 DEF Continues
    <3>6. QED
      BY <1>10, <2>2, <2>5, <3>1, <3>5 DEF Delivers
  <2>6. QED
    BY <2>4, <2>5
<1>13. QED
  BY <1>11, <1>12 DEF Orderly

\* Where no row changes and no chain is being inserted, before or after.
LEMMA QuietServed ==
  ASSUME ServedInv, Orderly, NEW w \in Workers, UNCHANGED rows,
         job[w].at # "create", job'[w].at # "create"
  PROVE  (\A q \in Requests : Waiting(q)') /\ \A v \in Workers : Delivers(v)'
<1>1. \A q \in Requests : ~Creating(q)
  BY DEF Orderly, Creating
<1>2. \A q \in Requests : Waiting(q)'
  BY <1>1 DEF ServedInv, Waiting, rows
<1>3. QED
  BY <1>2 DEF Orderly, Delivers

\* No creation fails, except that of a request that has been deleted.
LEMMA FaultServed ==
  ASSUME ServedInv, Orderly, Staffed, NEW w \in Workers, ChainFails(w) \/ CreateDies(w)
  PROVE  (\A q \in Requests : Waiting(q)') /\ \A v \in Workers : Delivers(v)'
<1> DEFINE j == job[w]
<1>0. PICK r : r = j.req
  OBVIOUS
<1>1. ~Spend("web")
  BY DEF Spend, Staffed, ServedInv, VerdictInv, SigningInv, TypeOK, Bounded
<1>2. j \in CreateJobs /\ j.at = "create" /\ status[r] = Absent /\ UNCHANGED rows
  BY <1>0, <1>1, JobByStage DEF ChainFails, CreateDies, ServedInv, VerdictInv, SigningInv, TypeOK
<1>3. j.inline = <<>> /\ j.tmpl # <<>>
  BY <1>2 DEF ServedInv, Delivers
<1>4. job'[w] = Idle
  <2>1. job'[w] = AfterInsert([j EXCEPT !.tmpl = <<>>])
    BY <1>0, <1>1, <1>3 DEF ChainFails, CreateDies, ServedInv, VerdictInv, SigningInv, TypeOK
  <2>2. [j EXCEPT !.tmpl = <<>>].tmpl = <<>> /\ [j EXCEPT !.tmpl = <<>>].inline = <<>>
    BY <1>2, <1>3 DEF CreateJobs
  <2>3. QED
    BY <2>1, <2>2 DEF AfterInsert
<1>5. ASSUME NEW q \in Requests
      PROVE  Waiting(q)'
  <2>1. CASE q = r
    BY <1>2, <2>1, ConstantsAssumption DEF ServedInv, Waiting, rows, Statuses
  <2>2. CASE q # r
    <3>1. ~Creating(q)
      BY <1>0, <2>2 DEF Orderly, Creating
    <3>2. QED
      BY <1>2, <3>1 DEF ServedInv, Waiting, rows
  <2>3. QED
    BY <2>1, <2>2
<1>6. Delivers(w)'
  BY <1>4 DEF Delivers, Idle
<1>7. QED
  BY <1>5, <1>6 DEF Orderly

LEMMA CommitServed ==
  ASSUME ServedInv, Orderly, NEW w \in Workers, CommitApprove(w) \/ CommitReject(w), VerdictInv'
  PROVE  (\A q \in Requests : Waiting(q)') /\ \A v \in Workers : Delivers(v)'
<1> DEFINE j == job[w]
<1>0. PICK r, i, s : r = j.req /\ i = j.step /\ s = steps[r]
  OBVIOUS
<1>1. r \in Requests /\ s \in Seq(Rows) /\ j.user \in Users
  BY <1>0, JobByStage DEF ServedInv, VerdictInv, SigningInv, TypeOK, CommitApprove, CommitReject, CheckedJobs
<1>2. i \in DOMAIN s
  BY <1>0 DEF ServedInv, VerdictInv, SigningInv, Cleared, InTurn, CommitApprove, CommitReject
<1>3. Numbered(s)
  BY <1>0, <1>1 DEF ServedInv, Waiting
<1>4. job'[w] = Idle /\ \A q \in Requests : ~Creating(q)
  BY DEF ServedInv, VerdictInv, SigningInv, TypeOK, CommitApprove, CommitReject, Orderly, Creating
<1>5. \A v \in Workers : Delivers(v)'
  BY <1>4 DEF Orderly, Delivers, Idle
<1>6. ASSUME NEW t, Numbered(t), steps' = [steps EXCEPT ![r] = t],
             status'[r] = "Pending" => Clocked(t) /\ Pending(t) # {},
             \A q \in Requests \ {r} : status'[q] = status[q]
      PROVE  \A q \in Requests : Waiting(q)'
  <2>1. steps'[r] = t /\ \A q \in Requests \ {r} : steps'[q] = steps[q]
    BY <1>1, <1>6 DEF ServedInv, VerdictInv, SigningInv, TypeOK
  <2>2. Waiting(r)'
    BY <1>6, <2>1 DEF Waiting
  <2>3. \A q \in Requests \ {r} : Waiting(q)'
    BY <1>4, <1>6, <2>1 DEF ServedInv, Waiting
  <2>4. QED
    BY <2>2, <2>3
<1>7. CASE CommitApprove(w)
  <2>1. PICK t \in Promoted(Decision(s, i, j.user, "Approved")) :
          /\ steps' = [steps EXCEPT ![r] = t]
          /\ \/ FullyApproved(t) /\ status' = [status EXCEPT ![r] = "Approved"]
             \/ ~FullyApproved(t) /\ status' = status
    BY <1>0, <1>7 DEF CommitApprove, Decision
  <2>2. Numbered(t) /\ Clocked(t)
    BY <1>1, <1>2, <1>3, ApproveServes
  <2>3. \A q \in Requests \ {r} : status'[q] = status[q]
    BY <1>1, <2>1 DEF ServedInv, VerdictInv, SigningInv, TypeOK
  <2>4. ASSUME status'[r] = "Pending"
        PROVE  Pending(t) # {}
    <3>1. ~FullyApproved(t)
      BY <1>1, <2>1, <2>4 DEF ServedInv, VerdictInv, SigningInv, TypeOK
    <3>2. steps'[r] = t
      BY <1>1, <2>1 DEF ServedInv, VerdictInv, SigningInv, TypeOK
    <3>3. Verdict(status'[r], t)
      BY <1>1, <3>2 DEF VerdictInv, Stored
    <3>4. ~ \E k \in DOMAIN t : t[k].status = "Rejected"
      BY <2>4, <3>3, ConstantsAssumption DEF Verdict, Statuses
    <3>5. QED
      BY <3>1, <3>4 DEF FullyApproved, Pending
  <2>5. QED
    BY <1>5, <1>6, <2>1, <2>2, <2>3, <2>4
<1>8. CASE CommitReject(w)
  <2>1. PICK t : t = Decision(s, i, j.user, "Rejected")
    OBVIOUS
  <2>2. steps' = [steps EXCEPT ![r] = t]
    BY <1>0, <1>1, <1>8, <2>1 DEF CommitReject, ServedInv, VerdictInv, SigningInv, TypeOK, Decision
  <2>3. status'[r] = "Rejected" /\ \A q \in Requests \ {r} : status'[q] = status[q]
    BY <1>0, <1>1, <1>8 DEF CommitReject, ServedInv, VerdictInv, SigningInv, TypeOK
  <2>4. SameRows(s, t)
    BY <1>1, <1>2, <2>1, DecidedRows
  <2>5. Numbered(t)
    BY <1>3, <2>4, RowsServe
  <2>6. QED
    BY <1>5, <1>6, <2>2, <2>3, <2>5
<1>9. QED
  BY <1>7, <1>8

LEMMA DeleteServed ==
  ASSUME ServedInv, NEW r \in Requests, Delete(r)
  PROVE  (\A q \in Requests : Waiting(q)') /\ \A v \in Workers : Delivers(v)'
<1>1. /\ status'[r] = Absent /\ steps'[r] = <<>>
      /\ \A q \in Requests \ {r} : status'[q] = status[q] /\ steps'[q] = steps[q]
  BY DEF Delete, ServedInv, VerdictInv, SigningInv, TypeOK
<1>2. ASSUME NEW w \in Workers
      PROVE  /\ job[w].at = "create" => job'[w] = job[w] /\ job[w].req \in Requests
             /\ job'[w].at = "create" => job[w].at = "create"
  <2>1. /\ job[w].at = "checked" => job[w] \in CheckedJobs
        /\ job[w].at = "create" => job[w] \in CreateJobs
    BY JobByStage DEF ServedInv, VerdictInv, SigningInv, TypeOK
  <2>2. CASE job[w].at = "checked" /\ job[w].req = r
    BY <2>1, <2>2 DEF Delete, CheckedJobs
  <2>3. CASE ~(job[w].at = "checked" /\ job[w].req = r)
    BY <2>1, <2>3 DEF Delete, CreateJobs
  <2>4. QED
    BY <2>2, <2>3
<1>3. ASSUME NEW q \in Requests
      PROVE  Waiting(q)'
  <2>1. CASE q = r
    BY <1>1, <2>1, ConstantsAssumption DEF Waiting, Numbered, Statuses
  <2>2. CASE q # r
    <3>1. Creating(q) => Creating(q)'
      BY <1>2 DEF Creating
    <3>2. QED
      BY <1>1, <2>2, <3>1 DEF ServedInv, Waiting
  <2>3. QED
    BY <2>1, <2>2
<1>4. ASSUME NEW w \in Workers
      PROVE  Delivers(w)'
  <2>1. CASE job'[w].at # "create"
    BY <2>1 DEF Delivers
  <2>2. CASE job'[w].at = "create"
    <3>1. job[w].at = "create" /\ job'[w] = job[w] /\ job[w].req \in Requests
      BY <1>2, <2>2
    <3>2. Delivers(w)
      BY DEF ServedInv
    <3>3. CASE job[w].req = r
      BY <1>1, <3>1, <3>2, <3>3 DEF Delivers
    <3>4. CASE job[w].req # r
      BY <1>1, <3>1, <3>2, <3>4 DEF Delivers
    <3>5. QED
      BY <3>3, <3>4
  <2>3. QED
    BY <2>1, <2>2
<1>5. QED
  BY <1>3, <1>4

LEMMA TaskServed ==
  ASSUME ServedInv, TypeOK',
         Tick \/ \E b \in Scanners : StartScan(b) \/ EscalateStep(b) \/ ScanDies(b)
  PROVE  (\A q \in Requests : Waiting(q)') /\ \A v \in Workers : Delivers(v)'
<1>1. \A r \in Requests : SameChain(steps[r], steps'[r])
  BY TaskKeepsChain DEF ServedInv, VerdictInv, SigningInv
<1>2. job' = job /\ status' = status
  BY DEF Tick, StartScan, EscalateStep, ScanDies, rows
<1>3. ASSUME NEW q \in Requests
      PROVE  Waiting(q)'
  <2>1. /\ Numbered(steps[q]) => Numbered(steps'[q])
        /\ Clocked(steps[q]) => Clocked(steps'[q])
        /\ Pending(steps'[q]) = Pending(steps[q])
    BY <1>1, ChainServes
  <2>2. Waiting(q)
    BY DEF ServedInv
  <2>3. Creating(q)' = Creating(q)
    BY <1>2 DEF Creating
  <2>4. QED
    BY <1>2, <2>1, <2>2, <2>3 DEF Waiting
<1>4. ASSUME NEW w \in Workers
      PROVE  Delivers(w)'
  <2>1. CASE job[w].at # "create"
    BY <1>2, <2>1 DEF Delivers
  <2>2. CASE job[w].at = "create"
    <3>1. PICK r : r = job[w].req
      OBVIOUS
    <3>2. r \in Requests
      BY <2>2, <3>1, JobByStage DEF ServedInv, VerdictInv, SigningInv, TypeOK, CreateJobs
    <3>3. Len(steps'[r]) = Len(steps[r]) /\ (steps'[r] = <<>> <=> steps[r] = <<>>)
      <4>1. steps[r] \in Seq(Rows) /\ steps'[r] \in Seq(Rows) /\ DOMAIN steps'[r] = DOMAIN steps[r]
        BY <1>1, <3>2 DEF ServedInv, VerdictInv, SigningInv, TypeOK, SameChain
      <4>2. Len(steps'[r]) = Len(steps[r])
        BY <4>1, LenProperties
      <4>3. QED
        BY <4>1, <4>2
    <3>4. Delivers(w)
      BY DEF ServedInv
    <3>5. QED
      BY <1>2, <2>2, <3>1, <3>3, <3>4 DEF Delivers, Continues
  <2>3. QED
    BY <2>1, <2>2
<1>5. QED
  BY <1>3, <1>4

LEMMA NextServed == Orderly /\ Staffed /\ ServedInv /\ [Next]_vars => ServedInv'
<1> SUFFICES ASSUME Orderly, Staffed, ServedInv, [Next]_vars
             PROVE  (\A q \in Requests : Waiting(q)') /\ \A v \in Workers : Delivers(v)'
  BY NextVerdict DEF ServedInv
<1>1. VerdictInv /\ VerdictInv' /\ TypeOK'
  BY NextVerdict DEF ServedInv, VerdictInv, SigningInv
<1>2. CASE UNCHANGED vars
  BY <1>2 DEF ServedInv, Waiting, Creating, Delivers, vars
<1>3. CASE \E w \in Workers, r \in Requests, b \in Bodies : Create(w, r, b)
  BY <1>3, CreateServed
<1>4. CASE \E w \in Workers : InsertTemplateStep(w) \/ InsertInlineStep(w)
  BY <1>4, InsertServed
<1>5. ASSUME NEW w \in Workers, ChainFails(w) \/ CreateDies(w)
      PROVE  (\A q \in Requests : Waiting(q)') /\ \A v \in Workers : Delivers(v)'
  BY <1>5, FaultServed
<1>6. ASSUME NEW w \in Workers,
             \/ Check(w) \/ Refuse(w) \/ CommitLost(w)
             \/ \E u \in Users, r \in Requests, v \in {"approve", "reject"} : Load(w, u, r, v)
      PROVE  (\A q \in Requests : Waiting(q)') /\ \A v \in Workers : Delivers(v)'
  <2>1. UNCHANGED rows
    BY <1>6 DEF Check, Refuse, CommitLost, Load
  <2>2. job[w].at # "create" /\ job'[w].at # "create"
    BY <1>1, <1>6 DEF Check, Refuse, CommitLost, Load, VerdictInv, SigningInv, TypeOK, Idle
  <2>3. QED
    BY <2>1, <2>2, QuietServed
<1>7. CASE \E w \in Workers : CommitApprove(w) \/ CommitReject(w)
  BY <1>1, <1>7, CommitServed
<1>8. CASE \E r \in Requests : Delete(r)
  BY <1>8, DeleteServed
<1>9. CASE Tick \/ \E b \in Scanners : StartScan(b) \/ EscalateStep(b) \/ ScanDies(b)
  BY <1>1, <1>9, TaskServed
<1>10. QED
  BY <1>1, <1>2, <1>3, <1>4, <1>5, <1>6, <1>7, <1>8, <1>9, SerialSteps

LEMMA ServedNotStranded == ServedInv => NeverStranded
<1> SUFFICES ASSUME ServedInv PROVE NeverStranded
  OBVIOUS
<1>1. CurrentOnClock
  BY DEF ServedInv, Waiting, Clocked, CurrentOnClock
<1>2. ASSUME NEW r \in Requests, status[r] = "Pending", ~Creating(r)
      PROVE  \E i \in CurrentSteps(steps[r]), u \in Users : Eligible(u, steps[r][i])
  <2>1. Pending(steps[r]) # {} /\ Numbered(steps[r])
    BY <1>2 DEF ServedInv, Waiting
  <2>2. steps[r] \in Seq(Rows)
    BY DEF ServedInv, VerdictInv, SigningInv, TypeOK
  <2>3. PICK i : i \in CurrentSteps(steps[r])
    BY <2>1, <2>2, CurrentExists
  <2>4. i \in DOMAIN steps[r]
    BY <2>3 DEF CurrentSteps, Pending
  <2>5. Servable(steps[r][i])
    BY <2>1, <2>4 DEF Numbered
  <2>6. QED
    BY <2>3, <2>5 DEF Servable
<1>3. QED
  BY <1>1, <1>2 DEF NeverStranded

\* While web requests do not overlap, chains come from staffed templates and
\* no creation fails half-way, an open request has at every moment a current
\* step that one of the users may decide, and that step's clock runs.
THEOREM SomebodyNext == Orderly /\ Staffed /\ Spec => []NeverStranded
<1> SUFFICES ASSUME Orderly, Staffed PROVE Spec => []NeverStranded
  BY DEF Orderly, Staffed
<1>1. Init => ServedInv
  BY InitServed
<1>2. ServedInv /\ [Next]_vars => ServedInv'
  BY NextServed
<1>3. QED
  BY <1>1, <1>2, ServedNotStranded, PTL DEF Spec
=============================================================================
