------------------------------ MODULE Approvals ------------------------------
(***************************************************************************)
(* The approval workflow of iams/workflows.py with everything that touches *)
(* its rows: the REST handlers of ApprovalRequestViewSet, the signal       *)
(* receivers that expand chain templates and finalise the approved row,    *)
(* and the nightly escalation task.                                        *)
(*                                                                         *)
(* Nothing serialises two HTTP requests.  A handler loads the request row, *)
(* decides who may act from a second read, and writes in a transaction     *)
(* that locks no row it read (PostgreSQL READ COMMITTED); creating a       *)
(* request commits once per inserted row.  Each Worker is a web process    *)
(* whose job moves through those reads and commits, so with one Worker the *)
(* handlers run one after another and with two they overlap.  The writes   *)
(* of one decision are one step: they begin with the row lock of the step  *)
(* they update and end with that of the request.                           *)
(*                                                                         *)
(* Time is relative: a due date counts down from the SLA to -1 (overdue)   *)
(* and an escalation stamp counts up to Dedupe + 1 (outside the window).   *)
(***************************************************************************)
EXTENDS Integers, Sequences, FiniteSets

CONSTANTS
  Requests,      \* approval requests that may be created
  Workers,       \* web processes
  Scanners,      \* Celery processes that may run the escalation task
  Users,         \* people who act on requests
  Roles,         \* role names, NoRole among them
  Targets,       \* rows an approved request finalises (CAP, report, model)
  Ref,           \* [Requests -> Targets or NoRef]
  Template,      \* [Requests -> Seq(descriptor)]: active chain of its type
  Bodies,        \* create bodies callers send: request fields and steps
  RoleOf,        \* [Users -> role or NoRole]
  SuperAdmins,   \* users whose role is Super Admin
  Verbs,         \* the operations callers use in this instance
  PatchStatus,   \* status values a PATCH body may carry
  PatchCur,      \* current_step values a PATCH body may carry
  DefaultSla,    \* sla_days of a step that names none
  Dedupe,        \* width of the escalation window, in ticks
  MaxRows,       \* rows per request the liveness property speaks of
  Budget,        \* bounds on web faults, task faults and deletions
  NoRef, NoRole, NoUser, NoTime, Absent

Statuses == {"Pending", "Approved", "Rejected", "Returned"}

AllVerbs == {"create", "approve", "reject", "patch", "delete"}

\* What an instance bounds: crashes and failed inserts of web workers, those
\* of tasks, and deletions (a late PATCH can bring a deleted request back).
Bounded == {"web", "task", "delete"}

Descriptors == [role : Roles, sla : Nat \ {0}]

\* A row of ApprovalStep; its position in steps[r] is its identity.  by is
\* history: who decided the step with approve or reject, if anybody did.
Rows == [order    : Nat,
         role     : Roles,
         approver : Users \cup {NoUser},
         sla      : Nat \ {0},
         status   : Statuses,
         due      : Int \cup {NoTime},
         esc      : Nat \cup {NoTime},
         by       : Users \cup {NoUser}]

\* A step of a create body; its status is Pending unless the body says so.
InlineSteps == [order : Nat, role : Roles, approver : Users \cup {NoUser}, status : Statuses]

\* A create body: status and current_step have defaults but are writable.
CreateBodies == [status : Statuses, cur : Nat, steps : Seq(InlineSteps)]

\* The statuses a step may be inserted with, and a row as it is inserted.
StatusesSent ==
  {"Pending"} \cup UNION {{b.steps[i].status : i \in DOMAIN b.steps} : b \in Bodies}

NewRows == {row \in Rows : row.status \in StatusesSent /\ row.by = NoUser}

ASSUME ConstantsAssumption ==
  /\ Ref \in [Requests -> Targets \cup {NoRef}]
  /\ NoRef \notin Targets
  /\ NoRole \in Roles
  /\ RoleOf \in [Users -> Roles]
  /\ SuperAdmins \subseteq Users
  /\ Template \in [Requests -> Seq(Descriptors)]
  /\ Bodies \subseteq CreateBodies
  /\ Verbs \subseteq AllVerbs
  /\ PatchStatus \subseteq Statuses
  /\ PatchCur \subseteq Nat
  /\ DefaultSla \in Nat \ {0}
  /\ Dedupe \in Nat
  /\ MaxRows \in Nat
  /\ Budget \in [Bounded -> Nat]
  /\ NoTime \notin Int
  /\ NoUser \notin Users
  /\ Absent \notin Statuses

VARIABLES
  status,   \* status[r]: ApprovalRequest.status, Absent if not stored
  cur,      \* cur[r]: ApprovalRequest.current_step
  steps,    \* steps[r]: the ApprovalStep rows of r in insertion order
  born,     \* requests whose primary key has been used
  job,      \* job[w]: what worker w is in the middle of
  scan,     \* scan[b]: rows task b has read and not yet stamped
  done,     \* targets finalised by an approval
  fired,    \* fired[r]: approval_request_approved signals sent for r
  spent     \* spent[k]: how much of Budget[k] is used up

vars == <<status, cur, steps, born, job, scan, done, fired, spent>>
rows == <<status, cur, steps, born, done, fired>>

-----------------------------------------------------------------------------
(* The chain of a request. *)

Pending(s) == {i \in DOMAIN s : s[i].status = "Pending"}

\* Faulty variant: current_step without its order_by.
CurrentStepsUnordered(s) == Pending(s)

\* The rows current_step() may return: lowest order, ties in any order.
CurrentSteps(s) ==
  {i \in Pending(s) : \A j \in Pending(s) : s[i].order <= s[j].order}

\* can_user_action: approver e-mail, then Super Admin, then role.
Eligible(u, row) ==
  \/ row.approver = u
  \/ u \in SuperAdmins
  \/ RoleOf[u] # NoRole /\ row.role = RoleOf[u]

\* apply_chain_template: only the first step's clock starts.
TemplateRows(r) ==
  [i \in 1..Len(Template[r]) |->
    [order    |-> i - 1,
     role     |-> Template[r][i].role,
     approver |-> NoUser,
     sla      |-> Template[r][i].sla,
     status   |-> "Pending",
     due      |-> IF i = 1 THEN Template[r][i].sla ELSE NoTime,
     esc      |-> NoTime,
     by       |-> NoUser]]

\* Steps sent in the create body: due_at is read-only there, so never set;
\* the status is what the body says.
InlineRows(c) ==
  [i \in 1..Len(c) |->
    [order    |-> c[i].order,
     role     |-> c[i].role,
     approver |-> c[i].approver,
     sla      |-> DefaultSla,
     status   |-> c[i].status,
     due      |-> NoTime,
     esc      |-> NoTime,
     by       |-> NoUser]]

\* The clock of the step that becomes current starts now, if it has none.
StartClock(s, j) ==
  IF s[j].due = NoTime THEN [s EXCEPT ![j].due = s[j].sla] ELSE s

\* Faulty variant: the next step's clock is never started.
PromotedNever(s) == {s}

\* The chain once the next pending step's clock runs: nothing to start if
\* none is pending, one of several if orders tie.
Promoted(s) ==
  IF Pending(s) = {} THEN {s} ELSE {StartClock(s, j) : j \in CurrentSteps(s)}

\* Faulty variant: only the pending steps are looked at.
FullyApprovedNonePending(s) == Pending(s) = {}

FullyApproved(s) == \A i \in DOMAIN s : s[i].status \notin {"Pending", "Rejected"}

-----------------------------------------------------------------------------
(* Jobs of the web workers. *)

Idle == [at |-> "idle"]
CreateJobs == [at : {"create"}, req : Requests, tmpl : Seq(NewRows), inline : Seq(NewRows)]
LoadedJobs == [at : {"loaded"}, verb : {"approve", "reject"}, user : Users,
               req : Requests, cur : Nat, count : Nat]
CheckedJobs == [at : {"checked"}, verb : {"approve", "reject"}, user : Users,
                req : Requests, cur : Nat, count : Nat, step : Nat]
PatchJobs == [at : {"patch"}, req : Requests, status : Statuses, cur : Nat]
Jobs == {Idle} \cup CreateJobs \cup LoadedJobs \cup CheckedJobs \cup PatchJobs

\* A creation is over when no row is left to insert.
AfterInsert(j) == IF j.tmpl = <<>> /\ j.inline = <<>> THEN Idle ELSE j

\* The job of a worker that has just inserted r: template rows first, by
\* the post_save receiver, then the rows of the request body.
Creation(r, c) ==
  AfterInsert([at |-> "create", req |-> r, tmpl |-> TemplateRows(r), inline |-> InlineRows(c)])

Init ==
  /\ status = [r \in Requests |-> Absent]
  /\ cur = [r \in Requests |-> 0]
  /\ steps = [r \in Requests |-> <<>>]
  /\ born = {}
  /\ job = [w \in Workers |-> Idle]
  /\ scan = [b \in Scanners |-> {}]
  /\ done = {}
  /\ fired = [r \in Requests |-> 0]
  /\ spent = [k \in Bounded |-> 0]

\* One more bounded event of kind k.
Spend(k) ==
  /\ spent[k] < Budget[k]
  /\ spent' = [spent EXCEPT ![k] = @ + 1]

-----------------------------------------------------------------------------
(* POST /approval-requests/: one commit per row. *)

\* The request row is inserted; its chain follows in the same request.
Create(w, r, b) ==
  /\ "create" \in Verbs
  /\ job[w] = Idle
  /\ r \notin born
  /\ status' = [status EXCEPT ![r] = b.status]
  /\ cur' = [cur EXCEPT ![r] = b.cur]
  /\ born' = born \cup {r}
  /\ job' = [job EXCEPT ![w] = Creation(r, b.steps)]
  /\ UNCHANGED <<steps, scan, done, fired, spent>>

\* apply_chain_template inserts its next step.
InsertTemplateStep(w) ==
  LET j == job[w] IN
  /\ j.at = "create"
  /\ j.tmpl # <<>>
  /\ status[j.req] # Absent
  /\ steps' = [steps EXCEPT ![j.req] = Append(@, Head(j.tmpl))]
  /\ job' = [job EXCEPT ![w] = AfterInsert([j EXCEPT !.tmpl = Tail(@)])]
  /\ UNCHANGED <<status, cur, born, scan, done, fired, spent>>

\* The serializer inserts the next step of the body.
InsertInlineStep(w) ==
  LET j == job[w] IN
  /\ j.at = "create"
  /\ j.tmpl = <<>>
  /\ j.inline # <<>>
  /\ status[j.req] # Absent
  /\ steps' = [steps EXCEPT ![j.req] = Append(@, Head(j.inline))]
  /\ job' = [job EXCEPT ![w] = AfterInsert([j EXCEPT !.inline = Tail(@)])]
  /\ UNCHANGED <<status, cur, born, scan, done, fired, spent>>

\* Expanding the template fails part-way: the receiver logs and goes on.
ChainFails(w) ==
  LET j == job[w] IN
  /\ j.at = "create"
  /\ j.tmpl # <<>>
  /\ \/ status[j.req] = Absent /\ UNCHANGED spent
     \/ Spend("web")
  /\ job' = [job EXCEPT ![w] = AfterInsert([j EXCEPT !.tmpl = <<>>])]
  /\ UNCHANGED rows /\ UNCHANGED scan

\* The worker dies, or an insert of the body's steps raises: what was
\* committed stays.
CreateDies(w) ==
  LET j == job[w] IN
  /\ j.at = "create"
  /\ \/ j.tmpl = <<>> /\ status[j.req] = Absent /\ UNCHANGED spent
     \/ Spend("web")
  /\ job' = [job EXCEPT ![w] = Idle]
  /\ UNCHANGED rows /\ UNCHANGED scan

-----------------------------------------------------------------------------
(* POST /approval-requests/<id>/approve/ and .../reject/. *)

\* get_object with its prefetched steps.
Load(w, u, r, v) ==
  /\ v \in Verbs
  /\ job[w] = Idle
  /\ status[r] # Absent
  /\ job' = [job EXCEPT ![w] =
       [at |-> "loaded", verb |-> v, user |-> u, req |-> r,
        cur |-> cur[r], count |-> Len(steps[r])]]
  /\ UNCHANGED rows /\ UNCHANGED <<scan, spent>>

\* can_user_action lets the caller act on the step it has read.
Check(w) ==
  LET j == job[w] IN
  /\ j.at = "loaded"
  /\ \E i \in CurrentSteps(steps[j.req]) :
       /\ Eligible(j.user, steps[j.req][i])
       /\ job' = [job EXCEPT ![w] =
            [at |-> "checked", verb |-> j.verb, user |-> j.user, req |-> j.req,
             cur |-> j.cur, count |-> j.count, step |-> i]]
  /\ UNCHANGED rows /\ UNCHANGED <<scan, spent>>

\* ApprovalError: no pending step, or not the designated approver.
Refuse(w) ==
  LET j == job[w] IN
  /\ j.at = "loaded"
  /\ \/ CurrentSteps(steps[j.req]) = {}
     \/ \E i \in CurrentSteps(steps[j.req]) : ~Eligible(j.user, steps[j.req][i])
  /\ job' = [job EXCEPT ![w] = Idle]
  /\ UNCHANGED rows /\ UNCHANGED <<scan, spent>>

\* The row as u decides it.
DecidedBy(row, u, v) == [row EXCEPT !.status = v, !.by = u]

\* Faulty variant: the pointer is kept below the number of steps.
AdvancedBelow(j) == IF j.cur + 1 < j.count THEN j.cur + 1 ELSE j.count - 1

\* The pointer, counted from the loaded row and its prefetched steps.
Advanced(j) == IF j.cur + 1 <= j.count THEN j.cur + 1 ELSE j.count

\* advance_on_approve writes: the step, the next clock, the pointer (from
\* the loaded row), and, if that completes the chain, status and effect.
CommitApprove(w) ==
  LET j == job[w]
      r == j.req
  IN
  /\ j.at = "checked"
  /\ j.verb = "approve"
  /\ j.step # 0
  /\ \E s \in Promoted([steps[r] EXCEPT ![j.step] = DecidedBy(@, j.user, "Approved")]) :
       /\ steps' = [steps EXCEPT ![r] = s]
       /\ IF FullyApproved(s)
          THEN /\ status' = [status EXCEPT ![r] = "Approved"]
               /\ fired' = [fired EXCEPT ![r] = @ + 1]
               /\ done' = done \cup ({Ref[r]} \cap Targets)
          ELSE UNCHANGED <<status, fired, done>>
  /\ cur' = [cur EXCEPT ![r] = Advanced(j)]
  /\ job' = [job EXCEPT ![w] = Idle]
  /\ UNCHANGED <<born, scan, spent>>

\* reject_request writes the step and the request.
CommitReject(w) ==
  LET j == job[w] IN
  /\ j.at = "checked"
  /\ j.verb = "reject"
  /\ j.step # 0
  /\ steps' = [steps EXCEPT ![j.req][j.step] = DecidedBy(@, j.user, "Rejected")]
  /\ status' = [status EXCEPT ![j.req] = "Rejected"]
  /\ job' = [job EXCEPT ![w] = Idle]
  /\ UNCHANGED <<cur, born, scan, done, fired, spent>>

\* The step was deleted under the handler: its UPDATE finds no row, the
\* transaction rolls back.
CommitLost(w) ==
  /\ job[w].at = "checked"
  /\ job[w].step = 0
  /\ job' = [job EXCEPT ![w] = Idle]
  /\ UNCHANGED rows /\ UNCHANGED <<scan, spent>>

-----------------------------------------------------------------------------
(* PATCH and DELETE of the request row. *)

\* The instance the serializer will write back, with the body's status and
\* current_step over it when the body carries them.
LoadPatch(w, r) ==
  /\ "patch" \in Verbs
  /\ job[w] = Idle
  /\ status[r] # Absent
  /\ \E st \in PatchStatus \cup {status[r]}, c \in PatchCur \cup {cur[r]} :
       job' = [job EXCEPT ![w] = [at |-> "patch", req |-> r, status |-> st, cur |-> c]]
  /\ UNCHANGED rows /\ UNCHANGED <<scan, spent>>

\* instance.save() writes every column, whatever has changed since.
CommitPatch(w) ==
  LET j == job[w] IN
  /\ j.at = "patch"
  /\ status' = [status EXCEPT ![j.req] = j.status]
  /\ cur' = [cur EXCEPT ![j.req] = j.cur]
  /\ job' = [job EXCEPT ![w] =
       IF status[j.req] = Absent
       THEN Creation(j.req, <<>>)  \* the save inserts, and the receiver runs
       ELSE Idle]
  /\ UNCHANGED <<steps, born, scan, done, fired, spent>>

\* The row goes with its steps; those who hold one hold a row that is gone.
Delete(r) ==
  /\ "delete" \in Verbs
  /\ status[r] # Absent
  /\ status' = [status EXCEPT ![r] = Absent]
  /\ steps' = [steps EXCEPT ![r] = <<>>]
  /\ job' = [w \in Workers |->
       IF job[w].at = "checked" /\ job[w].req = r THEN [job[w] EXCEPT !.step = 0] ELSE job[w]]
  /\ scan' = [b \in Scanners |->
       {IF x[1] = r THEN <<r, 0>> ELSE x : x \in scan[b]}]
  /\ Spend("delete")
  /\ UNCHANGED <<cur, born, done, fired>>

-----------------------------------------------------------------------------
(* iams.workflows.escalate_overdue_steps *)

\* Faulty variant: no dedupe window.
EscalatableAlways(row) == row.status = "Pending" /\ row.due # NoTime /\ row.due < 0

\* overdue_pending_steps: Pending, past due, outside the dedupe window.
Escalatable(row) ==
  /\ row.status = "Pending"
  /\ row.due # NoTime /\ row.due < 0
  /\ row.esc = NoTime \/ row.esc > Dedupe

StepIds == UNION {{r} \X DOMAIN steps[r] : r \in Requests}

\* Faulty variant: a step is escalated once in its life.
OverdueRowsOnce ==
  {x \in StepIds : Escalatable(steps[x[1]][x[2]]) /\ steps[x[1]][x[2]].esc = NoTime}

OverdueRows ==
  {x \in StepIds : Escalatable(steps[x[1]][x[2]])}

\* The task materialises its rows before it changes any.
StartScan(b) ==
  /\ scan[b] = {}
  /\ OverdueRows # {}
  /\ scan' = [scan EXCEPT ![b] = OverdueRows]
  /\ UNCHANGED rows /\ UNCHANGED <<job, spent>>

\* One row is stamped, and its people notified, without being read again.
EscalateStep(b) ==
  \E x \in scan[b] :
    /\ x[2] # 0
    /\ steps' = [steps EXCEPT ![x[1]][x[2]].esc = 0]
    /\ scan' = [scan EXCEPT ![b] = @ \ {x}]
    /\ UNCHANGED <<status, cur, born, job, done, fired, spent>>

\* The worker dies, or a row to stamp is gone: the rest of the list is lost.
ScanDies(b) ==
  /\ scan[b] # {}
  /\ \/ (\E x \in scan[b] : x[2] = 0) /\ UNCHANGED spent
     \/ Spend("task")
  /\ scan' = [scan EXCEPT ![b] = {}]
  /\ UNCHANGED rows /\ UNCHANGED job

\* A tick passes: due dates approach, escalations age.
Aged(row) ==
  [row EXCEPT !.due = IF @ = NoTime \/ @ < 0 THEN @ ELSE @ - 1,
              !.esc = IF @ = NoTime \/ @ > Dedupe THEN @ ELSE @ + 1]

Tick ==
  /\ steps' = [r \in Requests |-> [i \in DOMAIN steps[r] |-> Aged(steps[r][i])]]
  /\ UNCHANGED <<status, cur, born, job, scan, done, fired, spent>>

-----------------------------------------------------------------------------

Next ==
  \/ \E w \in Workers :
       \/ \E r \in Requests :
            \/ \E b \in Bodies : Create(w, r, b)
            \/ \E u \in Users, v \in {"approve", "reject"} : Load(w, u, r, v)
            \/ LoadPatch(w, r)
       \/ InsertTemplateStep(w) \/ InsertInlineStep(w) \/ ChainFails(w) \/ CreateDies(w)
       \/ Check(w) \/ Refuse(w) \/ CommitApprove(w) \/ CommitReject(w) \/ CommitLost(w)
       \/ CommitPatch(w)
  \/ \E r \in Requests : Delete(r)
  \/ \E b \in Scanners : StartScan(b) \/ EscalateStep(b) \/ ScanDies(b)
  \/ Tick

\* Celery beat starts the scan every night and a running task goes on; time
\* passes.  Nobody is obliged to approve, reject or create anything.
Fairness ==
  /\ WF_vars(Tick)
  /\ \A b \in Scanners : WF_vars(StartScan(b)) /\ WF_vars(EscalateStep(b) \/ ScanDies(b))

Spec == Init /\ [][Next]_vars

FairSpec == Spec /\ Fairness

-----------------------------------------------------------------------------
(* Properties. *)

\* Every variable has its type.
TypeOK ==
  /\ status \in [Requests -> Statuses \cup {Absent}]
  /\ cur \in [Requests -> Nat]
  /\ steps \in [Requests -> Seq(Rows)]
  /\ born \subseteq Requests
  /\ job \in [Workers -> Jobs]
  /\ scan \in [Scanners -> SUBSET (Requests \X Nat)]
  /\ done \subseteq Targets
  /\ fired \in [Requests -> Nat]
  /\ spent \in [Bounded -> Nat]

Decided(row) == row.status # "Pending"

\* Every row of s stored before row i with a lower order is decided.
InTurn(s, i) ==
  /\ i \in DOMAIN s
  /\ \A k \in DOMAIN s : k < i /\ s[k].order < s[i].order => Decided(s[k])

\* Nobody signs out of turn: approve and reject decide a step only when no
\* step that was inserted before it with a lower order is left pending.  The
\* row that gets a decision is the one the worker was cleared for earlier.
SignedInTurn ==
  [][\A r \in Requests : \A i \in DOMAIN steps[r] \cap DOMAIN steps'[r] :
       steps'[r][i].status # steps[r][i].status => InTurn(steps'[r], i)]_vars

\* The order survives stale decisions because a step that a worker has been
\* cleared to decide stays in turn, and its worker entitled, until it is
\* deleted.
Cleared ==
  \A w \in Workers : job[w].at = "checked" /\ job[w].step # 0 =>
    /\ InTurn(steps[job[w].req], job[w].step)
    /\ Eligible(job[w].user, steps[job[w].req][job[w].step])

\* Who decided a step was entitled to, and approved or rejected it.
Signed(row) ==
  row.by # NoUser => row.status \in {"Approved", "Rejected"} /\ Eligible(row.by, row)

SignaturesHold ==
  \A r \in Requests : \A i \in DOMAIN steps[r] : Signed(steps[r][i])

SigningInv == TypeOK /\ Cleared /\ SignaturesHold

\* advance_on_approve announces an approval, and so finalises the row the
\* request refers to, only with every stored step approved by somebody who
\* may decide it; the exception is a step nobody ever decided because the
\* create body sent it as Approved or Returned.
SignedBeforeEffect ==
  [][\A r \in Requests : fired'[r] # fired[r] =>
       /\ steps'[r] # <<>>
       /\ \A i \in DOMAIN steps'[r] : LET row == steps'[r][i] IN
            IF row.by = NoUser
            THEN row.status \in StatusesSent \cap {"Approved", "Returned"}
            ELSE row.status = "Approved" /\ Eligible(row.by, row)]_vars

\* What has become of a request: its status, or, when its row is gone, that.
Outcome == [r \in Requests |-> IF r \in born /\ status[r] = Absent THEN "Withdrawn" ELSE status[r]]

\* One request, one decision: an approval request implements its contract.
Contract == INSTANCE ApprovalContract WITH outcome <- Outcome
ContractSpec == Contract!Spec

\* The request's status is the verdict of its steps, also after approvers
\* went on acting on what a rejection left pending.
OutcomeMatchesSteps ==
  \A r \in Requests :
    /\ status[r] = "Approved" =>
         /\ steps[r] # <<>>
         /\ \A i \in DOMAIN steps[r] : steps[r][i].status = "Approved"
    /\ status[r] # Absent =>
         (status[r] = "Rejected" <=> \E i \in DOMAIN steps[r] : steps[r][i].status = "Rejected")

Creating(r) == \E w \in Workers : job[w].at = "create" /\ job[w].req = r

\* The step whose turn it is in an open request is on the clock, so that the
\* nightly scan can find it late.
CurrentOnClock ==
  \A r \in Requests : status[r] = "Pending" /\ ~Creating(r) =>
    \A i \in CurrentSteps(steps[r]) : steps[r][i].due # NoTime

\* An open request always has a step that one of the users may decide, and
\* that step is on the clock: it waits for somebody, and not unnoticed.
NeverStranded ==
  /\ \A r \in Requests : status[r] = "Pending" /\ ~Creating(r) =>
       \E i \in CurrentSteps(steps[r]), u \in Users : Eligible(u, steps[r][i])
  /\ CurrentOnClock

\* An overdue step does not stay overdue and outside the dedupe window: it is
\* escalated again, decided or deleted, although tasks may die.
OverdueIsChased ==
  \A r \in Requests, i \in 1..MaxRows :
    (i \in DOMAIN steps[r] /\ Escalatable(steps[r][i]))
      ~> ~(i \in DOMAIN steps[r] /\ Escalatable(steps[r][i]))

\* No step is escalated twice within the dedupe window.
EscalationDeduped ==
  [][\A r \in Requests : \A i \in DOMAIN steps[r] \cap DOMAIN steps'[r] :
       steps'[r][i].esc = 0 /\ steps[r][i].esc # NoTime /\ steps[r][i].esc # 0
         => steps[r][i].esc > Dedupe]_vars

\* The claim of iams/tests/test_workflows.py: once a request is rejected, its
\* status gates further action on the steps left pending.
StatusGatesAction ==
  [][\A r \in Requests : status[r] = "Rejected" /\ status'[r] = "Rejected" =>
       Pending(steps'[r]) = Pending(steps[r])]_vars

\* The claim of iams/signals.py: steps sent in the create body win over the
\* chain template.
CallerChainWins ==
  \A r \in born : (\A b \in Bodies : b.steps # <<>>) =>
    \E b \in Bodies : Len(steps[r]) <= Len(b.steps)
=============================================================================
