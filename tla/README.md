# TLA+ verification of the IAMS backend

IAMS is an Internal Audit Management System: a Django REST API (gunicorn web
processes), Celery workers with a beat scheduler, PostgreSQL, Redis and object
storage.  This directory holds TLA+ models of the parts where several actors
write the same rows, TLC configurations that check them, and TLAPS proofs.

Three facts about the deployment shape every model:

- **No transaction spans a request.**  `ATOMIC_REQUESTS` is off and PostgreSQL
  runs READ COMMITTED.  A handler loads its row with one query and writes it
  with another; one view in the code base takes a row lock
  (`AuditableEntityViewSet.perform_update`).  A handler is therefore modelled
  as a *job* of a web process that goes through its reads and commits.
- **`instance.save()` writes every column** it was loaded with unless
  `update_fields` is given.  A PATCH is modelled as a write of the whole copy.
- **Celery acknowledges late** (`CELERY_TASK_ACKS_LATE`), so a task can run
  twice; beat runs each scheduled task once per period.

## 1. Inventory

| Component | State | Operations | Hard behaviours | What makes it correct |
|---|---|---|---|---|
| Approval workflow (`workflows.py`, `tasks/workflows.py`, receivers in `signals.py`, `ApprovalRequestViewSet`) | `ApprovalRequest`, `ApprovalStep`, chain templates; the CAP, report or scoring model an approval finalises | create (template or inline steps), approve, reject, PATCH, DELETE, nightly escalation | overlapping approvers, creation that commits row by row, stale PATCH, a task that dies between stamps | nobody signs out of turn; an effect only when every step is signed or was sent as handled; one decision per request; nobody waits for ever; late steps are chased, once per window |
| Working papers (`working_papers.py`, `WorkingPaperViewSet`, `WorkingPaper.save/delete`) | versions, current flag, two signatures, lock | create, PATCH, sign as auditor and reviewer, new version, delete; cascade from the engagement | check on a copy, write later; partial unique index | two people sign; what is signed stays; a chain has a head |
| Virus scanning (`tasks/scans.py`, upload and update handlers, download gate) | scan columns of evidence, documents and papers; the queue | upload, replace, scan, retry, redeliver, download | verdict about a file that was replaced, outages, duplicate tasks | what a gate serves is clean, or a document whose scan is on its way; every verdict arrives; every scan ends |
| Audit universe (`AuditableEntityViewSet`, `risk_rollup.py`) | entities with a version, revisions, risk history, derived rating | PATCH under an optimistic lock, archive, restore, override, roll-up; another scoring model going live | lock taken after the copy was read; a swallowed collision; derived state | no lost update; revision n describes version n; rating is a function of risks and scores |
| Hierarchy and materiality (`domain_serializers.py`, `backfills.py`, `materiality.py`) | parents, derived links; figures per entity and period, the cache the register sorts by | create, clone, move, archive, restore, backfill; capture, PATCH, delete, rebuild | a cycle check that walks rows under way; a cache stored after the figures it was built from changed | the register shows every entity it reads below nothing it does not, with its worst rating; a cache is the newest figure |
| Risk engine (`risk_engine.py`, `readiness.py`) | factors, weighted models (draft, active, retired), current scores, ranks, plan drafts | record a score, recompute, publish, draft the annual plan | ranks from a list read earlier; activations that do not see each other; references chosen by counting | dense ranks; one model live; a plan that spends its days as promised |
| CSA (`csa.py`) | questionnaires, responses, answers, challenges | submit, challenge, resolve, close | response status derived from its answers without a lock | under review iff a challenge is open |
| ICFR (`icfr.py`) | controls, tests, deficiencies | record a result, open, close | a result goes by the test as loaded | a deficient verdict has its report |
| Authentication (`security.py`, `mfa.py`, `views/auth.py`) | attempts, lockouts, password history, MFA devices | log in, fail, lock, unlock, change and reset a password, enrol | counting in a sliding window; concurrent failures and changes; saves of the whole user row; a death between a password and its record | a bound on the guesses; the password in force is remembered; a confirmed device stays |
| RBAC and users (`rbac_matrix.py`, `permissions.py`, `views/roles.py`, `sso.py`) | roles, their matrix, profiles, group mappings | edit the matrix, create and edit users, SSO sign-in | a matrix written cell by cell; two first sign-ins; a token minted after others may have written the role | shown keys are enforced keys; who holds a token has a role |
| Integrations (`integrations.py`, `views/integrations.py`) | sources, events, externally owned rows | inbound upserts, outbound push | duplicate and overlapping webhooks, archived rows, failed pushes, a round of pushes that breaks off | the events tell what is stored |
| Notifications (`notifications.py`, `tasks/notify.py`) | notifications, preferences, emails under way | dispatch, e-mail, nightly reminders | scans and emails that run again | nobody is reminded twice a night or forgotten; a marked email went out |
| Report issuance (`signals.py`, `AuditReport`, `Finding`) | report status, issued findings | edit, approve, delete; edits by auditors and auditees | prior status read separately from the write | what was covered is issued |
| Jobs (`tasks/bulk_import.py`, `tasks/risk_assessment_import.py`, `tasks/reports.py`) | job rows, what they wrote, files | upload, run, fail, run again | a row that fails half-way; a worker that dies; two rebuilds; a PATCH of a record that is deleted | a finished job tells the truth |
| Dashboards, audit log, QAIP, filters, metrics, settings | see `PROJECT.json` | reads, appends, CRUD | | |

Interactions: an approved request finalises a CAP, a report or a scoring model
and issues findings (signal, same transaction); the risk engine opens approval
requests for annual plans; the views open them for model changes; risks, scores,
CSA answers and test results move an entity's rating through the roll-up;
uploads of evidence, documents and papers go to the scan task; almost everything
dispatches notifications and appends to the audit log, which nothing reads back.

Where two components meet, the receiving one has the other's writes among its
actions: `Approvals` finalises the approved row, and `Engagements` and `RiskModels` have
that finalisation as an action (`ReportApproved`, `LoadApproved`); `AuditUniverse` has the
imports, the webhook, the weak self-assessment and the recorded score as writers of
its row (`ImportSave`, `Ingest`, `FlagWeak`, `RecordScore`); `EntityTree` and `Materiality` have
the entity's PATCH and import.

`PROJECT.json` lists every component, and under `hazards` the places in the code
where a test would hardly reach what can go wrong, with the property about each.

## 2. Plan

| Modules | Runs | Proofs |
|---|---|---|
| `ApprovalContract`, `Approvals` (section 3) | `approvals_*`, `MCApprovals` | `Approvals_proofs` |
| `WorkingPapers` (section 4) | `papers*`, `MCWorkingPapers` | `WorkingPapers_proofs` |
| `FileScans` (section 5) | `scans*`, `MCFileScans` | `FileScans_proofs` |
| `AuditUniverse` (section 6) | `universe*`, `MCAuditUniverse` | `AuditUniverse_proofs` |
| `Lockouts`, `Credentials`, `AccessMatrix`, `SsoProfiles`, `BackgroundJobs`, `Reminders`, and `Platform`, which composes them (section 7) | `platform`, `MCPlatform` | `Accounts_proofs` (the first four), `Platform_proofs` (the rest) |
| `RiskScores`, `RiskModels`, `AuditPlans`, `SelfAssessments`, `ControlTests`, `Integrations`, `Engagements`, `EntityTree`, `Materiality`, and `Assurance`, which composes them (section 8) | `assurance`, `MCAssurance` | `Assurance_proofs` |

`SumFacts` holds the lemmas about sums and recursive functions that several of the proofs
need.  No module that is proved about declares a RECURSIVE operator; recursion is written
as recursive functions and folds.

The plan is carried out: everything the passing runs check is a theorem, up to the two
liveness properties, which section 9 explains.

## 3. Approvals

### State and actions

| TLA+ | code |
|---|---|
| `status[r]`, `cur[r]` | `ApprovalRequest.status`, `.current_step` |
| `steps[r]` | its `ApprovalStep` rows in insertion order: order, role, approver, SLA, status, `due_at`, `escalated_at` |
| `by` of a step | history: who decided it with approve or reject |
| `done`, `fired` | rows finalised by, and occurrences of, `approval_request_approved` |
| `job[w]` | where web process `w` is between two commits, and the copies it holds |
| `scan[b]` | the rows an escalation task has read and not yet stamped |
| `Create`, `InsertTemplateStep`, `InsertInlineStep` | POST: the insert of the request, then the receiver `apply_chain_template`, then the serializer's steps, each insert its own commit |
| `ChainFails`, `CreateDies` | the exception the receiver swallows; a failing insert or a worker that dies |
| `Load`, `Check`, `Refuse`, `CommitApprove`, `CommitReject`, `CommitLost` | the `approve` and `reject` handlers: `get_object` with its prefetch, `can_user_action`, then `advance_on_approve` / `reject_request` with every receiver they trigger |
| `LoadPatch`, `CommitPatch`, `Delete` | PATCH (whole-row save, which re-inserts a deleted row) and DELETE |
| `StartScan`, `EscalateStep`, `ScanDies`, `Tick` | the nightly task, and time |

The writes of one decision are one step.  This is sound: they start with the
row lock of the step they update and `request.save(current_step)`, which comes
before the two `exists()` queries, holds the lock of the request until commit,
so two decisions of one request are serialised from there on and the queries
see each other's commits.  The decision *who* may act, however, is read before
any lock and is a step of its own.

Time is relative: a due date counts down to -1 and an escalation stamp counts
up until it is out of the window, so that time passes for ever in a finite
state space.  A step that has no date has `NoTime`.

`ApprovalRequestSerializer` leaves `status` and `current_step` writable, and
`ApprovalStepSerializer` the status of a step, so a create body may name any of them
(`CreateBodies`, `InlineSteps`), and a PATCH body the first two (`PatchStatus`, `PatchCur`).
The constant `Bodies` says which bodies an instance sends; `ChainInOrder` and `EffectSigned`
hold for all of them.  A step created as Approved or Returned is never current and
stands in nobody's way, so the two properties are about what *people decide* and say
how far such a step goes: `SignedInTurn` restricts approve and reject,
and `SignedBeforeEffect` excepts exactly the steps that nobody decided and that a body sent
as handled.  That a request takes effect only with every step signed by a person is
therefore not a property of this API, and is not claimed.

### Runs

- `approvals_serial`: one web worker, bodies that name no status, two requests with chains of two steps and
  one step, one deletion, the escalation task in parallel.  Handlers do not overlap, and the
  request implements `ApprovalContract` (opened once, decided at most once,
  its effect in the very step that approves it, gone for good once deleted).  The status is the verdict of the
  steps (`OutcomeMatchesSteps`), the step whose turn it is is on the clock and an
  open request always has somebody who can act (`NeverStranded`), no step is escalated twice in its window
  (`EscalationDeduped`), and an overdue step is chased even though a task may die
  (`OverdueIsChased`).
- `approvals_concurrent`: two web workers on one request with a template step
  and an optional inline step behind it, or one sent as Returned with a request sent as
  Approved; PATCH with a status, DELETE, and one fault.  What
  survives is `SignedInTurn` and `SignedBeforeEffect`.  A chain of two steps
  is the shortest in which order means something, two workers the fewest that race.
- `approvals_rejected` shows the disagreement between a test's comment and the
  code: after a rejection the remaining steps can still be decided, since only the
  steps gate an action, not the request's status.
- `approvals_inline` shows that a create body with steps does not replace the
  template's chain, against the receiver's docstring: `post_save` fires inside
  `objects.create()`, before the serializer inserts the steps.

SLAs and the window are one tick: on time, due, overdue, freshly escalated and
out of the window are then all distinct values, and larger numbers add only
waiting.

### Fairness

`Tick`, `StartScan` and the progress of a task that has started are weakly fair:
beat starts the scan every night (`config/settings/base.py:417`) and a started
task runs.  No fairness is assumed of the people or the web processes; a task may
die, and the next night's scan picks up what it left.

### Proofs (`Approvals_proofs`)

- `TypeCorrect`: `Spec => []TypeOK`.
- `ChainInOrder`: `Spec => SignedInTurn`.  A worker may be cleared for a step long
  before it writes, so the step needs an invariant, `Cleared`: a step that a worker
  has been cleared to decide stays in turn, and the worker entitled to it,
  until it is deleted, because decided rows never become pending again and rows
  are only appended.
- `EffectSigned`: `Spec => SignedBeforeEffect`.  The invariant adds `SignaturesHold` (who decided
  a step was entitled to, and approved or rejected it) and that a step nobody decided has a
  status it may have been inserted with.

These hold for any number of requests, workers, scanners and users, any templates
and bodies, under `ConstantsAssumption`.  The next four are claims the code makes
only where something does not overlap, and their hypotheses say exactly what:

- `ReminderSpaced`: `OneScanner /\ Spec => EscalationDeduped`.  Two escalation tasks at
  once both read a row before either stamps it.  `DedupeInv`: what the task has read and
  not yet stamped is still outside its window, however often web requests rewrote or
  deleted the row meanwhile, since none of them writes a stamp.
- `StatusTells`: `Orderly /\ Spec => []OutcomeMatchesSteps`.  `Orderly` is one web
  worker, no PATCH and create bodies that name no status (`PlainBodies`): a second approver, a
  PATCH or a body may write a status that is not the verdict of the steps.
  `VerdictInv` adds to the verdict that a chain still being inserted has no decision, and
  that a worker cleared for a step finds it pending.
- `OneDecision`: `Orderly /\ Spec => ContractSpec`: each step maps to a step of
  `ApprovalContract` or to a stutter (`StepContract`).  The mapping is `Outcome`: the status of the
  row, or "Withdrawn" when its key is used and the row is gone.  A PATCH that overlaps a DELETE
  brings the request back, and a body may open it decided, which is why `Orderly` is needed here too.
- `SomebodyNext`: `Orderly /\ Staffed /\ Spec => []NeverStranded`.  `Staffed`: no inline
  steps, no creation that fails half-way, and for every step of a template, of which there is one
  at least, a user who may take it.  Without any of these a request can be
  stranded.  `ServedInv`: positions are numbered through, the current steps have a
  clock, and the rows still to be inserted continue the numbering.

The three added invariants were checked by TLC first, on the instance of
`approvals_serial`, where the hypotheses hold.

## 4. WorkingPapers

| TLA+ | code |
|---|---|
| `paper[p]` | the `WorkingPaper` row: chain (`ref`), parent, version, current flag, status, content, both signatures, `signed_off_at` |
| `job[w]` | the verb a web process serves and the copy of the row it loaded |
| `audits` | engagements, whose deletion cascades |
| `raced` | history: papers some handler wrote from a copy whose chain, current flag or signatures were out of date |
| `Load`, `Drop` | `get_object`; a refusal, a database error or a dying worker |
| `Patch`, `SignAuditor`, `SignReviewer`, `NewVersion`, `Delete`, `DeleteAudit` | the handlers with the checks of `WorkingPaper.save()` and `delete()`, the partial unique index and the foreign keys |

`raced` is what makes the claims exact.  The lock and the separation of duties are
tested on the loaded copy, so they *do not* survive a stale write: a PATCH that was
loaded before the reviewer signed removes both signatures.  The properties are
stated for the papers that no stale write has touched, and say that nothing else
breaks them.

- `papers`: two workers, two papers, two chains, two signers, two PATCHes:
  `SignedByTwo` (IIA 2330), `LockedOnceSigned` (FR-WP-06), `HeadKept` (a chain that
  has a current version keeps one, except in the listed ways).  Two workers are
  needed for every race, two papers for a version and its successor or for two
  papers of one chain.  Deadlock is not checked: primary keys and engagements
  run out, so the bounded system stops.
- `papers_review`: the code comment that edits are blocked under review is
  contradicted by the code.

Proved in `WorkingPapers_proofs`, for any number of workers, papers, chains and
signers: see section 9.

## 5. FileScans

| TLA+ | code |
|---|---|
| `row[r]` | file, `scan_status`, `quarantined` of an `EvidenceFile`, `ManagedDocument` or `WorkingPaper` |
| `job[w]`, `queue`, `task[c]` | a web process between its commits; Celery messages; a worker and the row it has loaded |
| `Upload`, `Load`, `Save`, `Reset`, `Dispatch` | create and PATCH: store, save the copy back, reset the verdict, `delay()` |
| `Begin`, `Finish`, `Broken`, `Outage`, `StorageDown`, `WorkerDies` | `scan_uploaded_file`: load, verdict, fail-closed on a client error, retry on a connection error, a storage that cannot be asked for the size, redelivery |
| `spoiled` | history: rows whose verdict need not be about their file any more (stale PATCH, replaced file whose scan was under way, a lost dispatch, retries used up without a verdict) |

- `scans`: a row of each kind, two uploads or PATCHes, a clean, an infected and an
  oversized file, one retry, two outages (so that retries do run out), one broken
  scan and two deaths: `ServedIsClean`, `VerdictIsIn`, and under fairness `ScansEnd`.
  The code's three retries and their delays are reduced to one: what matters is
  that a retry can succeed, fail and be the last.
  Deadlock is not checked: uploads run out.
- `scans_race`: a PATCH of a document's title overlapping its scan writes the old
  scan columns back, against the docstring of `tasks/scans.py`.

`Served` is the gate of each kind: the download endpoints of evidence and papers
refuse a pending or quarantined file, `ManagedDocumentSerializer.get_downloadUrl` only a
quarantined one.  So `ServedIsClean` says that what passes its gate is a file clamd lets
pass, or a document whose scan is pending and on its way; that a document is clean before
its link is shown does not hold.  Two representations carry a storage URL without
asking any gate, the `file` field of a paper's row and the answer to the write of a document;
they are outside `Served`, and nothing is claimed of them.

Proved in `FileScans_proofs` for any number of rows, files, web processes and workers:
`ScansTypeOK`, `ScansServedIsClean`, `ScansVerdictIsIn`.  The last two follow from `RowsSound`
(`ScansSound`): the verdict of a stored row that is not spoiled is about its file, or somebody is
about to reset it, or it is pending and its scan is owed: a handler is about to dispatch it, or
a message or a task is on its way (`Awaited`).  `ServedIsClean` alone is not inductive,
as a scan that ends would have to know that the file it read is still stored.

Fairness: a handler that has begun goes on, and Celery workers take what is queued
and end what they took; the hard time limit of a task (`CELERY_TASK_TIME_LIMIT`)
bounds a scan.  Outages and deaths are bounded, as retries would otherwise be the
only thing that ends a scan.

## 6. AuditUniverse

| TLA+ | code |
|---|---|
| `row[e]` | the `AuditableEntity` row: status, what clients write (`text`), version, residual likelihood and impact, `risk_rating`, `risk_rating_is_overridden` |
| `revisions[e]`, `history[e]` | the versions that have an `AuditableEntityRevision`; the rating of the latest `RiskHistoryEntry` |
| `risk[r]`, `score[e]` | `EntityRisk` rows; the active model's current `EntityRiskScore` |
| `job[w]` | where a web process or Celery worker is, the instance it holds and, after a risk has moved, the entity that is re-rolled next |
| `Create`, `Load`, `Patch`, `Archive`, `Destroy`, `Restore` | `perform_create`; `get_object`; `perform_update` (one transaction under the row lock, but on the instance loaded before it); `archive`, DELETE, `restore` |
| `Pin`, `PinNote`, `Release`, `ReleaseNote`, `Reset` | the commits of `override_rating` and `reset_risk_overrides` |
| `RecordScore` | `record_score` with its roll-up |
| `Activate` | another scoring model going live (`RiskScoringModel.save()`): every entity's current score is now that model's |
| `WriteRisk`, `DeleteRisk`, `Fetch`, `Compute`, `SaveRoll`, `Note` | the `EntityRisk` signals and the commits of `recompute_entity_risk_position` |
| `ImportNew`, `ImportSave`, `ImportPin`, `ImportNote` | a spreadsheet row and the rating it may carry |
| `Ingest`, `FlagWeak` | the inbound webhook; a weak control self-assessment |
| `Drop` | a refusal, a constraint, a swallowed savepoint or a dead process between two commits |

`Band`, `Outranks`, `Worst` and `Resolve` are the pure rules: the band of a position,
the driving risk, and what decides a rating (override, high-risk score, risks,
low-risk score, in this order).

`raced` holds the entities for which nothing is claimed any more: a handler wrote
them from an instance that was not the row, left them between two commits, or a
writer that takes no new version changed them (webhook, self-assessment, an
import that sets a rating while somebody holds an instance, an import that clears
the override without a roll-up).  Only PATCH has a lock against the first of
these, so PATCH is not counted: that its lock suffices is a claim, and proved.

`switched` holds the entities whose score has come with another model since their last
roll-up.  Every reader of the engine's score goes by the active model
(`_active_engine_score`), so activating one changes what each entity *should* be rated, and
nothing rolls it up: the stored rating stays what the old model made of it until the
next risk, score, override or PATCH of that entity.  `RolledUp` is claimed for the entities
that are neither raced nor switched, and a roll-up clears `switched`; that a rating follows the
live model at once does not hold and is not claimed.

The inherent position and the two `..._is_overridden` flags of the positions
are left out (the first is computed like the residual one), a closed risk is a row
with `open = FALSE`, `clone` is `Create`, NULL columns are 0.  A risk's deletion is
one step with its `post_delete`, as it is one transaction.

- `universe`: two workers on one entity, with every handler, and a second entity
  for the only risk to be moved to and from.  `NoLostUpdate` and `StatusRecorded` are
  about overlapping writers; `HistoryReplays`, `RolledUp` and `RevisionsBehind` about any
  sequence of handlers, once none is under way.  Two positions, one of them
  outside the default rating's band, two scores, one model to activate and the pinned rating `Critical`
  give every branch of `Resolve`.  A handler starts if it cannot pass version 3: a
  change of status takes one version, a writer and its roll-up two, so two handlers in
  a row or at once fit, among them archive and restore.
  (With version 4 and one entity there are 3.8 million states and nothing
  changes.)  The state constraint drops states in which some entity is raced, of
  which nothing is claimed and which stay so.  Deadlock is not checked: versions
  run out.
- `universe_release`: releasing an override writes no revision, against the comment
  in `override_rating`: the flag and the version are not tracked fields.

### Proofs (`AuditUniverse_proofs`)

- `TypeCorrect` rests on `WellFormed`: an update writes over a row, so that it is typed
  only because the entities that risks and handlers refer to have rows
  (`Anchored`).  `WorstExists` shows that among any open risks one drives the entity;
  without it a roll-up could store anything.
- `LockKeepsEdits` and `StatusIsRecorded` rest on `PatchesCompare`: while a PATCH is under
  way its instance is not newer than the row, and if it has the row's version it
  has its text and status.  It is kept since every committed step on an entity that
  is not raced takes a later version or leaves text and status alone (`RowsStep`).

- `HistoryAlwaysReplays`, `AlwaysRolledUp` and `RevisionsStayBehind` rest on `TrailInv`
  (`TrailsKept`).  In the middle of a handler the rating is ahead of the history and behind the
  risks; but then some handler still owes the entry (`Notes`) or the roll-up (`Owes`), and it
  either pays, or finds that its instance is not the row, which puts the entity into
  `raced`.  The proof needs that a second roll-up changes nothing: `Resolve` and `Worst`
  read no more of the row than the flag and the rating of an override.  A release writes its
  revision last, so `Behind` keeps its instance from being ahead of the row.

They hold for any number of entities, risks and workers, and any texts,
positions, scores and pins, under `ConstantsAssumption`.  The bound `MaxVersion` limits
when handlers start; it is an arbitrary number in the theorems.

## 7. The platform: sign-in, roles, jobs, reminders

`Platform` composes six modules that share no state: a step is a step of one of them
(`LockMoves`, `JobMoves` and so on), and the others stand still.  For TLC their product would
only multiply states, so in `MCPlatform` a behaviour stays in the *area* it starts in and takes the
steps of one module.  Every step below is one commit or one read that is used later.

| Module | State ↔ code | Actions ↔ code |
|---|---|---|
| `Lockouts` | `rows` = `LoginAttempt` by time and outcome; `lock` = the uncleared `AccountLockout`; `account` = what the gates read of the user | `LoginArrives`, `WrongPassword`, `RightPassword` = the view; `CountFailures`, `OpenLockout` = `register_failure`; `Unlock` = the administrator |
| `Credentials` | `hash` = `User.password`, with the password it is of; `history` = `PasswordHistory`; `links` = mailed tokens; `devices` = `MFADevice` | `ChangePassword`, `ResetPassword`, then `SetPassword`, `RecordPassword`, `TrimHistory`; `LoadAccount`, `SaveAccount` = a PATCH of the user, by an administrator or on `/me`, which saves every column; `RequestDies`; `Enrol`, `DropUnconfirmed`, `CreateDevice`, `Confirm`, `MarkConfirmed`, `DisableFactor` |
| `AccessMatrix` | `super` = `is_super_admin`; `cells` = `RoleModuleAccess` | `PutAccess`, `PutCell` = the matrix endpoint, cell by cell; `HasPermission` = the gate; `DerivedPermissionKeys` = what the client is shown |
| `SsoProfiles` | `roles`, `mapping`, `profile`, `tokens` | `Provision`, `ProvisionProfile` = `create_user`; `Sync`, `SaveRole` = `update_user`; `MintToken` = the callback, which looks at neither; `EditUser`, `SaveUser` = PATCH of a user; `CreateUser`, `AddUser`, `AddProfile` = POST of one; `RequestEnds`; role and mapping endpoints |
| `BackgroundJobs` | `jobs` = `BulkImportJob`, `RiskAssessmentImportJob`, `ReportJob`; `runs` = where each task is; `entities`, `records`, `summaries`, `storage` = what it writes | the task of each kind row by row, with failing rows, crashes, deaths and redelivery; `DeleteRecord`, `EditRecord`, `SaveEdit` = DELETE and PATCH of an imported record |
| `Reminders` | `notes` = `Notification`; `mails` = email tasks; `scans` = the nightly task | `StartScan`, `CheckCap`, `Dispatch`, `NextQuery`; `SendMail`, `MarkMailed`, `MailFails`; `SetPreference`, `CloseCap`, `NextNight` |

The run `platform` checks, of these modules in turn:

- `GuessesBounded`.  "No more than `IAMS_LOGIN_FAIL_THRESHOLD` wrong passwords in a window"
  does not hold: requests that passed the lockout test before it was opened are still
  evaluated, and an unlock clears no attempts but lets as many in again.  The
  property is the bound that does hold.  With more requests at once than the threshold,
  their number takes its place: what ran on after a lockout opened is still in the window
  when the lockout ends, which an attempt to prove the bound with the threshold alone brought out.
- `CurrentIsRemembered`: the password in force is in the history the next one is
  compared with, although two changes at once record in an order of their own.  Two things in
  the code break the plain claim and are excepted through `astray`, until the next change: a PATCH of
  the user that was loaded before a change writes the old hash back with the whole row, though
  nobody changed a password, and a worker may die after `user.save` and before
  `record_password_change`.
- `EnrolmentKept`: no enrolment takes a confirmed device away.
- `KeysAgree`: two computations, one over the map with defaults and one over the rows,
  give the same keys, in every state of a half-written matrix.
- `SignInGivesRole`: whoever holds a token of an SSO sign-in has a role.  The role is committed
  by `update_user` or `create_user` and the token minted by the callback, with other requests in
  between: administrators add the same person, edit them, and delete roles.  Excepted
  (`stripped`) is who lost the role to a save of a profile loaded before it was given, until it
  is given again.
- `JobsTellTheTruth`: counters, strictness, summary items and the ready message of a
  finished job agree with what is stored.  A record that a PATCH inserted again after its
  deletion (`save()` of a row that is gone) has no summary item until the next import rebuilds
  them (`revived`).
- `RemindersHold`: once a night for each corrective action and kind, nobody forgotten for two
  nights, and a marked email went out.

Bounds: two requests or workers in each area are the fewest that race; a threshold
and a window of two let a request be past the lockout test and a row leave
the window; a history of two and three changes of password let two changes trim each
other's rows; a matrix of two modules, one of them the keys' own, and two levels
per request let a PUT stop half-way; two groups let ranks tie; two jobs with files of two rows
(every kind of row, both modes) let a row fail after another one was written, and
two rebuilds overlap; two nights and two corrective actions let a reminder repeat or be missed.

### Proofs (`Accounts_proofs`, `Platform_proofs`)

Each module has its type theorem and its properties, for any values of its constants.

- `FactorKept` needs the types only: the guard is in the step that deletes.
- `RoleGiven`: `RolesGiven` says that whoever a token is about to be minted for has a role that
  exists, and so has whoever a sign-in found with one it may leave alone, unless it was stripped;
  the role stays because one that somebody has is protected, and every save but a
  stale one puts a role in its place (`KeepsRoles`).
- `PasswordRemembered`, under `FewChanges` (at most as many requests at once as the history keeps
  rows).  `Remembered`: unless it is astray, the hash in force is about to be recorded, or its row has no more
  newer rows than there are workers not recording any more, so that the trim spares it.
- `KeysAlwaysAgree`: `MatrixInv` is the types of the matrix and of what an edit has still to
  write; that the two computations agree is a lemma about any matrix.
- `GuessesAreBounded`, under `LongLock` (a lockout lasts at least the window and longer than
  a request, as in the settings' defaults).  `WhileOpen`: every wrong password beyond the threshold
  belongs to a request that has not counted yet.  `WhileLocked`: to one that was past the test
  when the lockout opened; those are over within a tick, so when it runs out only
  their guesses are left in the window.  The sums over the window are handled by `SumFacts`.
- `JobsHonest`: `JobInv` says at each stage of a task what it has written so far and what its
  job row says of it, with the summary items of a record (`Summarised`) and the one strict
  import that holds a key (`KeySound`).
- `PlatformTypesHold`: `PlatformSpec => []TypesOK`, by `PlatformComposes`: a step of the whole
  is a step of each module or leaves its variables alone (`StepOfEach`), so that the six
  specifications hold of any behaviour of it.
- `OwnersReminded`: `RemInv` says that between the look and the row nobody else writes
  one (`DispatchIsNew`), and that whom a scan has found and passed was reminded within two nights
  (`AllReminded`), both unless scans overlapped.

What does not hold and is not claimed, as seen in the code while modelling:

- A PATCH of a user loaded before a password change takes the change back (`astray`), and one
  loaded before a sign-in gave a role takes the role (`stripped`).
- A lenient import wraps each row in `transaction.savepoint()`
  (`tasks/bulk_import.py:419`), which does nothing in autocommit: a row whose override
  fails stays, and is counted as skipped (`split`).
- An import that died is not run again, as its job is not pending any more: it stays
  `Importing`.  So does a workbook whose record is deleted during the rebuild.
- A report that is rendered twice can fail over a file that is there (`again`).
- A PUT of the matrix that meets an unknown module keeps the cells before it.
- Overlapping scans remind twice (`jumbled`); an email sent by a task that then dies
  is sent again.

Left out: the owner of a corrective action does not change in `Reminders`; records that are
created through the API rather than by a workbook belong to no job and get no summary item;
and `KeysAgree` is about the gates that ask the matrix (`HasPermission`), not about
`ReportJobViewSet` (`views/domain.py:3292`), whose query set still asks the legacy permission
table for `manage_settings`.

## 8. The auditors' work: scores, plans, reviews, findings

`Assurance` and its instance `MCAssurance` are built the same way, from nine modules.

| Module | State ↔ code | Actions ↔ code |
|---|---|---|
| `RiskScores` | `scores` = current `EntityRiskScore` with its rank; `config` = the model, its weights and factors; `scoring` = the transaction of each worker | `RecordScore`, `Recompute`, then `ScoreUnit` (compute, flip, insert), `Resume` (after a lock), `RankScores`, `CommitScores`, `AbortScores`; `EditModel` |
| `RiskModels` | `active` = `is_active`; `asked` = approval requests; `saving` = `RiskScoringModel.save()` in two statements | `Publish`, `LoadApproved`, `LoadPatch`, `Clear`, `CommitSave`, `FailSave` |
| `AuditPlans` | `profile` = scored entities; `plan`; `drafts` = references | `DrawUp` with `Select`, `Available`, `Readiness`; `File`, `Discard` |
| `SelfAssessments` | `response`, `answers` with their challenge; `handling` = loaded copies | submit, open, resolve (with its look-up), close, PATCH of response and answer, answers that come and go |
| `ControlTests` | `test`, as it was posted, in any state; `report` = `DeficiencyReport`; `testing` | `BeginRecord`, `SaveResult`, `CommitResult` = `record_test_result`; PATCH; the reports' verbs |
| `Integrations` | `rows`, `ledger` = last accepted event; `remote`, `outcome` = targets | `Receive`, `Enter`, `Accept`, `Fail`; edits and deletions; `SaveUser`, `Push`, `BreakOff` = the receiver and the round over the targets, which may end early |
| `Engagements` | `auditReport`, `findings`; `writing` | `LoadReport`, `CapturePriorReportStatus`, `SaveReport`, `ReportFinalIssuesFindings` = the signals around a save; `ReportApproved`; finding edits |
| `EntityTree` | `tree` = parent, department, whether archived, version; `editing`; `filling` = the backfill | `CreateEntity`, `CloneEntity`, `LoadEntity`, `Walk`, `SaveEntity`; `LoadStatus`, `SaveStatus` = archive, DELETE, restore; `BeginFill`, `EndFill`; `Shown`, `SubtreeSeverity` = the tree endpoint |
| `Materiality` | `figures`, `code`, `cache`; `keeping` | capture, PATCH, delete, `LoadUnit`, `BuildCache`, `StoreCache`, `Rebuild`; entity PATCH; `RenameMetric` |

The run `assurance` checks:

- `RanksDense`: the ranks after a scoring that overlapped no other are dense and follow
  the composites, whatever overlapping ones had left.
- `RecomputeCatchesUp`: a recompute nobody came into leaves composite and high-risk flag
  as the model now makes them, although it skips what it takes to be unchanged.
- `SingleActive`: an activation that overlapped no other leaves one model live.
- `PlanHonest`: the selection against what it promises, and distinct references.
- `ReviewFollowsChallenges`: under review exactly while a challenge is open.
- `VerdictStands`: a deficient verdict has its report and is the conclusion; one that came with the
  POST of the test was entered by hand, like one a PATCH sets (`overridden`).
- `LedgerTells`: a row exists iff an event was accepted since its deletion.  A target knows
  no less than its last accepted event sent, and when nothing is left to push its last event is
  of the last save of the user.  The second does not hold of the targets behind the one a
  round broke off at (`unreached`): the worker died, or the receiver caught an error that
  `push_user` does not handle, and nothing pushes them until the user is saved again.
- `CoveredAreIssued`: what an audit held when its report became Final is issued.
- `RegisterHolds`: of the rows the tree endpoint reads (the unarchived ones, or all with
  `includeArchived`) it shows exactly those with no row above that it has not read, each with the
  worst rating of all it reaches below.  So archiving a parent hides the unarchived entities
  below it, though nothing else of them changes, and restoring it or moving them brings them
  back.  A backfill derives the nearest department, and a cache that nobody owes a
  refresh is the newest figure.

**History variables.**  Many of these claims fail for some overlap: the code checks a copy
and writes later.  Where that is so, a history variable records that the overlap
happened (`tidy`, `calm`, `alone`, `spoiled`, `raced`, `overridden`, `crossed`, `unreached`, `missed`,
`rewritten`, `overtaken`, `doubt`), is set by exactly that step, and the property says that nothing else
breaks the claim.  `tidy`, `calm`, `unreached` and `doubt` are also *cleared*, so that the properties say
the next undisturbed handler repairs what was left.  For `spoiled`, `overridden`, `missed`,
`overtaken` and `jumbled`, which stay set and under which nothing is claimed, the
instance explores no further.

Bounds: two workers and two things of each sort race; three entities let one be moved
above its grandparent and let a mandated, an overdue and a high-risk
candidate compete for the days; the model configurations have both kinds of threshold edit, an
unlinked and an unweighted factor; three models are two versions of one and another one; two periods
let a newer figure replace an older one, and three writes let a refresh be
overtaken twice.  A threshold of 60 lies between the scores of one and of two
answered questions.

Both runs are symmetric in the workers and in two of the things; names that are ordered
(`p1`, integers, roles) are not permuted.  Deadlock is not checked, as bounds on rows, writes
and runs stop the behaviours, and no fairness is assumed, as no property of
these modules needs any.

### Proofs (`Assurance_proofs`)

| Theorem | Inductive invariant |
|---|---|
| `OneModelLive` | `AtMostOne`, and `TurnsOthersOff`: an activation that has cleared and was not overlapped has every other live model in its list, and is the only one |
| `VerdictsStand` | `VerdictStands`, `OneSaves` (the row lock), and `FreshKnows`: a handler nobody overtook knows whether the test is planned |
| `CoveredIssued` | `CoveredInHand`: a covered finding is issued or its issuing is under way; `AuditeesEditIssued`: what an auditee holds was issued when he loaded it, so that his save cannot take it back |
| `LedgerHonest` | `RowsTold`, `TargetsTold`, and `OnePush`: while no two pushes crossed, one process at most pushes, and pushes the user as last saved; who it has not reached yet is in its list, or, once it broke off, in `unreached` |
| `ReviewFollows` | `HandlersSee`: a handler nobody overtook finds the response as it saw it, and the challenges as it counted them |
| `RanksAgree`, `RecomputeReaches` | `ScoreInv`: what a transaction sees once it has ranked is dense, and a recompute nobody came into has each entity still to score or in step with the model; composites stay within 0..100 points for any formula |
| `CachesInStep` | `KeepInv`: of the entities a refresh has loaded and has missed no change of it knows the cache, and of the one it is about to store, what its figures make of it |
| `NoLoops` | `TreeInv`: an edit that missed no move knows the parents of the rows it walked through.  `Rooted` says that every set of rows has one whose parent is outside, which is what "no loops" means for any number of rows; a move keeps it because a set that the moved row and its new parent are in also holds the walk, which ends outside |
| `TreeStands` | `FillInv`: what a backfill nobody wrote under has derived is still what the rows say, as every write that moves a row or its links forgets `filled`; see below |
| `RegisterStands`, `AssuranceTypesHold` | none of their own: `AssuranceComposes` gives the specification of each module, as for `Platform` |
| `PlansAreHonest` | `PlanInv`: `Select` is a function over the candidates in order, and each clause of the promise is an invariant of its prefix; while no filing overlaps another, drafts are numbered through |

`TreeStands` is about three recursions over the rows, each of which is written as the code writes
it, as a search that stops at rows it has seen.  `RecursionExists` (`SumFacts`) shows that a
function defined by its values on arguments of lower rank exists; the rank of a search is
the number of rows it has not seen (`TrailRanks`, `SearchExists`).  In a tree without loops the seen rows
make no difference (`NearestIs`), being above a row is being its parent or above that
(`AboveIs`), and that is an order (`AboveOrders`).  Hence of any set of rows that is read those are shown
that have nothing unread above them (`RowsShown`), the rating a node is shown with is the worst of all
it reaches below it (`BelowIs`, `WorstShown`), and the first department
found has no other in between (`NearestOf`).  All rest on `Rooted`; that entities are finitely many is assumed.

`PlansAreHonest` is about a pure algorithm: that sorting by rank orders any finite
set of candidates, that what remains is the capacity less what is used, cut at nought,
and that whoever was passed over needs more days than are left.  Where the
library offers only induction theorems that take an operator, these proofs take a least
counterexample among the prefixes or the subsets (`SumFacts` does so for sums).

What does not hold and is not claimed, as seen in the code while modelling:

- Of two activations at once under different names both can stay live; a PATCH that
  loaded a model before its approval saves `is_active` back.
- A reserve or a direct ratio of 0 is taken for an unset one; without a capacity a mandated
  engagement can be spilled; references repeat after a deletion or an overlap.
- Answers are edited whatever the status of their response.
- A webhook for a soft-deleted entity collides with the hidden row and leaves no event, and
  a wrong signature leaves none either, although the docstring of `integrations.py` says
  that every attempt, a signature failure included, is captured in an event.
- An issuing that failed is swallowed and a later save of the Final report does not repeat
  it; findings created after that are not issued; an auditor's stale edit writes
  `is_issued` back.
- Two moves at once can close a cycle; its entities vanish from the register.
- Renaming a metric leaves every cache under the old code; a PATCH of an entity writes the
  cache it loaded back.

The tree endpoint cuts what it shows at a depth of at most ten levels, refuses more than
5000 rows, can start from one entity (`root`) and takes the filters of the list; `Shown` is the whole
projection without these, over the unarchived rows or over all.

## 9. What is proved, and what is only checked

Proved, for every value of the constants: the theorems listed in `PROJECT.json`, with every
lemma they rest on.

| Module | Theorems | Argument |
|---|---|---|
| `Approvals_proofs` | `TypeCorrect`, `ChainInOrder`, `EffectSigned`, `ReminderSpaced`, `StatusTells`, `OneDecision`, `SomebodyNext` | section 3 |
| `WorkingPapers_proofs` | `TypeCorrect`, `SignedByTwoPeople`, `SignedStaysLocked`, `ChainKeepsHead` | below |
| `FileScans_proofs` | `ScansTypeOK`, `ScansServedIsClean`, `ScansVerdictIsIn` | section 5 |
| `AuditUniverse_proofs` | `TypeCorrect`, `LockKeepsEdits`, `StatusIsRecorded`, `HistoryAlwaysReplays`, `AlwaysRolledUp`, `RevisionsStayBehind` | section 6 |
| `Accounts_proofs` | the types of `SsoProfiles`, `Credentials`, `AccessMatrix`, `Lockouts`; `RoleGiven`, `PasswordRemembered`, `FactorKept`, `KeysAlwaysAgree`, `GuessesAreBounded` | section 7 |
| `Platform_proofs` | the types of `BackgroundJobs`, `Reminders`; `JobsHonest`, `OwnersReminded`; `PlatformComposes`, `PlatformTypesHold` | section 7 |
| `Assurance_proofs` | the types of the nine modules of section 8; `VerdictsStand`, `CoveredIssued`, `OneModelLive`, `LedgerHonest`, `ReviewFollows`, `RanksAgree`, `RecomputeReaches`, `CachesInStep`, `NoLoops`, `TreeStands`, `PlansAreHonest`; `AssuranceComposes`, `AssuranceTypesHold`, `RegisterStands` | section 8 |
| `SumFacts` | lemmas: a sum over a finite set exists, is independent of the order, and its bounds; a function defined by its values on arguments of lower rank exists | |

In `WorkingPapers_proofs` the
invariant is `TypeOK /\ KeysUsed`, where `KeysUsed` says that what is stored, and
what a handler holds a copy of, has a primary key that no later insert takes:
without it an insert could overwrite a signed row.  `SignedByTwo` is inductive
relative to `TypeOK`: a handler that is not counted in `raced` wrote a copy that
agreed with its row on chain, current flag and signatures (`FreshWrite`), so the
test it made on the copy also holds of the row.  `LockedOnceSigned` and `HeadKept` are
action properties; each follows from the invariant, one step of the proof per
action (`LockStep`, `HeadStep`).

The modules of sections 7 and 8 are proved about under the specification of the module
alone (`SsoSpec`, `CredSpec`, `MatrixSpec`, `LockSpec`, `JobSpec`, `ReminderSpec`, `IcfrSpec`,
`EngagementSpec`, `ModelSpec`, `IntegrationsSpec`, `CsaSpec`, `ScoreSpec`, `MaterialitySpec`, `TreeSpec`,
`PlanSpec`).  Every behaviour of `Platform` and `Assurance` is one of each of their modules
(`PlatformComposes`, `AssuranceComposes`), and a step of `MCPlatform` or `MCAssurance` is one of theirs.  Each
module's assumption states the shapes and bounds its constants have, and keeps the value for "no
row" apart from the rows; finiteness is assumed only where something is counted,
sorted or searched (entities to score, candidates of a plan, rows of the tree).

Hypotheses beyond the assumptions stand in the theorems themselves: `OneScanner`,
`Orderly`, `Staffed`, `FewChanges` and `LongLock`, explained above.

Model-checked only: liveness (`OverdueIsChased`, `ScansEnd`), which needs fairness and `ENABLED`.

## 10. Not modelled

- Serialisation, the audit log, full-text search, rendering of reports, pagination,
  filters, metrics and the read-only endpoints: they change no state the modelled
  handlers decide by.
- Dashboards and their cache: read-only aggregates that are dropped every five minutes.
- QAIP, surveys and KPIs: CRUD whose rules concern one field.
- The OIDC exchange, JWTs and their blacklist, and the sending of mail and pushes: libraries
  and services, of which only the outcome is an input.
- Schema migrations and seeds, which run before the application does; the backfill of
  structural links and the rebuild of the cache can run beside it, and are modelled.
- Of the modelled components, what the note of each in `PROJECT.json` leaves out: among
  others the inherent position of an entity, exceptions of control tests, dispatch to a role,
  the weekly digest, the life cycle of an audit beyond its report and findings, and backup codes
  of a second factor, which no view calls.
