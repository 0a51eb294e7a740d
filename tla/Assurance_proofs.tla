--------------------------- MODULE Assurance_proofs ----------------------------
(***************************************************************************)
(* Theorems about the auditors' work: control tests, reports and findings, *)
(* scoring models, integrations, control self-assessments, scores, annual  *)
(* plans, and the register of entities: its hierarchy and its materiality. *)
(* They hold for every number of processes and of rows.                    *)
(***************************************************************************)
EXTENDS Assurance, SumFacts

-----------------------------------------------------------------------------
(***************************************************************************)
(* ControlTests.                                                           *)
(***************************************************************************)

\* The handlers of a result, as loaded and after their save.
ResultJobs ==
  [stage : {"loaded", "saved"}, role : Roles, conclusion : Conclusions, planned : BOOLEAN, fresh : BOOLEAN]

\* What the stage of a handler says of the rest of it.
LEMMA TestJobTypes ==
  ASSUME IcfrTypeOK, NEW w \in Tester
  PROVE  /\ testing[w].stage \in {"loaded", "saved"} => testing[w] \in ResultJobs
         /\ testing[w].stage = "patch" => testing[w].saw \in Tests
         /\ testing[w] \in Jobs
BY DEF IcfrTypeOK, Jobs, NotTesting, ResultJobs

\* What a result leaves of the test: it is still one, only its own conclusion
\* changes, and only the auditor's completes it.
LEMMA RecordedTest ==
  ASSUME IcfrTypeOK, NEW w \in Tester, testing[w] \in ResultJobs
  PROVE  /\ Recorded(w) \in Tests
         /\ testing[w].role = "management" => Recorded(w).auditor = test.auditor
         /\ testing[w].role = "auditor" => Recorded(w).auditor = testing[w].conclusion
         /\ testing[w].role = "auditor" /\ testing[w].conclusion # "not_tested" =>
              Recorded(w).status = "completed"
         /\ testing[w].role = "management" /\ ~testing[w].planned =>
              Recorded(w).status = test.status
<1>1. test \in Tests
  BY DEF IcfrTypeOK
<1>2. testing[w].role \in Roles /\ testing[w].conclusion \in Conclusions
  BY DEF ResultJobs
<1>3. PICK status \in {test.status, "completed", "in_progress"} :
        /\ Recorded(w) = IF testing[w].role = "management"
                         THEN [test EXCEPT !.management = testing[w].conclusion, !.status = status]
                         ELSE [test EXCEPT !.auditor = testing[w].conclusion, !.status = status]
        /\ testing[w].role = "auditor" /\ testing[w].conclusion # "not_tested" => status = "completed"
        /\ testing[w].role = "management" /\ ~testing[w].planned => status = test.status
  <2>1. CASE testing[w].conclusion = "not_tested"
    BY <2>1 DEF Recorded
  <2>2. CASE testing[w].conclusion # "not_tested" /\ testing[w].role = "auditor"
    BY <2>2 DEF Recorded
  <2>3. CASE testing[w].conclusion # "not_tested" /\ testing[w].role # "auditor" /\ testing[w].planned
    BY <2>3 DEF Recorded
  <2>4. CASE testing[w].conclusion # "not_tested" /\ testing[w].role # "auditor" /\ ~testing[w].planned
    BY <2>4 DEF Recorded
  <2>5. QED
    BY <2>1, <2>2, <2>3, <2>4
<1>4. status \in {"planned", "in_progress", "completed"}
  BY <1>1, <1>3 DEF Tests
<1>5. CASE testing[w].role = "management"
  BY <1>1, <1>2, <1>3, <1>4, <1>5 DEF Tests
<1>6. CASE testing[w].role = "auditor"
  BY <1>1, <1>2, <1>3, <1>4, <1>6 DEF Tests
<1>7. QED
  BY <1>2, <1>5, <1>6 DEF Roles

-----------------------------------------------------------------------------
(* Types. *)

\* The test, its report and the handlers under way have the declared types.
THEOREM IcfrTypesHold == IcfrSpec => []IcfrTypeOK
<1>1. IcfrInit => IcfrTypeOK
  <2>1. ASSUME IcfrInit PROVE test \in Tests
    BY <2>1 DEF IcfrInit
  <2>2. ASSUME IcfrInit PROVE testing \in [Tester -> Jobs]
    BY <2>2 DEF IcfrInit, Jobs
  <2>3. QED
    BY <2>1, <2>2 DEF IcfrInit, IcfrTypeOK, Reports
<1>2. ASSUME IcfrTypeOK, [IcfrNext]_icfrVars PROVE IcfrTypeOK'
  <2>1. ASSUME NEW w \in Tester, NEW job \in Jobs, Start(w, job) PROVE IcfrTypeOK'
    BY <1>2, <2>1 DEF IcfrTypeOK, Start
  <2>2. ASSUME NEW w \in Tester, NEW role \in Roles, NEW c \in Conclusions, BeginRecord(w, role, c)
        PROVE  IcfrTypeOK'
    <3>1. (test.status = "planned") \in BOOLEAN
      OBVIOUS
    <3>2. [stage |-> "loaded", role |-> role, conclusion |-> c,
           planned |-> test.status = "planned", fresh |-> TRUE] \in Jobs
      BY <3>1 DEF Jobs
    <3>3. QED
      BY <2>1, <2>2, <3>2 DEF BeginRecord
  <2>3. ASSUME NEW w \in Tester, SaveResult(w) PROVE IcfrTypeOK'
    <3>1. testing[w] \in ResultJobs
      BY <1>2, <2>3, TestJobTypes DEF SaveResult
    <3>2. [testing[w] EXCEPT !.stage = "saved"] \in Jobs
      BY <3>1 DEF ResultJobs, Jobs
    <3>3. QED
      BY <1>2, <2>3, <3>2 DEF IcfrTypeOK, SaveResult
  <2>4. ASSUME NEW w \in Tester, CommitResult(w) PROVE IcfrTypeOK'
    <3>1. testing[w] \in ResultJobs
      BY <1>2, <2>4, TestJobTypes DEF CommitResult
    <3>2. test' \in Tests
      BY <1>2, <2>4, <3>1, RecordedTest DEF CommitResult
    <3>3. ASSUME NEW x \in Tester PROVE testing'[x] \in Jobs
      <4>1. CASE x # w /\ testing[x].stage = "loaded"
        <5>1. testing[x] \in ResultJobs
          BY <1>2, <4>1, TestJobTypes
        <5>2. testing'[x] = [testing[x] EXCEPT !.fresh = FALSE]
          BY <2>4, <4>1 DEF CommitResult
        <5>3. QED
          BY <5>1, <5>2 DEF ResultJobs, Jobs
      <4>2. CASE x = w \/ testing[x].stage # "loaded"
        BY <1>2, <2>4, <4>2, TestJobTypes DEF CommitResult, Jobs
      <4>3. QED
        BY <4>1, <4>2
    <3>4. testing' \in [Tester -> Jobs]
      BY <2>4, <3>3 DEF CommitResult
    <3>5. report' \in Reports
      BY <1>2, <2>4 DEF CommitResult, IcfrTypeOK, Reports
    <3>6. raced' \in BOOLEAN /\ overridden' \in BOOLEAN
      BY <1>2, <2>4 DEF CommitResult, IcfrTypeOK
    <3>7. QED
      BY <3>2, <3>4, <3>5, <3>6 DEF IcfrTypeOK
  <2>5. ASSUME NEW w \in Tester, AbandonTest(w) PROVE IcfrTypeOK'
    BY <1>2, <2>5 DEF IcfrTypeOK, AbandonTest, Jobs
  <2>6. ASSUME NEW w \in Tester, BeginPatchTest(w) PROVE IcfrTypeOK'
    <3>1. [stage |-> "patch", saw |-> test] \in Jobs
      BY <1>2 DEF IcfrTypeOK, Jobs
    <3>2. QED
      BY <2>1, <2>6, <3>1 DEF BeginPatchTest
  <2>7. ASSUME NEW w \in Tester, NEW row \in Tests, CommitPatchTest(w, row) PROVE IcfrTypeOK'
    <3>1. (overridden \/ row # test) \in BOOLEAN
      OBVIOUS
    <3>2. QED
      BY <1>2, <2>7, <3>1 DEF IcfrTypeOK, CommitPatchTest, Jobs
  <2>8. ASSUME NEW w \in Tester, BeginOpenReport(w) \/ BeginCloseReport(w) \/ BeginEditReport(w)
        PROVE  IcfrTypeOK'
    <3>1. \A s \in {"opening", "closing", "editing"} : [stage |-> s] \in Jobs
      BY DEF Jobs
    <3>2. QED
      BY <2>1, <2>8, <3>1 DEF BeginOpenReport, BeginCloseReport, BeginEditReport
  <2>9. ASSUME NEW w \in Tester, NEW status \in Reports, CommitReport(w, status) PROVE IcfrTypeOK'
    BY <1>2, <2>9 DEF IcfrTypeOK, CommitReport, Jobs
  <2>10. CASE CreateReport \/ LoseReport
    BY <1>2, <2>10 DEF IcfrTypeOK, CreateReport, LoseReport, Reports
  <2>11. CASE UNCHANGED icfrVars
    BY <1>2, <2>11 DEF IcfrTypeOK, icfrVars
  <2>12. QED
    BY <1>2, <2>2, <2>3, <2>4, <2>5, <2>6, <2>7, <2>8, <2>9, <2>10, <2>11 DEF IcfrNext
<1>3. QED
  BY <1>1, <1>2, PTL DEF IcfrSpec

-----------------------------------------------------------------------------
(* The verdict. *)

\* The row lock: one handler at a time is between its save and its commit.
OneSaves == \A x, y \in Tester : testing[x].stage = "saved" /\ testing[y].stage = "saved" => x = y

\* A handler nobody overtook knows whether the test is still planned, as long as
\* nobody overrode it by hand.
FreshKnows ==
  ~overridden => \A w \in Tester :
    testing[w].stage \in {"loaded", "saved"} /\ testing[w].fresh =>
      (testing[w].planned <=> test.status = "planned")

IcfrInv == VerdictStands /\ OneSaves /\ FreshKnows

\* A step that leaves the test and its history alone, and the other handlers.
LEMMA HandlerSteps ==
  ASSUME IcfrTypeOK, IcfrInv, NEW w \in Tester, NEW job,
         testing' = [testing EXCEPT ![w] = job], UNCHANGED <<test, raced>>,
         job.stage # "saved",
         job.stage = "loaded" /\ job.fresh /\ ~overridden' => (job.planned <=> test.status = "planned"),
         ~overridden' => ~overridden /\ (report # NoReport => report' # NoReport)
  PROVE  IcfrInv'
<1>1. testing'[w] = job /\ \A x \in Tester \ {w} : testing'[x] = testing[x]
  BY DEF IcfrTypeOK
<1>2. OneSaves'
  BY <1>1 DEF IcfrInv, OneSaves
<1>3. FreshKnows'
  BY <1>1 DEF IcfrInv, FreshKnows
<1>4. VerdictStands'
  BY DEF IcfrInv, VerdictStands, Conclusion
<1>5. QED
  BY <1>2, <1>3, <1>4 DEF IcfrInv

\* A handler is through, and the test is what it was.
LEMMA RestingStep ==
  ASSUME IcfrTypeOK, IcfrInv, NEW w \in Tester,
         testing' = [testing EXCEPT ![w] = NotTesting],
         UNCHANGED <<test, raced>>, overridden' <=> overridden,
         report # NoReport => report' # NoReport
  PROVE  IcfrInv'
<1>1. NotTesting.stage = "none"
  BY DEF NotTesting
<1>2. HIDE DEF NotTesting
<1>3. QED
  BY <1>1, HandlerSteps

\* A handler starts on something that is no result.
LEMMA PlainJob ==
  ASSUME IcfrTypeOK, IcfrInv, NEW w \in Tester, NEW job, Start(w, job),
         job.stage \notin {"loaded", "saved"}
  PROVE  IcfrInv'
<1>1. /\ testing' = [testing EXCEPT ![w] = job]
      /\ UNCHANGED <<test, report, raced, overridden>>
  BY DEF Start
<1>2. QED
  BY <1>1, HandlerSteps

\* A result is recorded.
LEMMA ResultStep ==
  ASSUME IcfrTypeOK, IcfrInv, NEW w \in Tester, CommitResult(w)
  PROVE  IcfrInv'
<1>1. testing[w] \in ResultJobs /\ testing[w].stage = "saved"
  BY TestJobTypes DEF CommitResult
<1>2. test \in Tests /\ test' = Recorded(w) /\ overridden' = overridden
  BY DEF IcfrTypeOK, CommitResult
<1>3. /\ testing[w].role \in Roles /\ testing[w].conclusion \in Conclusions
  BY <1>1 DEF ResultJobs
<1>4. ASSUME NEW x \in Tester
      PROVE  testing'[x].stage # "saved" /\ ~(testing'[x].stage = "loaded" /\ testing'[x].fresh)
  <2>1. CASE x = w
    BY <2>1 DEF CommitResult, NotTesting
  <2>2. CASE x # w /\ testing[x].stage = "loaded"
    <3>1. testing[x] \in ResultJobs
      BY <2>2, TestJobTypes
    <3>2. testing'[x] = [testing[x] EXCEPT !.fresh = FALSE]
      BY <2>2 DEF CommitResult
    <3>3. QED
      BY <2>2, <3>1, <3>2 DEF ResultJobs
  <2>3. CASE x # w /\ testing[x].stage # "loaded"
    <3>1. testing'[x] = testing[x]
      BY <2>3 DEF CommitResult
    <3>2. QED
      BY <1>1, <2>3, <3>1 DEF IcfrInv, OneSaves
  <2>4. QED
    BY <2>1, <2>2, <2>3
<1>5. OneSaves' /\ FreshKnows'
  BY <1>4 DEF OneSaves, FreshKnows
<1>6. ASSUME ~overridden', test'.auditor = "deficient"
      PROVE  report' # NoReport /\ Conclusion' = "deficient"
  <2>1. Conclusion' = "deficient"
    BY <1>6 DEF Conclusion
  <2>2. CASE testing[w].role = "auditor"
    <3>1. testing[w].conclusion = "deficient"
      BY <1>1, <1>2, <1>6, <2>2, RecordedTest
    <3>2. QED
      BY <2>1, <2>2, <3>1, ControlTestsAssumption DEF CommitResult
  <2>3. CASE testing[w].role = "management"
    <3>1. test.auditor = "deficient"
      BY <1>1, <1>2, <1>6, <2>3, RecordedTest
    <3>2. report # NoReport
      BY <1>2, <1>6, <3>1 DEF IcfrInv, VerdictStands
    <3>3. QED
      BY <2>1, <2>3, <3>2 DEF CommitResult
  <2>4. QED
    BY <1>3, <2>2, <2>3 DEF Roles
<1>7. ASSUME ~overridden', ~raced', test'.auditor # "not_tested"
      PROVE  test'.status = "completed"
  <2>1. ~raced /\ testing[w].fresh
    BY <1>7 DEF CommitResult
  <2>2. CASE testing[w].role = "auditor"
    BY <1>1, <1>2, <1>7, <2>2, RecordedTest
  <2>3. CASE testing[w].role = "management"
    <3>1. test.auditor # "not_tested"
      BY <1>1, <1>2, <1>7, <2>3, RecordedTest
    <3>2. test.status = "completed"
      BY <1>2, <1>7, <2>1, <3>1 DEF IcfrInv, VerdictStands
    <3>3. ~testing[w].planned
      BY <1>1, <1>2, <1>7, <2>1, <3>2 DEF IcfrInv, FreshKnows
    <3>4. QED
      BY <1>1, <1>2, <2>3, <3>2, <3>3, RecordedTest
  <2>4. QED
    BY <1>3, <2>2, <2>3 DEF Roles
<1>8. QED
  BY <1>5, <1>6, <1>7 DEF IcfrInv, VerdictStands

\* However many results are recorded at once, a deficient verdict has its report
\* and is the conclusion, and a concluded test is completed unless a result was
\* saved over one its handler had not seen.
THEOREM VerdictsStand == IcfrSpec => []VerdictStands
<1>1. ASSUME IcfrInit PROVE IcfrInv
  <2>1. \A w \in Tester : testing[w].stage = "none"
    BY <1>1 DEF IcfrInit, NotTesting
  <2>2. ~overridden => test.auditor = "not_tested"
    BY <1>1 DEF IcfrInit
  <2>3. VerdictStands
    BY <2>2 DEF VerdictStands
  <2>4. QED
    BY <2>1, <2>3 DEF IcfrInv, OneSaves, FreshKnows
<1>2. ASSUME IcfrTypeOK, IcfrInv, [IcfrNext]_icfrVars PROVE IcfrInv'
  <2>1. ASSUME NEW w \in Tester, NEW role \in Roles, NEW c \in Conclusions, BeginRecord(w, role, c)
        PROVE  IcfrInv'
    <3>1. DEFINE job == [stage |-> "loaded", role |-> role, conclusion |-> c,
                         planned |-> test.status = "planned", fresh |-> TRUE]
    <3>2. /\ testing' = [testing EXCEPT ![w] = job]
          /\ UNCHANGED <<test, raced>> /\ overridden' = overridden /\ report' = report
      BY <2>1 DEF BeginRecord, Start
    <3>3. job.stage = "loaded" /\ (job.planned <=> test.status = "planned")
      OBVIOUS
    <3>4. HIDE DEF job
    <3>5. QED
      BY <1>2, <3>2, <3>3, HandlerSteps
  <2>2. ASSUME NEW w \in Tester, SaveResult(w) PROVE IcfrInv'
    <3>1. testing[w] \in ResultJobs
      BY <1>2, <2>2, TestJobTypes DEF SaveResult
    <3>2. testing'[w] = [testing[w] EXCEPT !.stage = "saved"]
      BY <1>2, <2>2 DEF SaveResult, IcfrTypeOK
    <3>3. \A x \in Tester \ {w} : testing'[x] = testing[x] /\ testing[x].stage # "saved"
      BY <2>2 DEF SaveResult
    <3>4. /\ testing'[w].fresh = testing[w].fresh
          /\ testing'[w].planned = testing[w].planned
          /\ testing[w].stage = "loaded"
      BY <2>2, <3>1, <3>2 DEF ResultJobs, SaveResult
    <3>5. OneSaves'
      BY <3>3 DEF OneSaves
    <3>6. FreshKnows'
      BY <1>2, <2>2, <3>3, <3>4 DEF IcfrInv, FreshKnows, SaveResult
    <3>7. VerdictStands'
      BY <1>2, <2>2 DEF IcfrInv, VerdictStands, Conclusion, SaveResult
    <3>8. QED
      BY <3>5, <3>6, <3>7 DEF IcfrInv
  <2>3. ASSUME NEW w \in Tester, CommitResult(w) PROVE IcfrInv'
    BY <1>2, <2>3, ResultStep
  <2>4. ASSUME NEW w \in Tester, AbandonTest(w) PROVE IcfrInv'
    <3>1. testing' = [testing EXCEPT ![w] = NotTesting] /\ UNCHANGED <<test, report, raced, overridden>>
      BY <2>4 DEF AbandonTest
    <3>2. QED
      BY <1>2, <3>1, RestingStep
  <2>5. ASSUME NEW w \in Tester, BeginPatchTest(w) PROVE IcfrInv'
    BY <1>2, <2>5, PlainJob DEF BeginPatchTest
  <2>6. ASSUME NEW w \in Tester, NEW row \in Tests, CommitPatchTest(w, row) PROVE IcfrInv'
    <3>1. CASE row = test
      <4>1. /\ testing' = [testing EXCEPT ![w] = NotTesting]
            /\ UNCHANGED <<test, report, raced>> /\ (overridden' <=> overridden)
        BY <2>6, <3>1 DEF CommitPatchTest
      <4>2. QED
        BY <1>2, <4>1, RestingStep
    <3>2. CASE row # test
      <4>1. overridden' /\ OneSaves'
        BY <1>2, <2>6, <3>2 DEF CommitPatchTest, NotTesting, IcfrInv, OneSaves, IcfrTypeOK
      <4>2. QED
        BY <4>1 DEF IcfrInv, VerdictStands, FreshKnows
    <3>3. QED
      BY <3>1, <3>2
  <2>7. ASSUME NEW w \in Tester, BeginOpenReport(w) \/ BeginCloseReport(w) \/ BeginEditReport(w)
        PROVE  IcfrInv'
    <3>1. PICK s \in {"opening", "closing", "editing"} : Start(w, [stage |-> s])
      BY <2>7 DEF BeginOpenReport, BeginCloseReport, BeginEditReport
    <3>2. QED
      BY <1>2, <3>1, PlainJob
  <2>8. ASSUME NEW w \in Tester, NEW status \in Reports, CommitReport(w, status) PROVE IcfrInv'
    <3>1. report' # NoReport
      BY <2>8, ControlTestsAssumption DEF CommitReport
    <3>2. /\ testing' = [testing EXCEPT ![w] = NotTesting]
          /\ UNCHANGED <<test, raced, overridden>>
      BY <2>8 DEF CommitReport
    <3>3. QED
      BY <1>2, <3>1, <3>2, RestingStep
  <2>9. CASE CreateReport
    BY <1>2, <2>9 DEF CreateReport, IcfrInv, VerdictStands, Conclusion, OneSaves, FreshKnows
  <2>10. CASE LoseReport
    BY <1>2, <2>10 DEF LoseReport, IcfrInv, VerdictStands, Conclusion, OneSaves, FreshKnows
  <2>11. CASE UNCHANGED icfrVars
    BY <1>2, <2>11 DEF icfrVars, IcfrInv, VerdictStands, Conclusion, OneSaves, FreshKnows
  <2>12. QED
    BY <1>2, <2>1, <2>2, <2>3, <2>4, <2>5, <2>6, <2>7, <2>8, <2>9, <2>10, <2>11 DEF IcfrNext
<1>3. IcfrInv => VerdictStands
  BY DEF IcfrInv
<1>4. QED
  BY <1>1, <1>2, <1>3, IcfrTypesHold, PTL DEF IcfrSpec

-----------------------------------------------------------------------------
(***************************************************************************)
(* Engagements.                                                            *)
(***************************************************************************)

\* What a writer holds at each stage.
LEMMA WriteJobTypes ==
  ASSUME EngagementTypeOK, NEW w \in Writer
  PROVE  /\ writing[w] \in WriteJobs
         /\ writing[w].doing \in {"saving", "captured"} => writing[w].row \in ReportRow
         /\ writing[w].doing = "issuing" => writing[w].audit \in Audits
         /\ writing[w].doing = "editing" =>
              /\ writing[w].finding \in Finding /\ writing[w].row \in FindingRow
              /\ writing[w].who \in {"auditor", "auditee"}
BY DEF EngagementTypeOK, WriteJobs, NotWriting

\* Issuing changes nothing of a finding but its flag, and of those of its audit only.
LEMMA IssuedFindings ==
  ASSUME EngagementTypeOK, NEW a \in Audits
  PROVE  /\ Issued(a) \in [Finding -> FindingRow \union {Unwritten}]
         /\ \A f \in Finding : (Issued(a))[f] = Unwritten <=> findings[f] = Unwritten
         /\ \A f \in Finding : findings[f] # Unwritten =>
              /\ (Issued(a))[f].audit = findings[f].audit
              /\ (Issued(a))[f].issued <=> findings[f].issued \/ findings[f].audit = a
<1>1. ASSUME NEW f \in HeldBy(a)
      PROVE  /\ [findings[f] EXCEPT !.issued = TRUE] \in FindingRow
             /\ [findings[f] EXCEPT !.issued = TRUE].audit = findings[f].audit
             /\ [findings[f] EXCEPT !.issued = TRUE].issued
             /\ f \in Finding /\ findings[f] # Unwritten /\ findings[f].audit = a
  <2>1. f \in Finding /\ findings[f] \in FindingRow /\ findings[f] # Unwritten /\ findings[f].audit = a
    BY DEF HeldBy, EngagementTypeOK
  <2>2. QED
    BY <2>1 DEF FindingRow
<1>2. \A f \in Finding : (Issued(a))[f] =
        IF f \in HeldBy(a) THEN [findings[f] EXCEPT !.issued = TRUE] ELSE findings[f]
  BY DEF Issued
<1>3. ASSUME NEW f \in Finding
      PROVE  /\ (Issued(a))[f] \in FindingRow \union {Unwritten}
             /\ (Issued(a))[f] = Unwritten <=> findings[f] = Unwritten
             /\ findings[f] # Unwritten =>
                  /\ (Issued(a))[f].audit = findings[f].audit
                  /\ (Issued(a))[f].issued <=> findings[f].issued \/ findings[f].audit = a
  <2>1. CASE f \in HeldBy(a)
    BY <1>1, <1>2, <2>1, EngagementsAssumption
  <2>2. CASE f \notin HeldBy(a)
    <3>1. (Issued(a))[f] = findings[f]
      BY <1>2, <2>2
    <3>2. findings[f] # Unwritten => findings[f].audit # a
      BY <2>2 DEF HeldBy
    <3>3. QED
      BY <3>1, <3>2 DEF EngagementTypeOK
  <2>3. QED
    BY <2>1, <2>2
<1>4. QED
  BY <1>3 DEF Issued

-----------------------------------------------------------------------------
(* Types. *)

\* The report, the findings and the requests under way have the declared types.
THEOREM EngagementTypesHold == EngagementSpec => []EngagementTypeOK
<1>1. EngagementInit => EngagementTypeOK
  BY DEF EngagementInit, EngagementTypeOK, WriteJobs
<1>2. ASSUME EngagementTypeOK, [EngagementNext]_engagementVars PROVE EngagementTypeOK'
  <2>1. ASSUME NEW w \in Writer, NEW job \in WriteJobs, Writes(w, job)
        PROVE  writing' \in [Writer -> WriteJobs]
    BY <1>2, <2>1 DEF EngagementTypeOK, Writes
  <2>2. NotWriting \in WriteJobs
    BY DEF WriteJobs
  <2>3. ASSUME NEW w \in Writer, NEW s \in ReportStatus \union {NoPatch}, NEW a \in Audits \union {NoPatch},
               LoadReport(w, s, a)
        PROVE  EngagementTypeOK'
    <3>1. PICK row \in ReportRow : Writes(w, [doing |-> "saving", row |-> row])
      BY <1>2, <2>3 DEF LoadReport, EngagementTypeOK, ReportRow, ReportStatus
    <3>2. [doing |-> "saving", row |-> row] \in WriteJobs
      BY DEF WriteJobs
    <3>3. QED
      BY <1>2, <2>1, <2>3, <3>1, <3>2 DEF LoadReport, EngagementTypeOK
  <2>4. ASSUME NEW w \in Writer, CapturePriorReportStatus(w) PROVE EngagementTypeOK'
    <3>1. Status \in ReportStatus \union {NoPatch}
      BY <1>2 DEF Status, EngagementTypeOK, ReportRow
    <3>2. writing[w].row \in ReportRow
      BY <1>2, <2>4, WriteJobTypes DEF CapturePriorReportStatus
    <3>3. [doing |-> "captured", row |-> writing[w].row, prior |-> Status] \in WriteJobs
      BY <3>1, <3>2 DEF WriteJobs
    <3>4. QED
      BY <1>2, <2>1, <2>4, <3>3 DEF CapturePriorReportStatus, EngagementTypeOK
  <2>5. ASSUME NEW w \in Writer, SaveReport(w) PROVE EngagementTypeOK'
    <3>1. writing[w].row \in ReportRow
      BY <1>2, <2>5, WriteJobTypes DEF SaveReport
    <3>2. [doing |-> "issuing", audit |-> writing[w].row.audit] \in WriteJobs
      BY <3>1 DEF WriteJobs, ReportRow
    <3>3. writing' \in [Writer -> WriteJobs]
      BY <2>1, <2>2, <2>5, <3>2 DEF SaveReport
    <3>4. covered' \subseteq Finding
      BY <1>2, <2>5 DEF SaveReport, EngagementTypeOK, HeldBy
    <3>5. missed' \in BOOLEAN
      BY <1>2, <2>5 DEF SaveReport, EngagementTypeOK
    <3>6. QED
      BY <1>2, <2>5, <3>1, <3>3, <3>4, <3>5 DEF SaveReport, EngagementTypeOK
  <2>6. ASSUME NEW w \in Writer, ReportFinalIssuesFindings(w) PROVE EngagementTypeOK'
    BY <1>2, <2>1, <2>2, <2>6, WriteJobTypes, IssuedFindings DEF ReportFinalIssuesFindings, EngagementTypeOK
  <2>7. ASSUME NEW w \in Writer, IssueLost(w) \/ Abandon(w) PROVE EngagementTypeOK'
    BY <1>2, <2>1, <2>2, <2>7 DEF IssueLost, Abandon, EngagementTypeOK
  <2>8. ASSUME NEW w \in Writer, NEW f \in Finding, NEW who \in {"auditor", "auditee"},
               LoadFinding(w, f, who)
        PROVE  EngagementTypeOK'
    <3>1. findings[f] \in FindingRow
      BY <1>2, <2>8 DEF LoadFinding, EngagementTypeOK
    <3>2. [doing |-> "editing", finding |-> f, row |-> findings[f], who |-> who] \in WriteJobs
      BY <3>1 DEF WriteJobs
    <3>3. QED
      BY <1>2, <2>1, <2>8, <3>2 DEF LoadFinding, EngagementTypeOK
  <2>9. ASSUME NEW w \in Writer, NEW a \in Audits \union {NoPatch}, NEW mine \in BOOLEAN,
               SaveFinding(w, a, mine)
        PROVE  EngagementTypeOK'
    <3>1. /\ writing[w].finding \in Finding /\ writing[w].row \in FindingRow
      BY <1>2, <2>9, WriteJobTypes DEF SaveFinding
    <3>2. (mine \/ writing[w].who = "auditee") \in BOOLEAN
      OBVIOUS
    <3>3. PICK row \in FindingRow : findings' = [findings EXCEPT ![writing[w].finding] = row]
      BY <2>9, <3>1, <3>2 DEF SaveFinding, FindingRow
    <3>4. rewritten' \subseteq Finding
      BY <1>2, <2>9, <3>1 DEF SaveFinding, EngagementTypeOK
    <3>5. QED
      BY <1>2, <2>1, <2>2, <2>9, <3>1, <3>3, <3>4 DEF SaveFinding, EngagementTypeOK
  <2>10. CASE ReportApproved
    <3>1. auditReport \in ReportRow
      BY <1>2, <2>10 DEF ReportApproved, EngagementTypeOK
    <3>2. auditReport' \in ReportRow /\ auditReport.audit \in Audits
      BY <2>10, <3>1 DEF ReportApproved, ReportRow, ReportStatus
    <3>3. covered' \subseteq Finding
      BY <1>2, <2>10 DEF ReportApproved, EngagementTypeOK, HeldBy
    <3>4. QED
      BY <1>2, <2>10, <3>2, <3>3, IssuedFindings DEF ReportApproved, EngagementTypeOK
  <2>11. CASE DeleteReport
    BY <1>2, <2>11 DEF DeleteReport, EngagementTypeOK
  <2>12. ASSUME NEW f \in Finding, NEW who \in {"auditor", "auditee"}, NEW a \in Audits,
                NEW mine \in BOOLEAN, CreateFinding(f, who, a, mine)
         PROVE  EngagementTypeOK'
    <3>1. (mine \/ who = "auditee") \in BOOLEAN
      OBVIOUS
    <3>2. [audit |-> a, issued |-> FALSE, mine |-> mine \/ who = "auditee"] \in FindingRow
      BY <3>1 DEF FindingRow
    <3>3. QED
      BY <1>2, <2>12, <3>2 DEF CreateFinding, EngagementTypeOK
  <2>13. ASSUME NEW f \in Finding, NEW who \in {"auditor", "auditee"}, DeleteFinding(f, who)
         PROVE  EngagementTypeOK'
    BY <1>2, <2>13 DEF DeleteFinding, EngagementTypeOK
  <2>14. CASE UNCHANGED engagementVars
    BY <1>2, <2>14 DEF engagementVars, EngagementTypeOK
  <2>15. QED
    BY <1>2, <2>3, <2>4, <2>5, <2>6, <2>7, <2>8, <2>9, <2>10, <2>11, <2>12, <2>13, <2>14
       DEF EngagementNext
<1>3. QED
  BY <1>1, <1>2, PTL DEF EngagementSpec

-----------------------------------------------------------------------------
(* Issuing. *)

\* The audits whose findings some writer is about to issue.
BeingIssued == {writing[w].audit : w \in {x \in Writer : writing[x].doing = "issuing"}}

\* A covered finding is there, and is issued or about to be.
CoveredInHand ==
  ~missed => \A f \in covered \ rewritten :
    findings[f] # Unwritten /\ (findings[f].issued \/ findings[f].audit \in BeingIssued)

\* What an auditee edits was issued when he loaded it.
AuditeesEditIssued ==
  \A w \in Writer : writing[w].doing = "editing" /\ writing[w].who = "auditee" => writing[w].row.issued

IssueInv == CoveredInHand /\ AuditeesEditIssued

\* A step of one writer keeps the issuing of the others under way.
LEMMA OthersGoOn ==
  ASSUME EngagementTypeOK, IssueInv, NEW w \in Writer, NEW job, Writes(w, job),
         job.doing = "editing" /\ job.who = "auditee" => job.row.issued
  PROVE  /\ AuditeesEditIssued'
         /\ \A a \in BeingIssued : writing[w].doing # "issuing" => a \in BeingIssued'
         /\ job.doing = "issuing" => job.audit \in BeingIssued'
         /\ \A a \in BeingIssued : writing[w].doing = "issuing" =>
              a = writing[w].audit \/ a \in BeingIssued'
<1>1. writing'[w] = job /\ \A x \in Writer \ {w} : writing'[x] = writing[x]
  BY DEF Writes, EngagementTypeOK
<1>2. QED
  BY <1>1 DEF IssueInv, AuditeesEditIssued, BeingIssued

\* A writer goes on, and no row changes.
LEMMA QuietStep ==
  ASSUME EngagementTypeOK, IssueInv, NEW w \in Writer, NEW job, Writes(w, job),
         job.doing = "editing" /\ job.who = "auditee" => job.row.issued,
         writing[w].doing # "issuing", UNCHANGED <<findings, covered, rewritten, missed>>
  PROVE  IssueInv'
BY OthersGoOn DEF IssueInv, CoveredInHand

\* A report is written by an edit.
LEMMA SaveStep ==
  ASSUME EngagementTypeOK, IssueInv, NEW w \in Writer, SaveReport(w)
  PROVE  IssueInv'
<1>1. PICK job \in WriteJobs :
        /\ Writes(w, job) /\ job.doing # "editing"
        /\ writing[w].row.status = "Final" /\ writing[w].prior # "Final" =>
             job.doing = "issuing" /\ job.audit = writing[w].row.audit
  <2>1. writing[w].row \in ReportRow
    BY WriteJobTypes DEF SaveReport
  <2>2. [doing |-> "issuing", audit |-> writing[w].row.audit] \in WriteJobs
    BY <2>1 DEF WriteJobs, ReportRow
  <2>3. NotWriting \in WriteJobs
    BY DEF WriteJobs
  <2>4. QED
    BY <2>2, <2>3 DEF SaveReport, NotWriting
<1>2. writing[w].doing # "issuing"
  BY DEF SaveReport
<1>3. AuditeesEditIssued'
  BY <1>1, OthersGoOn
<1>4. ASSUME ~missed', NEW f \in (covered \ rewritten)'
      PROVE  findings'[f] # Unwritten /\ (findings'[f].issued \/ findings'[f].audit \in BeingIssued')
  <2>1. ~missed /\ writing[w].prior = Status /\ findings' = findings /\ rewritten' = rewritten
    BY <1>4 DEF SaveReport
  <2>2. CASE f \in covered
    <3>1. findings[f] # Unwritten /\ (findings[f].issued \/ findings[f].audit \in BeingIssued)
      BY <1>4, <2>1, <2>2 DEF IssueInv, CoveredInHand
    <3>2. QED
      BY <1>1, <1>2, <2>1, <3>1, OthersGoOn
  <2>3. CASE f \notin covered
    <3>1. /\ writing[w].row.status = "Final" /\ Status # "Final"
          /\ f \in HeldBy(writing[w].row.audit)
      BY <1>4, <2>3 DEF SaveReport
    <3>2. writing[w].row.audit \in BeingIssued'
      BY <1>1, <2>1, <3>1, OthersGoOn
    <3>3. QED
      BY <2>1, <3>1, <3>2 DEF HeldBy
  <2>4. QED
    BY <2>2, <2>3
<1>5. QED
  BY <1>3, <1>4 DEF IssueInv, CoveredInHand

\* Findings are issued, by a writer or by the approval.
LEMMA IssueStep ==
  ASSUME EngagementTypeOK, IssueInv, NEW a \in Audits, findings' = Issued(a),
         UNCHANGED <<rewritten, missed>>, covered' \subseteq covered \union HeldBy(a),
         AuditeesEditIssued', \A b \in BeingIssued : b = a \/ b \in BeingIssued'
  PROVE  IssueInv'
<1>1. SUFFICES ASSUME ~missed, NEW f \in covered' \ rewritten
               PROVE  findings'[f] # Unwritten /\ (findings'[f].issued \/ findings'[f].audit \in BeingIssued')
  BY DEF IssueInv, CoveredInHand
<1>2. f \in Finding
  BY DEF EngagementTypeOK, HeldBy
<1>3. findings[f] # Unwritten
  BY <1>1 DEF IssueInv, CoveredInHand, HeldBy
<1>4. \/ findings[f].audit = a
      \/ findings[f].issued
      \/ findings[f].audit \in BeingIssued
  BY <1>1 DEF IssueInv, CoveredInHand, HeldBy
<1>5. /\ findings'[f] # Unwritten
      /\ findings'[f].audit = findings[f].audit
      /\ findings'[f].issued <=> findings[f].issued \/ findings[f].audit = a
  BY <1>2, <1>3, IssuedFindings
<1>6. QED
  BY <1>4, <1>5

\* A finding is written from a copy.
LEMMA EditStep ==
  ASSUME EngagementTypeOK, IssueInv, NEW w \in Writer, NEW a \in Audits \union {NoPatch},
         NEW mine \in BOOLEAN, SaveFinding(w, a, mine)
  PROVE  IssueInv'
<1>1. /\ writing[w].doing = "editing" /\ writing[w].finding \in Finding
      /\ writing[w].row \in FindingRow /\ writing[w].who \in {"auditor", "auditee"}
  BY WriteJobTypes DEF SaveFinding
<1>2. DEFINE g == writing[w].finding
<1>3. Writes(w, NotWriting) /\ NotWriting.doing # "editing"
  BY DEF SaveFinding, NotWriting
<1>4. AuditeesEditIssued' /\ BeingIssued \subseteq BeingIssued'
  BY <1>1, <1>3, OthersGoOn
<1>5. PICK row \in FindingRow :
        /\ findings' = [findings EXCEPT ![g] = row]
        /\ row.issued = writing[w].row.issued
        /\ g \notin rewritten' =>
             /\ findings[g] # Unwritten /\ findings[g].audit = row.audit
             /\ writing[w].who = "auditor" /\ findings[g].issued => row.issued
  <2>1. DEFINE row == [writing[w].row EXCEPT
                         !.audit = IF a = NoPatch THEN @ ELSE a,
                         !.mine = mine \/ writing[w].who = "auditee"]
  <2>2. (mine \/ writing[w].who = "auditee") \in BOOLEAN
    OBVIOUS
  <2>3. row \in FindingRow /\ row.issued = writing[w].row.issued
    BY <1>1, <2>2 DEF FindingRow
  <2>4. findings' = [findings EXCEPT ![g] = row]
    BY DEF SaveFinding
  <2>5. rewritten' = IF \/ writing[w].who = "auditor" /\ findings[g] # Unwritten
                            /\ findings[g].issued /\ ~row.issued
                        \/ findings[g] = Unwritten \/ findings[g].audit # row.audit
                     THEN rewritten \union {g} ELSE rewritten
    BY DEF SaveFinding
  <2>6. HIDE DEF row
  <2>7. QED
    BY <2>3, <2>4, <2>5
<1>6. ASSUME ~missed', NEW f \in (covered \ rewritten)'
      PROVE  findings'[f] # Unwritten /\ (findings'[f].issued \/ findings'[f].audit \in BeingIssued')
  <2>1. ~missed /\ f \in covered \ rewritten /\ f \in Finding
    BY <1>6 DEF SaveFinding, EngagementTypeOK
  <2>2. findings[f] # Unwritten /\ (findings[f].issued \/ findings[f].audit \in BeingIssued)
    BY <2>1 DEF IssueInv, CoveredInHand
  <2>3. CASE f # g
    <3>1. findings'[f] = findings[f]
      BY <1>5, <2>3 DEF EngagementTypeOK
    <3>2. QED
      BY <1>4, <2>2, <3>1
  <2>4. CASE f = g
    <3>1. findings'[f] = row
      BY <1>1, <1>5, <2>4 DEF EngagementTypeOK
    <3>2. row # Unwritten /\ findings[f].audit = row.audit
      BY <1>5, <1>6, <2>4, EngagementsAssumption
    <3>3. CASE writing[w].who = "auditee"
      BY <1>1, <1>5, <3>1, <3>2, <3>3 DEF IssueInv, AuditeesEditIssued
    <3>4. CASE writing[w].who = "auditor"
      BY <1>4, <1>5, <1>6, <2>2, <2>4, <3>1, <3>2, <3>4
    <3>5. QED
      BY <1>1, <3>3, <3>4
  <2>5. QED
    BY <2>3, <2>4
<1>7. QED
  BY <1>4, <1>6 DEF IssueInv, CoveredInHand

\* A finding comes or goes.
LEMMA FindingStep ==
  ASSUME EngagementTypeOK, IssueInv, NEW g \in Finding, UNCHANGED <<writing, rewritten, missed>>,
         \A f \in Finding \ {g} : findings'[f] = findings[f],
         covered' \subseteq covered, findings[g] = Unwritten \/ g \notin covered'
  PROVE  IssueInv'
BY DEF IssueInv, CoveredInHand, AuditeesEditIssued, BeingIssued, EngagementTypeOK

\* However edits of the report, its approval and edits of findings overlap, a
\* finding that its audit held when the report became Final is issued, under
\* the premises the property names.
THEOREM CoveredIssued == EngagementSpec => []CoveredAreIssued
<1>1. EngagementInit => IssueInv
  BY DEF EngagementInit, IssueInv, CoveredInHand, AuditeesEditIssued, NotWriting
<1>2. ASSUME EngagementTypeOK, IssueInv, [EngagementNext]_engagementVars PROVE IssueInv'
  <2>1. ASSUME NEW w \in Writer, NEW s, NEW a, LoadReport(w, s, a) PROVE IssueInv'
    <3>1. PICK row : Writes(w, [doing |-> "saving", row |-> row])
      BY <2>1 DEF LoadReport
    <3>2. QED
      BY <1>2, <2>1, <3>1, QuietStep DEF LoadReport, NotWriting
  <2>2. ASSUME NEW w \in Writer, CapturePriorReportStatus(w) PROVE IssueInv'
    BY <1>2, <2>2, QuietStep DEF CapturePriorReportStatus
  <2>3. ASSUME NEW w \in Writer, SaveReport(w) PROVE IssueInv'
    BY <1>2, <2>3, SaveStep
  <2>4. ASSUME NEW w \in Writer, ReportFinalIssuesFindings(w) PROVE IssueInv'
    <3>1. writing[w].doing = "issuing" /\ writing[w].audit \in Audits
      BY <1>2, <2>4, WriteJobTypes DEF ReportFinalIssuesFindings
    <3>2. Writes(w, NotWriting) /\ NotWriting.doing # "editing"
      BY <2>4 DEF ReportFinalIssuesFindings, NotWriting
    <3>3. AuditeesEditIssued' /\ \A b \in BeingIssued : b = writing[w].audit \/ b \in BeingIssued'
      BY <1>2, <3>1, <3>2, OthersGoOn
    <3>4. /\ findings' = Issued(writing[w].audit)
          /\ UNCHANGED <<covered, rewritten, missed>>
      BY <2>4 DEF ReportFinalIssuesFindings
    <3>5. covered' \subseteq covered \union HeldBy(writing[w].audit)
      BY <3>4
    <3>6. QED
      BY <1>2, <3>1, <3>3, <3>4, <3>5, IssueStep
  <2>5. ASSUME NEW w \in Writer, IssueLost(w) PROVE IssueInv'
    <3>1. Writes(w, NotWriting) /\ NotWriting.doing # "editing" /\ missed'
      BY <2>5 DEF IssueLost, NotWriting
    <3>2. QED
      BY <1>2, <3>1, OthersGoOn DEF IssueInv, CoveredInHand
  <2>6. ASSUME NEW w \in Writer, NEW f \in Finding, NEW who, LoadFinding(w, f, who) PROVE IssueInv'
    <3>1. DEFINE job == [doing |-> "editing", finding |-> f, row |-> findings[f], who |-> who]
    <3>2. Writes(w, job) /\ (job.who = "auditee" => job.row.issued)
      BY <2>6 DEF LoadFinding, InScope
    <3>3. writing[w].doing # "issuing" /\ UNCHANGED <<findings, covered, rewritten, missed>>
      BY <2>6 DEF LoadFinding, NotWriting
    <3>4. HIDE DEF job
    <3>5. QED
      BY <1>2, <3>2, <3>3, QuietStep
  <2>7. ASSUME NEW w \in Writer, NEW a \in Audits \union {NoPatch}, NEW mine \in BOOLEAN,
               SaveFinding(w, a, mine)
        PROVE  IssueInv'
    BY <1>2, <2>7, EditStep
  <2>8. ASSUME NEW w \in Writer, Abandon(w) PROVE IssueInv'
    <3>1. Writes(w, NotWriting) /\ NotWriting.doing # "editing" /\ writing[w].doing # "issuing"
      BY <2>8 DEF Abandon, NotWriting
    <3>2. UNCHANGED <<findings, covered, rewritten, missed>>
      BY <2>8 DEF Abandon
    <3>3. QED
      BY <1>2, <3>1, <3>2, QuietStep
  <2>9. CASE ReportApproved
    <3>1. auditReport.audit \in Audits
      BY <1>2, <2>9 DEF ReportApproved, EngagementTypeOK, ReportRow
    <3>2. /\ findings' = Issued(auditReport.audit) /\ UNCHANGED <<writing, rewritten, missed>>
          /\ covered' \subseteq covered \union HeldBy(auditReport.audit)
      BY <2>9 DEF ReportApproved
    <3>3. AuditeesEditIssued' /\ BeingIssued \subseteq BeingIssued'
      BY <1>2, <3>2 DEF IssueInv, AuditeesEditIssued, BeingIssued
    <3>4. QED
      BY <1>2, <3>1, <3>2, <3>3, IssueStep
  <2>10. CASE DeleteReport
    BY <1>2, <2>10 DEF DeleteReport, IssueInv, CoveredInHand, AuditeesEditIssued, BeingIssued
  <2>11. ASSUME NEW f \in Finding, NEW who, NEW a, NEW mine, CreateFinding(f, who, a, mine)
         PROVE  IssueInv'
    <3>1. /\ findings[f] = Unwritten /\ \A g \in Finding \ {f} : findings'[g] = findings[g]
          /\ UNCHANGED <<writing, covered, rewritten, missed>>
      BY <2>11 DEF CreateFinding
    <3>2. QED
      BY <1>2, <3>1, FindingStep
  <2>12. ASSUME NEW f \in Finding, NEW who, DeleteFinding(f, who) PROVE IssueInv'
    <3>1. /\ covered' = covered \ {f} /\ \A g \in Finding \ {f} : findings'[g] = findings[g]
          /\ UNCHANGED <<writing, rewritten, missed>>
      BY <2>12 DEF DeleteFinding
    <3>2. QED
      BY <1>2, <3>1, FindingStep
  <2>13. CASE UNCHANGED engagementVars
    BY <1>2, <2>13 DEF engagementVars, IssueInv, CoveredInHand, AuditeesEditIssued, BeingIssued
  <2>14. QED
    BY <1>2, <2>1, <2>2, <2>3, <2>4, <2>5, <2>6, <2>7, <2>8, <2>9, <2>10, <2>11, <2>12, <2>13
       DEF EngagementNext
<1>3. IssueInv => CoveredAreIssued
  BY DEF IssueInv, CoveredInHand, CoveredAreIssued, BeingIssued
<1>4. QED
  BY <1>1, <1>2, <1>3, EngagementTypesHold, PTL DEF EngagementSpec

-----------------------------------------------------------------------------
(***************************************************************************)
(* RiskModels.                                                             *)
(***************************************************************************)

Saves == [stage : {"loaded", "cleared"}, model : ScoringModel, on : BOOLEAN,
          off : SUBSET ScoringModel, apart : BOOLEAN]

\* A process without a save is never taken for one that has turned models off.
LEMMA SaveTypes ==
  ASSUME ModelTypeOK, NEW w \in Saver
  PROVE  /\ saving[w].stage \in {"loaded", "cleared"} => saving[w] \in Saves
         /\ saving[w] \in {NoSave} \union Saves
BY DEF ModelTypeOK, NoSave, Saves

-----------------------------------------------------------------------------
(* Types. *)

\* The rows, the requests and the saves under way have the declared types.
THEOREM ModelTypesHold == ModelSpec => []ModelTypeOK
<1>1. ModelInit => ModelTypeOK
  BY DEF ModelInit, ModelTypeOK
<1>2. ASSUME ModelTypeOK, [ModelNext]_modelVars PROVE ModelTypeOK'
  <2>1. ASSUME NEW m \in ScoringModel, Publish(m) PROVE ModelTypeOK'
    BY <1>2, <2>1 DEF ModelTypeOK, Publish
  <2>2. ASSUME NEW m \in ScoringModel, NEW on \in BOOLEAN PROVE Loaded(m, on) \in Saves
    BY DEF Loaded, Saves
  <2>3. ASSUME NEW m \in ScoringModel, NEW w \in Saver, LoadPatch(w, m) PROVE ModelTypeOK'
    <3>1. (m \in active) \in BOOLEAN
      OBVIOUS
    <3>2. Loaded(m, m \in active) \in Saves
      BY <2>2, <3>1, Zenon
    <3>3. QED
      BY <1>2, <2>3, <3>2 DEF ModelTypeOK, LoadPatch, Saves
  <2>4. ASSUME NEW m \in ScoringModel, NEW w \in Saver, LoadApproved(w, m) PROVE ModelTypeOK'
    <3>1. Loaded(m, TRUE) \in Saves
      BY <2>2
    <3>2. QED
      BY <1>2, <2>4, <3>1 DEF ModelTypeOK, LoadApproved, Saves
  <2>5. ASSUME NEW w \in Saver, Clear(w) PROVE ModelTypeOK'
    <3>1. saving[w] \in Saves
      BY <1>2, <2>5, SaveTypes DEF Clear
    <3>2. ASSUME NEW x \in Saver PROVE saving'[x] \in {NoSave} \union Saves
      <4>1. saving[x] \in {NoSave} \union Saves
        BY <1>2, SaveTypes
      <4>2. CASE x = w
        BY <1>2, <2>5, <3>1, <4>2 DEF Clear, Saves, ModelTypeOK
      <4>3. CASE x # w /\ saving'[x] = saving[x]
        BY <4>1, <4>3
      <4>4. CASE /\ x # w /\ Clearing(x)
                 /\ saving'[x] = [saving[x] EXCEPT !.apart = FALSE]
        <5>1. saving[x] \in Saves
          BY <1>2, <4>4, SaveTypes DEF Clearing
        <5>2. QED
          BY <4>4, <5>1 DEF Saves
      <4>5. QED
        BY <2>5, <4>2, <4>3, <4>4 DEF Clear
    <3>3. saving' \in [Saver -> {NoSave} \union Saves]
      BY <2>5, <3>2 DEF Clear
    <3>4. QED
      BY <1>2, <2>5, <3>3 DEF ModelTypeOK, Clear, Saves
  <2>6. ASSUME NEW w \in Saver, CommitSave(w) PROVE ModelTypeOK'
    <3>1. saving[w] \in Saves
      BY <1>2, <2>6, SaveTypes DEF CommitSave, Clearing
    <3>2. QED
      BY <1>2, <2>6, <3>1 DEF ModelTypeOK, CommitSave, Saves
  <2>7. ASSUME NEW w \in Saver, FailSave(w) PROVE ModelTypeOK'
    BY <1>2, <2>7 DEF ModelTypeOK, FailSave
  <2>8. CASE UNCHANGED modelVars
    BY <1>2, <2>8 DEF ModelTypeOK, modelVars
  <2>9. QED
    BY <1>2, <2>1, <2>3, <2>4, <2>5, <2>6, <2>7, <2>8 DEF ModelNext
<1>3. QED
  BY <1>1, <1>2, PTL DEF ModelSpec

-----------------------------------------------------------------------------
(* One live model. *)

\* A calm state has at most one live model, in the form that needs no counting.
AtMostOne == calm => \A x, y \in active : x = y

\* An activation that has turned the others off, and that none overlapped, will
\* leave no live model but its own: what is live, it has turned off.
TurnsOthersOff ==
  \A w \in Saver : Clearing(w) /\ saving[w].on /\ saving[w].apart =>
    /\ active \subseteq saving[w].off \union {saving[w].model}
    /\ \A x \in Saver : Clearing(x) /\ saving[x].on => x = w

ModelInv == ModelTypeOK /\ AtMostOne /\ TurnsOthersOff

\* A set with one element at most, counted.
LEMMA OneAtMost ==
  ASSUME NEW S, \A x, y \in S : x = y
  PROVE  Cardinality(S) <= 1
<1>1. CASE S = {}
  BY <1>1, FS_EmptySet
<1>2. CASE S # {}
  <2>1. PICK x : x \in S
    BY <1>2
  <2>2. S = {x}
    BY <2>1
  <2>3. QED
    BY <2>2, FS_Singleton
<1>3. QED
  BY <1>1, <1>2

\* What a step of another process leaves of an activation that none overlapped.
LEMMA StepsKeepOne ==
  ASSUME ModelInv, [ModelNext]_modelVars
  PROVE  AtMostOne' /\ TurnsOthersOff'
<1>1. ASSUME NEW m \in ScoringModel, Publish(m) PROVE AtMostOne' /\ TurnsOthersOff'
  BY <1>1 DEF ModelInv, AtMostOne, TurnsOthersOff, Clearing, Publish
<1>2. ASSUME NEW m \in ScoringModel, NEW w \in Saver, LoadPatch(w, m)
      PROVE  AtMostOne' /\ TurnsOthersOff'
  <2>1. ~Clearing(w)'
    BY <1>2 DEF ModelInv, ModelTypeOK, LoadPatch, Loaded, Clearing
  <2>2. \A x \in Saver \ {w} : saving'[x] = saving[x]
    BY <1>2 DEF LoadPatch
  <2>3. QED
    BY <1>2, <2>1, <2>2 DEF ModelInv, AtMostOne, TurnsOthersOff, Clearing, LoadPatch
<1>3. ASSUME NEW m \in ScoringModel, NEW w \in Saver, LoadApproved(w, m)
      PROVE  AtMostOne' /\ TurnsOthersOff'
  <2>1. saving' = saving \/ ~Clearing(w)'
    BY <1>3 DEF ModelInv, ModelTypeOK, LoadApproved, Loaded, Clearing
  <2>2. \A x \in Saver \ {w} : saving'[x] = saving[x]
    BY <1>3 DEF LoadApproved
  <2>3. QED
    BY <1>3, <2>1, <2>2, ZenonT(60) DEF ModelInv, AtMostOne, TurnsOthersOff, Clearing, LoadApproved
<1>4. ASSUME NEW w \in Saver, Clear(w) PROVE AtMostOne' /\ TurnsOthersOff'
  <2>1. saving[w] \in Saves /\ ~Clearing(w)
    BY <1>4, SaveTypes DEF ModelInv, Clear, Clearing
  <2>2. ASSUME NEW x \in Saver, Clearing(x)', saving'[x].on, saving'[x].apart
        PROVE  /\ active' \subseteq saving'[x].off \union {saving'[x].model}
               /\ \A y \in Saver : Clearing(y)' /\ saving'[y].on => y = x
    <3>1. ASSUME NEW y \in Saver, y # w
          PROVE  /\ Clearing(y)' <=> Clearing(y)
                 /\ Clearing(y) => /\ saving'[y].on = saving[y].on
                                   /\ saving'[y].off = saving[y].off
                                   /\ saving'[y].model = saving[y].model
                                   /\ saving'[y].apart => saving[y].apart
                                   /\ saving'[y].apart /\ saving[y].on => ~saving[w].on
      <4>1. CASE saving'[y] = saving[y] /\ ~(saving[w].on /\ Clearing(y) /\ saving[y].on)
        BY <4>1 DEF Clearing
      <4>2. CASE Clearing(y) /\ saving'[y] = [saving[y] EXCEPT !.apart = FALSE]
        <5>1. saving[y] \in Saves
          BY <4>2, SaveTypes DEF ModelInv, Clearing
        <5>2. QED
          BY <4>2, <5>1 DEF Clearing, Saves
      <4>3. QED
        BY <1>4, <3>1, <4>1, <4>2 DEF Clear
    <3>2. /\ saving'[w].on = saving[w].on
          /\ saving'[w].model = saving[w].model
          /\ saving[w].on => saving'[w].off = active \ {saving[w].model}
          /\ saving'[w].apart => \A y \in Saver \ {w} : ~(Clearing(y) /\ saving[y].on)
      BY <1>4, <2>1 DEF Clear, Saves, ModelInv, ModelTypeOK
    <3>3. active' = active
      BY <1>4 DEF Clear
    <3>4. CASE x = w
      BY <2>2, <3>1, <3>2, <3>3, <3>4
    <3>5. CASE x # w
      BY <2>2, <3>1, <3>2, <3>3, <3>5 DEF ModelInv, TurnsOthersOff
    <3>6. QED
      BY <3>4, <3>5
  <2>3. QED
    BY <1>4, <2>2 DEF ModelInv, AtMostOne, TurnsOthersOff, Clear
<1>5. ASSUME NEW w \in Saver, CommitSave(w) PROVE AtMostOne' /\ TurnsOthersOff'
  <2>1. saving[w] \in Saves
    BY <1>5, SaveTypes DEF ModelInv, CommitSave, Clearing
  <2>2. ~Clearing(w)' /\ \A x \in Saver \ {w} : saving'[x] = saving[x]
    BY <1>5 DEF ModelInv, ModelTypeOK, CommitSave, NoSave, Clearing
  <2>3. CASE saving[w].on
    <3>1. AtMostOne'
      BY <1>5, <2>1, <2>3 DEF ModelInv, AtMostOne, TurnsOthersOff, CommitSave
    <3>2. \A x \in Saver : Clearing(x)' /\ saving'[x].on => ~saving'[x].apart
      BY <1>5, <2>2, <2>3 DEF ModelInv, TurnsOthersOff, CommitSave, Clearing
    <3>3. QED
      BY <3>1, <3>2 DEF TurnsOthersOff
  <2>4. CASE ~saving[w].on
    <3>1. active' \subseteq active /\ calm' = calm
      BY <1>5, <2>4 DEF CommitSave
    <3>2. QED
      BY <2>2, <3>1 DEF ModelInv, AtMostOne, TurnsOthersOff, Clearing
  <2>5. QED
    BY <2>3, <2>4
<1>6. ASSUME NEW w \in Saver, FailSave(w) PROVE AtMostOne' /\ TurnsOthersOff'
  <2>1. ~Clearing(w)' /\ \A x \in Saver \ {w} : saving'[x] = saving[x]
    BY <1>6 DEF ModelInv, ModelTypeOK, FailSave, NoSave, Clearing
  <2>2. QED
    BY <1>6, <2>1 DEF ModelInv, AtMostOne, TurnsOthersOff, Clearing, FailSave
<1>7. CASE UNCHANGED modelVars
  BY <1>7 DEF ModelInv, AtMostOne, TurnsOthersOff, Clearing, modelVars
<1>8. QED
  BY <1>1, <1>2, <1>3, <1>4, <1>5, <1>6, <1>7 DEF ModelNext

\* After an activation that overlapped no other there is one live model at most,
\* for any number of processes saving any number of models.
THEOREM OneModelLive == ModelSpec => []SingleActive
<1>1. ModelInit => AtMostOne /\ TurnsOthersOff
  BY DEF ModelInit, AtMostOne, TurnsOthersOff, Clearing, NoSave
<1>2. ModelTypeOK /\ AtMostOne /\ TurnsOthersOff /\ ModelTypeOK' /\ [ModelNext]_modelVars
        => AtMostOne' /\ TurnsOthersOff'
  BY StepsKeepOne DEF ModelInv
<1>3. AtMostOne => SingleActive
  BY OneAtMost DEF AtMostOne, SingleActive
<1>4. QED
  BY <1>1, <1>2, <1>3, ModelTypesHold, PTL DEF ModelSpec

-----------------------------------------------------------------------------
(***************************************************************************)
(* Integrations.                                                           *)
(***************************************************************************)

\* The deliveries under way, and the rows of the register.
Deliveries == [stage : {"checked", "inside"}, msg : Messages, name : SourceNames]
RowsUnder == {NoRow} \union [payload : Payloads, deleted : BOOLEAN, edited : BOOLEAN]

Outcomes == [answer : {"none", "accepted", "failed"}, version : 0..MaxSaves]

\* The types a proof needs: each process serves nothing or a whole delivery.
InboundTypes ==
  /\ source \in SourceNames
  /\ rows \in [Keys -> RowsUnder]
  /\ audits \subseteq SourceNames
  /\ ledger \in [Keys -> Payloads \union {NoPayload}]
  /\ hooks \in [Hook -> Deliveries \union {NoHook}]
OutboundTypes ==
  /\ user \in 0..MaxSaves /\ remote \in [Targets -> 0..MaxSaves]
  /\ outcome \in [Targets -> Outcomes]
  /\ pushes \in [Pusher -> [left : SUBSET Targets, version : 0..MaxSaves]]
  /\ crossed \in BOOLEAN /\ unreached \subseteq Targets

\* What the ledger tells of the rows, of the audits, and of the targets.
RowsTold ==
  \A k \in Keys :
    /\ rows[k] = NoRow <=> ledger[k] = NoPayload
    /\ ~rows[k].edited => rows[k].payload = ledger[k]
    /\ k[1] = "finding" /\ rows[k] # NoRow => k[2] \in audits
TargetsTold ==
  ~crossed => \A t \in Targets :
    /\ outcome[t].version <= user
    /\ outcome[t].answer = "accepted" => remote[t] >= outcome[t].version
    /\ Silent(t) /\ t \notin unreached => outcome[t].version = user

\* While no two pushes crossed, one process at most pushes, and what it pushes
\* is the user as last saved.
OnePush ==
  ~crossed => \A p \in Pusher : pushes[p].left # {} =>
    pushes[p].version = user /\ \A x \in Pusher \ {p} : pushes[x].left = {}

InboundInv == InboundTypes /\ RowsTold
OutboundInv == OutboundTypes /\ TargetsTold /\ OnePush

LEMMA DeliveryTypes ==
  ASSUME InboundTypes, NEW h \in Hook
  PROVE  /\ \A s : Serving(h, s) => hooks[h] \in Deliveries
         /\ hooks[h] \in Deliveries =>
              /\ KeyOf(h) \in Keys /\ KeyOf(h)[1] = hooks[h].msg.kind /\ KeyOf(h)[2] = hooks[h].name
              /\ hooks[h].msg.payload \in Payloads
<1>1. \A s : Serving(h, s) => hooks[h] \in Deliveries
  BY DEF InboundTypes, Serving
<1>2. ASSUME hooks[h] \in Deliveries
      PROVE  /\ KeyOf(h) \in Keys /\ KeyOf(h)[1] = hooks[h].msg.kind /\ KeyOf(h)[2] = hooks[h].name
             /\ hooks[h].msg.payload \in Payloads
  <2>1. hooks[h].msg \in Messages /\ hooks[h].name \in SourceNames
    BY <1>2 DEF Deliveries
  <2>2. hooks[h].msg.kind \in ExternalKinds /\ hooks[h].msg.payload \in Payloads
    BY <2>1, IntegrationsAssumption
  <2>3. QED
    BY <2>1, <2>2 DEF KeyOf, Keys
<1>3. QED
  BY <1>1, <1>2

\* A row comes, changes or goes, and the ledger with it.
LEMMA RowStep ==
  ASSUME InboundTypes, RowsTold, NEW k \in Keys, NEW row \in RowsUnder,
         NEW entry \in Payloads \union {NoPayload},
         rows' = [rows EXCEPT ![k] = row], ledger' = [ledger EXCEPT ![k] = entry],
         row = NoRow <=> entry = NoPayload, ~row.edited => row.payload = entry,
         k[1] = "finding" /\ row # NoRow => k[2] \in audits',
         \A n \in audits \ audits' : k = <<"finding", n>>
  PROVE  RowsTold'
<1>1. /\ rows'[k] = row /\ ledger'[k] = entry
      /\ \A j \in Keys \ {k} : rows'[j] = rows[j] /\ ledger'[j] = ledger[j]
  BY DEF InboundTypes
<1>2. ASSUME NEW j \in Keys
      PROVE  /\ rows'[j] = NoRow <=> ledger'[j] = NoPayload
             /\ ~rows'[j].edited => rows'[j].payload = ledger'[j]
             /\ j[1] = "finding" /\ rows'[j] # NoRow => j[2] \in audits'
  <2>1. CASE j = k
    BY <1>1, <2>1
  <2>2. CASE j # k
    <3>1. /\ rows[j] = NoRow <=> ledger[j] = NoPayload
          /\ ~rows[j].edited => rows[j].payload = ledger[j]
          /\ j[1] = "finding" /\ rows[j] # NoRow => j[2] \in audits
      BY DEF RowsTold
    <3>2. ASSUME j[1] = "finding", j[2] \in audits \ audits' PROVE FALSE
      <4>1. k = <<"finding", j[2]>> /\ j = <<j[1], j[2]>>
        BY <3>2 DEF Keys
      <4>2. QED
        BY <2>2, <3>2, <4>1
    <3>3. QED
      BY <1>1, <2>2, <3>1, <3>2
  <2>3. QED
    BY <2>1, <2>2
<1>3. QED
  BY <1>2 DEF RowsTold

\* Every inbound step keeps the register and the ledger in step.
LEMMA InboundStep ==
  ASSUME InboundInv, InboundNext
  PROVE  InboundInv'
<1>1. NoRow \in RowsUnder /\ NoRow.payload = NoPayload /\ NoRow.edited = FALSE
  BY DEF RowsUnder, NoRow
<1>2. ASSUME NEW h \in Hook, NEW msg \in Messages, Receive(h, msg) PROVE InboundInv'
  <2>1. [stage |-> "checked", msg |-> msg, name |-> source] \in Deliveries
    BY DEF Deliveries, InboundInv, InboundTypes
  <2>2. QED
    BY <1>2, <2>1 DEF Receive, InboundInv, InboundTypes, RowsTold
<1>3. ASSUME NEW h \in Hook, Enter(h) PROVE InboundInv'
  <2>1. hooks[h] \in Deliveries
    BY <1>3, DeliveryTypes DEF InboundInv, Enter
  <2>2. [hooks[h] EXCEPT !.stage = "inside"] \in Deliveries
    BY <2>1 DEF Deliveries
  <2>3. QED
    BY <1>3, <2>2 DEF Enter, InboundInv, InboundTypes, RowsTold
<1>4. ASSUME NEW h \in Hook, Accept(h) PROVE InboundInv'
  <2>1. DEFINE k == KeyOf(h)
               payload == hooks[h].msg.payload
               row == [payload |-> payload, deleted |-> FALSE, edited |-> FALSE]
  <2>2. /\ hooks[h] \in Deliveries /\ k \in Keys /\ payload \in Payloads
        /\ k[1] = hooks[h].msg.kind /\ k[2] = hooks[h].name /\ hooks[h].name \in SourceNames
    BY <1>4, DeliveryTypes DEF InboundInv, Accept, Deliveries
  <2>3. row \in RowsUnder /\ row # NoRow /\ row.payload = payload /\ payload # NoPayload
    BY <2>2, IntegrationsAssumption DEF RowsUnder, NoRow
  <2>4. /\ rows' = [rows EXCEPT ![k] = row] /\ ledger' = [ledger EXCEPT ![k] = payload]
        /\ hooks' = [hooks EXCEPT ![h] = NoHook] /\ source' = source
        /\ audits' = IF hooks[h].msg.kind = "finding" THEN audits \union {hooks[h].name} ELSE audits
    BY <1>4 DEF Accept, Finish
  <2>5. InboundTypes'
    BY <2>2, <2>3, <2>4 DEF InboundInv, InboundTypes
  <2>6. k[1] = "finding" => k[2] \in audits'
    BY <2>2, <2>4
  <2>7. audits \ audits' = {}
    BY <2>4
  <2>8. HIDE DEF k, row, payload
  <2>9. RowsTold'
    BY <2>2, <2>3, <2>4, <2>6, <2>7, RowStep DEF InboundInv
  <2>10. QED
    BY <2>5, <2>9 DEF InboundInv
<1>5. ASSUME NEW h \in Hook, Fail(h) PROVE InboundInv'
  BY <1>5 DEF Fail, Finish, InboundInv, InboundTypes, RowsTold
<1>6. ASSUME NEW k \in Keys, EditRow(k) PROVE InboundInv'
  <2>1. rows[k] \in RowsUnder /\ rows[k] # NoRow /\ ledger[k] \in Payloads \union {NoPayload}
    BY <1>6 DEF EditRow, InboundInv, InboundTypes
  <2>2. DEFINE row == [rows[k] EXCEPT !.edited = TRUE]
  <2>3. row \in RowsUnder /\ row # NoRow /\ row.edited = TRUE
    BY <2>1 DEF RowsUnder, NoRow
  <2>4. ledger[k] # NoPayload /\ (k[1] = "finding" => k[2] \in audits)
    BY <2>1 DEF InboundInv, RowsTold
  <2>5. /\ rows' = [rows EXCEPT ![k] = row] /\ ledger' = [ledger EXCEPT ![k] = ledger[k]]
        /\ UNCHANGED <<source, audits, hooks>>
    BY <1>6 DEF EditRow, InboundInv, InboundTypes
  <2>6. HIDE DEF row
  <2>7. InboundTypes'
    BY <2>1, <2>3, <2>5 DEF InboundInv, InboundTypes
  <2>8. RowsTold'
    BY <2>1, <2>3, <2>4, <2>5, RowStep DEF InboundInv
  <2>9. QED
    BY <2>7, <2>8 DEF InboundInv
<1>7. ASSUME NEW k \in Keys, DeleteRow(k) PROVE InboundInv'
  <2>1. rows[k] \in RowsUnder /\ rows[k] # NoRow /\ ledger[k] \in Payloads \union {NoPayload}
    BY <1>7 DEF DeleteRow, InboundInv, InboundTypes
  <2>2. ledger[k] # NoPayload /\ (~rows[k].edited => rows[k].payload = ledger[k])
    BY <2>1 DEF InboundInv, RowsTold
  <2>3. UNCHANGED <<source, audits, hooks>>
    BY <1>7 DEF DeleteRow
  <2>4. PICK row \in RowsUnder, entry \in Payloads \union {NoPayload} :
          /\ rows' = [rows EXCEPT ![k] = row] /\ ledger' = [ledger EXCEPT ![k] = entry]
          /\ row = NoRow <=> entry = NoPayload
          /\ ~row.edited => row.payload = entry
          /\ k[1] = "finding" => row = NoRow
    <3>1. CASE k[1] = "entity"
      <4>1. DEFINE row == [rows[k] EXCEPT !.deleted = TRUE]
      <4>2. /\ row \in RowsUnder /\ row # NoRow /\ row.edited = rows[k].edited
            /\ row.payload = rows[k].payload
        BY <2>1 DEF RowsUnder, NoRow
      <4>3. rows' = [rows EXCEPT ![k] = row] /\ ledger' = [ledger EXCEPT ![k] = ledger[k]]
        BY <1>7, <3>1 DEF DeleteRow, InboundInv, InboundTypes
      <4>4. HIDE DEF row
      <4>5. QED
        BY <2>1, <2>2, <3>1, <4>2, <4>3
    <3>2. CASE k[1] # "entity"
      BY <1>1, <1>7, <3>2 DEF DeleteRow
    <3>3. QED
      BY <3>1, <3>2
  <2>5. InboundTypes'
    BY <2>3, <2>4 DEF InboundInv, InboundTypes
  <2>6. RowsTold'
    BY <2>3, <2>4, RowStep DEF InboundInv
  <2>7. QED
    BY <2>5, <2>6 DEF InboundInv
<1>8. ASSUME NEW n \in SourceNames, DeleteAudit(n) PROVE InboundInv'
  <2>1. DEFINE k == <<"finding", n>>
  <2>2. k \in Keys /\ k[1] = "finding" /\ k[2] = n
    BY DEF Keys, ExternalKinds
  <2>3. /\ rows' = [rows EXCEPT ![k] = NoRow] /\ ledger' = [ledger EXCEPT ![k] = NoPayload]
        /\ audits' = audits \ {n} /\ UNCHANGED <<source, hooks>>
    BY <1>8 DEF DeleteAudit
  <2>4. \A m \in audits \ audits' : k = <<"finding", m>>
    BY <2>3
  <2>5. HIDE DEF k
  <2>6. InboundTypes'
    BY <1>1, <2>2, <2>3 DEF InboundInv, InboundTypes
  <2>7. RowsTold'
    BY <1>1, <2>2, <2>3, <2>4, RowStep DEF InboundInv
  <2>8. QED
    BY <2>6, <2>7 DEF InboundInv
<1>9. ASSUME NEW n \in SourceNames, RenameSource(n) PROVE InboundInv'
  BY <1>9 DEF RenameSource, InboundInv, InboundTypes, RowsTold
<1>10. QED
  BY <1>2, <1>3, <1>4, <1>5, <1>6, <1>7, <1>8, <1>9 DEF InboundNext

\* Every outbound step keeps what the targets are known to know.
LEMMA OutboundStep ==
  ASSUME OutboundInv, OutboundNext
  PROVE  OutboundInv'
<1>1. ASSUME NEW p \in Pusher, SaveUser(p) PROVE OutboundInv'
  <2>1. user \in Nat /\ MaxSaves \in Nat /\ user + 1 \in 0..MaxSaves
    BY <1>1, IntegrationsAssumption DEF SaveUser, OutboundInv, OutboundTypes
  <2>2. (crossed \/ \E x \in Pusher \ {p} : pushes[x].left # {}) \in BOOLEAN
    OBVIOUS
  <2>3. OutboundTypes'
    BY <1>1, <2>1, <2>2 DEF SaveUser, OutboundInv, OutboundTypes
  <2>4. /\ pushes'[p] = [left |-> Targets, version |-> user + 1]
        /\ \A x \in Pusher \ {p} : pushes'[x] = pushes[x]
    BY <1>1 DEF SaveUser, OutboundInv, OutboundTypes
  <2>5. OnePush'
    <3>1. ASSUME ~crossed' PROVE \A x \in Pusher \ {p} : pushes'[x].left = {}
      BY <1>1, <2>4, <3>1 DEF SaveUser
    <3>2. pushes'[p].version = user'
      BY <1>1, <2>4 DEF SaveUser
    <3>3. QED
      BY <3>1, <3>2 DEF OnePush
  <2>6. ASSUME NEW t \in Targets, ~crossed'
        PROVE  /\ outcome'[t].version <= user'
               /\ outcome'[t].answer = "accepted" => remote'[t] >= outcome'[t].version
               /\ ~Silent(t)'
    <3>1. outcome' = outcome /\ remote' = remote /\ user' = user + 1 /\ ~crossed
      BY <1>1, <2>6 DEF SaveUser
    <3>2. outcome[t].version \in Int /\ outcome[t].version <= user
      BY <3>1 DEF OutboundInv, OutboundTypes, Outcomes, TargetsTold
    <3>3. outcome[t].answer = "accepted" => remote[t] >= outcome[t].version
      BY <3>1 DEF OutboundInv, TargetsTold
    <3>4. t \in pushes'[p].left
      BY <2>4
    <3>5. QED
      BY <2>1, <3>1, <3>2, <3>3, <3>4 DEF Silent
  <2>7. QED
    BY <2>3, <2>5, <2>6 DEF OutboundInv, TargetsTold
<1>2. ASSUME NEW p \in Pusher, NEW t \in Targets, NEW arrives \in BOOLEAN,
             NEW answer \in {"accepted", "failed"}, Push(p, t, arrives, answer)
      PROVE  OutboundInv'
  <2>1. pushes[p] \in [left : SUBSET Targets, version : 0..MaxSaves]
    BY DEF OutboundInv, OutboundTypes
  <2>2. [pushes[p] EXCEPT !.left = @ \ {t}] \in [left : SUBSET Targets, version : 0..MaxSaves]
    BY <2>1
  <2>3. remote' \in [Targets -> 0..MaxSaves]
    BY <1>2, <2>1 DEF Push, OutboundInv, OutboundTypes
  <2>4. pushes' \in [Pusher -> [left : SUBSET Targets, version : 0..MaxSaves]]
    BY <1>2, <2>2 DEF Push, OutboundInv, OutboundTypes
  <2>5. OutboundTypes'
    <3>1. [answer |-> answer, version |-> pushes[p].version] \in Outcomes
      BY <2>1 DEF Outcomes
    <3>2. outcome' \in [Targets -> Outcomes]
      BY <1>2, <3>1 DEF Push, OutboundInv, OutboundTypes
    <3>3. QED
      BY <1>2, <2>3, <2>4, <3>2 DEF Push, OutboundInv, OutboundTypes
  <2>6. /\ pushes'[p].left = pushes[p].left \ {t} /\ pushes'[p].version = pushes[p].version
        /\ \A x \in Pusher \ {p} : pushes'[x] = pushes[x]
    BY <1>2, <2>1 DEF Push, OutboundInv, OutboundTypes
  <2>7. OnePush'
    BY <1>2, <2>6 DEF Push, OutboundInv, OnePush
  <2>8. ASSUME NEW u \in Targets, ~crossed'
        PROVE  /\ outcome'[u].version <= user'
               /\ outcome'[u].answer = "accepted" => remote'[u] >= outcome'[u].version
               /\ Silent(u)' /\ u \notin unreached' => outcome'[u].version = user'
    <3>1. ~crossed /\ user' = user /\ user \in Int
      BY <1>2, <2>8 DEF Push, OutboundInv, OutboundTypes
    <3>2. CASE u = t
      <4>1. outcome'[u] = [answer |-> answer, version |-> pushes[p].version]
        BY <1>2, <3>2 DEF Push, OutboundInv, OutboundTypes
      <4>2. answer = "accepted" => remote'[u] = pushes[p].version
        BY <1>2, <3>2 DEF Push, OutboundInv, OutboundTypes
      <4>3. pushes[p].version = user
        BY <1>2, <3>1 DEF Push, OutboundInv, OnePush
      <4>4. QED
        BY <3>1, <4>1, <4>2, <4>3
    <3>3. CASE u # t
      <4>1. outcome'[u] = outcome[u] /\ remote'[u] = remote[u] /\ (u \in unreached <=> u \in unreached')
        BY <1>2, <3>3 DEF Push, OutboundInv, OutboundTypes
      <4>2. Silent(u)' => Silent(u)
        BY <2>6, <3>3 DEF Silent
      <4>3. QED
        BY <3>1, <4>1, <4>2 DEF OutboundInv, TargetsTold
    <3>4. QED
      BY <3>2, <3>3
  <2>9. QED
    BY <2>5, <2>7, <2>8 DEF OutboundInv, TargetsTold
<1>3. ASSUME NEW p \in Pusher, BreakOff(p) PROVE OutboundInv'
  <2>1. pushes[p] \in [left : SUBSET Targets, version : 0..MaxSaves]
    BY DEF OutboundInv, OutboundTypes
  <2>2. [pushes[p] EXCEPT !.left = {}] \in [left : SUBSET Targets, version : 0..MaxSaves]
    BY <2>1
  <2>3. /\ pushes' \in [Pusher -> [left : SUBSET Targets, version : 0..MaxSaves]]
        /\ pushes'[p].left = {} /\ \A x \in Pusher \ {p} : pushes'[x] = pushes[x]
    BY <1>3, <2>2 DEF BreakOff, OutboundInv, OutboundTypes
  <2>4. PICK reached : /\ reached \subseteq pushes[p].left
                       /\ remote' \in [Targets -> 0..MaxSaves]
                       /\ \A t \in Targets : remote'[t] = IF t \in reached THEN pushes[p].version ELSE remote[t]
    <3>1. CASE remote' = remote
      <4>1. PICK reached : reached = {}
        OBVIOUS
      <4>2. QED
        BY <3>1, <4>1 DEF OutboundInv, OutboundTypes
    <3>2. CASE remote' # remote
      <4>1. PICK t \in pushes[p].left : remote' = [remote EXCEPT ![t] = pushes[p].version]
        BY <1>3, <3>2 DEF BreakOff
      <4>2. PICK reached : reached = {t} /\ reached \subseteq pushes[p].left
        BY <4>1
      <4>3. t \in Targets /\ pushes[p].version \in 0..MaxSaves /\ remote \in [Targets -> 0..MaxSaves]
        BY <2>1, <4>1 DEF OutboundInv, OutboundTypes
      <4>4. \A u \in Targets : remote'[u] = IF u \in reached THEN pushes[p].version ELSE remote[u]
        BY <4>1, <4>2, <4>3
      <4>5. remote' \in [Targets -> 0..MaxSaves]
        BY <4>1, <4>3
      <4>6. QED
        BY <4>2, <4>4, <4>5
    <3>3. QED
      BY <3>1, <3>2
  <2>5. /\ unreached' = unreached \union pushes[p].left
        /\ user' = user /\ outcome' = outcome /\ crossed' = crossed /\ pushes[p].left # {}
    BY <1>3 DEF BreakOff
  <2>6. OutboundTypes'
    BY <2>1, <2>3, <2>4, <2>5 DEF OutboundInv, OutboundTypes
  <2>7. OnePush'
    BY <2>3, <2>5 DEF OutboundInv, OnePush
  <2>8. ASSUME NEW u \in Targets, ~crossed'
        PROVE  /\ outcome'[u].version <= user'
               /\ outcome'[u].answer = "accepted" => remote'[u] >= outcome'[u].version
               /\ Silent(u)' /\ u \notin unreached' => outcome'[u].version = user'
    <3>1. /\ ~crossed /\ pushes[p].version = user /\ user \in Int
          /\ outcome[u].version \in Int /\ outcome[u].version <= user
      BY <2>5, <2>8 DEF OutboundInv, OutboundTypes, Outcomes, OnePush, TargetsTold
    <3>2. outcome[u].answer = "accepted" => remote'[u] >= outcome[u].version
      BY <2>4, <3>1 DEF OutboundInv, TargetsTold
    <3>3. Silent(u)' /\ u \notin unreached' => Silent(u) /\ u \notin unreached
      BY <2>3, <2>5 DEF Silent
    <3>4. QED
      BY <2>5, <3>1, <3>2, <3>3 DEF OutboundInv, TargetsTold
  <2>9. QED
    BY <2>6, <2>7, <2>8 DEF OutboundInv, TargetsTold
<1>4. QED
  BY <1>1, <1>2, <1>3 DEF OutboundNext

LEMMA IntegrationsInvariant == IntegrationsSpec => [](InboundInv /\ OutboundInv)
<1>1. IntegrationsInit => InboundInv /\ OutboundInv
  <2>1. ASSUME IntegrationsInit PROVE InboundTypes /\ OutboundTypes
    <3>1. 0 \in 0..MaxSaves
      BY IntegrationsAssumption
    <3>2. NoPush \in [left : SUBSET Targets, version : 0..MaxSaves]
      BY <3>1 DEF NoPush
    <3>3. QED
      BY <2>1, <3>1, <3>2 DEF IntegrationsInit, InboundTypes, OutboundTypes, RowsUnder, Outcomes
  <2>2. ASSUME IntegrationsInit PROVE RowsTold /\ TargetsTold /\ OnePush
    BY <2>2 DEF IntegrationsInit, RowsTold, TargetsTold, OnePush, NoRow, NoPush
  <2>3. QED
    BY <2>1, <2>2 DEF InboundInv, OutboundInv
<1>2. ASSUME InboundInv, OutboundInv, [IntegrationsNext]_integrationVars
      PROVE  InboundInv' /\ OutboundInv'
  <2>1. CASE InboundNext /\ UNCHANGED outboundVars
    <3>1. InboundInv'
      BY <1>2, <2>1, InboundStep
    <3>2. OutboundInv'
      BY <1>2, <2>1 DEF outboundVars, OutboundInv, OutboundTypes, TargetsTold, OnePush, Silent
    <3>3. QED
      BY <3>1, <3>2
  <2>2. CASE OutboundNext /\ UNCHANGED inboundVars
    <3>1. OutboundInv'
      BY <1>2, <2>2, OutboundStep
    <3>2. InboundInv'
      BY <1>2, <2>2 DEF inboundVars, InboundInv, InboundTypes, RowsTold
    <3>3. QED
      BY <3>1, <3>2
  <2>3. CASE UNCHANGED integrationVars
    BY <1>2, <2>3 DEF integrationVars, InboundInv, InboundTypes, RowsTold,
                      OutboundInv, OutboundTypes, TargetsTold, OnePush, Silent
  <2>4. QED
    BY <1>2, <2>1, <2>2, <2>3 DEF IntegrationsNext
<1>3. QED
  BY <1>1, <1>2, PTL DEF IntegrationsSpec

\* The register, the events and the deliveries and pushes under way have the
\* declared types.
THEOREM IntegrationTypesHold == IntegrationsSpec => []IntegrationsTypeOK
<1>1. InboundInv /\ OutboundInv => IntegrationsTypeOK
  BY DEF InboundInv, InboundTypes, OutboundInv, OutboundTypes, IntegrationsTypeOK, RowsUnder, Deliveries, Outcomes
<1>2. QED
  BY <1>1, IntegrationsInvariant, PTL

\* However deliveries come twice, in any order and together, and pushes are
\* lost, answered late or broken off, the events tell what the system holds and
\* what its targets were sent.
THEOREM LedgerHonest == IntegrationsSpec => []LedgerTells
<1>1. InboundInv /\ OutboundInv => LedgerTells
  BY DEF InboundInv, RowsTold, OutboundInv, TargetsTold, LedgerTells
<1>2. QED
  BY <1>1, IntegrationsInvariant, PTL

-----------------------------------------------------------------------------
(***************************************************************************)
(* SelfAssessments.                                                        *)
(***************************************************************************)

Scores == 0..100 \union {NoScoreYet}
Responses == [status : Statuses, score : Scores, weak : BOOLEAN]

\* The handlers of requests; what the kind of a handler says of the rest of it.
Handlers ==
  {h \in [kind : Kinds, question : Questions \union {NoAnswer}, saw : Responses,
          fresh : BOOLEAN, score : Scores, answer : Answer \union {NoAnswer}] :
     /\ h.kind \in {"open", "resolve", "settle", "leave", "edit"} => h.question \in Questions
     /\ h.kind = "submit" => h.score \in 0..100
     /\ h.kind = "edit" => h.answer \in Answer}

CsaTypes ==
  /\ response \in Responses
  /\ answers \in [Questions -> Answer \union {NoAnswer}]
  /\ published \in BOOLEAN /\ spoiled \in BOOLEAN
  /\ handling \in [Assessor -> Handlers \union {NotHandling}]

\* The average of percentages is one.
LEMMA AverageIsPercentage ==
  ASSUME NEW n \in Nat, n > 0, NEW s \in Nat, s <= 100 * n
  PROVE  s \div n \in 0..100
<1>1. s \div n \in Int
  OBVIOUS
<1>2. n * (s \div n) <= s /\ s < n * (s \div n) + n
  OBVIOUS
<1>3. s \div n >= 0
  BY <1>1, <1>2
<1>4. s \div n <= 100
  BY <1>1, <1>2
<1>5. QED
  BY <1>1, <1>3, <1>4

LEMMA ScoreIsPercentage ==
  ASSUME CsaTypes
  PROVE  Score \in 0..100
<1>1. DEFINE f == [q \in Answered |-> answers[q].worth]
             n == Cardinality(Questions)
             m == Cardinality(Answered)
             s == SumOf(f, Answered)
<1>2. /\ IsFiniteSet(Answered) /\ m <= n /\ m \in Nat /\ n \in Nat /\ n # 0
  <2>1. Answered \in SUBSET Questions /\ IsFiniteSet(Questions) /\ Questions # {}
    BY SelfAssessmentAssumption DEF Answered
  <2>2. QED
    BY <2>1, FS_Subset, FS_CardinalityType, FS_EmptySet
<1>3. \A q \in Answered : f[q] \in 0..100
  <2>1. ASSUME NEW q \in Answered PROVE answers[q].worth \in 0..100
    BY SelfAssessmentAssumption DEF CsaTypes, Answered, Answer
  <2>2. QED
    BY <2>1
<1>4. Score = s \div n
  <2>1. DOMAIN f = Answered
    OBVIOUS
  <2>2. SumFunction(f) = SumOf(f, Answered)
    BY <2>1, SumIsSumOf DEF SumFunction
  <2>3. QED
    BY <2>2 DEF Score
<1>5. HIDE DEF f
<1>6. s \in Nat /\ s <= 100 * m
  BY <1>2, <1>3, SumBound
<1>7. HIDE DEF s, m, n
<1>8. s <= 100 * n
  BY <1>2, <1>6
<1>9. s \div n \in 0..100
  BY <1>2, <1>6, <1>8, AverageIsPercentage
<1>10. QED
  BY <1>4, <1>9

\* While nothing is spoiled, a handler nobody overtook finds what it has seen,
\* and what its kind promised when it looked.
FreshSees(h) ==
  /\ h.saw = response
  /\ h.kind = "submit" => response.status = "draft"
  /\ h.kind = "open" => response.status \in {"submitted", "under_review"}
  /\ h.kind = "settle" => Open \subseteq {h.question} /\ response.status = "under_review"
  /\ h.kind = "leave" => ~(Open \subseteq {h.question} /\ response.status = "under_review")
  /\ h.kind = "close" => Open = {} /\ response.status # "draft"
  /\ h.kind = "edit" => answers[h.question] = h.answer

HandlersSee == \A w \in Assessor : handling[w] # NotHandling /\ handling[w].fresh => FreshSees(handling[w])

CsaInv == CsaTypes /\ ReviewFollowsChallenges /\ (~spoiled => HandlersSee)

LEMMA HandlerTypes ==
  ASSUME CsaTypes, NEW w \in Assessor
  PROVE  /\ handling[w] # NotHandling <=> handling[w] \in Handlers
         /\ handling[w].kind \in Kinds => handling[w] \in Handlers
BY DEF CsaTypes, Handlers, NotHandling, Kinds

LEMMA StaleHandlers ==
  ASSUME NEW h \in Handlers \union {NotHandling}
  PROVE  /\ Stale(h) \in Handlers \union {NotHandling}
         /\ Stale(h) # NotHandling => ~Stale(h).fresh
<1>1. CASE h = NotHandling
  BY <1>1 DEF Stale
<1>2. CASE h # NotHandling
  <2>1. DEFINE k == [h EXCEPT !.fresh = FALSE]
  <2>2. k \in [kind : Kinds, question : Questions \union {NoAnswer}, saw : Responses,
               fresh : BOOLEAN, score : Scores, answer : Answer \union {NoAnswer}]
    BY <1>2 DEF Handlers
  <2>3. k.kind = h.kind /\ k.question = h.question /\ k.score = h.score /\ k.answer = h.answer
        /\ k.fresh = FALSE
    BY <1>2 DEF Handlers
  <2>4. Stale(h) = k
    BY <1>2 DEF Stale
  <2>5. HIDE DEF k
  <2>6. k \in Handlers
    BY <1>2, <2>2, <2>3 DEF Handlers
  <2>7. QED
    BY <2>3, <2>4, <2>6
<1>3. QED
  BY <1>1, <1>2

\* What answering, challenging or settling one question does to the open challenges.
LEMMA OpenAfter ==
  ASSUME CsaTypes, NEW q \in Questions, NEW a \in Answer \union {NoAnswer},
         answers' = [answers EXCEPT ![q] = a]
  PROVE  /\ answers' \in [Questions -> Answer \union {NoAnswer}]
         /\ a # NoAnswer /\ a.challenge = "open" => Open' = Open \union {q}
         /\ ~(a # NoAnswer /\ a.challenge = "open") => Open' = Open \ {q}
BY DEF CsaTypes, Open, Answered

-----------------------------------------------------------------------------
(* A handler starts, looks again, or is through. *)

LEMMA LoadStep ==
  ASSUME CsaInv, NEW w \in Assessor, NEW kind \in Kinds \ {"settle", "leave"},
         NEW q \in Questions \union {NoAnswer}, Load(w, kind, q),
         kind \in {"open", "resolve", "edit"} => q \in Answered,
         kind = "submit" => response.status = "draft",
         kind = "open" => response.status \in {"submitted", "under_review"},
         kind = "close" => Open = {} /\ response.status # "draft"
  PROVE  CsaInv'
<1>1. DEFINE score == IF kind = "submit" THEN Score ELSE NoScoreYet
             answer == IF kind = "edit" THEN answers[q] ELSE NoAnswer
             h == [kind |-> kind, question |-> q, saw |-> response, fresh |-> TRUE,
                   score |-> score, answer |-> answer]
<1>2. handling' = [handling EXCEPT ![w] = h] /\ UNCHANGED <<response, answers, published, spoiled>>
  BY DEF Load
<1>3. score \in Scores /\ (kind = "submit" => score \in 0..100)
  BY ScoreIsPercentage DEF CsaInv, Scores
<1>4. answer \in Answer \union {NoAnswer} /\ (kind = "edit" => answer \in Answer /\ answer = answers[q])
  BY DEF CsaInv, CsaTypes, Answered
<1>5. HIDE DEF score, answer
<1>6. q \in Questions \/ kind \notin {"open", "resolve", "edit"}
  BY DEF Answered
<1>7. h \in Handlers
  BY <1>3, <1>4, <1>6 DEF CsaInv, CsaTypes, Handlers
<1>8. FreshSees(h)
  BY <1>4 DEF FreshSees
<1>9. HIDE DEF h
<1>10. CsaTypes'
  BY <1>2, <1>7 DEF CsaInv, CsaTypes
<1>11. ReviewFollowsChallenges'
  BY <1>2 DEF CsaInv, ReviewFollowsChallenges, Open, Answered
<1>12. ASSUME ~spoiled', NEW x \in Assessor, handling'[x] # NotHandling, handling'[x].fresh,
              NEW k, k = handling'[x]
       PROVE  FreshSees(k)'
  <2>1. FreshSees(k)
    BY <1>2, <1>8, <1>12 DEF CsaInv, CsaTypes, HandlersSee
  <2>2. QED
    BY <1>2, <2>1 DEF FreshSees, Open, Answered
<1>13. QED
  BY <1>10, <1>11, <1>12 DEF CsaInv, HandlersSee

LEMMA LookStep ==
  ASSUME CsaInv, NEW w \in Assessor, LookForOpen(w)
  PROVE  CsaInv'
<1>1. handling[w] \in Handlers /\ handling[w].kind = "resolve" /\ handling[w] # NotHandling
  BY HandlerTypes DEF CsaInv, LookForOpen, Doing, Kinds
<1>2. DEFINE h == handling[w]
             settled == Open \subseteq {h.question} /\ h.saw.status = "under_review"
             kind == IF settled THEN "settle" ELSE "leave"
             fresh == h.fresh \/ h.saw = response
             k == [h EXCEPT !.kind = kind, !.fresh = fresh]
<1>3. /\ kind \in {"settle", "leave"} /\ fresh \in BOOLEAN
      /\ kind = "settle" => settled
      /\ kind = "leave" => ~settled
  OBVIOUS
<1>4. /\ h \in [kind : Kinds, question : Questions \union {NoAnswer}, saw : Responses,
                 fresh : BOOLEAN, score : Scores, answer : Answer \union {NoAnswer}]
      /\ h.question \in Questions
  BY <1>1 DEF Handlers
<1>5. handling' = [handling EXCEPT ![w] = k] /\ UNCHANGED <<response, answers, published, spoiled>>
  BY DEF LookForOpen
<1>6. /\ k \in Handlers
      /\ k.kind = kind /\ k.question = h.question /\ k.saw = h.saw /\ k.fresh = fresh
  <2>1. kind \in Kinds
    BY <1>3 DEF Kinds
  <2>2. HIDE DEF h, kind, fresh
  <2>3. k \in [kind : Kinds, question : Questions \union {NoAnswer}, saw : Responses,
               fresh : BOOLEAN, score : Scores, answer : Answer \union {NoAnswer}]
    BY <1>3, <1>4, <2>1
  <2>4. k.kind = kind /\ k.question = h.question /\ k.saw = h.saw /\ k.fresh = fresh
    BY <1>3, <1>4, <2>1
  <2>5. HIDE DEF k
  <2>6. QED
    BY <1>3, <1>4, <2>3, <2>4 DEF Handlers
<1>7. ASSUME ~spoiled, fresh PROVE h.saw = response
  BY <1>1, <1>7 DEF CsaInv, HandlersSee, FreshSees
<1>8. ASSUME ~spoiled, fresh PROVE FreshSees(k)
  <2>1. h.saw = response
    BY <1>7, <1>8
  <2>2. HIDE DEF k, kind
  <2>3. QED
    BY <1>3, <1>6, <2>1 DEF FreshSees
<1>9. k.fresh = fresh
  BY <1>6
<1>10. HIDE DEF k, fresh
<1>11. CsaTypes'
  BY <1>5, <1>6 DEF CsaInv, CsaTypes
<1>12. ReviewFollowsChallenges'
  BY <1>5 DEF CsaInv, ReviewFollowsChallenges, Open, Answered
<1>13. ASSUME ~spoiled', NEW x \in Assessor, handling'[x] # NotHandling, handling'[x].fresh,
              NEW j, j = handling'[x]
       PROVE  FreshSees(j)'
  <2>1. FreshSees(j)
    <3>1. CASE x = w
      BY <1>5, <1>8, <1>9, <1>13, <3>1 DEF CsaInv, CsaTypes
    <3>2. CASE x # w
      BY <1>5, <1>13, <3>2 DEF CsaInv, CsaTypes, HandlersSee
    <3>3. QED
      BY <3>1, <3>2
  <2>2. QED
    BY <1>5, <2>1 DEF FreshSees, Open, Answered
<1>14. QED
  BY <1>11, <1>12, <1>13 DEF CsaInv, HandlersSee

\* A handler commits: the others are stale, and what remains to be seen is the
\* response and the answers.
LEMMA WriteStep ==
  ASSUME CsaInv, NEW w \in Assessor, handling[w] \in Handlers, NEW row \in Responses, Write(w, row),
         answers' \in [Questions -> Answer \union {NoAnswer}],
         ~spoiled /\ FreshSees(handling[w]) =>
           /\ row.status = "under_review" <=> Open' # {}
           /\ row.status = "draft" <=> row.score = NoScoreYet
           /\ row.weak <=> row.score # NoScoreYet /\ row.score < Threshold
  PROVE  CsaInv'
<1>1. /\ response' = row /\ published' = published
      /\ spoiled' = (spoiled \/ ~handling[w].fresh)
      /\ handling' = [x \in Assessor |-> IF x = w THEN NotHandling ELSE Stale(handling[x])]
  BY DEF Write
<1>2. ASSUME NEW x \in Assessor
      PROVE  /\ handling'[x] \in Handlers \union {NotHandling}
             /\ handling'[x] # NotHandling => ~handling'[x].fresh
  <2>1. handling[x] \in Handlers \union {NotHandling}
    BY DEF CsaInv, CsaTypes
  <2>2. QED
    BY <1>1, <2>1, StaleHandlers
<1>3. (spoiled \/ ~handling[w].fresh) \in BOOLEAN
  OBVIOUS
<1>4. CsaTypes'
  BY <1>1, <1>2, <1>3 DEF CsaInv, CsaTypes
<1>5. HandlersSee'
  BY <1>2 DEF HandlersSee
<1>6. ReviewFollowsChallenges'
  <2>1. SUFFICES ASSUME ~spoiled'
                 PROVE  /\ response'.status = "under_review" <=> Open' # {}
                        /\ response'.status = "draft" <=> response'.score = NoScoreYet
                        /\ response'.weak <=> response'.score # NoScoreYet /\ response'.score < Threshold
    BY DEF ReviewFollowsChallenges
  <2>2. ~spoiled /\ handling[w].fresh /\ handling[w] # NotHandling
    BY <1>1, <2>1, HandlerTypes DEF CsaInv
  <2>3. FreshSees(handling[w])
    BY <2>2 DEF CsaInv, HandlersSee
  <2>4. QED
    BY <1>1, <2>2, <2>3
<1>7. QED
  BY <1>4, <1>5, <1>6 DEF CsaInv

LEMMA ReviewNow ==
  ASSUME CsaInv
  PROVE  /\ ~spoiled => /\ response.status = "under_review" <=> Open # {}
                        /\ response.status = "draft" <=> response.score = NoScoreYet
                        /\ response.weak <=> response.score # NoScoreYet /\ response.score < Threshold
         /\ response \in Responses
BY DEF CsaInv, CsaTypes, ReviewFollowsChallenges

LEMMA SubmitStep ==
  ASSUME CsaInv, NEW w \in Assessor, CommitSubmit(w)
  PROVE  CsaInv'
<1>1. handling[w] \in Handlers /\ handling[w].kind = "submit"
  BY HandlerTypes DEF CsaInv, CommitSubmit, Doing, Kinds
<1>2. DEFINE score == handling[w].score
             weak == score < Threshold
             row == [status |-> "submitted", score |-> score, weak |-> weak]
<1>3. Write(w, row) /\ answers' = answers
  BY DEF CommitSubmit
<1>4. score \in 0..100 /\ score # NoScoreYet /\ weak \in BOOLEAN
  BY <1>1, SelfAssessmentAssumption DEF Handlers
<1>5. row \in Responses
  BY <1>4 DEF Responses, Scores, Statuses
<1>6. row.status = "submitted" /\ row.score = score /\ row.weak = weak
  OBVIOUS
<1>7. HIDE DEF row
<1>8. Open' = Open
  BY <1>3 DEF Open, Answered
<1>9. ~spoiled /\ FreshSees(handling[w]) => Open = {}
  BY <1>1, ReviewNow DEF FreshSees
<1>10. answers' \in [Questions -> Answer \union {NoAnswer}]
  BY <1>3 DEF CsaInv, CsaTypes
<1>11. QED
  BY <1>1, <1>3, <1>4, <1>5, <1>6, <1>8, <1>9, <1>10, WriteStep

LEMMA ChallengedAnswer ==
  ASSUME CsaTypes, NEW w \in Assessor, handling[w] \in Handlers, handling[w].question \in Questions,
         answers[handling[w].question] # NoAnswer, NEW c \in Challenges, Challenge(w, c)
  PROVE  /\ answers' \in [Questions -> Answer \union {NoAnswer}]
         /\ c = "open" => Open' = Open \union {handling[w].question}
         /\ c # "open" => Open' = Open \ {handling[w].question}
<1>1. DEFINE q == handling[w].question
             a == [answers[q] EXCEPT !.challenge = c]
<1>2. answers[q] \in Answer
  BY DEF CsaTypes
<1>3. a \in Answer /\ a.challenge = c /\ a # NoAnswer
  BY <1>2, SelfAssessmentAssumption DEF Answer
<1>4. answers' = [answers EXCEPT ![q] = a]
  BY DEF Challenge
<1>5. HIDE DEF q, a
<1>6. q \in Questions
  BY DEF q
<1>7. QED
  BY <1>3, <1>4, <1>6, OpenAfter DEF q

LEMMA OpenStep ==
  ASSUME CsaInv, NEW w \in Assessor, CommitOpen(w)
  PROVE  CsaInv'
<1>1. handling[w] \in Handlers /\ handling[w].kind = "open"
  BY HandlerTypes DEF CsaInv, CommitOpen, Doing, Kinds
<1>2. /\ handling[w].question \in Questions /\ handling[w].question # NoAnswer
      /\ answers[handling[w].question] # NoAnswer
  BY <1>1, SelfAssessmentAssumption DEF CommitOpen, Doing, Handlers
<1>3. DEFINE row == IF handling[w].saw.status = "under_review" THEN response
                    ELSE [response EXCEPT !.status = "under_review"]
<1>4. Write(w, row) /\ Challenge(w, "open")
  BY DEF CommitOpen
<1>5. /\ answers' \in [Questions -> Answer \union {NoAnswer}]
      /\ Open' = Open \union {handling[w].question}
  BY <1>1, <1>2, <1>4, ChallengedAnswer DEF CsaInv, Challenges
<1>6. response \in Responses
  BY ReviewNow
<1>7. /\ row \in Responses /\ row.score = response.score /\ row.weak = response.weak
      /\ handling[w].saw = response => row.status = "under_review"
  BY <1>6 DEF Responses, Statuses
<1>8. HIDE DEF row
<1>9. ~spoiled /\ FreshSees(handling[w]) =>
        row.status = "under_review" /\ row.score # NoScoreYet /\ (row.weak <=> row.score < Threshold)
  BY <1>1, <1>7, ReviewNow DEF FreshSees
<1>10. QED
  BY <1>1, <1>4, <1>5, <1>7, <1>9, WriteStep

LEMMA ResolveStep ==
  ASSUME CsaInv, NEW w \in Assessor, CommitResolve(w)
  PROVE  CsaInv'
<1>1. handling[w] \in Handlers /\ handling[w].kind \in {"settle", "leave"}
  BY HandlerTypes DEF CsaInv, CommitResolve, Doing, Kinds
<1>2. /\ handling[w].question \in Questions /\ handling[w].question # NoAnswer
      /\ answers[handling[w].question] # NoAnswer
  BY <1>1, SelfAssessmentAssumption DEF CommitResolve, Doing, Handlers
<1>3. DEFINE row == IF handling[w].kind = "settle" THEN [response EXCEPT !.status = "submitted"] ELSE response
<1>4. Write(w, row) /\ Challenge(w, "resolved")
  BY <1>1 DEF CommitResolve, Doing
<1>5. /\ answers' \in [Questions -> Answer \union {NoAnswer}]
      /\ Open' = Open \ {handling[w].question}
  BY <1>1, <1>2, <1>4, ChallengedAnswer DEF CsaInv, Challenges
<1>6. response \in Responses
  BY ReviewNow
<1>7. /\ row \in Responses /\ row.score = response.score /\ row.weak = response.weak
      /\ handling[w].kind = "settle" => row.status = "submitted"
      /\ handling[w].kind = "leave" => row.status = response.status
  BY <1>6 DEF Responses, Statuses
<1>8. HIDE DEF row
<1>9. ASSUME ~spoiled, FreshSees(handling[w])
      PROVE  /\ row.status = "under_review" <=> Open' # {}
             /\ row.status = "draft" <=> row.score = NoScoreYet
             /\ row.weak <=> row.score # NoScoreYet /\ row.score < Threshold
  <2>1. CASE handling[w].kind = "settle"
    BY <1>5, <1>7, <1>9, <2>1, ReviewNow DEF FreshSees
  <2>2. CASE handling[w].kind = "leave"
    BY <1>5, <1>7, <1>9, <2>2, ReviewNow DEF FreshSees
  <2>3. QED
    BY <1>1, <2>1, <2>2
<1>10. QED
  BY <1>1, <1>4, <1>5, <1>7, <1>9, WriteStep

LEMMA CloseStep ==
  ASSUME CsaInv, NEW w \in Assessor, CommitClose(w)
  PROVE  CsaInv'
<1>1. handling[w] \in Handlers /\ handling[w].kind = "close"
  BY HandlerTypes DEF CsaInv, CommitClose, Doing, Kinds
<1>2. DEFINE row == [response EXCEPT !.status = "closed"]
<1>3. Write(w, row) /\ answers' = answers
  BY DEF CommitClose
<1>4. /\ row \in Responses /\ row.status = "closed" /\ row.score = response.score
      /\ row.weak = response.weak
  BY ReviewNow DEF Responses, Statuses
<1>5. HIDE DEF row
<1>6. Open' = Open /\ answers' \in [Questions -> Answer \union {NoAnswer}]
  BY <1>3 DEF Open, Answered, CsaInv, CsaTypes
<1>7. ~spoiled /\ FreshSees(handling[w]) =>
        /\ row.status = "under_review" <=> Open' # {}
        /\ row.status = "draft" <=> row.score = NoScoreYet
        /\ row.weak <=> row.score # NoScoreYet /\ row.score < Threshold
  BY <1>1, <1>4, <1>6, ReviewNow DEF FreshSees
<1>8. QED
  BY <1>1, <1>3, <1>4, <1>6, <1>7, WriteStep

LEMMA PatchStep ==
  ASSUME CsaInv, NEW w \in Assessor, CommitPatch(w)
  PROVE  CsaInv'
<1>1. handling[w] \in Handlers /\ handling[w].saw \in Responses
  BY HandlerTypes DEF CsaInv, CommitPatch, Doing, Kinds, Handlers
<1>2. Write(w, handling[w].saw) /\ answers' = answers
  BY DEF CommitPatch
<1>3. Open' = Open /\ answers' \in [Questions -> Answer \union {NoAnswer}]
  BY <1>2 DEF Open, Answered, CsaInv, CsaTypes
<1>4. FreshSees(handling[w]) => handling[w].saw = response
  BY DEF FreshSees
<1>5. QED
  BY <1>1, <1>2, <1>3, <1>4, WriteStep, ReviewNow

LEMMA EditedAnswer ==
  ASSUME CsaInv, NEW w \in Assessor, NEW worth \in Worth, CommitEdit(w, worth)
  PROVE  CsaInv'
<1>1. handling[w] \in Handlers /\ handling[w].kind = "edit"
  BY HandlerTypes DEF CsaInv, CommitEdit, Doing, Kinds
<1>2. DEFINE q == handling[w].question
             a == [handling[w].answer EXCEPT !.worth = worth]
<1>3. q \in Questions /\ handling[w].answer \in Answer
  BY <1>1 DEF Handlers
<1>4. a \in Answer /\ a.challenge = handling[w].answer.challenge /\ a # NoAnswer
  BY <1>3, SelfAssessmentAssumption DEF Answer
<1>5. Write(w, response) /\ answers' = [answers EXCEPT ![q] = a]
  BY DEF CommitEdit
<1>6. handling[w].answer # NoAnswer
  BY <1>3, SelfAssessmentAssumption DEF Answer
<1>7. FreshSees(handling[w]) => answers[q] = handling[w].answer
  BY <1>1 DEF FreshSees
<1>8. HIDE DEF q, a
<1>9. /\ answers' \in [Questions -> Answer \union {NoAnswer}]
      /\ FreshSees(handling[w]) => Open' = Open
  <2>1. CsaTypes
    BY DEF CsaInv
  <2>2. FreshSees(handling[w]) => (q \in Open <=> a.challenge = "open")
    BY <1>3, <1>4, <1>6, <1>7 DEF Open, Answered
  <2>3. /\ answers' \in [Questions -> Answer \union {NoAnswer}]
        /\ a.challenge = "open" => Open' = Open \union {q}
        /\ a.challenge # "open" => Open' = Open \ {q}
    BY <1>3, <1>4, <1>5, <2>1, OpenAfter
  <2>4. QED
    BY <2>2, <2>3
<1>10. QED
  BY <1>1, <1>5, <1>9, WriteStep, ReviewNow

LEMMA PutAnswerStep ==
  ASSUME CsaInv, NEW q \in Questions, NEW answer \in Answer \union {NoAnswer}, PutAnswer(q, answer)
  PROVE  CsaInv'
<1>1. /\ answers' = [answers EXCEPT ![q] = answer]
      /\ handling' = [x \in Assessor |-> Stale(handling[x])]
      /\ UNCHANGED <<response, published>>
  BY DEF PutAnswer
<1>2. ASSUME NEW x \in Assessor
      PROVE  /\ handling'[x] \in Handlers \union {NotHandling}
             /\ handling'[x] # NotHandling => ~handling'[x].fresh
  <2>1. handling[x] \in Handlers \union {NotHandling}
    BY DEF CsaInv, CsaTypes
  <2>2. QED
    BY <1>1, <2>1, StaleHandlers
<1>3. CsaTypes /\ answers[q] \in Answer \union {NoAnswer}
  BY DEF CsaInv, CsaTypes
<1>4. /\ answers' \in [Questions -> Answer \union {NoAnswer}]
      /\ answer # NoAnswer /\ answer.challenge = "open" => Open' = Open \union {q}
      /\ ~(answer # NoAnswer /\ answer.challenge = "open") => Open' = Open \ {q}
  BY <1>1, <1>3, OpenAfter
<1>5. spoiled' \in BOOLEAN
  <2>1. (spoiled \/ \E a \in {answers[q], answer} \ {NoAnswer} : a.challenge = "open") \in BOOLEAN
    OBVIOUS
  <2>2. QED
    BY <2>1 DEF PutAnswer
<1>6. ASSUME ~spoiled' PROVE ~spoiled /\ Open' = Open
  <2>1. ~spoiled /\ \A a \in {answers[q], answer} \ {NoAnswer} : a.challenge # "open"
    BY <1>6 DEF PutAnswer
  <2>2. q \notin Open
    BY <2>1 DEF Open, Answered
  <2>3. ~(answer # NoAnswer /\ answer.challenge = "open")
    BY <2>1
  <2>4. QED
    BY <1>4, <2>1, <2>2, <2>3
<1>7. CsaTypes'
  BY <1>1, <1>2, <1>3, <1>4, <1>5 DEF CsaTypes
<1>8. HandlersSee'
  BY <1>2 DEF HandlersSee
<1>9. ReviewFollowsChallenges'
  BY <1>1, <1>6 DEF CsaInv, ReviewFollowsChallenges
<1>10. QED
  BY <1>7, <1>8, <1>9 DEF CsaInv

\* A handler gives up, or nothing it has loaded changes.
LEMMA RestStep ==
  ASSUME CsaInv, UNCHANGED <<response, answers, spoiled>>, published' \in BOOLEAN,
         \/ handling' = handling
         \/ \E w \in Assessor : handling' = [handling EXCEPT ![w] = NotHandling]
  PROVE  CsaInv'
<1>1. /\ handling' \in [Assessor -> Handlers \union {NotHandling}]
      /\ \A x \in Assessor : handling'[x] = handling[x] \/ handling'[x] = NotHandling
  BY DEF CsaInv, CsaTypes
<1>2. CsaTypes' /\ ReviewFollowsChallenges'
  BY <1>1 DEF CsaInv, CsaTypes, ReviewFollowsChallenges, Open, Answered
<1>3. ASSUME ~spoiled', NEW x \in Assessor, handling'[x] # NotHandling, handling'[x].fresh,
             NEW k, k = handling'[x]
      PROVE  FreshSees(k)'
  <2>1. FreshSees(k)
    BY <1>1, <1>3 DEF CsaInv, HandlersSee
  <2>2. QED
    BY <2>1 DEF FreshSees, Open, Answered
<1>4. QED
  BY <1>2, <1>3 DEF CsaInv, HandlersSee

LEMMA CsaInvariant == CsaSpec => []CsaInv
<1>1. CsaInit => CsaInv
  <2>1. ASSUME CsaInit PROVE CsaTypes
    BY <2>1 DEF CsaInit, CsaTypes, Responses, Scores, Statuses
  <2>2. ASSUME CsaInit PROVE ReviewFollowsChallenges /\ HandlersSee
    BY <2>2 DEF CsaInit, ReviewFollowsChallenges, HandlersSee, Open, Answered
  <2>3. QED
    BY <2>1, <2>2 DEF CsaInv
<1>2. ASSUME CsaInv, [CsaNext]_csaVars PROVE CsaInv'
  <2>1. ASSUME NEW w \in Assessor, BeginSubmit(w) \/ BeginClose(w) \/ BeginPatch(w) PROVE CsaInv'
    BY <1>2, <2>1, LoadStep DEF BeginSubmit, BeginClose, BeginPatch, Kinds
  <2>2. ASSUME NEW w \in Assessor, NEW q \in Questions,
               BeginOpen(w, q) \/ BeginResolve(w, q) \/ BeginEdit(w, q)
        PROVE  CsaInv'
    BY <1>2, <2>2, LoadStep DEF BeginOpen, BeginResolve, BeginEdit, Kinds, Open
  <2>3. ASSUME NEW w \in Assessor, GiveUp(w) PROVE CsaInv'
    BY <1>2, <2>3, RestStep DEF GiveUp, CsaInv, CsaTypes
  <2>4. CASE SetQuestionnaire
    BY <1>2, <2>4, RestStep DEF SetQuestionnaire, CsaInv, CsaTypes
  <2>5. CASE UNCHANGED csaVars
    BY <1>2, <2>5, RestStep DEF csaVars, CsaInv, CsaTypes
  <2>6. QED
    BY <1>2, <2>1, <2>2, <2>3, <2>4, <2>5, LookStep, SubmitStep, OpenStep, ResolveStep, CloseStep,
       PatchStep, EditedAnswer, PutAnswerStep DEF CsaNext
<1>3. QED
  BY <1>1, <1>2, PTL DEF CsaSpec

\* The response, its answers and the handlers under way have the declared types.
THEOREM CsaTypesHold == CsaSpec => []CsaTypeOK
<1>1. CsaInv => CsaTypeOK
  BY DEF CsaInv, CsaTypes, CsaTypeOK, Responses, Scores, Handlers
<1>2. QED
  BY <1>1, CsaInvariant, PTL

\* However requests overlap, as long as none wrote over what it had not seen a
\* response is under review exactly while one of its answers is challenged, and
\* it keeps the score and the flag of its submission.
THEOREM ReviewFollows == CsaSpec => []ReviewFollowsChallenges
<1>1. CsaInv => ReviewFollowsChallenges
  BY DEF CsaInv
<1>2. QED
  BY <1>1, CsaInvariant, PTL

-----------------------------------------------------------------------------
(***************************************************************************)
(* RiskScores.                                                             *)
(***************************************************************************)

\* A ratio of at most one is at most a hundred points.
LEMMA QuantizedBound ==
  ASSUME NEW num \in Nat, NEW den \in Nat, den > 0, num <= den
  PROVE  Quantized(num, den) \in Composites
<1> DEFINE a == 2 * 10000 * num + den
           b == 2 * den
           q == a \div b
<1>1. a \in Nat /\ b \in Nat /\ b > 0
  OBVIOUS
<1>2. q \in Int /\ b * q <= a /\ a < b * (q + 1)
  <2> HIDE DEF a, b
  <2>1. QED
    BY <1>1
<1>3. q >= 0
  <2>1. ASSUME q + 1 <= 0 PROVE FALSE
    <3> HIDE DEF q, a, b
    <3>1. \A x, y \in Int : x > 0 /\ y <= 0 => x * y <= 0
      OBVIOUS
    <3>2. b * (q + 1) <= 0
      BY <1>1, <1>2, <2>1, <3>1
    <3>3. QED
      BY <1>1, <1>2, <3>2
  <2>2. QED
    BY <1>2, <2>1
<1>4. q <= 10000
  <2>1. ASSUME q >= 10001 PROVE FALSE
    <3>1. \A x, y \in Int : x > 0 /\ y >= 10001 => x * y >= 10001 * x
      OBVIOUS
    <3>2. b * q >= 10001 * b
      <4> HIDE DEF q, a, b
      <4>1. QED
        BY <1>1, <1>2, <2>1, <3>1
    <3>3. a <= 20001 * den /\ b = 2 * den
      OBVIOUS
    <3>4. QED
      <4> HIDE DEF q, a, b
      <4>1. QED
        BY <1>1, <1>2, <3>2, <3>3
  <2>2. QED
    BY <1>2, <2>1
<1>5. Quantized(num, den) = q
  BY DEF Quantized
<1>6. QED
  <2> HIDE DEF q, a, b
  <2>1. PICK n : n = 10000
    OBVIOUS
  <2>2. Composites = 0..n
    BY <2>1 DEF Composites
  <2>3. q \in Int /\ 0 <= q /\ q <= n
    BY <1>2, <1>3, <1>4, <2>1
  <2>4. \A x, y \in Int : 0 <= y /\ y <= x => y \in 0..x
    OBVIOUS
  <2>5. n \in Int
    BY <2>1
  <2>6. QED
    BY <1>5, <2>2, <2>3, <2>4, <2>5

\* What a factor contributes to the weights.
Share(c, f) == IF f \in Linked(c) THEN c.weight[f] ELSE 0

\* A sum over the factors that take part has two terms at most.
LEMMA FactorSum ==
  ASSUME NEW L \in SUBSET Factor, NEW f, \A x \in L : f[x] \in Int
  PROVE  SumFunctionOnSet(f, L) =
           (IF "likelihood" \in L THEN f["likelihood"] ELSE 0) + (IF "impact" \in L THEN f["impact"] ELSE 0)
<1>1. SumFunctionOnSet(f, L) = SumOf(f, L)
  BY SumIsSumOf
<1>2. CASE L = {}
  BY <1>1, <1>2, SumEmpty
<1>3. CASE L = {"likelihood"}
  <2>1. f["likelihood"] \in Int /\ "impact" \notin L
    BY <1>3
  <2>2. SumOf(f, {"likelihood"}) = f["likelihood"]
    BY <2>1, SumSingle
  <2>3. QED
    BY <1>1, <1>3, <2>1, <2>2
<1>4. CASE L = {"impact"}
  <2>1. f["impact"] \in Int /\ "likelihood" \notin L
    BY <1>4
  <2>2. SumOf(f, {"impact"}) = f["impact"]
    BY <2>1, SumSingle
  <2>3. QED
    BY <1>1, <1>4, <2>1, <2>2
<1>5. CASE L = Factor
  <2>1. IsFiniteSet({"likelihood"}) /\ SumOf(f, {"likelihood"}) = f["likelihood"]
    BY <1>5, FS_Singleton, SumSingle DEF Factor
  <2>2. SumOf(f, {"likelihood"} \union {"impact"}) = SumOf(f, {"likelihood"}) + f["impact"]
    BY <1>5, <2>1, SumAdd DEF Factor
  <2>3. Factor = {"likelihood"} \union {"impact"}
    BY DEF Factor
  <2>4. QED
    BY <1>1, <1>5, <2>1, <2>2, <2>3
<1>6. QED
  BY <1>2, <1>3, <1>4, <1>5 DEF Factor

LEMMA ShareType ==
  ASSUME NEW c \in Settings
  PROVE  /\ Linked(c) \in SUBSET Factor
         /\ \A f \in Linked(c) : c.weight[f] \in Nat
         /\ \A f \in Factor : Share(c, f) \in Nat
         /\ TotalWeight(c) = Share(c, "likelihood") + Share(c, "impact")
<1>1. c.weight \in [Factor -> Nat \union {Off}]
  BY DEF Settings
<1>2. Linked(c) \in SUBSET Factor /\ \A f \in Linked(c) : c.weight[f] \in Nat
  BY <1>1 DEF Linked
<1>3. \A f \in Factor : Share(c, f) \in Nat
  BY <1>2 DEF Share
<1>4. TotalWeight(c) = Share(c, "likelihood") + Share(c, "impact")
  BY <1>2, FactorSum DEF TotalWeight, Share
<1>5. QED
  BY <1>2, <1>3, <1>4

\* A weighted sum of two terms of at most k is at most k times the weights.
LEMMA WeightedBound ==
  ASSUME NEW k \in Nat, NEW a \in Nat, NEW b \in Nat, NEW x \in 0..k, NEW y \in 0..k
  PROVE  /\ x * a + y * b \in Nat
         /\ x * a + y * b <= k * (a + b)
         /\ k * (a + b) \in Nat
         /\ k > 0 /\ a + b > 0 => k * (a + b) > 0
<1>1. \A m, n \in Nat : m * n \in Nat /\ (m > 0 /\ n > 0 => m * n > 0)
  OBVIOUS
<1>2. \A m, n, p \in Nat : m <= n => m * p <= n * p
  OBVIOUS
<1>3. x * a <= k * a /\ y * b <= k * b
  BY <1>2
<1>4. k * (a + b) = k * a + k * b
  OBVIOUS
<1>5. x * a \in Nat /\ y * b \in Nat /\ k * a \in Nat /\ k * b \in Nat /\ k * (a + b) \in Nat
  BY <1>1
<1>6. k > 0 /\ a + b > 0 => k * (a + b) > 0
  BY <1>1
<1>7. QED
  BY <1>3, <1>4, <1>5, <1>6

\* Both normalisations stay within a hundred points, whatever the weights.
LEMMA WeightedType ==
  ASSUME NEW c \in Settings, NEW v \in [Factor -> 1..Scale]
  PROVE  WeightedSum(c, v) \in Composites /\ WeightedAvg(c, v) \in Composites
<1> DEFINE a == Share(c, "likelihood")
           b == Share(c, "impact")
<1>0. Scale \in Nat /\ Scale > 1
  BY RiskScoresAssumption
<1>1. a \in Nat /\ b \in Nat /\ TotalWeight(c) = a + b
  BY ShareType DEF Factor
<1>2. v["likelihood"] \in 1..Scale /\ v["impact"] \in 1..Scale
  BY DEF Factor
<1>3. Linked(c) \in SUBSET Factor /\ \A f \in Linked(c) : c.weight[f] \in Nat
  BY ShareType
<1>4. SumFunctionOnSet([f \in Factor |-> (v[f] - 1) * c.weight[f]], Linked(c)) =
        (v["likelihood"] - 1) * a + (v["impact"] - 1) * b
  <2> DEFINE g == [f \in Factor |-> (v[f] - 1) * c.weight[f]]
  <2>1. \A x \in Linked(c) : g[x] \in Int
    <3>1. \A m, n \in Int : m * n \in Int
      OBVIOUS
    <3>2. \A x \in Factor : v[x] - 1 \in Int
      BY <1>0
    <3>3. QED
      BY <1>3, <3>1, <3>2
  <2>2. g["likelihood"] = (v["likelihood"] - 1) * c.weight["likelihood"]
        /\ g["impact"] = (v["impact"] - 1) * c.weight["impact"]
    BY DEF Factor
  <2>3. (v["likelihood"] - 1) * 0 = 0 /\ (v["impact"] - 1) * 0 = 0
    BY <1>0, <1>2
  <2> HIDE DEF g
  <2>4. SumFunctionOnSet(g, Linked(c)) =
          (IF "likelihood" \in Linked(c) THEN g["likelihood"] ELSE 0)
            + (IF "impact" \in Linked(c) THEN g["impact"] ELSE 0)
    BY <1>3, <2>1, FactorSum
  <2>5. /\ (IF "likelihood" \in Linked(c) THEN g["likelihood"] ELSE 0) = (v["likelihood"] - 1) * a
        /\ (IF "impact" \in Linked(c) THEN g["impact"] ELSE 0) = (v["impact"] - 1) * b
    BY <2>2, <2>3 DEF Share
  <2>6. QED
    BY <2>4, <2>5 DEF g
<1>5. SumFunctionOnSet([f \in Factor |-> v[f] * c.weight[f]], Linked(c)) =
        v["likelihood"] * a + v["impact"] * b
  <2> DEFINE g == [f \in Factor |-> v[f] * c.weight[f]]
  <2>1. \A x \in Linked(c) : g[x] \in Int
    <3>1. \A m, n \in Int : m * n \in Int
      OBVIOUS
    <3>2. \A x \in Factor : v[x] \in Int
      BY <1>0
    <3>3. QED
      BY <1>3, <3>1, <3>2
  <2>2. g["likelihood"] = v["likelihood"] * c.weight["likelihood"]
        /\ g["impact"] = v["impact"] * c.weight["impact"]
    BY DEF Factor
  <2>3. v["likelihood"] * 0 = 0 /\ v["impact"] * 0 = 0
    BY <1>0, <1>2
  <2> HIDE DEF g
  <2>4. SumFunctionOnSet(g, Linked(c)) =
          (IF "likelihood" \in Linked(c) THEN g["likelihood"] ELSE 0)
            + (IF "impact" \in Linked(c) THEN g["impact"] ELSE 0)
    BY <1>3, <2>1, FactorSum
  <2>5. /\ (IF "likelihood" \in Linked(c) THEN g["likelihood"] ELSE 0) = v["likelihood"] * a
        /\ (IF "impact" \in Linked(c) THEN g["impact"] ELSE 0) = v["impact"] * b
    BY <2>2, <2>3 DEF Share
  <2>6. QED
    BY <2>4, <2>5 DEF g
<1>6. WeightedSum(c, v) \in Composites
  <2>1. PICK x, y, k : x = v["likelihood"] - 1 /\ y = v["impact"] - 1 /\ k = Scale - 1
    OBVIOUS
  <2>2. k \in Nat /\ k > 0 /\ x \in 0..k /\ y \in 0..k
    BY <1>0, <1>2, <2>1
  <2>3. CASE TotalWeight(c) = 0
    BY <2>3 DEF WeightedSum, Composites
  <2>4. CASE TotalWeight(c) # 0
    <3>1. a + b > 0
      BY <1>1, <2>4
    <3>2. /\ x * a + y * b \in Nat /\ k * (a + b) \in Nat
          /\ x * a + y * b <= k * (a + b) /\ k * (a + b) > 0
      <4> HIDE DEF a, b
      <4>1. QED
        BY <1>1, <2>2, <3>1, WeightedBound
    <3>3. WeightedSum(c, v) = Quantized(x * a + y * b, k * (a + b))
      BY <1>1, <1>4, <2>1, <2>4 DEF WeightedSum
    <3>4. Quantized(x * a + y * b, k * (a + b)) \in Composites
      BY <3>2, QuantizedBound
    <3>5. QED
      BY <3>3, <3>4
  <2>5. QED
    BY <2>3, <2>4
<1>7. WeightedAvg(c, v) \in Composites
  <2>1. PICK x, y, k : x = v["likelihood"] /\ y = v["impact"] /\ k = Scale
    OBVIOUS
  <2>2. k \in Nat /\ k > 0 /\ x \in 0..k /\ y \in 0..k
    BY <1>0, <1>2, <2>1
  <2>3. CASE TotalWeight(c) = 0
    BY <2>3 DEF WeightedAvg, Composites
  <2>4. CASE TotalWeight(c) # 0
    <3>1. a + b > 0
      BY <1>1, <2>4
    <3>2. /\ x * a + y * b \in Nat /\ k * (a + b) \in Nat
          /\ x * a + y * b <= k * (a + b) /\ k * (a + b) > 0
      <4> HIDE DEF a, b
      <4>1. QED
        BY <1>1, <2>2, <3>1, WeightedBound
    <3>3. WeightedAvg(c, v) = Quantized(x * a + y * b, k * (a + b))
      BY <1>1, <1>5, <2>1, <2>4 DEF WeightedAvg
    <3>4. Quantized(x * a + y * b, k * (a + b)) \in Composites
      BY <3>2, QuantizedBound
    <3>5. QED
      BY <3>3, <3>4
  <2>5. QED
    BY <2>3, <2>4
<1>8. QED
  BY <1>6, <1>7

\* So does the product of the two factors, and the mean of the groups.
LEMMA ProductType ==
  ASSUME NEW c \in Settings, NEW v \in [Factor -> 1..Scale], Multiplicative(c, v) # NoScore
  PROVE  Multiplicative(c, v) \in Composites
<1>1. PICK x, y : x = v["likelihood"] /\ y = v["impact"]
  OBVIOUS
<1>2. Scale \in Nat /\ Scale > 1 /\ x \in 1..Scale /\ y \in 1..Scale
  BY <1>1, RiskScoresAssumption DEF Factor
<1>3. x * y \in Nat /\ Scale * Scale \in Nat /\ Scale * Scale > 0 /\ x * y <= Scale * Scale
  <2>1. \A m, n \in Nat : m * n \in Nat /\ (m > 0 /\ n > 0 => m * n > 0)
    OBVIOUS
  <2>2. \A m, n, p \in Nat : m <= n => m * p <= n * p /\ p * m <= p * n
    OBVIOUS
  <2>3. x * y <= Scale * y /\ Scale * y <= Scale * Scale
    BY <1>2, <2>2
  <2>4. x * y \in Nat /\ Scale * y \in Nat /\ Scale * Scale \in Nat /\ Scale * Scale > 0
    BY <1>2, <2>1
  <2>5. QED
    BY <2>3, <2>4
<1>4. Quantized(x * y, Scale * Scale) \in Composites
  BY <1>3, QuantizedBound
<1>5. QED
  BY <1>1, <1>4 DEF Multiplicative

LEMMA MeanType ==
  ASSUME NEW c \in Settings, NEW v \in [Factor -> 1..Scale], ImpactLikelihood(c, v) # NoScore
  PROVE  ImpactLikelihood(c, v) \in Composites
<1> DEFINE groups == {f \in Linked(c) : c.weight[f] > 0}
           g == [f \in Factor |-> v[f] - 1]
           b == Scale - 1
<1>1. Scale \in Nat /\ b \in Nat /\ b > 0
  BY RiskScoresAssumption
<1>2. groups \in SUBSET Factor /\ IsFiniteSet(groups) /\ \A x \in groups : g[x] \in 0..b
  <2>1. groups \in SUBSET Factor
    BY DEF Linked
  <2>2. IsFiniteSet(Factor)
    <3>1. IsFiniteSet({"likelihood"}) /\ Factor = {"likelihood"} \union {"impact"}
      BY FS_Singleton DEF Factor
    <3>2. IsFiniteSet({"likelihood"} \union {"impact"})
      BY <3>1, FS_AddElement
    <3>3. QED
      BY <3>1, <3>2
  <2>3. \A x \in Factor : g[x] \in 0..b
    BY <1>1
  <2>4. QED
    BY <2>1, <2>2, <2>3, FS_Subset
<1>3. PICK n, s : n = Cardinality(groups) /\ s = SumOf(g, groups)
  OBVIOUS
<1>4. s \in Nat /\ s <= b * n /\ n \in Nat
  <2> HIDE DEF groups, g, b
  <2>1. QED
    BY <1>1, <1>2, <1>3, SumBound, FS_CardinalityType
<1>5. groups # {} /\ ImpactLikelihood(c, v) = Quantized(s, b * n)
  BY <1>3, SumIsSumOf DEF ImpactLikelihood
<1>6. n > 0
  <2> HIDE DEF groups, g, b
  <2>1. QED
    BY <1>2, <1>3, <1>4, <1>5, FS_EmptySet
<1>7. b * n \in Nat /\ b * n > 0
  <2>1. \A m, k \in Nat : m * k \in Nat /\ (m > 0 /\ k > 0 => m * k > 0)
    OBVIOUS
  <2> HIDE DEF groups, g, b
  <2>2. QED
    BY <1>1, <1>4, <1>6, <2>1
<1>8. QED
  <2> HIDE DEF groups, g, b
  <2>1. QED
    BY <1>4, <1>5, <1>7, QuantizedBound

\* Whatever the formula and the weights, a composite is a number of points from
\* nought to a hundred.
LEMMA CompositeType ==
  ASSUME NEW c \in Settings, NEW v \in [Factor -> 1..Scale], Composite(c, v) # NoScore
  PROVE  Composite(c, v) \in Composites
BY WeightedType, ProductType, MeanType DEF Composite

\* There are no more dense ranks than entities.
LEMMA RankType ==
  ASSUME NEW w \in Scorer, NEW u \in Unit
  PROVE  DenseRank(w, u) \in 0..Cardinality(Unit)
<1> DEFINE S == {x \in Unit : /\ Seen(w, x) # NoScore
                              /\ Seen(w, x).composite >= Seen(w, u).composite}
           T == {Seen(w, x).composite : x \in S}
           f == [x \in S |-> Seen(w, x).composite]
<1>1. IsFiniteSet(S) /\ Cardinality(S) <= Cardinality(Unit) /\ Cardinality(S) \in Nat
  BY RiskScoresAssumption, FS_Subset, FS_CardinalityType
<1>2. f \in Surjection(S, T)
  BY DEF Surjection
<1>3. IsFiniteSet(T) /\ Cardinality(T) <= Cardinality(S) /\ Cardinality(T) \in Nat
  <2> HIDE DEF S, T, f
  <2>1. QED
    BY <1>1, <1>2, FS_Surjection, FS_CardinalityType
<1>4. Cardinality(Unit) \in Nat
  BY RiskScoresAssumption, FS_CardinalityType
<1>5. DenseRank(w, u) = Cardinality(T)
  BY DEF DenseRank
<1>6. QED
  <2> HIDE DEF S, T, f
  <2>1. QED
    BY <1>1, <1>3, <1>4, <1>5

\* What a transaction has read, written and decided.
Tables(R) == UNION {[S -> R] : S \in SUBSET Unit}
Read == [values : Values, composite : Composites \union {-1}, high : BOOLEAN]
Ranks == 0..Cardinality(Unit)
Scorings ==
  [stage : {"scoring", "waiting", "ranked"}, bulk : BOOLEAN, todo : Tables(Read), new : Tables(Row),
   model : Configs, ranks : Tables(Row) \union Tables(Ranks), apart : BOOLEAN, still : BOOLEAN]

\* What its stage says of the rest of it.
InStage(k) ==
  /\ k.stage = "scoring" => k.ranks = Empty
  /\ k.stage = "waiting" => k.ranks \in Tables(Row) /\ ~k.apart
  /\ k.stage = "ranked" => k.ranks \in Tables(Ranks) /\ DOMAIN k.todo = {}
  /\ k.still => k.apart

\* The row of an entity that a transaction sees, and where it ranks it.
SeenBy(k, u) == IF u \in DOMAIN k.new THEN k.new[u] ELSE scores[u]
RankBy(k, u) ==
  Cardinality({SeenBy(k, x).composite : x \in {x \in Unit : /\ SeenBy(k, x) # NoScore
    /\ SeenBy(k, x).composite >= SeenBy(k, u).composite}})

\* Once ranked, the ranks a transaction that nobody overlapped leaves will be
\* the dense ones of what it sees.
RanksRight(k) ==
  k.stage = "ranked" =>
    /\ \A u \in DOMAIN k.ranks : SeenBy(k, u) # NoScore
    /\ k.apart => \A u \in Unit : SeenBy(k, u) # NoScore =>
         RankBy(k, u) = IF u \in DOMAIN k.ranks THEN k.ranks[u] ELSE SeenBy(k, u).rank

\* A recompute nobody disturbed has yet to score an entity, as it stands, or has
\* left it what the model makes of its values.
CaughtUp(k) ==
  k.still =>
    /\ k.model = config
    /\ \A u \in Unit : scores[u] # NoScore =>
         \/ /\ u \in DOMAIN k.todo /\ u \notin DOMAIN k.new
            /\ k.todo[u].values = scores[u].values /\ Unchanged(k.todo[u], scores[u])
         \/ u \in DOMAIN k.new /\ Fresh(k.new[u], config)
         \/ u \notin DOMAIN k.new /\ Fresh(scores[u], config)

InOrder(w, k) ==
  \/ k = Free
  \/ /\ k \in Scorings /\ InStage(k) /\ RanksRight(k) /\ CaughtUp(k)
     /\ k.apart => InFlight \subseteq {w}

ScoreTypes ==
  /\ config \in Configs /\ scores \in [Unit -> Row \union {NoScore}]
  /\ scoring \in [Scorer -> Scorings \union {Free}]
  /\ tidy \in BOOLEAN /\ started \in 0..MaxRuns

ScoreInv ==
  /\ ScoreTypes /\ RanksDense
  /\ \A w \in Scorer : InOrder(w, scoring[w])

LEMMA TableIs ==
  ASSUME NEW R, NEW t
  PROVE  /\ t \in Tables(R) => /\ t \in [DOMAIN t -> R] /\ DOMAIN t \in SUBSET Unit
                               /\ \A u \in DOMAIN t : u \in Unit /\ t[u] \in R
         /\ \A S \in SUBSET Unit : t \in [S -> R] => t \in Tables(R)
BY DEF Tables

\* A table with fewer entities, and with more.
LEMMA TableLeft ==
  ASSUME NEW R, NEW t \in Tables(R), NEW S
  PROVE  /\ Restrict(t, DOMAIN t \ S) \in Tables(R)
         /\ DOMAIN Restrict(t, DOMAIN t \ S) = DOMAIN t \ S
         /\ \A u \in DOMAIN t \ S : Restrict(t, DOMAIN t \ S)[u] = t[u]
<1>1. t \in [DOMAIN t -> R] /\ DOMAIN t \in SUBSET Unit
  BY TableIs
<1>2. Restrict(t, DOMAIN t \ S) = [x \in DOMAIN t \ S |-> t[x]]
  BY DEF Restrict
<1>3. [x \in DOMAIN t \ S |-> t[x]] \in [DOMAIN t \ S -> R] /\ DOMAIN t \ S \in SUBSET Unit
  BY <1>1
<1>4. [x \in DOMAIN t \ S |-> t[x]] \in Tables(R)
  BY <1>3, TableIs
<1>5. QED
  BY <1>2, <1>4

LEMMA TableMore ==
  ASSUME NEW R, NEW t \in Tables(R), NEW S \in SUBSET Unit, NEW r, NEW r2, \A u \in S : r[u] \in R,
         r2 = [x \in DOMAIN t \union S |-> IF x \in S THEN r[x] ELSE t[x]]
  PROVE  r2 \in Tables(R)
<1>1. t \in [DOMAIN t -> R] /\ DOMAIN t \in SUBSET Unit
  BY TableIs
<1>2. r2 \in [DOMAIN t \union S -> R] /\ DOMAIN t \union S \in SUBSET Unit
  BY <1>1
<1>3. QED
  BY <1>2, TableIs

LEMMA TableEmpty == ASSUME NEW R PROVE Empty \in Tables(R) /\ DOMAIN Empty = {}
<1>1. Empty \in [{} -> R] /\ {} \in SUBSET Unit
  BY DEF Empty
<1>2. QED
  BY <1>1, TableIs

LEMMA FreeIs ==
  ASSUME ScoreTypes, NEW w \in Scorer
  PROVE  /\ Busy(w) <=> scoring[w] \in Scorings
         /\ ~Busy(w) <=> scoring[w] = Free
         /\ Free \notin Scorings
<1>1. Free.stage = "free" /\ \A k \in Scorings : k.stage # "free"
  BY DEF Free, Scorings
<1>2. QED
  BY <1>1 DEF ScoreTypes, Busy

\* One transaction goes on, or ends without a trace.
LEMMA GoesOn ==
  ASSUME ScoreInv, NEW w \in Scorer, Busy(w), NEW k,
         \/ k = Free
         \/ k \in Scorings /\ InStage(k) /\ RanksRight(k) /\ CaughtUp(k) /\ (k.apart => scoring[w].apart),
         scoring' = [scoring EXCEPT ![w] = k], UNCHANGED <<config, scores, tidy, started>>
  PROVE  ScoreInv'
<1>1. ScoreTypes' /\ RanksDense'
  BY DEF ScoreInv, ScoreTypes, RanksDense, Current
<1>2. scoring'[w] = k /\ \A x \in Scorer \ {w} : scoring'[x] = scoring[x]
  BY DEF ScoreInv, ScoreTypes
<1>3. InFlight' \subseteq InFlight /\ w \in InFlight
  BY <1>2 DEF InFlight, Busy
<1>4. ASSUME NEW x \in Scorer, NEW j, j = scoring'[x] PROVE InOrder(x, j)'
  <2>1. CASE x = w
    <3>1. CASE k = Free
      BY <1>2, <1>4, <2>1, <3>1 DEF InOrder
    <3>2. CASE k \in Scorings
      <4>1. /\ InStage(k) /\ RanksRight(k) /\ CaughtUp(k) /\ (k.apart => scoring[w].apart)
            /\ scoring[w] \in Scorings
        BY <3>2, FreeIs DEF ScoreInv
      <4>2. InOrder(w, scoring[w]) /\ scoring[w] # Free
        BY <4>1, FreeIs DEF ScoreInv
      <4>3. k.apart => InFlight \subseteq {w}
        BY <4>1, <4>2 DEF InOrder
      <4>4. InStage(k)' /\ CaughtUp(k)'
        BY <4>1 DEF InStage, CaughtUp
      <4>5. RanksRight(k)'
        BY <4>1 DEF RanksRight, RankBy, SeenBy
      <4>6. QED
        BY <1>2, <1>3, <1>4, <2>1, <3>2, <4>3, <4>4, <4>5 DEF InOrder
    <3>3. QED
      BY <3>1, <3>2
  <2>2. CASE x # w
    <3>1. InOrder(x, j)
      BY <1>2, <1>4, <2>2 DEF ScoreInv
    <3>2. InStage(j)' = InStage(j) /\ RanksRight(j)' = RanksRight(j) /\ CaughtUp(j)' = CaughtUp(j)
      BY DEF InStage, RanksRight, RankBy, SeenBy, CaughtUp
    <3>3. QED
      BY <1>3, <3>1, <3>2 DEF InOrder
  <2>3. QED
    BY <2>1, <2>2
<1>5. QED
  BY <1>1, <1>4 DEF ScoreInv

\* What a transaction would write of an entity is a row.
LEMMA RowType ==
  ASSUME ScoreTypes, NEW w \in Scorer, Busy(w), NEW u \in DOMAIN scoring[w].todo,
         Composite(Applied(w), scoring[w].todo[u].values) # NoScore
  PROVE  Scored(w, u) \in Row
<1>1. scoring[w] \in Scorings
  BY FreeIs
<1>2. scoring[w].todo[u].values \in [Factor -> 1..Scale]
  <2>1. scoring[w].todo[u] \in Read
    BY <1>1, TableIs DEF Scorings
  <2>2. QED
    BY <2>1, RiskScoresAssumption DEF Read
<1>3. scoring[w].todo[u].values \in Values
  <2>1. scoring[w].todo[u] \in Read
    BY <1>1, TableIs DEF Scorings
  <2>2. QED
    BY <2>1 DEF Read
<1>4. Applied(w) \in Settings
  BY <1>1, RiskScoresAssumption DEF Applied, Scorings, ScoreTypes, Settings
<1>5. PICK c : c = Composite(Applied(w), scoring[w].todo[u].values)
  OBVIOUS
<1>6. c \in Composites
  BY <1>2, <1>4, <1>5, CompositeType
<1>7. IsHigh(Applied(w), c) \in BOOLEAN
  BY DEF IsHigh
<1>8. Cardinality(Unit) \in Nat
  BY RiskScoresAssumption, FS_CardinalityType
<1>9. Scored(w, u) = [values |-> scoring[w].todo[u].values, composite |-> c,
                      high |-> IsHigh(Applied(w), c), rank |-> 0]
  BY <1>5 DEF Scored, NoRank
<1>10. QED
  BY <1>3, <1>6, <1>7, <1>8, <1>9 DEF Row

\* What it applies, while nobody edited the model, is the model.
LEMMA AppliedStill ==
  ASSUME ScoreTypes, NEW w \in Scorer, scoring[w] \in Scorings, scoring[w].model = config
  PROVE  Applied(w) = config
<1>1. config \in Settings
  BY RiskScoresAssumption DEF ScoreTypes
<1>2. QED
  BY <1>1 DEF Applied, Settings

LEMMA ScoreUnitStep ==
  ASSUME ScoreInv, NEW w \in Scorer, NEW u \in Unit, ScoreUnit(w, u)
  PROVE  ScoreInv'
<1> DEFINE s == scoring[w]
           read == s.todo[u]
           left == Restrict(s.todo, DOMAIN s.todo \ {u})
           composite == Composite(Applied(w), read.values)
           row == Scored(w, u)
<1>1. ScoreTypes /\ Busy(w) /\ s \in Scorings /\ u \in DOMAIN s.todo /\ s.stage = "scoring"
  <2>1. ScoreTypes /\ s.stage = "scoring" /\ u \in DOMAIN s.todo
    BY DEF ScoreUnit, ScoreInv
  <2>2. Busy(w)
    BY <2>1 DEF Busy
  <2>3. QED
    BY <2>1, <2>2, FreeIs
<1>2. InStage(s) /\ CaughtUp(s) /\ (s.apart => InFlight \subseteq {w})
  <2>1. InOrder(w, s) /\ s # Free
    BY <1>1, FreeIs DEF ScoreInv
  <2>2. QED
    BY <2>1 DEF InOrder
<1>3. left \in Tables(Read) /\ DOMAIN left = DOMAIN s.todo \ {u} /\ \A x \in DOMAIN left : left[x] = s.todo[x]
  <2>1. PICK t \in Tables(Read) : t = s.todo
    BY <1>1 DEF Scorings
  <2>2. PICK S : S = {u}
    OBVIOUS
  <2>3. /\ Restrict(t, DOMAIN t \ S) \in Tables(Read)
        /\ DOMAIN Restrict(t, DOMAIN t \ S) = DOMAIN t \ S
        /\ \A x \in DOMAIN t \ S : Restrict(t, DOMAIN t \ S)[x] = t[x]
    <3>1. t \in [DOMAIN t -> Read] /\ DOMAIN t \in SUBSET Unit
      BY <2>1, TableIs
    <3>2. Restrict(t, DOMAIN t \ S) = [x \in DOMAIN t \ S |-> t[x]]
      BY DEF Restrict
    <3>3. Restrict(t, DOMAIN t \ S) \in [DOMAIN t \ S -> Read] /\ DOMAIN t \ S \in SUBSET Unit
      BY <3>1, <3>2
    <3>4. Restrict(t, DOMAIN t \ S) \in Tables(Read)
      BY <3>3, TableIs
    <3>5. QED
      BY <3>2, <3>4
  <2>4. QED
    BY <2>1, <2>2, <2>3
<1>4. s.still => s.model = config /\ Applied(w) = config
  <2>1. s.still => s.model = config
    BY <1>2 DEF CaughtUp
  <2>2. QED
    BY <1>1, <2>1, AppliedStill DEF CaughtUp
<1>5. UNCHANGED <<config, scores, tidy, started>>
  BY DEF ScoreUnit
<1>6. /\ row.values = read.values /\ row.composite = composite
      /\ row.high = IsHigh(Applied(w), composite)
  BY DEF Scored
<1>7. CASE composite = NoScore
  <2>1. scoring' = [scoring EXCEPT ![w] = Free]
    BY <1>7 DEF ScoreUnit
  <2>2. QED
    BY <1>1, <1>5, <2>1, GoesOn
<1>8. CASE composite # NoScore /\ s.bulk /\ Unchanged(read, row)
  <2>1. PICK k : k = [s EXCEPT !.todo = left]
    OBVIOUS
  <2>2. scoring' = [scoring EXCEPT ![w] = k]
    BY <1>8, <2>1 DEF ScoreUnit
  <2>3. k \in Scorings /\ k.todo = left /\ k.new = s.new /\ k.model = s.model
        /\ k.still = s.still /\ k.apart = s.apart /\ k.stage = "scoring" /\ k.ranks = s.ranks
    <3> HIDE DEF left
    <3>1. QED
      BY <1>1, <1>3, <2>1 DEF Scorings
  <2>4. InStage(k) /\ RanksRight(k)
    BY <1>1, <1>2, <2>3 DEF InStage, RanksRight
  <2>5. ASSUME k.still, NEW x \in Unit, scores[x] # NoScore
        PROVE  \/ /\ x \in DOMAIN k.todo /\ x \notin DOMAIN k.new
                  /\ k.todo[x].values = scores[x].values /\ Unchanged(k.todo[x], scores[x])
               \/ x \in DOMAIN k.new /\ Fresh(k.new[x], config)
               \/ x \notin DOMAIN k.new /\ Fresh(scores[x], config)
    <3>1. \/ /\ x \in DOMAIN s.todo /\ x \notin DOMAIN s.new
             /\ s.todo[x].values = scores[x].values /\ Unchanged(s.todo[x], scores[x])
          \/ x \in DOMAIN s.new /\ Fresh(s.new[x], config)
          \/ x \notin DOMAIN s.new /\ Fresh(scores[x], config)
      BY <1>2, <2>3, <2>5 DEF CaughtUp
    <3>2. CASE x # u
      <4> HIDE DEF left
      <4>1. QED
        BY <1>3, <2>3, <3>1, <3>2
    <3>3. CASE x = u /\ u \notin DOMAIN s.new /\ read.values = scores[u].values /\ Unchanged(read, scores[u])
      <4>1. Applied(w) = config
        BY <1>4, <2>3, <2>5
      <4>2. Fresh(scores[u], config)
        BY <1>6, <1>8, <3>3, <4>1 DEF Unchanged, Fresh
      <4>3. QED
        BY <2>3, <3>3, <4>2
    <3>4. QED
      BY <2>3, <3>1, <3>2, <3>3
  <2>6. CaughtUp(k)
    BY <1>4, <2>3, <2>5 DEF CaughtUp
  <2>7. QED
    BY <1>1, <1>5, <2>2, <2>3, <2>4, <2>6, GoesOn
<1>9. CASE composite # NoScore /\ ~(s.bulk /\ Unchanged(read, row)) /\ Others(w, u) # {}
  <2>1. PICK k : k = [s EXCEPT !.stage = "waiting", !.ranks = [x \in {u} |-> row]]
    OBVIOUS
  <2>2. scoring' = [scoring EXCEPT ![w] = k]
    BY <1>9, <2>1 DEF ScoreUnit
  <2>3. ~s.apart
    BY <1>2, <1>9 DEF Others, Holder
  <2>4. [x \in {u} |-> row] \in Tables(Row)
    <3>1. row \in Row
      BY <1>1, <1>9, RowType
    <3>2. [x \in {u} |-> row] \in [{u} -> Row] /\ {u} \in SUBSET Unit
      <4> HIDE DEF row
      <4>1. QED
        BY <3>1
    <3>3. QED
      BY <3>2, TableIs
  <2>5. k \in Scorings /\ k.ranks \in Tables(Row) /\ k.stage = "waiting"
        /\ k.still = s.still /\ k.apart = s.apart
    <3> HIDE DEF row
    <3>1. QED
      BY <1>1, <2>1, <2>4 DEF Scorings
  <2>6. InStage(k) /\ RanksRight(k) /\ CaughtUp(k)
    BY <1>2, <2>3, <2>5 DEF InStage, RanksRight, CaughtUp
  <2>7. QED
    BY <1>1, <1>5, <2>2, <2>5, <2>6, GoesOn
<1>10. CASE composite # NoScore /\ ~(s.bulk /\ Unchanged(read, row)) /\ Others(w, u) = {}
  <2>1. PICK n : n = [x \in DOMAIN s.new \union {u} |-> IF x = u THEN row ELSE s.new[x]]
    OBVIOUS
  <2>2. PICK k : k = [s EXCEPT !.todo = left, !.new = n]
    OBVIOUS
  <2>3. scoring' = [scoring EXCEPT ![w] = k]
    <3>1. scoring' = [scoring EXCEPT ![w] =
            IF composite = NoScore THEN Free
            ELSE IF s.bulk /\ Unchanged(read, row) THEN [s EXCEPT !.todo = left]
            ELSE IF Others(w, u) # {} THEN [s EXCEPT !.stage = "waiting", !.ranks = [x \in {u} |-> row]]
            ELSE [s EXCEPT !.todo = left,
                           !.new = [x \in DOMAIN s.new \union {u} |-> IF x = u THEN row ELSE s.new[x]]]]
      BY Zenon DEF ScoreUnit
    <3>2. scoring' = [scoring EXCEPT ![w] =
            IF composite = NoScore THEN Free
            ELSE IF s.bulk /\ Unchanged(read, row) THEN [s EXCEPT !.todo = left]
            ELSE IF Others(w, u) # {} THEN [s EXCEPT !.stage = "waiting", !.ranks = [x \in {u} |-> row]]
            ELSE k]
      BY <2>1, <2>2, <3>1
    <3>3. QED
      <4> HIDE DEF composite, read, row, left, s
      <4>1. QED
        BY <1>10, <3>2
  <2>4. n \in Tables(Row)
    <3>1. row \in Row
      BY <1>1, <1>10, RowType
    <3>2. PICK t \in Tables(Row) : t = s.new
      BY <1>1 DEF Scorings
    <3>3. t \in [DOMAIN t -> Row] /\ DOMAIN t \in SUBSET Unit
      BY TableIs
    <3>4. n \in [DOMAIN t \union {u} -> Row] /\ DOMAIN t \union {u} \in SUBSET Unit
      <4> HIDE DEF row
      <4>1. QED
        BY <2>1, <3>1, <3>2, <3>3
    <3>5. QED
      BY <3>4, TableIs
  <2>5. k \in Scorings /\ k.todo = left /\ k.new = n /\ k.model = s.model
        /\ k.still = s.still /\ k.apart = s.apart /\ k.stage = "scoring" /\ k.ranks = s.ranks
    <3> HIDE DEF left
    <3>1. QED
      BY <1>1, <1>3, <2>2, <2>4 DEF Scorings
  <2>6. InStage(k) /\ RanksRight(k)
    BY <1>1, <1>2, <2>5 DEF InStage, RanksRight
  <2>7. ASSUME k.still, NEW x \in Unit, scores[x] # NoScore
        PROVE  \/ /\ x \in DOMAIN k.todo /\ x \notin DOMAIN k.new
                  /\ k.todo[x].values = scores[x].values /\ Unchanged(k.todo[x], scores[x])
               \/ x \in DOMAIN k.new /\ Fresh(k.new[x], config)
               \/ x \notin DOMAIN k.new /\ Fresh(scores[x], config)
    <3>1. CASE x # u
      <4>1. \/ /\ x \in DOMAIN s.todo /\ x \notin DOMAIN s.new
               /\ s.todo[x].values = scores[x].values /\ Unchanged(s.todo[x], scores[x])
            \/ x \in DOMAIN s.new /\ Fresh(s.new[x], config)
            \/ x \notin DOMAIN s.new /\ Fresh(scores[x], config)
        BY <1>2, <2>5, <2>7 DEF CaughtUp
      <4>2. (x \in DOMAIN n <=> x \in DOMAIN s.new) /\ (x \in DOMAIN s.new => n[x] = s.new[x])
        BY <2>1, <3>1
      <4>3. QED
        <5> HIDE DEF left
        <5>1. QED
          BY <1>3, <2>5, <3>1, <4>1, <4>2
    <3>2. CASE x = u
      <4>1. Applied(w) = config
        BY <1>4, <2>5, <2>7
      <4>2. Fresh(row, config)
        BY <1>6, <4>1 DEF Fresh
      <4>3. QED
        BY <2>1, <2>5, <3>2, <4>2
    <3>3. QED
      BY <3>1, <3>2
  <2>8. CaughtUp(k)
    BY <1>4, <2>5, <2>7 DEF CaughtUp
  <2>9. QED
    BY <1>1, <1>5, <2>3, <2>5, <2>6, <2>8, GoesOn
<1>11. QED
  BY <1>7, <1>8, <1>9, <1>10

LEMMA BeginStep ==
  ASSUME ScoreInv, NEW w \in Scorer, NEW bulk \in BOOLEAN, NEW todo \in Tables(Read), Begin(w, bulk, todo),
         bulk => \A u \in Unit : scores[u] # NoScore =>
           /\ u \in DOMAIN todo /\ todo[u].values = scores[u].values /\ Unchanged(todo[u], scores[u])
  PROVE  ScoreInv'
<1>1. ScoreTypes /\ ~Busy(w)
  BY DEF ScoreInv, Begin
<1>2. PICK k : k = [stage |-> "scoring", bulk |-> bulk, todo |-> todo, new |-> Empty, model |-> config,
                    ranks |-> Empty, apart |-> InFlight = {}, still |-> bulk /\ InFlight = {}]
  OBVIOUS
<1>3. /\ UNCHANGED <<config, scores, tidy>>
      /\ started' = started + 1 /\ started < MaxRuns
      /\ scoring' = [x \in Scorer |->
           IF x = w THEN k
           ELSE IF Busy(x) THEN [scoring[x] EXCEPT !.apart = FALSE, !.still = FALSE] ELSE scoring[x]]
  BY <1>2 DEF Begin
<1>4. k \in Scorings
  <2>1. Empty \in Tables(Row)
    BY TableEmpty
  <2>2. (InFlight = {}) \in BOOLEAN /\ (bulk /\ InFlight = {}) \in BOOLEAN
    OBVIOUS
  <2>3. QED
    BY <1>1, <1>2, <2>1, <2>2 DEF Scorings, ScoreTypes
<1>5. ASSUME NEW x \in Scorer, x # w, Busy(x), NEW j, j = [scoring[x] EXCEPT !.apart = FALSE, !.still = FALSE]
      PROVE  /\ j \in Scorings /\ ~j.apart /\ ~j.still /\ j.stage = scoring[x].stage
             /\ j.ranks = scoring[x].ranks /\ j.new = scoring[x].new /\ j.todo = scoring[x].todo
  <2>1. scoring[x] \in Scorings
    BY <1>1, <1>5, FreeIs
  <2>2. QED
    BY <1>5, <2>1 DEF Scorings
<1>6. ScoreTypes'
  <2>1. scoring' \in [Scorer -> Scorings \union {Free}]
    <3>1. \A x \in Scorer : scoring'[x] \in Scorings \union {Free}
      BY <1>1, <1>3, <1>4, <1>5, FreeIs
    <3>2. QED
      BY <1>3, <3>1
  <2>2. started' \in 0..MaxRuns
    <3>1. started' = started + 1 /\ started < MaxRuns
      BY <1>3
    <3>2. QED
      BY <1>1, <3>1, RiskScoresAssumption DEF ScoreTypes
  <2>3. QED
    BY <1>1, <1>3, <2>1, <2>2 DEF ScoreTypes
<1>7. RanksDense'
  BY <1>3 DEF ScoreInv, RanksDense, Current
<1>8. ASSUME NEW x \in Scorer, NEW j, j = scoring'[x] PROVE InOrder(x, j)'
  <2>1. CASE x = w
    <3>1. /\ j \in Scorings /\ j.stage = "scoring" /\ j.ranks = Empty /\ j.new = Empty /\ j.todo = todo
          /\ j.model = config /\ j.still = (bulk /\ InFlight = {}) /\ j.apart = (InFlight = {})
      BY <1>2, <1>3, <1>4, <1>8, <2>1
    <3>2. InStage(j)' /\ RanksRight(j)'
      BY <3>1 DEF InStage, RanksRight
    <3>3. DOMAIN Empty = {}
      BY TableEmpty
    <3>4. CaughtUp(j)'
      BY <1>3, <3>1, <3>3 DEF CaughtUp
    <3>5. j.apart => InFlight' \subseteq {w}
      BY <1>3, <3>1 DEF InFlight, Busy
    <3>6. QED
      BY <2>1, <3>1, <3>2, <3>4, <3>5 DEF InOrder
  <2>2. CASE x # w /\ Busy(x)
    <3>1. /\ j \in Scorings /\ ~j.apart /\ ~j.still /\ j.stage = scoring[x].stage
          /\ j.ranks = scoring[x].ranks /\ j.new = scoring[x].new /\ j.todo = scoring[x].todo
      BY <1>3, <1>5, <1>8, <2>2
    <3>2. InOrder(x, scoring[x]) /\ scoring[x] # Free
      BY <1>1, <2>2, FreeIs DEF ScoreInv
    <3>3. InStage(j)'
      BY <3>1, <3>2 DEF InOrder, InStage
    <3>4. RanksRight(j)' /\ CaughtUp(j)'
      BY <1>3, <3>1, <3>2 DEF InOrder, RanksRight, SeenBy, CaughtUp
    <3>5. QED
      BY <3>1, <3>3, <3>4 DEF InOrder
  <2>3. CASE x # w /\ ~Busy(x)
    BY <1>1, <1>3, <1>8, <2>3, FreeIs DEF InOrder
  <2>4. QED
    BY <2>1, <2>2, <2>3
<1>9. QED
  BY <1>6, <1>7, <1>8 DEF ScoreInv

LEMMA EditModelStep ==
  ASSUME ScoreInv, NEW c \in Configs, EditModel(c)
  PROVE  ScoreInv'
<1>1. ScoreTypes
  BY DEF ScoreInv
<1>2. /\ UNCHANGED <<scores, tidy>> /\ config' = c
      /\ started' = started + 1 /\ started < MaxRuns
      /\ scoring' = [x \in Scorer |-> IF Busy(x) THEN [scoring[x] EXCEPT !.still = FALSE] ELSE scoring[x]]
  BY DEF EditModel
<1>3. ASSUME NEW x \in Scorer, Busy(x), NEW j, j = [scoring[x] EXCEPT !.still = FALSE]
      PROVE  /\ j \in Scorings /\ j.apart = scoring[x].apart /\ ~j.still /\ j.stage = scoring[x].stage
             /\ j.ranks = scoring[x].ranks /\ j.new = scoring[x].new /\ j.todo = scoring[x].todo
  <2>1. scoring[x] \in Scorings
    BY <1>1, <1>3, FreeIs
  <2>2. QED
    BY <1>3, <2>1 DEF Scorings
<1>4. ScoreTypes'
  <2>1. scoring' \in [Scorer -> Scorings \union {Free}]
    <3>1. \A x \in Scorer : scoring'[x] \in Scorings \union {Free}
      BY <1>1, <1>2, <1>3, FreeIs
    <3>2. QED
      BY <1>2, <3>1
  <2>2. started' \in 0..MaxRuns
    BY <1>1, <1>2, RiskScoresAssumption DEF ScoreTypes
  <2>3. QED
    BY <1>1, <1>2, <2>1, <2>2 DEF ScoreTypes
<1>5. RanksDense'
  BY <1>2 DEF ScoreInv, RanksDense, Current
<1>6. InFlight' \subseteq InFlight
  <2>1. \A x \in Scorer : Busy(x)' => Busy(x)
    BY <1>2 DEF Busy
  <2>2. QED
    BY <2>1 DEF InFlight
<1>7. ASSUME NEW x \in Scorer, NEW j, j = scoring'[x] PROVE InOrder(x, j)'
  <2>1. CASE Busy(x)
    <3>1. /\ j \in Scorings /\ j.apart = scoring[x].apart /\ ~j.still /\ j.stage = scoring[x].stage
          /\ j.ranks = scoring[x].ranks /\ j.new = scoring[x].new /\ j.todo = scoring[x].todo
      BY <1>2, <1>3, <1>7, <2>1
    <3>2. PICK k : k = scoring[x]
      OBVIOUS
    <3>3. InOrder(x, k) /\ k # Free
      BY <1>1, <2>1, <3>2, FreeIs DEF ScoreInv
    <3>4. InStage(j)' /\ CaughtUp(j)'
      BY <3>1, <3>2, <3>3 DEF InOrder, InStage, CaughtUp
    <3>5. RanksRight(j)'
      <4>1. \A u : SeenBy(j, u)' = SeenBy(k, u)
        BY <1>2, <3>1, <3>2 DEF SeenBy
      <4>2. \A u : RankBy(j, u)' = RankBy(k, u)
        BY <4>1 DEF RankBy
      <4>3. QED
        BY <3>1, <3>2, <3>3, <4>1, <4>2 DEF InOrder, RanksRight
    <3>6. QED
      BY <1>6, <3>1, <3>2, <3>3, <3>4, <3>5 DEF InOrder
  <2>2. CASE ~Busy(x)
    BY <1>1, <1>2, <1>7, <2>2, FreeIs DEF InOrder
  <2>3. QED
    BY <2>1, <2>2
<1>8. QED
  BY <1>4, <1>5, <1>7 DEF ScoreInv

LEMMA ResumeStep ==
  ASSUME ScoreInv, NEW w \in Scorer, Resume(w)
  PROVE  ScoreInv'
<1>1. PICK s : s = scoring[w]
  OBVIOUS
<1>2. ScoreTypes /\ Busy(w) /\ s \in Scorings /\ s.stage = "waiting"
  <2>1. ScoreTypes /\ s.stage = "waiting"
    BY <1>1 DEF Resume, ScoreInv
  <2>2. Busy(w)
    BY <1>1, <2>1 DEF Busy
  <2>3. QED
    BY <1>1, <2>1, <2>2, FreeIs
<1>3. s.ranks \in Tables(Row) /\ ~s.apart /\ ~s.still
  <2>1. InOrder(w, s) /\ s # Free
    BY <1>1, <1>2, FreeIs DEF ScoreInv
  <2>2. QED
    BY <1>2, <2>1 DEF InOrder, InStage
<1>4. PICK held, left, n :
        /\ held = DOMAIN s.ranks
        /\ left = Restrict(s.todo, DOMAIN s.todo \ held)
        /\ n = [x \in DOMAIN s.new \union held |-> IF x \in held THEN s.ranks[x] ELSE s.new[x]]
  OBVIOUS
<1>5. PICK k : k = [s EXCEPT !.stage = "scoring", !.ranks = Empty, !.todo = left, !.new = n]
  OBVIOUS
<1>6. scoring' = [scoring EXCEPT ![w] = k] /\ UNCHANGED <<config, scores, tidy, started>>
  <2>1. scoring' = [scoring EXCEPT ![w] =
          [s EXCEPT !.stage = "scoring", !.ranks = Empty,
                    !.todo = Restrict(s.todo, DOMAIN s.todo \ held),
                    !.new = [x \in DOMAIN s.new \union held |->
                               IF x \in held THEN s.ranks[x] ELSE s.new[x]]]]
    BY <1>1, <1>4 DEF Resume
  <2>2. QED
    BY <1>4, <1>5, <2>1 DEF Resume
<1>7. left \in Tables(Read) /\ n \in Tables(Row) /\ Empty \in Tables(Row)
  <2>1. s.todo \in Tables(Read) /\ s.new \in Tables(Row)
    BY <1>2 DEF Scorings
  <2>2. held \in SUBSET Unit /\ \A u \in held : s.ranks[u] \in Row
    BY <1>3, <1>4, TableIs
  <2>3. left \in Tables(Read)
    BY <1>4, <2>1, TableLeft
  <2>4. n \in Tables(Row)
    <3>1. PICK t, r : t = s.new /\ r = s.ranks
      OBVIOUS
    <3>2. /\ t \in Tables(Row) /\ \A u \in held : r[u] \in Row
          /\ n = [x \in DOMAIN t \union held |-> IF x \in held THEN r[x] ELSE t[x]]
      BY <1>4, <2>1, <2>2, <3>1
    <3>3. QED
      BY <2>2, <3>2, TableMore
  <2>5. QED
    BY <2>3, <2>4, TableEmpty
<1>8. /\ k \in Scorings /\ k.stage = "scoring" /\ k.ranks = Empty /\ ~k.apart /\ ~k.still
  BY <1>2, <1>3, <1>5, <1>7 DEF Scorings
<1>9. InStage(k) /\ RanksRight(k) /\ CaughtUp(k)
  BY <1>8 DEF InStage, RanksRight, CaughtUp
<1>10. QED
  BY <1>2, <1>6, <1>8, <1>9, GoesOn

LEMMA RankScoresStep ==
  ASSUME ScoreInv, NEW w \in Scorer, RankScores(w)
  PROVE  ScoreInv'
<1>1. PICK s : s = scoring[w]
  OBVIOUS
<1>2. ScoreTypes /\ Busy(w) /\ s \in Scorings /\ s.stage = "scoring" /\ s.todo = Empty
  <2>1. ScoreTypes /\ s.stage = "scoring" /\ s.todo = Empty
    BY <1>1 DEF RankScores, ScoreInv
  <2>2. Busy(w)
    BY <1>1, <2>1 DEF Busy
  <2>3. QED
    BY <1>1, <2>1, <2>2, FreeIs
<1>3. InStage(s) /\ CaughtUp(s)
  <2>1. InOrder(w, s) /\ s # Free
    BY <1>1, <1>2, FreeIs DEF ScoreInv
  <2>2. QED
    BY <2>1 DEF InOrder
<1>4. PICK changed, r :
        /\ changed = {u \in Unit : Seen(w, u) # NoScore /\ Seen(w, u).rank # DenseRank(w, u)}
        /\ r = [u \in changed |-> DenseRank(w, u)]
  OBVIOUS
<1>5. PICK k : k = [s EXCEPT !.stage = "ranked", !.ranks = r]
  OBVIOUS
<1>6. scoring' = [scoring EXCEPT ![w] = k] /\ UNCHANGED <<config, scores, tidy, started>>
  <2>1. scoring' = [scoring EXCEPT ![w].stage = "ranked", ![w].ranks = r]
    BY <1>4 DEF RankScores
  <2>2. scoring' = [scoring EXCEPT ![w] = k]
    BY <1>1, <1>2, <1>5, <2>1 DEF ScoreTypes
  <2>3. QED
    BY <2>2 DEF RankScores
<1>7. r \in Tables(Ranks) /\ DOMAIN r = changed
  <2>1. r \in [changed -> Ranks] /\ changed \in SUBSET Unit
    BY <1>4, RankType DEF Ranks
  <2>2. QED
    BY <2>1, TableIs
<1>8. /\ k \in Scorings /\ k.stage = "ranked" /\ k.ranks = r /\ k.apart = s.apart /\ k.still = s.still
      /\ k.todo = s.todo /\ k.new = s.new /\ k.model = s.model
  BY <1>2, <1>5, <1>7 DEF Scorings
<1>9. \A u : SeenBy(k, u) = Seen(w, u)
  BY <1>1, <1>8 DEF SeenBy, Seen
<1>10. \A u : RankBy(k, u) = DenseRank(w, u)
  BY <1>9 DEF RankBy, DenseRank
<1>11. InStage(k) /\ CaughtUp(k)
  BY <1>2, <1>3, <1>7, <1>8, TableEmpty DEF InStage, CaughtUp
<1>12. RanksRight(k)
  BY <1>4, <1>7, <1>8, <1>9, <1>10 DEF RanksRight
<1>13. QED
  BY <1>1, <1>2, <1>6, <1>8, <1>11, <1>12, GoesOn

\* What a commit leaves of the scores.
LEMMA Committed ==
  ASSUME ScoreInv, NEW w \in Scorer, CommitScores(w)
  PROVE  /\ ScoreTypes /\ Busy(w) /\ scoring[w] \in Scorings
         /\ InOrder(w, scoring[w]) /\ scoring[w].stage = "ranked"
         /\ scores' \in [Unit -> Row \union {NoScore}]
         /\ \A u \in Unit :
              /\ scores'[u] # NoScore <=> Seen(w, u) # NoScore
              /\ Seen(w, u) \in Row \union {NoScore}
              /\ Seen(w, u) # NoScore =>
                   /\ scores'[u].values = Seen(w, u).values
                   /\ scores'[u].composite = Seen(w, u).composite
                   /\ scores'[u].high = Seen(w, u).high
                   /\ scores'[u].rank = IF u \in DOMAIN scoring[w].ranks THEN scoring[w].ranks[u]
                                        ELSE Seen(w, u).rank
<1>1. PICK s : s = scoring[w]
  OBVIOUS
<1>2. ScoreTypes /\ Busy(w) /\ s \in Scorings /\ s.stage = "ranked"
  <2>1. ScoreTypes /\ s.stage = "ranked"
    BY <1>1 DEF CommitScores, ScoreInv
  <2>2. Busy(w)
    BY <1>1, <2>1 DEF Busy
  <2>3. QED
    BY <1>1, <2>1, <2>2, FreeIs
<1>3. InOrder(w, s) /\ s # Free
  BY <1>1, <1>2, FreeIs DEF ScoreInv
<1>4. s.ranks \in Tables(Ranks) /\ \A u \in DOMAIN s.ranks : SeenBy(s, u) # NoScore
  BY <1>2, <1>3 DEF InOrder, InStage, RanksRight
<1>5. \A u : SeenBy(s, u) = Seen(w, u)
  BY <1>1 DEF SeenBy, Seen
<1>6. \A u \in Unit : Seen(w, u) \in Row \union {NoScore}
  <2>1. s.new \in Tables(Row)
    BY <1>2 DEF Scorings
  <2>2. QED
    BY <1>1, <1>2, <2>1, TableIs DEF Seen, ScoreTypes
<1>7. scores' = [u \in Unit |->
        IF u \in DOMAIN s.ranks THEN [Seen(w, u) EXCEPT !.rank = s.ranks[u]] ELSE Seen(w, u)]
  BY <1>1 DEF CommitScores
<1>8. ASSUME NEW u \in Unit
      PROVE  /\ scores'[u] \in Row \union {NoScore}
             /\ scores'[u] # NoScore <=> Seen(w, u) # NoScore
             /\ Seen(w, u) # NoScore =>
                  /\ scores'[u].values = Seen(w, u).values
                  /\ scores'[u].composite = Seen(w, u).composite
                  /\ scores'[u].high = Seen(w, u).high
                  /\ scores'[u].rank = IF u \in DOMAIN s.ranks THEN s.ranks[u] ELSE Seen(w, u).rank
  <2>1. PICK z : z = Seen(w, u)
    OBVIOUS
  <2>2. CASE u \in DOMAIN s.ranks
    <3>1. z \in Row /\ s.ranks[u] \in 0..Cardinality(Unit)
      BY <1>4, <1>5, <1>6, <2>1, <2>2, TableIs DEF Ranks
    <3>2. scores'[u] = [z EXCEPT !.rank = s.ranks[u]]
      BY <1>7, <2>1, <2>2
    <3>3. /\ scores'[u] \in Row /\ scores'[u].values = z.values /\ scores'[u].composite = z.composite
          /\ scores'[u].high = z.high /\ scores'[u].rank = s.ranks[u]
      BY <3>1, <3>2 DEF Row
    <3>4. NoScore \notin Row
      BY RiskScoresAssumption
    <3>5. QED
      BY <2>1, <2>2, <3>1, <3>3, <3>4
  <2>3. CASE u \notin DOMAIN s.ranks
    BY <1>6, <1>7, <2>3
  <2>4. QED
    BY <2>2, <2>3
<1>9. scores' \in [Unit -> Row \union {NoScore}]
  BY <1>7, <1>8
<1>10. QED
  BY <1>1, <1>2, <1>3, <1>6, <1>8, <1>9

LEMMA CommitStep ==
  ASSUME ScoreInv, NEW w \in Scorer, CommitScores(w)
  PROVE  ScoreInv'
<1>1. PICK s : s = scoring[w]
  OBVIOUS
<1>2. /\ ScoreTypes /\ Busy(w) /\ s \in Scorings /\ InOrder(w, s) /\ s.stage = "ranked" /\ s # Free
      /\ scores' \in [Unit -> Row \union {NoScore}]
  BY <1>1, Committed, FreeIs
<1>3. /\ UNCHANGED <<config, started>> /\ tidy' = s.apart
      /\ scoring' = [x \in Scorer |->
           IF \/ x = w \/ ~Busy(x)
              \/ scoring[x].stage = "waiting" /\ DOMAIN scoring[x].ranks \intersect DOMAIN s.new # {}
           THEN Free
           ELSE IF scoring[x].stage = "ranked"
           THEN [scoring[x] EXCEPT !.ranks = Restrict(scoring[x].ranks, DOMAIN scoring[x].ranks \ DOMAIN s.new)]
           ELSE scoring[x]]
  BY <1>1 DEF CommitScores
<1>4. ASSUME NEW x \in Scorer, NEW j, j = scoring'[x], j # Free
      PROVE  /\ x # w /\ j \in Scorings /\ InStage(j) /\ ~j.apart /\ ~j.still
             /\ Busy(x) /\ scoring[x] \in Scorings
             /\ j.stage = scoring[x].stage /\ j.new = scoring[x].new
             /\ j.stage = "ranked" => /\ DOMAIN j.ranks = DOMAIN scoring[x].ranks \ DOMAIN s.new
                                      /\ RanksRight(scoring[x])
  <2>1. PICK k : k = scoring[x]
    OBVIOUS
  <2>2. x # w /\ Busy(x) /\ k \in Scorings
    BY <1>2, <1>3, <1>4, <2>1, FreeIs
  <2>3. InOrder(x, k) /\ k # Free
    BY <1>2, <2>1, <2>2, FreeIs DEF ScoreInv
  <2>4. InStage(k) /\ RanksRight(k) /\ ~k.apart /\ ~k.still
    <3>1. w \in InFlight
      BY <1>2 DEF InFlight
    <3>2. QED
      BY <2>2, <2>3, <3>1 DEF InOrder, InStage
  <2>5. CASE k.stage = "ranked"
    <3>1. PICK r : r = Restrict(k.ranks, DOMAIN k.ranks \ DOMAIN s.new)
      OBVIOUS
    <3>2. j = [k EXCEPT !.ranks = r]
      BY <1>3, <1>4, <2>1, <2>2, <2>5, <3>1
    <3>3. k.ranks \in Tables(Ranks)
      BY <2>4, <2>5 DEF InStage
    <3>4. r \in Tables(Ranks) /\ DOMAIN r = DOMAIN k.ranks \ DOMAIN s.new
      <4>1. PICK t, S : t = k.ranks /\ S = DOMAIN s.new
        OBVIOUS
      <4>2. Restrict(t, DOMAIN t \ S) \in Tables(Ranks) /\ DOMAIN Restrict(t, DOMAIN t \ S) = DOMAIN t \ S
        <5>1. t \in [DOMAIN t -> Ranks] /\ DOMAIN t \in SUBSET Unit
          BY <3>3, <4>1, TableIs
        <5>2. Restrict(t, DOMAIN t \ S) = [u \in DOMAIN t \ S |-> t[u]]
          BY DEF Restrict
        <5>3. Restrict(t, DOMAIN t \ S) \in [DOMAIN t \ S -> Ranks] /\ DOMAIN t \ S \in SUBSET Unit
          BY <5>1, <5>2
        <5>4. Restrict(t, DOMAIN t \ S) \in Tables(Ranks)
          BY <5>3, TableIs
        <5>5. QED
          BY <5>2, <5>4
      <4>3. QED
        BY <3>1, <4>1, <4>2
    <3>5. /\ j \in Scorings /\ j.stage = "ranked" /\ j.ranks = r /\ j.new = k.new /\ j.todo = k.todo
          /\ j.apart = k.apart /\ j.still = k.still
      BY <2>2, <2>5, <3>2, <3>4 DEF Scorings
    <3>6. InStage(j)
      BY <2>4, <2>5, <3>4, <3>5 DEF InStage
    <3>7. QED
      BY <2>1, <2>2, <2>4, <2>5, <3>4, <3>5, <3>6
  <2>6. CASE k.stage # "ranked"
    <3>1. j = k
      BY <1>3, <1>4, <2>1, <2>2, <2>6
    <3>2. QED
      BY <2>1, <2>2, <2>4, <2>6, <3>1
  <2>7. QED
    BY <2>5, <2>6
<1>5. ScoreTypes'
  <2>1. \A x \in Scorer : scoring'[x] \in Scorings \union {Free}
    BY <1>4
  <2>2. scoring' \in [Scorer -> Scorings \union {Free}]
    BY <1>3, <2>1
  <2>3. tidy' \in BOOLEAN
    BY <1>2, <1>3 DEF Scorings
  <2>4. QED
    BY <1>2, <1>3, <2>2, <2>3 DEF ScoreTypes
<1>6. RanksDense'
  <2>1. SUFFICES ASSUME s.apart, NEW u \in Unit, scores'[u] # NoScore
                 PROVE  scores'[u].rank = Cardinality({scores'[x].composite :
                          x \in {x \in Current' : scores'[x].composite >= scores'[u].composite}})
    BY <1>3 DEF RanksDense, Current
  <2>2. /\ \A x \in Unit : scores'[x] # NoScore <=> SeenBy(s, x) # NoScore
        /\ \A x \in Unit : SeenBy(s, x) # NoScore => scores'[x].composite = SeenBy(s, x).composite
        /\ SeenBy(s, u) # NoScore => scores'[u].rank = IF u \in DOMAIN s.ranks THEN s.ranks[u]
                                                       ELSE SeenBy(s, u).rank
    <3>1. \A x : SeenBy(s, x) = Seen(w, x)
      BY <1>1 DEF SeenBy, Seen
    <3>2. QED
      BY <1>1, <3>1, Committed
  <2>3. scores'[u].rank = RankBy(s, u)
    BY <1>2, <2>1, <2>2 DEF InOrder, RanksRight
  <2>4. {scores'[x].composite : x \in {x \in Current' : scores'[x].composite >= scores'[u].composite}} =
          {SeenBy(s, x).composite : x \in {x \in Unit : /\ SeenBy(s, x) # NoScore
                                                        /\ SeenBy(s, x).composite >= SeenBy(s, u).composite}}
    <3>1. Current' = {x \in Unit : SeenBy(s, x) # NoScore}
      BY <2>2 DEF Current
    <3>2. \A x \in Current' : scores'[x].composite = SeenBy(s, x).composite
      BY <2>2, <3>1
    <3>3. scores'[u].composite = SeenBy(s, u).composite
      BY <2>1, <2>2
    <3>4. QED
      BY <3>1, <3>2, <3>3
  <2>5. QED
    BY <2>3, <2>4 DEF RankBy
<1>7. ASSUME NEW x \in Scorer, NEW j, j = scoring'[x] PROVE InOrder(x, j)'
  <2>1. CASE j = Free
    BY <2>1 DEF InOrder
  <2>2. CASE j # Free
    <3>1. /\ x # w /\ j \in Scorings /\ InStage(j) /\ ~j.apart /\ ~j.still
          /\ Busy(x) /\ scoring[x] \in Scorings
          /\ j.stage = scoring[x].stage /\ j.new = scoring[x].new
          /\ j.stage = "ranked" => /\ DOMAIN j.ranks = DOMAIN scoring[x].ranks \ DOMAIN s.new
                                   /\ RanksRight(scoring[x])
      BY <1>4, <1>7, <2>2
    <3>2. PICK k : k = scoring[x]
      OBVIOUS
    <3>3. ASSUME j.stage = "ranked", NEW u \in DOMAIN j.ranks PROVE SeenBy(j, u)' # NoScore
      <4>1. u \in DOMAIN k.ranks /\ u \notin DOMAIN s.new /\ SeenBy(k, u) # NoScore /\ j.new = k.new
        BY <3>1, <3>2, <3>3 DEF RanksRight
      <4>2. CASE u \in DOMAIN k.new
        BY <4>1, <4>2 DEF SeenBy
      <4>3. CASE u \notin DOMAIN k.new
        <5>1. scores[u] # NoScore /\ Seen(w, u) = scores[u]
          BY <1>1, <4>1, <4>3 DEF SeenBy, Seen
        <5>2. u \in Unit
          <6>1. InOrder(x, k) /\ k # Free /\ k.stage = "ranked"
            BY <1>2, <3>1, <3>2, <3>3, FreeIs DEF ScoreInv
          <6>2. k.ranks \in Tables(Ranks)
            BY <6>1 DEF InOrder, InStage
          <6>3. QED
            BY <4>1, <6>2, TableIs
        <5>3. scores'[u] # NoScore
          BY <5>1, <5>2, Committed
        <5>4. QED
          BY <4>1, <4>3, <5>3 DEF SeenBy
      <4>4. QED
        BY <4>2, <4>3
    <3>4. RanksRight(j)' /\ CaughtUp(j)' /\ InStage(j)'
      BY <3>1, <3>3 DEF RanksRight, CaughtUp, InStage
    <3>5. QED
      BY <3>1, <3>4 DEF InOrder
  <2>3. QED
    BY <2>1, <2>2
<1>8. QED
  BY <1>5, <1>6, <1>7 DEF ScoreInv

LEMMA ScoreInvariant == ScoreSpec => []ScoreInv
<1>1. ScoreInit => ScoreInv
  <2>1. SUFFICES ASSUME ScoreInit PROVE ScoreInv
    OBVIOUS
  <2>2. 0 \in 0..MaxRuns
    BY RiskScoresAssumption
  <2>3. ScoreTypes
    BY <2>1, <2>2 DEF ScoreInit, ScoreTypes
  <2>4. RanksDense
    BY <2>1 DEF ScoreInit, RanksDense, Current
  <2>5. \A w \in Scorer : InOrder(w, scoring[w])
    BY <2>1 DEF ScoreInit, InOrder
  <2>6. QED
    BY <2>3, <2>4, <2>5 DEF ScoreInv
<1>2. ASSUME ScoreInv, [ScoreNext]_scoreVars PROVE ScoreInv'
  <2>1. ASSUME NEW w \in Scorer, NEW u \in Unit, NEW v \in Values, RecordScore(w, u, v) PROVE ScoreInv'
    <3>1. PICK t : t = [x \in {u} |-> [values |-> v, composite |-> -1, high |-> FALSE]]
      OBVIOUS
    <3>2. [values |-> v, composite |-> -1, high |-> FALSE] \in Read
      BY DEF Read
    <3>3. t \in [{u} -> Read] /\ {u} \in SUBSET Unit
      BY <3>1, <3>2
    <3>4. t \in Tables(Read) /\ Begin(w, FALSE, t)
      BY <2>1, <3>1, <3>3, TableIs DEF RecordScore
    <3>5. QED
      BY <1>2, <3>4, BeginStep
  <2>2. ASSUME NEW w \in Scorer, Recompute(w) PROVE ScoreInv'
    <3>1. PICK t : t = [u \in {u \in Unit : scores[u] # NoScore} |->
            [values |-> scores[u].values, composite |-> scores[u].composite, high |-> scores[u].high]]
      OBVIOUS
    <3>2. ASSUME NEW u \in Unit, scores[u] # NoScore
          PROVE  [values |-> scores[u].values, composite |-> scores[u].composite,
                  high |-> scores[u].high] \in Read
      <4>1. scores[u] \in Row
        BY <1>2, <3>2 DEF ScoreInv, ScoreTypes
      <4>2. QED
        BY <4>1 DEF Row, Read
    <3>3. t \in [{u \in Unit : scores[u] # NoScore} -> Read] /\ {u \in Unit : scores[u] # NoScore} \in SUBSET Unit
      BY <3>1, <3>2
    <3>4. t \in Tables(Read) /\ Begin(w, TRUE, t)
      BY <2>2, <3>1, <3>3, TableIs DEF Recompute
    <3>5. \A u \in Unit : scores[u] # NoScore =>
            u \in DOMAIN t /\ t[u].values = scores[u].values /\ Unchanged(t[u], scores[u])
      BY <3>1 DEF Unchanged
    <3>6. QED
      BY <1>2, <3>4, <3>5, BeginStep
  <2>3. ASSUME NEW w \in Scorer, AbortScores(w) PROVE ScoreInv'
    BY <1>2, <2>3, GoesOn DEF AbortScores
  <2>4. CASE UNCHANGED scoreVars
    <3>1. UNCHANGED <<config, scores, scoring, tidy, started>>
      BY <2>4 DEF scoreVars
    <3>2. ScoreTypes' /\ RanksDense'
      BY <1>2, <3>1 DEF ScoreInv, ScoreTypes, RanksDense, Current
    <3>3. ASSUME NEW w \in Scorer, NEW k, k = scoring'[w] PROVE InOrder(w, k)'
      <4>1. InOrder(w, k)
        BY <1>2, <3>1, <3>3 DEF ScoreInv
      <4>2. RanksRight(k)' = RanksRight(k) /\ CaughtUp(k)' = CaughtUp(k) /\ InFlight' = InFlight
        BY <3>1 DEF RanksRight, RankBy, SeenBy, CaughtUp, InFlight, Busy
      <4>3. QED
        BY <4>1, <4>2 DEF InOrder, InStage
    <3>4. QED
      BY <3>2, <3>3 DEF ScoreInv
  <2>5. QED
    BY <1>2, <2>1, <2>2, <2>3, <2>4, ScoreUnitStep, ResumeStep, RankScoresStep, CommitStep, EditModelStep
       DEF ScoreNext
<1>3. QED
  BY <1>1, <1>2, PTL DEF ScoreSpec

\* The model, the scores and the transactions under way have the declared types.
THEOREM ScoreTypesHold == ScoreSpec => []ScoreTypeOK
<1>1. ScoreInv => ScoreTypeOK
  <2>1. SUFFICES ASSUME ScoreInv, NEW w \in InFlight
                 PROVE  /\ scoring[w].stage \in {"scoring", "waiting", "ranked"}
                        /\ Range(scoring[w].new) \subseteq Row
                        /\ DOMAIN scoring[w].ranks \subseteq Unit
    BY DEF ScoreInv, ScoreTypes, ScoreTypeOK
  <2>2. w \in Scorer /\ scoring[w] \in Scorings
    BY <2>1, FreeIs DEF ScoreInv, InFlight
  <2>3. scoring[w].new \in Tables(Row) /\ scoring[w].ranks \in Tables(Row) \union Tables(Ranks)
    BY <2>2 DEF Scorings
  <2>4. QED
    BY <2>2, <2>3, TableIs DEF Scorings, Range
<1>2. QED
  BY <1>1, ScoreInvariant, PTL

\* However scorings overlap, after one that overlapped no other the ranks are
\* dense and follow the composites.
THEOREM RanksAgree == ScoreSpec => []RanksDense
<1>1. ScoreInv => RanksDense
  BY DEF ScoreInv
<1>2. QED
  BY <1>1, ScoreInvariant, PTL

\* A recompute that nobody overlapped and no edit of the model came into leaves
\* every current score what the model makes of its values.
THEOREM RecomputeReaches == ScoreSpec => RecomputeCatchesUp
<1>1. ASSUME ScoreInv, NEW w \in Scorer, Busy(w), scoring[w].still, CommitScores(w),
             NEW u \in Unit, scores[u] # NoScore
      PROVE  Fresh(scores'[u], config)
  <2>1. PICK s : s = scoring[w]
    OBVIOUS
  <2>2. s \in Scorings /\ InOrder(w, s) /\ s.stage = "ranked" /\ s # Free /\ s.still
    BY <1>1, <2>1, Committed, FreeIs
  <2>3. CaughtUp(s) /\ DOMAIN s.todo = {}
    BY <2>2 DEF InOrder, InStage
  <2>4. Fresh(Seen(w, u), config) /\ Seen(w, u) # NoScore
    <3>1. \/ u \in DOMAIN s.new /\ Fresh(s.new[u], config)
          \/ u \notin DOMAIN s.new /\ Fresh(scores[u], config)
      BY <1>1, <2>2, <2>3 DEF CaughtUp
    <3>2. u \in DOMAIN s.new => s.new[u] # NoScore
      <4>1. s.new \in Tables(Row)
        BY <2>2 DEF Scorings
      <4>2. QED
        BY <4>1, TableIs, RiskScoresAssumption
    <3>3. QED
      BY <1>1, <2>1, <3>1, <3>2 DEF Seen
  <2>5. /\ scores'[u].values = Seen(w, u).values /\ scores'[u].composite = Seen(w, u).composite
        /\ scores'[u].high = Seen(w, u).high
    BY <1>1, <2>4, Committed
  <2>6. QED
    BY <2>4, <2>5 DEF Fresh
<1>2. ScoreInv /\ [ScoreNext]_scoreVars =>
        [\A w \in Scorer : Busy(w) /\ scoring[w].still /\ CommitScores(w)
           => \A u \in Unit : scores[u] # NoScore => Fresh(scores'[u], config)]_scoreVars
  BY <1>1
<1>3. QED
  BY <1>2, ScoreInvariant, PTL DEF ScoreSpec, RecomputeCatchesUp

-----------------------------------------------------------------------------
(***************************************************************************)
(* Materiality.                                                            *)
(***************************************************************************)

\* What a process is in the middle of.
LoadedCaches == UNION {[S -> Cached] : S \in SUBSET Owner}
Keepings ==
  [stage : {"figure"}, figure : Figure, row : FigureRow, was : Owner, todo : Seq(Owner), missed : SUBSET Owner]
    \union [stage : {"load"}, todo : Seq(Owner), missed : SUBSET Owner]
    \union [stage : {"build", "entity"}, todo : Seq(Owner), missed : SUBSET Owner, saw : LoadedCaches]
    \union [stage : {"store"}, todo : Seq(Owner), missed : SUBSET Owner, saw : LoadedCaches, built : Cached]

KeepTypes ==
  /\ figures \in [Figure -> FigureRow \union {NoFigure}]
  /\ cache \in [Owner -> Cached] /\ doubt \in SUBSET Owner
  /\ keeping \in [Keeper -> Keepings \union {Resting}]
  /\ writes \in 0..MaxWrites /\ code \in 0..writes

Owes(k, u) == k.stage \in {"load", "build", "store"} /\ u \in Range(k.todo)

\* A refresh goes through different entities, and of those it has loaded and
\* has missed no change of it knows the cache; of the one it is about to store,
\* what its figures make of it.
Tracks(k) ==
  /\ k.stage \in {"load", "build", "store"} => k.todo # <<>> /\ IsInjective(k.todo)
  /\ k.stage = "entity" => k.todo # <<>> /\ Head(k.todo) \in DOMAIN k.saw
  /\ k.stage \in {"build", "store"} =>
       /\ DOMAIN k.saw = Owner \/ DOMAIN k.saw = {Head(k.todo)}
       /\ \A u \in Range(k.todo) \intersect DOMAIN k.saw : u \notin k.missed => k.saw[u] = cache[u]
  /\ k.stage = "store" => (Head(k.todo) \notin k.missed => k.built = Built(Head(k.todo)))

KeepInv ==
  /\ KeepTypes
  /\ \A w \in Keeper : keeping[w] # Resting => Tracks(keeping[w])
  /\ CacheInStep

\* The entities of a refresh: the first, and the others.
LEMMA TodoFacts ==
  ASSUME NEW s \in Seq(Owner), s # <<>>
  PROVE  /\ Head(s) \in Owner /\ Tail(s) \in Seq(Owner) /\ Range(s) \subseteq Owner
         /\ Range(s) = {Head(s)} \union Range(Tail(s))
         /\ IsInjective(s) => Head(s) \notin Range(Tail(s)) /\ IsInjective(Tail(s))
<1>1. PICK n \in Nat : n = Len(s) /\ n > 0 /\ DOMAIN s = 1..n /\ \A i \in 1..n : s[i] \in Owner
  OBVIOUS
<1>2. PICK t : t = Tail(s)
  OBVIOUS
<1>3. /\ t \in Seq(Owner) /\ DOMAIN t = 1..n-1 /\ Head(s) = s[1]
      /\ \A i \in 1..n-1 : t[i] = s[i + 1]
  BY <1>1, <1>2
<1>4. 1 \in 1..n /\ \A i \in 1..n-1 : i + 1 \in 1..n
  BY <1>1
<1>5. \A i \in 1..n : i # 1 => i - 1 \in 1..n-1 /\ (i - 1) + 1 = i
  BY <1>1
<1>6. Range(s) = {s[1]} \union Range(t)
  <2>1. ASSUME NEW x \in Range(s) PROVE x \in {s[1]} \union Range(t)
    <3>1. PICK i \in 1..n : x = s[i]
      BY <1>1, <2>1 DEF Range
    <3>2. CASE i # 1
      <4>1. i - 1 \in 1..n-1 /\ t[i - 1] = x
        BY <1>3, <1>5, <3>1, <3>2
      <4>2. QED
        BY <1>3, <4>1 DEF Range
    <3>3. QED
      BY <3>1, <3>2
  <2>2. ASSUME NEW x \in Range(t) PROVE x \in Range(s)
    <3>1. PICK i \in 1..n-1 : x = t[i]
      BY <1>3, <2>2 DEF Range
    <3>2. i + 1 \in 1..n /\ x = s[i + 1]
      BY <1>3, <1>4, <3>1
    <3>3. QED
      BY <1>1, <3>2 DEF Range
  <2>3. s[1] \in Range(s)
    BY <1>1, <1>4 DEF Range
  <2>4. QED
    BY <2>1, <2>2, <2>3
<1>7. ASSUME IsInjective(s) PROVE s[1] \notin Range(t) /\ IsInjective(t)
  <2>1. \A i, j \in 1..n : s[i] = s[j] => i = j
    BY <1>1, <1>7 DEF IsInjective
  <2>2. ASSUME s[1] \in Range(t) PROVE FALSE
    <3>1. PICK i \in 1..n-1 : s[1] = t[i]
      BY <1>3, <2>2 DEF Range
    <3>2. i + 1 \in 1..n /\ s[1] = s[i + 1] /\ i + 1 # 1
      BY <1>3, <1>4, <3>1
    <3>3. QED
      BY <1>4, <2>1, <3>2
  <2>3. \A i, j \in 1..n-1 : t[i] = t[j] => i = j
    <3>1. SUFFICES ASSUME NEW i \in 1..n-1, NEW j \in 1..n-1, t[i] = t[j] PROVE i = j
      OBVIOUS
    <3>2. i + 1 \in 1..n /\ j + 1 \in 1..n /\ s[i + 1] = s[j + 1]
      BY <1>3, <1>4, <3>1
    <3>3. i + 1 = j + 1
      BY <2>1, <3>2
    <3>4. QED
      BY <3>3
  <2>4. QED
    BY <1>3, <2>2, <2>3 DEF IsInjective
<1>8. Range(s) \subseteq Owner
  BY <1>1 DEF Range
<1>9. QED
  BY <1>1, <1>2, <1>3, <1>4, <1>6, <1>7, <1>8

LEMMA TodoOne ==
  ASSUME NEW u \in Owner
  PROVE  /\ <<u>> \in Seq(Owner) /\ <<u>> # <<>> /\ Head(<<u>>) = u
         /\ IsInjective(<<u>>) /\ Range(<<u>>) = {u}
BY DEF IsInjective, Range

LEMMA TodoTwo ==
  ASSUME NEW u \in Owner, NEW v \in Owner, u # v
  PROVE  /\ <<u, v>> \in Seq(Owner) /\ <<u, v>> # <<>>
         /\ IsInjective(<<u, v>>) /\ Range(<<u, v>>) = {u, v}
<1>1. DOMAIN <<u, v>> = {1, 2}
  OBVIOUS
<1>2. QED
  BY <1>1 DEF IsInjective, Range

\* All the entities, in some order.
LEMMA TodoAll ==
  ASSUME NEW units \in SetToAllKPermutations(Owner), Len(units) = Cardinality(Owner)
  PROVE  units \in Seq(Owner) /\ units # <<>> /\ IsInjective(units)
<1>1. PICK s \in SUBSET Owner : units \in SetToSeqs(s)
  BY DEF SetToAllKPermutations
<1>2. PICK n : n = Cardinality(s) /\ n \in Nat
  BY MaterialityAssumption, FS_Subset, FS_CardinalityType
<1>3. units \in [1..n -> Owner] /\ \A i, j \in 1..n : i # j => units[i] # units[j]
  BY <1>1, <1>2 DEF SetToSeqs
<1>4. units \in Seq(Owner) /\ IsInjective(units)
  BY <1>2, <1>3 DEF IsInjective
<1>5. Cardinality(Owner) # 0 /\ Cardinality(Owner) \in Nat
  BY MaterialityAssumption, FS_CardinalityType, FS_EmptySet
<1>6. units # <<>>
  BY <1>5
<1>7. QED
  BY <1>4, <1>6

\* Built: of the type of a cache, and the same as long as the figures of the
\* entity and the code are.
LEMMA BuiltType ==
  ASSUME KeepTypes, NEW u \in Owner
  PROVE  Built(u) \in Cached
<1>1. CASE Given(u) = {}
  BY <1>1 DEF Built, Cached
<1>2. CASE Given(u) # {}
  <2>1. PICK given : given = Restrict(figures, Given(u))
    OBVIOUS
  <2>2. DOMAIN given = Given(u) /\ \A f \in Given(u) : given[f] = figures[f]
    BY <2>1 DEF Restrict
  <2>3. \A f \in Given(u) : given[f] \in FigureRow /\ given[f].amount # Blank
    BY <2>2 DEF Given, KeepTypes
  <2>4. \A f \in Given(u) : given[f].period \in 1..2 /\ given[f].amount \in Amounts
    BY <2>3 DEF FigureRow, Periods
  <2>5. \E f \in DOMAIN given : \A g \in DOMAIN given : given[f].period >= given[g].period
    <3>1. CASE \E f \in DOMAIN given : given[f].period = 2
      BY <2>2, <2>4, <3>1
    <3>2. CASE \A f \in DOMAIN given : given[f].period # 2
      <4>1. \A f \in DOMAIN given : given[f].period = 1
        BY <2>2, <2>4, <3>2
      <4>2. QED
        BY <1>2, <2>2, <4>1
    <3>3. QED
      BY <3>1, <3>2
  <2>6. Newest(given) \in Given(u)
    BY <2>2, <2>5 DEF Newest
  <2>7. code \in Codes
    BY MaterialityAssumption DEF KeepTypes, Codes
  <2>8. Built(u) = [code |-> code, amount |-> given[Newest(given)].amount]
    BY <1>2, <2>1 DEF Built
  <2>9. QED
    BY <2>4, <2>6, <2>7, <2>8 DEF Cached
<1>3. QED
  BY <1>1, <1>2

LEMMA BuiltSame ==
  ASSUME NEW u, code' = code \/ Given(u) = {},
         \A f \in Figure :
           \/ figures'[f] = figures[f]
           \/ /\ figures'[f] = NoFigure \/ figures'[f].unit # u
              /\ figures[f] = NoFigure \/ figures[f].unit # u
  PROVE  Built(u)' = Built(u)
<1>1. Given(u)' = Given(u)
  BY DEF Given
<1>2. CASE Given(u) = {}
  BY <1>1, <1>2 DEF Built
<1>3. CASE Given(u) # {}
  <2>1. PICK G : G = Given(u)
    OBVIOUS
  <2>2. \A f \in G : figures'[f] = figures[f]
    BY <2>1 DEF Given
  <2>3. Restrict(figures, Given(u))' = Restrict(figures, Given(u))
    BY <1>1, <2>1, <2>2 DEF Restrict
  <2>4. PICK given : given = Restrict(figures, Given(u))
    OBVIOUS
  <2>5. Built(u) = [code |-> code, amount |-> given[Newest(given)].amount]
    BY <1>3, <2>4 DEF Built
  <2>6. Built(u)' = [code |-> code', amount |-> given[Newest(given)].amount]
    BY <1>1, <1>3, <2>3, <2>4 DEF Built
  <2>7. QED
    BY <1>3, <2>5, <2>6
<1>4. QED
  BY <1>2, <1>3

\* A process that did not take the step has missed what was stirred, no more.
LEMMA Stirred ==
  ASSUME NEW k \in Keepings, Tracks(k), NEW units \in SUBSET Owner, NEW j,
         j = [k EXCEPT !.missed = k.missed \union units],
         \A v \in Owner \ units : cache'[v] = cache[v] /\ Built(v)' = Built(v)
  PROVE  /\ j \in Keepings /\ j # Resting /\ Tracks(j)'
         /\ \A u : Owes(j, u) <=> Owes(k, u)
<1>1. /\ j \in Keepings /\ j.stage = k.stage /\ j.todo = k.todo /\ j.missed = k.missed \union units
      /\ k.stage \in {"build", "store", "entity"} => j.saw = k.saw
      /\ k.stage = "store" => j.built = k.built
      /\ k.todo \in Seq(Owner)
  BY DEF Keepings
<1>2. j # Resting
  BY <1>1 DEF Keepings, Resting
<1>3. \A u : Owes(j, u) <=> Owes(k, u)
  BY <1>1 DEF Owes
<1>4. ASSUME j.stage \in {"build", "store"}
      PROVE  /\ DOMAIN j.saw = Owner \/ DOMAIN j.saw = {Head(j.todo)}
             /\ \A u \in Range(j.todo) \intersect DOMAIN j.saw : u \notin j.missed => j.saw[u] = cache'[u]
  <2>1. /\ DOMAIN k.saw = Owner \/ DOMAIN k.saw = {Head(k.todo)}
        /\ \A u \in Range(k.todo) \intersect DOMAIN k.saw : u \notin k.missed => k.saw[u] = cache[u]
        /\ k.todo # <<>>
    BY <1>1, <1>4 DEF Tracks
  <2>2. Range(k.todo) \subseteq Owner
    BY <1>1, <2>1, TodoFacts
  <2>3. QED
    BY <1>1, <1>4, <2>1, <2>2
<1>5. ASSUME j.stage = "store", Head(j.todo) \notin j.missed, NEW u, u = Head(j.todo)
      PROVE  j.built = Built(u)'
  <2>1. k.todo # <<>> /\ k.built = Built(u)
    BY <1>1, <1>5 DEF Tracks
  <2>2. u \in Owner \ units
    BY <1>1, <1>5, <2>1, TodoFacts
  <2>3. QED
    BY <1>1, <1>5, <2>1, <2>2
<1>6. Tracks(j)'
  <2>1. /\ j.stage \in {"load", "build", "store"} => j.todo # <<>> /\ IsInjective(j.todo)
        /\ j.stage = "entity" => j.todo # <<>> /\ Head(j.todo) \in DOMAIN j.saw
    BY <1>1 DEF Tracks
  <2>2. PICK u : u = Head(j.todo)
    OBVIOUS
  <2>3. j.stage = "store" => (u \notin j.missed => j.built = Built(u)')
    BY <1>5, <2>2
  <2>4. QED
    BY <1>4, <2>1, <2>2, <2>3 DEF Tracks
<1>7. QED
  BY <1>1, <1>2, <1>3, <1>6

\* One process takes a step: it stirs some entities, and settles, or owes, the
\* ones it stirred or owed, and those no longer in doubt.
LEMMA KeeperStep ==
  ASSUME KeepInv, NEW w \in Keeper, NEW units \in SUBSET Owner, NEW j,
         j = Resting \/ (j \in Keepings /\ Tracks(j)'), Stir(w, units, j),
         figures' \in [Figure -> FigureRow \union {NoFigure}],
         cache' \in [Owner -> Cached], doubt' \in SUBSET Owner,
         writes' \in 0..MaxWrites, code' \in 0..writes',
         \A v \in Owner \ units : cache'[v] = cache[v] /\ Built(v)' = Built(v),
         \A u \in Owner \ doubt' :
           \/ u \in units
           \/ u \in doubt
           \/ Owes(keeping[w], u)
           => Owes(j, u) \/ cache'[u] = Built(u)'
  PROVE  KeepInv'
<1>1. /\ keeping \in [Keeper -> Keepings \union {Resting}]
      /\ keeping' = [x \in Keeper |->
           IF x = w THEN j
           ELSE IF keeping[x] = Resting THEN Resting
           ELSE [keeping[x] EXCEPT !.missed = keeping[x].missed \union units]]
  BY DEF KeepInv, KeepTypes, Stir
<1>2. ASSUME NEW x \in Keeper, x # w, keeping[x] # Resting, NEW k, k = keeping'[x]
      PROVE  /\ k \in Keepings /\ k # Resting /\ Tracks(k)'
             /\ \A u : Owes(k, u) <=> Owes(keeping[x], u)
  <2>1. PICK i : i = keeping[x]
    OBVIOUS
  <2>2. i \in Keepings /\ Tracks(i) /\ k = [i EXCEPT !.missed = i.missed \union units]
    BY <1>1, <1>2, <2>1 DEF KeepInv
  <2>3. QED
    BY <2>1, <2>2, Stirred
<1>3. keeping'[w] = j /\ \A x \in Keeper : x # w /\ keeping[x] = Resting => keeping'[x] = Resting
  BY <1>1
<1>4. KeepTypes'
  <2>1. \A x \in Keeper : keeping'[x] \in Keepings \union {Resting}
    BY <1>1, <1>2, <1>3
  <2>2. keeping' \in [Keeper -> Keepings \union {Resting}]
    BY <1>1, <2>1
  <2>3. QED
    BY <2>2 DEF KeepTypes
<1>5. ASSUME NEW x \in Keeper, keeping'[x] # Resting, NEW k, k = keeping'[x]
      PROVE  Tracks(k)'
  BY <1>2, <1>3, <1>5
<1>6. ASSUME NEW u \in Owner \ doubt', ~Owed(u)' PROVE cache'[u] = Built(u)'
  <2>1. \A x \in Keeper : keeping'[x] # Resting => ~Owes(keeping'[x], u)
    BY <1>6 DEF Owed, Owes
  <2>2. ~Owes(j, u)
    <3>1. ~Owes(Resting, u)
      BY DEF Owes, Resting
    <3>2. QED
      BY <1>3, <2>1, <3>1
  <2>3. CASE u \in units \/ u \in doubt \/ Owes(keeping[w], u)
    BY <2>2, <2>3
  <2>4. CASE ~(u \in units \/ u \in doubt \/ Owes(keeping[w], u))
    <3>1. \A x \in Keeper : keeping[x] # Resting => ~Owes(keeping[x], u)
      BY <1>2, <2>1, <2>4
    <3>2. ~Owed(u)
      BY <3>1 DEF Owed, Owes
    <3>3. cache[u] = Built(u)
      BY <2>4, <3>2 DEF KeepInv, CacheInStep
    <3>4. QED
      BY <2>4, <3>3
  <2>5. QED
    BY <2>3, <2>4
<1>7. CacheInStep'
  BY <1>6 DEF CacheInStep
<1>8. \A x \in Keeper : keeping'[x] # Resting => Tracks(keeping[x])'
  BY <1>5
<1>9. QED
  BY <1>4, <1>7, <1>8 DEF KeepInv

\* A step that stirs nothing.
LEMMA KeepsStirs ==
  ASSUME KeepTypes, NEW w \in Keeper, NEW job, Keeps(w, job)
  PROVE  Stir(w, {}, job)
<1>1. \A x \in Keeper : keeping[x] # Resting => [keeping[x] EXCEPT !.missed = @ \union {}] = keeping[x]
  <2>1. ASSUME NEW k \in Keepings PROVE [k EXCEPT !.missed = @ \union {}] = k
    BY <2>1 DEF Keepings
  <2>2. QED
    BY <2>1 DEF KeepTypes
<1>2. keeping' = [x \in Keeper |-> IF x = w THEN job ELSE keeping[x]]
  BY DEF Keeps, KeepTypes
<1>3. QED
  BY <1>1, <1>2 DEF Stir

\* Which entities a change of the figures concerns.
LEMMA FigureChange ==
  ASSUME KeepTypes, NEW f \in Figure, NEW row \in FigureRow \union {NoFigure}, NEW units,
         figures' = [figures EXCEPT ![f] = row], code' = code, cache' = cache,
         row # NoFigure => row.unit \in units,
         figures[f] # NoFigure => figures[f].unit \in units
  PROVE  /\ figures' \in [Figure -> FigureRow \union {NoFigure}]
         /\ \A v \in Owner \ units : cache'[v] = cache[v] /\ Built(v)' = Built(v)
<1>1. figures' \in [Figure -> FigureRow \union {NoFigure}]
  BY DEF KeepTypes
<1>2. ASSUME NEW v \in Owner \ units PROVE Built(v)' = Built(v)
  <2>1. \A g \in Figure :
          \/ figures'[g] = figures[g]
          \/ /\ figures'[g] = NoFigure \/ figures'[g].unit # v
             /\ figures[g] = NoFigure \/ figures[g].unit # v
    BY <1>2 DEF KeepTypes
  <2>2. QED
    BY <2>1, BuiltSame
<1>3. QED
  BY <1>1, <1>2

LEMMA KeepFacts ==
  ASSUME KeepInv
  PROVE  /\ KeepTypes /\ MaxWrites \in Nat
         /\ figures \in [Figure -> FigureRow \union {NoFigure}]
         /\ cache \in [Owner -> Cached] /\ doubt \in SUBSET Owner
         /\ writes \in 0..MaxWrites /\ code \in 0..writes
         /\ writes' = writes \/ (writes < MaxWrites /\ writes' = writes + 1) =>
              writes' \in 0..MaxWrites /\ code \in 0..writes'
         /\ \A u : ~Owes(Resting, u)
BY MaterialityAssumption DEF KeepInv, KeepTypes, Owes, Resting

\* A refresh that starts, of one or of two entities.
LEMMA RefreshingTracks ==
  ASSUME NEW s \in Seq(Owner), s # <<>>, IsInjective(s)
  PROVE  /\ Refreshing(s) \in Keepings /\ Tracks(Refreshing(s))'
         /\ \A u \in Range(s) : Owes(Refreshing(s), u)
<1>1. PICK j : j = Refreshing(s)
  OBVIOUS
<1>2. j.stage = "load" /\ j.todo = s /\ j \in Keepings
  BY <1>1 DEF Refreshing, Keepings
<1>3. Tracks(j)' /\ \A u \in Range(s) : Owes(j, u)
  BY <1>2 DEF Tracks, Owes
<1>4. QED
  BY <1>1, <1>2, <1>3

LEMMA CaptureFigureStep ==
  ASSUME KeepInv, NEW w \in Keeper, NEW f \in Figure, NEW row \in FigureRow, CaptureFigure(w, f, row)
  PROVE  KeepInv'
<1>1. PICK u, j : u = row.unit /\ j = Refreshing(<<u>>)
  OBVIOUS
<1>2. u \in Owner
  BY <1>1 DEF FigureRow
<1>3. j \in Keepings /\ Tracks(j)' /\ Owes(j, u)
  <2>1. <<u>> \in Seq(Owner) /\ <<u>> # <<>> /\ IsInjective(<<u>>) /\ u \in Range(<<u>>)
    BY <1>2, TodoOne
  <2>2. QED
    BY <1>1, <2>1, RefreshingTracks
<1>4. /\ figures' = [figures EXCEPT ![f] = row] /\ figures[f] = NoFigure /\ UNCHANGED <<code, cache, doubt>>
      /\ Stir(w, {u}, j) /\ keeping[w] = Resting /\ writes < MaxWrites /\ writes' = writes + 1
  BY <1>1 DEF CaptureFigure, Starts
<1>5. /\ figures' \in [Figure -> FigureRow \union {NoFigure}]
      /\ \A v \in Owner \ {u} : cache'[v] = cache[v] /\ Built(v)' = Built(v)
  BY <1>1, <1>4, KeepFacts, FigureChange
<1>6. \A v \in Owner \ doubt' :
        v \in {u} \/ v \in doubt \/ Owes(keeping[w], v) => Owes(j, v) \/ cache'[v] = Built(v)'
  BY <1>3, <1>4, KeepFacts
<1>7. cache' \in [Owner -> Cached] /\ doubt' \in SUBSET Owner /\ writes' \in 0..MaxWrites /\ code' \in 0..writes'
  BY <1>4, KeepFacts
<1>8. {u} \in SUBSET Owner
  BY <1>2
<1>9. QED
  BY <1>3, <1>4, <1>5, <1>6, <1>7, <1>8, KeeperStep

LEMMA DeleteFigureStep ==
  ASSUME KeepInv, NEW w \in Keeper, NEW f \in Figure, DeleteFigure(w, f)
  PROVE  KeepInv'
<1>1. PICK u, j : u = figures[f].unit /\ j = Refreshing(<<u>>)
  OBVIOUS
<1>2. /\ figures' = [figures EXCEPT ![f] = NoFigure] /\ figures[f] # NoFigure /\ UNCHANGED <<code, cache, doubt>>
      /\ Stir(w, {u}, j) /\ keeping[w] = Resting /\ writes < MaxWrites /\ writes' = writes + 1
  BY <1>1 DEF DeleteFigure, Starts
<1>3. u \in Owner
  BY <1>1, <1>2, KeepFacts DEF FigureRow
<1>4. j \in Keepings /\ Tracks(j)' /\ Owes(j, u)
  <2>1. <<u>> \in Seq(Owner) /\ <<u>> # <<>> /\ IsInjective(<<u>>) /\ u \in Range(<<u>>)
    BY <1>3, TodoOne
  <2>2. QED
    BY <1>1, <2>1, RefreshingTracks
<1>5. /\ figures' \in [Figure -> FigureRow \union {NoFigure}]
      /\ \A v \in Owner \ {u} : cache'[v] = cache[v] /\ Built(v)' = Built(v)
  <2>1. NoFigure \in FigureRow \union {NoFigure} /\ u \in {u}
    OBVIOUS
  <2>2. QED
    BY <1>1, <1>2, <2>1, KeepFacts, FigureChange
<1>6. \A v \in Owner \ doubt' :
        v \in {u} \/ v \in doubt \/ Owes(keeping[w], v) => Owes(j, v) \/ cache'[v] = Built(v)'
  BY <1>2, <1>4, KeepFacts
<1>7. cache' \in [Owner -> Cached] /\ doubt' \in SUBSET Owner /\ writes' \in 0..MaxWrites /\ code' \in 0..writes'
  BY <1>2, KeepFacts
<1>8. {u} \in SUBSET Owner
  BY <1>3
<1>9. QED
  BY <1>2, <1>4, <1>5, <1>6, <1>7, <1>8, KeeperStep

LEMMA SaveFigureStep ==
  ASSUME KeepInv, NEW w \in Keeper, SaveFigure(w)
  PROVE  KeepInv'
<1>1. PICK k, f, row, was : k = keeping[w] /\ f = k.figure /\ row = k.row /\ was = k.was
  OBVIOUS
<1>2. k \in Keepings /\ k.stage = "figure" /\ f \in Figure /\ row \in FigureRow /\ was \in Owner /\ row.unit \in Owner
  <2>1. k.stage = "figure"
    BY <1>1 DEF SaveFigure
  <2>2. k \in Keepings
    BY <1>1, <2>1 DEF KeepInv, KeepTypes, Resting
  <2>3. f \in Figure /\ row \in FigureRow /\ was \in Owner
    BY <1>1, <2>1, <2>2 DEF Keepings
  <2>4. QED
    BY <2>1, <2>2, <2>3 DEF FigureRow
<1>3. PICK now, s, j : /\ now = IF figures[f] = NoFigure THEN {} ELSE {figures[f].unit}
                       /\ s = IF was = row.unit THEN <<was>> ELSE <<row.unit, was>>
                       /\ j = Refreshing(s)
  OBVIOUS
<1>4. /\ figures' = [figures EXCEPT ![f] = row] /\ Stir(w, now \union {row.unit}, j)
      /\ doubt' = doubt \union (now \ {was, row.unit}) /\ UNCHANGED <<code, cache, writes>>
  BY <1>1, <1>3 DEF SaveFigure
<1>5. now \in SUBSET Owner /\ (figures[f] # NoFigure => figures[f].unit \in now)
  BY <1>2, <1>3, KeepFacts DEF FigureRow
<1>6. s \in Seq(Owner) /\ s # <<>> /\ IsInjective(s) /\ Range(s) = {was, row.unit}
  BY <1>2, <1>3, TodoOne, TodoTwo
<1>7. j \in Keepings /\ Tracks(j)' /\ Owes(j, was) /\ Owes(j, row.unit)
  BY <1>3, <1>6, RefreshingTracks
<1>8. PICK units : units = now \union {row.unit}
  OBVIOUS
<1>9. /\ figures' \in [Figure -> FigureRow \union {NoFigure}]
      /\ \A v \in Owner \ units : cache'[v] = cache[v] /\ Built(v)' = Built(v)
  <2>1. row \in FigureRow \union {NoFigure} /\ row.unit \in units /\ (figures[f] # NoFigure => figures[f].unit \in units)
    BY <1>2, <1>5, <1>8
  <2>2. QED
    BY <1>2, <1>4, <2>1, KeepFacts, FigureChange
<1>10. \A v \in Owner \ doubt' :
         v \in units \/ v \in doubt \/ Owes(keeping[w], v) => Owes(j, v) \/ cache'[v] = Built(v)'
  BY <1>1, <1>2, <1>4, <1>7, <1>8 DEF Owes
<1>11. cache' \in [Owner -> Cached] /\ doubt' \in SUBSET Owner /\ writes' \in 0..MaxWrites /\ code' \in 0..writes'
  BY <1>4, <1>5, KeepFacts
<1>12. units \in SUBSET Owner /\ Stir(w, units, j)
  BY <1>2, <1>4, <1>5, <1>8
<1>13. QED
  BY <1>7, <1>9, <1>10, <1>11, <1>12, KeeperStep

\* Steps that change neither figures nor caches: what a process has loaded.
LEMMA KeeperLoads ==
  ASSUME KeepInv, NEW w \in Keeper, NEW j, j = Resting \/ (j \in Keepings /\ Tracks(j)),
         Keeps(w, j), UNCHANGED <<figures, code, cache>>, doubt' \in SUBSET Owner, doubt \subseteq doubt',
         writes' = writes \/ (writes < MaxWrites /\ writes' = writes + 1),
         \A u \in Owner \ doubt' : Owes(keeping[w], u) => Owes(j, u)
  PROVE  KeepInv'
<1>1. Stir(w, {}, j)
  BY KeepFacts, KeepsStirs
<1>2. \A v : Built(v)' = Built(v)
  BY BuiltSame
<1>3. Tracks(j) => Tracks(j)'
  <2>1. PICK u : u = Head(j.todo)
    OBVIOUS
  <2>2. Built(u)' = Built(u)
    BY <1>2
  <2>3. QED
    BY <2>1, <2>2 DEF Tracks
<1>4. /\ figures' \in [Figure -> FigureRow \union {NoFigure}] /\ cache' \in [Owner -> Cached]
      /\ writes' \in 0..MaxWrites /\ code' \in 0..writes'
  BY KeepFacts
<1>5. \A v \in Owner \ {} : cache'[v] = cache[v] /\ Built(v)' = Built(v)
  BY <1>2
<1>6. \A u \in Owner \ doubt' :
        u \in {} \/ u \in doubt \/ Owes(keeping[w], u) => Owes(j, u) \/ cache'[u] = Built(u)'
  OBVIOUS
<1>7. {} \in SUBSET Owner
  OBVIOUS
<1>8. QED
  BY <1>1, <1>3, <1>4, <1>5, <1>6, <1>7, KeeperStep

LEMMA LoadFigureStep ==
  ASSUME KeepInv, NEW w \in Keeper, NEW f \in Figure, NEW row \in FigureRow, LoadFigure(w, f, row)
  PROVE  KeepInv'
<1>1. PICK j : j = [stage |-> "figure", figure |-> f, row |-> row, was |-> figures[f].unit,
                    todo |-> <<>>, missed |-> {}]
  OBVIOUS
<1>2. /\ figures[f] # NoFigure /\ keeping[w] = Resting /\ writes < MaxWrites /\ writes' = writes + 1
      /\ Keeps(w, j) /\ UNCHANGED <<figures, code, cache, doubt>>
  BY <1>1 DEF LoadFigure, Starts
<1>3. figures[f].unit \in Owner /\ <<>> \in Seq(Owner)
  BY <1>2, KeepFacts DEF FigureRow
<1>4. j \in Keepings /\ Tracks(j)
  BY <1>1, <1>3 DEF Keepings, Tracks
<1>5. QED
  BY <1>2, <1>4, KeepFacts, KeeperLoads

\* The entities loaded, with the caches as they are.
LEMMA LoadedIs ==
  ASSUME KeepInv
  PROVE  /\ cache \in LoadedCaches /\ DOMAIN cache = Owner
         /\ \A u \in Owner : [x \in {u} |-> cache[u]] \in LoadedCaches
<1>1. cache \in [Owner -> Cached]
  BY KeepFacts
<1>2. \A u \in Owner : [x \in {u} |-> cache[u]] \in [{u} -> Cached] /\ {u} \in SUBSET Owner
  BY <1>1
<1>3. Owner \in SUBSET Owner
  OBVIOUS
<1>4. cache \in LoadedCaches
  BY <1>1, <1>3 DEF LoadedCaches
<1>5. \A u \in Owner : [x \in {u} |-> cache[u]] \in LoadedCaches
  <2>1. TAKE u \in Owner
  <2>2. PICK S : S = {u}
    OBVIOUS
  <2>3. [x \in S |-> cache[u]] \in [S -> Cached] /\ S \in SUBSET Owner
    BY <1>2, <2>2
  <2>4. [x \in S |-> cache[u]] \in LoadedCaches
    BY <2>3 DEF LoadedCaches
  <2>5. QED
    BY <2>2, <2>4
<1>6. DOMAIN cache = Owner
  BY <1>1
<1>7. QED
  BY <1>4, <1>5, <1>6

LEMMA LoadUnitStep ==
  ASSUME KeepInv, NEW w \in Keeper, LoadUnit(w)
  PROVE  KeepInv'
<1>1. PICK k, u : k = keeping[w] /\ u = Head(k.todo)
  OBVIOUS
<1>2. k \in Keepings /\ k.stage = "load" /\ Tracks(k)
  <2>1. k.stage = "load"
    BY <1>1 DEF LoadUnit
  <2>2. k # Resting
    BY <2>1 DEF Resting
  <2>3. QED
    BY <1>1, <2>1, <2>2 DEF KeepInv, KeepTypes
<1>3. k.todo \in Seq(Owner) /\ k.todo # <<>> /\ IsInjective(k.todo) /\ u \in Owner
  <2>1. k.todo \in Seq(Owner) /\ k.todo # <<>> /\ IsInjective(k.todo)
    BY <1>2 DEF Keepings, Tracks
  <2>2. QED
    BY <1>1, <2>1, TodoFacts
<1>4. PICK saw : saw = [x \in {u} |-> cache[u]]
  OBVIOUS
<1>5. PICK j : j = [stage |-> "build", todo |-> k.todo, missed |-> {}, saw |-> saw]
  OBVIOUS
<1>6. Keeps(w, j) /\ UNCHANGED <<figures, code, cache, doubt, writes>>
  BY <1>1, <1>4, <1>5 DEF LoadUnit
<1>7. j \in Keepings /\ Tracks(j)
  <2>1. saw \in LoadedCaches /\ DOMAIN saw = {u} /\ saw[u] = cache[u]
    BY <1>3, <1>4, LoadedIs
  <2>2. QED
    BY <1>1, <1>3, <1>5, <2>1 DEF Keepings, Tracks
<1>8. \A v : Owes(k, v) => Owes(j, v)
  BY <1>5 DEF Owes
<1>9. QED
  BY <1>1, <1>6, <1>7, <1>8, KeepFacts, KeeperLoads

LEMMA RebuildStep ==
  ASSUME KeepInv, NEW w \in Keeper, NEW units \in SetToAllKPermutations(Owner), Rebuild(w, units)
  PROVE  KeepInv'
<1>1. PICK j : j = [stage |-> "build", todo |-> units, missed |-> {}, saw |-> cache]
  OBVIOUS
<1>2. /\ keeping[w] = Resting /\ writes < MaxWrites /\ writes' = writes + 1 /\ Len(units) = Cardinality(Owner)
      /\ Keeps(w, j) /\ UNCHANGED <<figures, code, cache, doubt>>
  BY <1>1 DEF Rebuild, Starts
<1>3. units \in Seq(Owner) /\ units # <<>> /\ IsInjective(units)
  BY <1>2, TodoAll
<1>4. j \in Keepings /\ Tracks(j)
  BY <1>1, <1>3, LoadedIs DEF Keepings, Tracks
<1>5. QED
  BY <1>2, <1>4, KeepFacts, KeeperLoads

LEMMA LoadOwnerStep ==
  ASSUME KeepInv, NEW w \in Keeper, NEW u \in Owner, LoadOwner(w, u)
  PROVE  KeepInv'
<1>1. PICK s, saw : s = <<u>> /\ saw = [x \in {u} |-> cache[u]]
  OBVIOUS
<1>2. PICK j : j = [stage |-> "entity", todo |-> s, missed |-> {}, saw |-> saw]
  OBVIOUS
<1>3. /\ keeping[w] = Resting /\ writes < MaxWrites /\ writes' = writes + 1
      /\ Keeps(w, j) /\ UNCHANGED <<figures, code, cache, doubt>>
  BY <1>1, <1>2 DEF LoadOwner, Starts
<1>4. /\ s \in Seq(Owner) /\ s # <<>> /\ Head(s) = u
      /\ saw \in LoadedCaches /\ DOMAIN saw = {u}
  BY <1>1, TodoOne, LoadedIs
<1>5. j \in Keepings /\ Tracks(j)
  BY <1>2, <1>4 DEF Keepings, Tracks
<1>6. QED
  BY <1>3, <1>5, KeepFacts, KeeperLoads

LEMMA KeeperDiesStep ==
  ASSUME KeepInv, NEW w \in Keeper, KeeperDies(w)
  PROVE  KeepInv'
<1>1. PICK k : k = keeping[w]
  OBVIOUS
<1>2. /\ k # Resting /\ k \in Keepings /\ Tracks(k) /\ Keeps(w, Resting) /\ UNCHANGED <<figures, code, cache, writes>>
      /\ doubt' = IF k.stage \in {"load", "build", "store"} THEN doubt \union Range(k.todo) ELSE doubt
  BY <1>1 DEF KeeperDies, KeepInv, KeepTypes
<1>3. k.stage \in {"load", "build", "store"} => Range(k.todo) \subseteq Owner
  <2>1. k.stage \in {"load", "build", "store"} => k.todo \in Seq(Owner) /\ k.todo # <<>>
    BY <1>2 DEF Keepings, Tracks
  <2>2. QED
    BY <2>1, TodoFacts
<1>4. doubt' \in SUBSET Owner /\ doubt \subseteq doubt' /\ \A u \in Owner \ doubt' : ~Owes(k, u)
  BY <1>2, <1>3, KeepFacts DEF Owes
<1>5. QED
  BY <1>1, <1>2, <1>4, KeeperLoads

LEMMA BuildCacheStep ==
  ASSUME KeepInv, NEW w \in Keeper, BuildCache(w)
  PROVE  KeepInv'
<1>1. PICK k, u : k = keeping[w] /\ u = Head(k.todo)
  OBVIOUS
<1>2. k \in Keepings /\ k.stage = "build" /\ Tracks(k)
  <2>1. k.stage = "build"
    BY <1>1 DEF BuildCache
  <2>2. k # Resting
    BY <2>1 DEF Resting
  <2>3. QED
    BY <1>1, <2>1, <2>2 DEF KeepInv, KeepTypes
<1>3. /\ k.todo \in Seq(Owner) /\ k.saw \in LoadedCaches /\ k.missed \in SUBSET Owner
      /\ k.todo # <<>> /\ IsInjective(k.todo)
      /\ DOMAIN k.saw = Owner \/ DOMAIN k.saw = {u}
      /\ \A v \in Range(k.todo) \intersect DOMAIN k.saw : v \notin k.missed => k.saw[v] = cache[v]
  BY <1>1, <1>2 DEF Keepings, Tracks
<1>4. u \in Owner
  BY <1>1, <1>3, TodoFacts
<1>5. PICK late, built : /\ late = IF cache[u] = k.saw[u] THEN k.missed \ {u} ELSE k.missed
                         /\ built = Built(u)
  OBVIOUS
<1>6. PICK j : j = [stage |-> "store", todo |-> k.todo, saw |-> k.saw, built |-> built, missed |-> late]
  OBVIOUS
<1>7. Keeps(w, j) /\ UNCHANGED <<figures, code, cache, doubt, writes>>
  BY <1>1, <1>5, <1>6 DEF BuildCache
<1>8. late \in SUBSET Owner /\ built \in Cached
  BY <1>3, <1>4, <1>5, KeepFacts, BuiltType
<1>9. \A v \in Range(k.todo) \intersect DOMAIN k.saw : v \notin late => k.saw[v] = cache[v]
  BY <1>3, <1>5
<1>10. j \in Keepings
  BY <1>3, <1>6, <1>8 DEF Keepings
<1>11. Tracks(j)
  BY <1>1, <1>3, <1>5, <1>6, <1>9 DEF Tracks
<1>12. \A v : Owes(k, v) => Owes(j, v)
  BY <1>6 DEF Owes
<1>13. QED
  BY <1>1, <1>7, <1>10, <1>11, <1>12, KeepFacts, KeeperLoads

LEMMA StoreCacheStep ==
  ASSUME KeepInv, NEW w \in Keeper, StoreCache(w)
  PROVE  KeepInv'
<1>1. PICK k, u, rest : k = keeping[w] /\ u = Head(k.todo) /\ rest = Tail(k.todo)
  OBVIOUS
<1>2. k \in Keepings /\ k.stage = "store" /\ Tracks(k)
  <2>1. k.stage = "store"
    BY <1>1 DEF StoreCache
  <2>2. k # Resting
    BY <2>1 DEF Resting
  <2>3. QED
    BY <1>1, <2>1, <2>2 DEF KeepInv, KeepTypes
<1>3. /\ k.todo \in Seq(Owner) /\ k.saw \in LoadedCaches /\ k.missed \in SUBSET Owner /\ k.built \in Cached
      /\ k.todo # <<>> /\ IsInjective(k.todo)
      /\ DOMAIN k.saw = Owner \/ DOMAIN k.saw = {u}
      /\ \A v \in Range(k.todo) \intersect DOMAIN k.saw : v \notin k.missed => k.saw[v] = cache[v]
      /\ u \notin k.missed => k.built = Built(u)
  BY <1>1, <1>2 DEF Keepings, Tracks
<1>4. /\ u \in Owner /\ rest \in Seq(Owner) /\ IsInjective(rest)
      /\ Range(k.todo) = {u} \union Range(rest) /\ u \notin Range(rest)
  BY <1>1, <1>3, TodoFacts
<1>5. PICK units, j :
        /\ units = IF k.built # k.saw[u] THEN {u} ELSE {}
        /\ j = IF rest = <<>> THEN Resting
               ELSE IF DOMAIN k.saw = Owner
                    THEN [stage |-> "build", todo |-> rest, saw |-> k.saw, missed |-> k.missed]
                    ELSE Refreshing(rest)
  OBVIOUS
<1>6. /\ cache' = IF k.built # k.saw[u] THEN [cache EXCEPT ![u] = k.built] ELSE cache
      /\ Stir(w, units, j) /\ UNCHANGED <<figures, code, writes>>
      /\ doubt' = IF u \in k.missed THEN doubt \union {u} ELSE doubt \ {u}
  BY <1>1, <1>5 DEF StoreCache
<1>7. cache' \in [Owner -> Cached] /\ \A v \in Owner : v # u => cache'[v] = cache[v]
  BY <1>3, <1>4, <1>6, KeepFacts
<1>8. \A v : Built(v)' = Built(v)
  BY <1>6, BuiltSame
<1>9. u \notin k.missed => cache'[u] = Built(u)'
  <2>1. u \in Range(k.todo) \intersect DOMAIN k.saw
    BY <1>3, <1>4
  <2>2. u \notin k.missed => k.saw[u] = cache[u] /\ k.built = Built(u)
    BY <1>3, <2>1
  <2>3. cache'[u] = IF k.built # k.saw[u] THEN k.built ELSE cache[u]
    BY <1>4, <1>6, KeepFacts
  <2>4. Built(u)' = Built(u)
    BY <1>8
  <2>5. QED
    BY <2>2, <2>3, <2>4
<1>10. j = Resting \/ (j \in Keepings /\ Tracks(j)')
  <2>1. CASE rest = <<>>
    BY <1>5, <2>1
  <2>2. CASE rest # <<>> /\ DOMAIN k.saw = Owner
    <3>1. j.stage = "build" /\ j.todo = rest /\ j.saw = k.saw /\ j.missed = k.missed /\ j \in Keepings
      BY <1>3, <1>4, <1>5, <2>2 DEF Keepings
    <3>2. \A v \in Range(rest) \intersect DOMAIN k.saw : v \notin k.missed => k.saw[v] = cache'[v]
      BY <1>3, <1>4, <1>7, <2>2
    <3>3. Tracks(j)'
      BY <1>4, <2>2, <3>1, <3>2 DEF Tracks
    <3>4. QED
      BY <3>1, <3>3
  <2>3. CASE rest # <<>> /\ DOMAIN k.saw # Owner
    BY <1>4, <1>5, <2>3, RefreshingTracks
  <2>4. QED
    BY <2>1, <2>2, <2>3
<1>11. \A v \in Range(rest) : Owes(j, v)
  <2>1. CASE rest = <<>>
    BY <2>1 DEF Range
  <2>2. CASE rest # <<>> /\ DOMAIN k.saw = Owner
    BY <1>5, <2>2 DEF Owes
  <2>3. CASE rest # <<>> /\ DOMAIN k.saw # Owner
    BY <1>4, <1>5, <2>3, RefreshingTracks
  <2>4. QED
    BY <2>1, <2>2, <2>3
<1>12. \A v \in Owner \ doubt' :
         v \in units \/ v \in doubt \/ Owes(keeping[w], v) => Owes(j, v) \/ cache'[v] = Built(v)'
  <2>1. SUFFICES ASSUME NEW v \in Owner \ doubt', v \in units \/ v \in doubt \/ Owes(k, v)
                 PROVE  Owes(j, v) \/ cache'[v] = Built(v)'
    BY <1>1
  <2>2. CASE v = u
    BY <1>6, <1>9, <2>1, <2>2
  <2>3. CASE v # u
    <3>1. v \in Range(rest)
      BY <1>4, <1>5, <1>6, <2>1, <2>3 DEF Owes
    <3>2. QED
      BY <1>11, <3>1
  <2>4. QED
    BY <2>2, <2>3
<1>13. /\ units \in SUBSET Owner /\ doubt' \in SUBSET Owner /\ writes' \in 0..MaxWrites /\ code' \in 0..writes'
       /\ figures' \in [Figure -> FigureRow \union {NoFigure}]
  BY <1>4, <1>5, <1>6, KeepFacts
<1>14. \A v \in Owner \ units : cache'[v] = cache[v] /\ Built(v)' = Built(v)
  BY <1>5, <1>6, <1>7, <1>8
<1>15. QED
  BY <1>6, <1>7, <1>10, <1>12, <1>13, <1>14, KeeperStep

LEMMA SaveOwnerStep ==
  ASSUME KeepInv, NEW w \in Keeper, SaveOwner(w)
  PROVE  KeepInv'
<1>1. PICK k, u : k = keeping[w] /\ u = Head(k.todo)
  OBVIOUS
<1>2. k \in Keepings /\ k.stage = "entity" /\ Tracks(k)
  <2>1. k.stage = "entity"
    BY <1>1 DEF SaveOwner
  <2>2. k # Resting
    BY <2>1 DEF Resting
  <2>3. QED
    BY <1>1, <2>1, <2>2 DEF KeepInv, KeepTypes
<1>3. k.todo \in Seq(Owner) /\ k.todo # <<>> /\ u \in DOMAIN k.saw /\ k.saw \in LoadedCaches
  BY <1>1, <1>2 DEF Keepings, Tracks
<1>4. u \in Owner
  BY <1>1, <1>3, TodoFacts
<1>5. PICK back, units : back = k.saw[u] /\ units = IF back = cache[u] THEN {} ELSE {u}
  OBVIOUS
<1>6. back \in Cached
  BY <1>3, <1>5 DEF LoadedCaches
<1>7. /\ cache' = [cache EXCEPT ![u] = back] /\ Stir(w, units, Resting) /\ UNCHANGED <<figures, code, writes>>
      /\ doubt' = IF back = cache[u] THEN doubt ELSE doubt \union {u}
  BY <1>1, <1>5 DEF SaveOwner
<1>8. /\ cache' \in [Owner -> Cached] /\ units \in SUBSET Owner /\ doubt' \in SUBSET Owner
      /\ writes' \in 0..MaxWrites /\ code' \in 0..writes' /\ figures' \in [Figure -> FigureRow \union {NoFigure}]
  BY <1>4, <1>5, <1>6, <1>7, KeepFacts
<1>9. \A v \in Owner \ units : cache'[v] = cache[v] /\ Built(v)' = Built(v)
  BY <1>4, <1>5, <1>7, KeepFacts, BuiltSame
<1>10. \A v \in Owner \ doubt' :
         v \in units \/ v \in doubt \/ Owes(keeping[w], v) => Owes(Resting, v) \/ cache'[v] = Built(v)'
  BY <1>1, <1>2, <1>5, <1>7 DEF Owes
<1>11. QED
  BY <1>7, <1>8, <1>9, <1>10, KeeperStep

LEMMA RenameMetricStep ==
  ASSUME KeepInv, RenameMetric
  PROVE  KeepInv'
<1>1. PICK named : named = {u \in Owner : Given(u) # {}}
  OBVIOUS
<1>2. /\ UNCHANGED <<figures, cache>> /\ writes < MaxWrites /\ writes' = writes + 1 /\ code' = code + 1
      /\ doubt' = doubt \union named
      /\ keeping' = [x \in Keeper |-> IF keeping[x] = Resting THEN Resting
                                      ELSE [keeping[x] EXCEPT !.missed = keeping[x].missed \union named]]
  BY <1>1 DEF RenameMetric
<1>3. named \in SUBSET Owner /\ \A v \in Owner \ named : cache'[v] = cache[v] /\ Built(v)' = Built(v)
  BY <1>1, <1>2, BuiltSame
<1>4. ASSUME NEW x \in Keeper, keeping[x] # Resting, NEW k, k = keeping'[x]
      PROVE  /\ k \in Keepings /\ k # Resting /\ Tracks(k)'
             /\ \A u : Owes(k, u) <=> Owes(keeping[x], u)
  <2>1. PICK i : i = keeping[x]
    OBVIOUS
  <2>2. i \in Keepings /\ Tracks(i) /\ k = [i EXCEPT !.missed = i.missed \union named]
    BY <1>2, <1>4, <2>1 DEF KeepInv, KeepTypes
  <2>3. QED
    BY <1>3, <2>1, <2>2, Stirred
<1>5. \A x \in Keeper : keeping[x] = Resting => keeping'[x] = Resting
  BY <1>2
<1>6. KeepTypes'
  <2>1. \A x \in Keeper : keeping'[x] \in Keepings \union {Resting}
    BY <1>4, <1>5
  <2>2. keeping' \in [Keeper -> Keepings \union {Resting}]
    BY <1>2, <2>1
  <2>3. writes' \in 0..MaxWrites /\ code' \in 0..writes' /\ doubt' \in SUBSET Owner
    BY <1>2, <1>3, KeepFacts
  <2>4. QED
    BY <1>2, <2>2, <2>3, KeepFacts DEF KeepTypes
<1>7. ASSUME NEW x \in Keeper, keeping'[x] # Resting, NEW k, k = keeping'[x]
      PROVE  Tracks(k)'
  BY <1>4, <1>5, <1>7
<1>8. ASSUME NEW u \in Owner \ doubt', ~Owed(u)' PROVE cache'[u] = Built(u)'
  <2>1. \A x \in Keeper : keeping'[x] # Resting => ~Owes(keeping'[x], u)
    BY <1>8 DEF Owed, Owes
  <2>2. \A x \in Keeper : keeping[x] # Resting => ~Owes(keeping[x], u)
    BY <1>4, <2>1
  <2>3. ~Owed(u)
    BY <2>2 DEF Owed, Owes
  <2>4. QED
    BY <1>2, <1>3, <1>8, <2>3 DEF KeepInv, CacheInStep
<1>9. CacheInStep' /\ \A x \in Keeper : keeping'[x] # Resting => Tracks(keeping[x])'
  BY <1>7, <1>8 DEF CacheInStep
<1>10. QED
  BY <1>6, <1>9 DEF KeepInv

LEMMA KeepInvariant == MaterialitySpec => []KeepInv
<1>1. MaterialityInit => KeepInv
  <2>1. SUFFICES ASSUME MaterialityInit PROVE KeepInv
    OBVIOUS
  <2>2. KeepTypes
    BY <2>1, MaterialityAssumption DEF MaterialityInit, KeepTypes, Cached
  <2>3. \A u : Given(u) = {}
    BY <2>1 DEF MaterialityInit, Given
  <2>4. CacheInStep
    BY <2>1, <2>3 DEF MaterialityInit, CacheInStep, Built
  <2>5. QED
    BY <2>1, <2>2, <2>4 DEF KeepInv, MaterialityInit
<1>2. ASSUME KeepInv, [MaterialityNext]_keepVars PROVE KeepInv'
  <2>1. CASE UNCHANGED keepVars
    <3>1. UNCHANGED <<figures, code, cache, keeping, doubt, writes>>
      BY <2>1 DEF keepVars
    <3>2. \A u : Built(u)' = Built(u)
      BY <3>1, BuiltSame
    <3>3. KeepTypes' /\ CacheInStep'
      BY <1>2, <3>1, <3>2 DEF KeepInv, KeepTypes, CacheInStep, Owed
    <3>4. ASSUME NEW w \in Keeper, keeping[w] # Resting, NEW k, k = keeping[w] PROVE Tracks(k)'
      <4>1. Tracks(k)
        BY <1>2, <3>4 DEF KeepInv
      <4>2. PICK u : u = Head(k.todo)
        OBVIOUS
      <4>3. Built(u)' = Built(u)
        BY <3>2
      <4>4. QED
        BY <3>1, <4>1, <4>2, <4>3 DEF Tracks
    <3>5. QED
      BY <3>1, <3>3, <3>4 DEF KeepInv
  <2>2. QED
    BY <1>2, <2>1, CaptureFigureStep, LoadFigureStep, DeleteFigureStep, LoadOwnerStep, RebuildStep,
       SaveFigureStep, LoadUnitStep, BuildCacheStep, StoreCacheStep, SaveOwnerStep, KeeperDiesStep,
       RenameMetricStep DEF MaterialityNext
<1>3. QED
  BY <1>1, <1>2, PTL DEF MaterialitySpec

\* The figures, the caches and the refreshes under way have the declared types.
THEOREM MaterialityTypesHold == MaterialitySpec => []MaterialityTypeOK
<1>1. KeepInv => MaterialityTypeOK
  <2>1. SUFFICES ASSUME KeepInv, NEW w \in Keeper, keeping[w] # Resting
                 PROVE  /\ keeping[w].stage \in {"figure", "load", "build", "store", "entity"}
                        /\ keeping[w].todo \in Seq(Owner) /\ keeping[w].missed \subseteq Owner
    BY MaterialityAssumption DEF KeepInv, KeepTypes, MaterialityTypeOK, Codes
  <2>2. keeping[w] \in Keepings
    BY <2>1 DEF KeepInv, KeepTypes
  <2>3. QED
    BY <2>2 DEF Keepings
<1>2. QED
  BY <1>1, KeepInvariant, PTL

\* However captures, edits, rebuilds and refreshes overlap, the cache of an
\* entity nobody owes a refresh, and that is not in doubt, is its newest figure.
THEOREM CachesInStep == MaterialitySpec => []CacheInStep
<1>1. KeepInv => CacheInStep
  BY DEF KeepInv
<1>2. QED
  BY <1>1, KeepInvariant, PTL

-----------------------------------------------------------------------------
(***************************************************************************)
(* EntityTree.                                                             *)
(***************************************************************************)

\* What a process that edits an entity has loaded.
EditJobs == [stage : {"walk", "save", "status"}, entity : Entity, locked : BOOLEAN, row : TreeRow, next : Parents,
             seen : SUBSET Entity, moved : BOOLEAN]

TreeTypes ==
  /\ tree \in [Entity -> TreeRow \union {NoEntity}]
  /\ editing \in [Editor -> EditJobs \union {NoEdit}]
  /\ overtaken \in BOOLEAN /\ edits \in 0..MaxEdits

\* Rows are not deleted, and their parents are rows.
Placed ==
  /\ \A e \in Present : tree[e].parent \in Present \union {Top} /\ tree[e].version <= edits + 1
  /\ DOMAIN filling \subseteq Present /\ \A e \in DOMAIN filling : filling[e] \in TreeRow

\* What is above a row stays within a set of rows and the top.
Within(S) == \A s \in S : tree[s].parent \in S \union {Top}

\* An edit that has missed no move knows the parents of the rows it went
\* through: they lead to the next one, and at the end to the top.
Walked(k) ==
  /\ k.entity \in Present /\ k.next \in Present \union {Top} /\ k.seen \subseteq Present
  /\ k.row.parent \in Present \union {Top} /\ k.row.version <= edits
  /\ ~k.moved /\ k.stage = "walk" =>
       /\ k.entity \notin k.seen /\ k.row.parent \in k.seen \union {k.next}
       /\ \A s \in k.seen : tree[s].parent \in k.seen \union {k.next}
  /\ ~k.moved /\ k.stage = "save" =>
       \/ k.row.parent = tree[k.entity].parent
       \/ k.entity \notin k.seen /\ k.row.parent \in k.seen \union {Top} /\ Within(k.seen)

TreeInv ==
  /\ TreeTypes /\ Placed
  /\ \A w \in Editor : editing[w] # NoEdit => Walked(editing[w])
  /\ ~overtaken => Rooted

LEMMA TreeFacts ==
  ASSUME TreeInv
  PROVE  /\ tree \in [Entity -> TreeRow \union {NoEntity}]
         /\ editing \in [Editor -> EditJobs \union {NoEdit}]
         /\ overtaken \in BOOLEAN /\ edits \in 0..MaxEdits /\ MaxEdits \in Nat
         /\ Present \subseteq Entity /\ Top \notin Entity /\ Departments \subseteq Entity
         /\ NoEntity \notin TreeRow /\ NoEdit \notin EditJobs
         /\ \A e \in Present : /\ tree[e] \in TreeRow /\ tree[e].parent \in Present \union {Top}
                               /\ tree[e].version <= edits + 1
         /\ DOMAIN filling \subseteq Present /\ \A e \in DOMAIN filling : filling[e] \in TreeRow
         /\ ~overtaken => Rooted
         /\ \A w \in Editor : editing[w] # NoEdit => editing[w] \in EditJobs /\ Walked(editing[w])
<1>1. NoEdit \notin EditJobs
  BY DEF NoEdit, EditJobs
<1>2. /\ tree \in [Entity -> TreeRow \union {NoEntity}]
      /\ editing \in [Editor -> EditJobs \union {NoEdit}]
      /\ overtaken \in BOOLEAN /\ edits \in 0..MaxEdits
  BY DEF TreeInv, TreeTypes
<1>3. /\ MaxEdits \in Nat /\ Top \notin Entity /\ Departments \subseteq Entity /\ NoEntity \notin TreeRow
  BY EntityTreeAssumption
<1>4. Present \subseteq Entity /\ \A e \in Present : tree[e] \in TreeRow
  BY <1>2 DEF Present
<1>5. /\ \A e \in Present : tree[e].parent \in Present \union {Top} /\ tree[e].version <= edits + 1
      /\ DOMAIN filling \subseteq Present /\ \A e \in DOMAIN filling : filling[e] \in TreeRow
  BY DEF TreeInv, Placed
<1>6. \A w \in Editor : editing[w] # NoEdit => editing[w] \in EditJobs /\ Walked(editing[w])
  BY <1>2 DEF TreeInv
<1>7. QED
  BY <1>1, <1>2, <1>3, <1>4, <1>5, <1>6 DEF TreeInv

LEMMA TreeInitInv == TreeInit => TreeInv
<1>1. SUFFICES ASSUME TreeInit PROVE TreeInv
  OBVIOUS
<1>2. Present = {}
  BY <1>1 DEF TreeInit, Present
<1>3. TreeTypes
  <2>1. tree \in [Entity -> TreeRow \union {NoEntity}] /\ editing \in [Editor -> EditJobs \union {NoEdit}]
    BY <1>1 DEF TreeInit
  <2>2. edits \in 0..MaxEdits
    BY <1>1, EntityTreeAssumption DEF TreeInit
  <2>3. overtaken \in BOOLEAN
    BY <1>1 DEF TreeInit
  <2>4. QED
    BY <2>1, <2>2, <2>3 DEF TreeTypes
<1>4. Placed
  BY <1>1, <1>2 DEF TreeInit, NoRows, Placed
<1>5. Rooted
  BY <1>2 DEF Rooted
<1>6. QED
  BY <1>1, <1>3, <1>4, <1>5 DEF TreeInit, TreeInv

-----------------------------------------------------------------------------
(* What a step that moves no row leaves as it was. *)

\* The rows that were there are there, under the parents they had.
Unmoved ==
  \A e \in Present : e \in Present' /\ tree'[e].parent = tree[e].parent

LEMMA WalkedKept ==
  ASSUME Unmoved, edits' \in Int, edits \in Int, edits <= edits', NEW k \in EditJobs, Walked(k)
  PROVE  Walked(k)'
<1>1. /\ k.entity \in Present' /\ k.next \in Present' \union {Top} /\ k.seen \subseteq Present'
      /\ k.row.parent \in Present' \union {Top}
  BY DEF Unmoved, Walked
<1>2. k.row.version <= edits'
  <2>1. k.row.version \in Int
    BY EntityTreeAssumption DEF EditJobs, TreeRow
  <2>2. QED
    BY <2>1 DEF Walked
<1>3. \A s \in k.seen \union {k.entity} : tree'[s].parent = tree[s].parent
  BY DEF Unmoved, Walked
<1>4. ~k.moved /\ k.stage = "walk" =>
        /\ k.entity \notin k.seen /\ k.row.parent \in k.seen \union {k.next}
        /\ \A s \in k.seen : tree'[s].parent \in k.seen \union {k.next}
  BY <1>3 DEF Walked
<1>5. ~k.moved /\ k.stage = "save" =>
        \/ k.row.parent = tree'[k.entity].parent
        \/ /\ k.entity \notin k.seen /\ k.row.parent \in k.seen \union {Top}
           /\ \A s \in k.seen : tree'[s].parent \in k.seen \union {Top}
  BY <1>3 DEF Walked, Within
<1>6. QED
  BY <1>1, <1>2, <1>4, <1>5 DEF Walked, Within

\* Of an edit that has missed a move nothing else is asked.
LEMMA MovedWalked ==
  ASSUME \A e \in Present : e \in Present', edits' = edits, NEW k \in EditJobs, Walked(k)
  PROVE  Walked([k EXCEPT !.moved = TRUE])' /\ [k EXCEPT !.moved = TRUE] \in EditJobs
<1>1. PICK j : j = [k EXCEPT !.moved = TRUE]
  OBVIOUS
<1>2. /\ j \in EditJobs /\ j.moved = TRUE /\ j.entity = k.entity /\ j.next = k.next
      /\ j.seen = k.seen /\ j.row = k.row
  BY <1>1 DEF EditJobs
<1>3. Walked(j)'
  BY <1>2 DEF Walked
<1>4. QED
  BY <1>1, <1>2, <1>3

LEMMA RootedKept ==
  ASSUME Rooted, Unmoved, Present' = Present
  PROVE  Rooted'
<1>1. SUFFICES ASSUME NEW S \in SUBSET Present, S # {}
               PROVE  \E e \in S : tree'[e].parent \notin S
  BY DEF Rooted
<1>2. PICK e \in S : tree[e].parent \notin S
  BY <1>1 DEF Rooted
<1>3. QED
  BY <1>2 DEF Unmoved

\* A new row is below a row or the top, and nothing is below it.
LEMMA RootedLeaf ==
  ASSUME TreeInv, Rooted, Unmoved, NEW n, n \notin Present, n # Top, Present' = Present \union {n},
         tree'[n].parent \in Present \union {Top}
  PROVE  Rooted'
<1>1. SUFFICES ASSUME NEW S \in SUBSET (Present \union {n}), S # {},
                      \A e \in S : tree'[e].parent \in S
               PROVE  FALSE
  BY DEF Rooted
<1>2. PICK R : R = S \ {n}
  OBVIOUS
<1>3. R \in SUBSET Present /\ Top \notin S
  BY <1>2, TreeFacts
<1>4. \A e \in R : tree[e].parent \in R
  <2>1. TAKE e \in R
  <2>2. tree'[e].parent = tree[e].parent /\ tree[e].parent \in Present \union {Top}
    BY <1>3, TreeFacts DEF Unmoved
  <2>3. QED
    BY <1>1, <1>2, <2>2
<1>5. R # {}
  BY <1>1, <1>2, <1>3
<1>6. QED
  BY <1>3, <1>4, <1>5 DEF Rooted

\* A row moved below rows that lead to the top and do not go through it.
LEMMA RootedMove ==
  ASSUME TreeInv, Rooted, NEW n \in Present, NEW seen \in SUBSET Present,
         Present' = Present, \A e \in Present \ {n} : tree'[e].parent = tree[e].parent,
         n \notin seen, Within(seen), tree'[n].parent \in seen \union {Top}
  PROVE  Rooted'
<1>1. SUFFICES ASSUME NEW S \in SUBSET Present, S # {}, \A e \in S : tree'[e].parent \in S
               PROVE  FALSE
  BY DEF Rooted
<1>2. CASE n \notin S
  <2>1. \A e \in S : tree[e].parent \in S
    BY <1>1, <1>2
  <2>2. QED
    BY <1>1, <2>1 DEF Rooted
<1>3. CASE n \in S
  <2>1. PICK R : R = S \intersect seen
    OBVIOUS
  <2>2. Top \notin S
    BY <1>1, TreeFacts
  <2>3. tree'[n].parent \in R
    BY <1>1, <1>3, <2>1, <2>2
  <2>4. \A e \in R : tree[e].parent \in R
    BY <1>1, <2>1, <2>2 DEF Within
  <2>5. QED
    BY <2>1, <2>3, <2>4 DEF Rooted
<1>4. QED
  BY <1>2, <1>3

-----------------------------------------------------------------------------
(* Every step keeps the invariant. *)

LEMMA AllWalked ==
  ASSUME \A x \in Editor : \E k \in EditJobs \union {NoEdit} :
           editing'[x] = k /\ (k # NoEdit => Walked(k)')
  PROVE  (\A x \in Editor : editing[x] # NoEdit => Walked(editing[x]))'
<1>1. SUFFICES ASSUME NEW x \in Editor, editing'[x] # NoEdit PROVE Walked(editing[x])'
  OBVIOUS
<1>2. PICK k \in EditJobs \union {NoEdit} : editing'[x] = k /\ Walked(k)'
  BY <1>1
<1>3. QED
  BY <1>2 DEF Walked

\* A row is as it was, or the next one a handler writes.
LEMMA PlacedKept ==
  ASSUME TreeInv, NEW more \in {0, 1}, edits' = edits + more,
         \A e \in Present : e \in Present',
         \A e \in Present' : /\ tree'[e].parent \in Present' \union {Top}
                             /\ tree'[e].version = 1 \/ tree'[e].version \in 1..(edits + 1)
                                \/ (e \in Present /\ tree'[e].version = tree[e].version),
         \/ filling' = filling
         \/ DOMAIN filling' = {}
         \/ /\ DOMAIN filling' = Present
            /\ \A e \in Present : filling'[e] = tree[e]
  PROVE  Placed'
<1>1. edits \in Nat /\ edits' \in Nat /\ edits <= edits' /\ 1 <= edits + 1
  BY TreeFacts
<1>2. \A e \in Present : tree[e].version \in Int /\ tree[e].version <= edits + 1
  BY TreeFacts DEF TreeRow
<1>3. ASSUME NEW e \in Present' PROVE tree'[e].version <= edits' + 1
  <2>1. CASE tree'[e].version = 1
    BY <1>1, <2>1
  <2>2. CASE tree'[e].version \in 1..(edits + 1)
    <3>1. more = 0 \/ more = 1
      OBVIOUS
    <3>2. CASE more = 0
      BY <1>1, <2>2, <3>2
    <3>3. CASE more = 1
      BY <1>1, <2>2, <3>3
    <3>4. QED
      BY <3>1, <3>2, <3>3
  <2>3. CASE e \in Present /\ tree'[e].version = tree[e].version
    BY <1>1, <1>2, <2>3
  <2>4. QED
    BY <1>3, <2>1, <2>2, <2>3
<1>4. DOMAIN filling' \subseteq Present' /\ \A e \in DOMAIN filling' : filling'[e] \in TreeRow
  BY TreeFacts
<1>5. QED
  BY <1>3, <1>4 DEF Placed

\* What an editor does without writing a row.
LEMMA EditorStep ==
  ASSUME TreeInv, NEW w \in Editor, NEW j \in EditJobs \union {NoEdit}, Edits(w, j),
         j # NoEdit => Walked(j)', UNCHANGED <<tree, filling, overtaken>>,
         NEW more \in {0, 1}, edits' = edits + more, edits' <= MaxEdits
  PROVE  TreeInv'
<1>1. Present' = Present /\ Unmoved
  BY DEF Present, Unmoved
<1>2. edits \in Int /\ edits' \in Int /\ edits' \in 0..MaxEdits /\ edits <= edits'
  BY TreeFacts
<1>3. \A x \in Editor : editing'[x] = IF x = w THEN j ELSE editing[x]
  BY TreeFacts DEF Edits
<1>4. editing' \in [Editor -> EditJobs \union {NoEdit}]
  BY TreeFacts DEF Edits
<1>5. TreeTypes'
  BY <1>2, <1>4, TreeFacts DEF TreeTypes
<1>6. Placed'
  BY <1>1, TreeFacts, PlacedKept
<1>7. (\A x \in Editor : editing[x] # NoEdit => Walked(editing[x]))'
  <2>1. ASSUME NEW x \in Editor
        PROVE  \E k \in EditJobs \union {NoEdit} : editing'[x] = k /\ (k # NoEdit => Walked(k)')
    <3>1. CASE x = w
      BY <1>3, <3>1
    <3>2. CASE x # w
      <4>1. PICK k \in EditJobs \union {NoEdit} : k = editing[x]
        BY TreeFacts
      <4>2. k # NoEdit => k \in EditJobs /\ Walked(k)
        BY <4>1, TreeFacts
      <4>3. k # NoEdit => Walked(k)'
        BY <1>1, <1>2, <4>2, WalkedKept
      <4>4. QED
        BY <1>3, <3>2, <4>1, <4>3
    <3>3. QED
      BY <3>1, <3>2
  <2>2. QED
    BY <2>1, AllWalked
<1>8. (~overtaken => Rooted)'
  BY <1>1, TreeFacts, RootedKept
<1>9. QED
  BY <1>5, <1>6, <1>7, <1>8 DEF TreeInv

\* New rows, and links filled in: no row is moved, no edit goes on.
LEMMA RowsStep ==
  ASSUME TreeInv, Unmoved, tree' \in [Entity -> TreeRow \union {NoEntity}],
         \/ Present' = Present
         \/ \E n \in Entity : n \notin Present /\ Present' = Present \union {n} /\ tree'[n].version = 1
                              /\ tree'[n].parent \in Present \union {Top},
         \A e \in Present : tree'[e].version = tree[e].version,
         UNCHANGED <<editing, overtaken, edits>>,
         filling' = filling \/ DOMAIN filling' = {}
  PROVE  TreeInv'
<1>1. edits \in Int /\ edits' = edits /\ edits' = edits + 0 /\ 0 \in {0, 1}
  BY TreeFacts
<1>2. TreeTypes'
  BY TreeFacts DEF TreeTypes
<1>3. /\ \A e \in Present : e \in Present'
      /\ \A e \in Present' : /\ tree'[e].parent \in Present' \union {Top}
                             /\ tree'[e].version = 1
                                \/ (e \in Present /\ tree'[e].version = tree[e].version)
  BY TreeFacts DEF Unmoved
<1>4. Placed'
  BY <1>1, <1>3, PlacedKept
<1>5. (\A x \in Editor : editing[x] # NoEdit => Walked(editing[x]))'
  <2>1. ASSUME NEW x \in Editor
        PROVE  \E k \in EditJobs \union {NoEdit} : editing'[x] = k /\ (k # NoEdit => Walked(k)')
    <3>1. PICK k \in EditJobs \union {NoEdit} : k = editing[x]
      BY TreeFacts
    <3>2. k # NoEdit => k \in EditJobs /\ Walked(k)
      BY <3>1, TreeFacts
    <3>3. edits <= edits'
      BY <1>1
    <3>4. k # NoEdit => Walked(k)'
      BY <1>1, <3>2, <3>3, WalkedKept
    <3>5. QED
      BY <3>1, <3>4
  <2>2. QED
    BY <2>1, AllWalked
<1>6. (~overtaken => Rooted)'
  <2>1. SUFFICES ASSUME ~overtaken PROVE Rooted'
    OBVIOUS
  <2>2. Rooted
    BY <2>1, TreeFacts
  <2>3. CASE Present' = Present
    BY <2>2, <2>3, RootedKept
  <2>4. CASE \E n \in Entity : n \notin Present /\ Present' = Present \union {n}
                              /\ tree'[n].parent \in Present \union {Top}
    <3>1. PICK n \in Entity : n \notin Present /\ Present' = Present \union {n}
                              /\ tree'[n].parent \in Present \union {Top}
      BY <2>4
    <3>2. n # Top
      BY TreeFacts
    <3>3. QED
      BY <2>2, <3>1, <3>2, RootedLeaf
  <2>5. QED
    BY <2>3, <2>4
<1>7. QED
  BY <1>2, <1>4, <1>5, <1>6 DEF TreeInv

LEMMA LeafStep ==
  ASSUME TreeInv, NEW n \in Entity, tree[n] = NoEntity, NEW row \in TreeRow,
         tree' = [tree EXCEPT ![n] = row], row.version = 1, row.parent \in Present \union {Top},
         UNCHANGED <<editing, filling, overtaken, edits>>
  PROVE  TreeInv'
<1>1. /\ tree' \in [Entity -> TreeRow \union {NoEntity}] /\ n \notin Present
      /\ Present' = Present \union {n} /\ tree'[n] = row
      /\ \A e \in Present : tree'[e] = tree[e]
  BY TreeFacts DEF Present
<1>2. Unmoved
  BY <1>1 DEF Unmoved
<1>3. QED
  BY <1>1, <1>2, RowsStep

LEMMA CreateStep ==
  ASSUME TreeInv, NEW n \in Entity, NEW p \in Parents, NEW d \in Departments \union {NoLink},
         CreateEntity(n, p, d)
  PROVE  TreeInv'
<1>1. PICK row : row = [parent |-> p, dept |-> d, archived |-> FALSE, version |-> 1]
  OBVIOUS
<1>2. /\ tree[n] = NoEntity /\ p \in Present \union {Top} /\ tree' = [tree EXCEPT ![n] = row]
      /\ UNCHANGED <<editing, filling, overtaken, edits>>
  BY <1>1 DEF CreateEntity
<1>3. row \in TreeRow /\ row.version = 1 /\ row.parent = p
  BY <1>1, EntityTreeAssumption DEF TreeRow
<1>4. QED
  BY <1>2, <1>3, LeafStep

LEMMA CloneStep ==
  ASSUME TreeInv, NEW n \in Entity, NEW src \in Entity, CloneEntity(n, src)
  PROVE  TreeInv'
<1>1. PICK row : row = [tree[src] EXCEPT !.archived = FALSE, !.version = 1]
  OBVIOUS
<1>2. /\ tree[n] = NoEntity /\ src \in Present /\ tree' = [tree EXCEPT ![n] = row]
      /\ UNCHANGED <<editing, filling, overtaken, edits>>
  BY <1>1 DEF CloneEntity
<1>3. /\ row \in TreeRow /\ row.version = 1 /\ row.parent = tree[src].parent
      /\ row.parent \in Present \union {Top}
  <2>1. tree[src] \in TreeRow /\ tree[src].parent \in Present \union {Top} /\ 1 \in 1..(MaxEdits + 1)
    BY <1>2, TreeFacts
  <2>2. QED
    BY <1>1, <2>1 DEF TreeRow
<1>4. QED
  BY <1>2, <1>3, LeafStep

LEMMA LoadEntityStep ==
  ASSUME TreeInv, NEW w \in Editor, NEW n \in Entity, NEW locked \in BOOLEAN, LoadEntity(w, n, locked)
  PROVE  TreeInv'
<1>1. /\ n \in Present /\ edits < MaxEdits /\ edits' = edits + 1 /\ UNCHANGED <<tree, filling, overtaken>>
  BY DEF LoadEntity
<1>2. PICK row \in {[tree[n] EXCEPT !.parent = p] : p \in (Present \ {n}) \union {Top}}
          \union {[tree[n] EXCEPT !.dept = d] : d \in (Departments \intersect Live) \union {NoLink}} :
        Edits(w, [stage |-> IF row.parent = tree[n].parent THEN "save" ELSE "walk", entity |-> n,
                  locked |-> locked, row |-> row, next |-> row.parent, seen |-> {}, moved |-> FALSE])
  BY DEF LoadEntity
<1>3. row \in TreeRow /\ row.parent \in Present \union {Top} /\ row.version = tree[n].version
  BY <1>1, <1>2, TreeFacts DEF TreeRow, Parents
<1>4. PICK j : j = [stage |-> IF row.parent = tree[n].parent THEN "save" ELSE "walk", entity |-> n,
                    locked |-> locked, row |-> row, next |-> row.parent, seen |-> {}, moved |-> FALSE]
  OBVIOUS
<1>5. /\ j.stage = (IF row.parent = tree[n].parent THEN "save" ELSE "walk") /\ j.entity = n
      /\ j.row = row /\ j.next = row.parent /\ j.seen = {} /\ j \in EditJobs
  BY <1>3, <1>4, TreeFacts DEF EditJobs, Parents
<1>6. row.version <= edits'
  BY <1>1, <1>3, TreeFacts DEF TreeRow
<1>7. Present' = Present
  BY <1>1 DEF Present
<1>8. Walked(j)'
  BY <1>1, <1>3, <1>5, <1>6, <1>7 DEF Walked
<1>9. Edits(w, j) /\ edits' <= MaxEdits /\ 1 \in {0, 1}
  BY <1>1, <1>2, <1>4, TreeFacts
<1>10. QED
  BY <1>1, <1>5, <1>8, <1>9, EditorStep

\* The walk steps up to a row it has not seen, or ends.
LEMMA WalkStep ==
  ASSUME TreeInv, NEW w \in Editor, Walk(w)
  PROVE  TreeInv'
<1>1. PICK k : k = editing[w]
  OBVIOUS
<1>2. /\ k.stage = "walk" /\ UNCHANGED <<tree, filling, overtaken, filled, edits>>
      /\ CASE k.next = Top -> Edits(w, [k EXCEPT !.stage = "save"])
           [] k.next \in k.seen \union {k.entity} -> Edits(w, NoEdit)
           [] OTHER -> Edits(w, [k EXCEPT !.seen = k.seen \union {k.next}, !.next = tree[k.next].parent])
  BY <1>1 DEF Walk
<1>3. k \in EditJobs /\ Walked(k) /\ Top \notin k.seen \union {k.entity} /\ Present' = Present
      /\ k.next \in Present \union {Top} /\ k.seen \subseteq Present
  <2>1. k # NoEdit
    BY <1>2 DEF NoEdit
  <2>2. k \in EditJobs /\ Walked(k)
    BY <1>1, <2>1, TreeFacts
  <2>3. Present' = Present
    BY <1>2 DEF Present
  <2>4. QED
    BY <2>2, <2>3, TreeFacts DEF Walked
<1>4. edits' = edits + 0 /\ edits' <= MaxEdits /\ 0 \in {0, 1}
  BY <1>2, TreeFacts
<1>5. CASE k.next = Top
  <2>1. PICK j : j = [k EXCEPT !.stage = "save"]
    OBVIOUS
  <2>2. /\ Edits(w, j) /\ j \in EditJobs /\ j.stage = "save" /\ j.entity = k.entity /\ j.row = k.row
        /\ j.next = k.next /\ j.seen = k.seen /\ j.moved = k.moved
    BY <1>2, <1>3, <1>5, <2>1 DEF EditJobs
  <2>3. Walked(j)
    BY <1>2, <1>3, <1>5, <2>2 DEF Walked, Within
  <2>4. Walked(j)'
    BY <1>2, <1>3, <2>2, <2>3, TreeFacts, WalkedKept DEF Unmoved
  <2>5. QED
    BY <1>2, <1>4, <2>2, <2>4, EditorStep
<1>6. CASE k.next # Top /\ k.next \in k.seen \union {k.entity}
  <2>1. Edits(w, NoEdit)
    BY <1>2, <1>6
  <2>2. QED
    BY <1>2, <1>4, <2>1, EditorStep
<1>7. CASE k.next # Top /\ k.next \notin k.seen \union {k.entity}
  <2>1. PICK u, above : u = k.seen \union {k.next} /\ above = tree[k.next].parent
    OBVIOUS
  <2>2. PICK j : j = [k EXCEPT !.seen = u, !.next = above]
    OBVIOUS
  <2>3. above \in Present \union {Top} /\ u \subseteq Present
    BY <1>3, <1>7, <2>1, TreeFacts
  <2>4. /\ Edits(w, j) /\ j \in EditJobs /\ j.stage = k.stage /\ j.entity = k.entity /\ j.row = k.row
        /\ j.next = above /\ j.seen = u /\ j.moved = k.moved
    BY <1>2, <1>3, <1>7, <2>1, <2>2, <2>3, TreeFacts DEF EditJobs, Parents
  <2>5. Walked(j)
    BY <1>2, <1>3, <1>7, <2>1, <2>3, <2>4 DEF Walked
  <2>6. Walked(j)'
    BY <1>2, <1>3, <2>4, <2>5, TreeFacts, WalkedKept DEF Unmoved
  <2>7. QED
    BY <1>2, <1>4, <2>4, <2>6, EditorStep
<1>8. QED
  BY <1>5, <1>6, <1>7

LEMMA GiveUpEditStep ==
  ASSUME TreeInv, NEW w \in Editor, GiveUpEdit(w)
  PROVE  TreeInv'
<1>1. Edits(w, NoEdit) /\ UNCHANGED <<tree, filling, overtaken>> /\ edits' = edits
  BY DEF GiveUpEdit
<1>2. edits' = edits + 0 /\ edits' <= MaxEdits /\ 0 \in {0, 1}
  BY <1>1, TreeFacts
<1>3. QED
  BY <1>1, <1>2, EditorStep

\* The row is written over whatever it has become; who had not seen the move
\* is marked, and the hierarchy holds up when this process had seen them all.
LEMMA SaveEntityStep ==
  ASSUME TreeInv, NEW w \in Editor, SaveEntity(w)
  PROVE  TreeInv'
<1>1. PICK k : k = editing[w]
  OBVIOUS
<1>2. k.stage = "save" /\ UNCHANGED <<filling, edits>>
  BY <1>1 DEF SaveEntity
<1>3. k \in EditJobs /\ Walked(k)
  <2>1. k # NoEdit
    BY <1>2 DEF NoEdit
  <2>2. QED
    BY <1>1, <2>1, TreeFacts
<1>4. edits' = edits + 0 /\ edits' <= MaxEdits /\ 0 \in {0, 1} /\ edits \in Int /\ edits <= edits'
  BY <1>2, TreeFacts
<1>5. CASE k.locked /\ tree[k.entity].version # k.row.version
  <2>1. Edits(w, NoEdit) /\ UNCHANGED <<tree, overtaken>>
    BY <1>1, <1>5 DEF SaveEntity
  <2>2. QED
    BY <1>2, <1>4, <2>1, EditorStep
<1>6. CASE ~(k.locked /\ tree[k.entity].version # k.row.version)
  <2>1. PICK row, n : row = [k.row EXCEPT !.version = k.row.version + 1] /\ n = k.entity
    OBVIOUS
  <2>2. /\ Put(w, n, row)
        /\ overtaken' = (overtaken \/ (k.moved /\ k.row.parent # tree[n].parent))
    BY <1>1, <1>6, <2>1 DEF SaveEntity
  <2>3. n \in Present /\ n \in Entity /\ tree[n] # NoEntity
    BY <1>3, <2>1, TreeFacts DEF Walked, Present
  <2>4. /\ row \in TreeRow /\ row.parent = k.row.parent /\ row.version \in 1..(edits + 1)
        /\ row.parent \in Present \union {Top}
    <3>1. k.row \in TreeRow /\ k.row.version <= edits /\ k.row.parent \in Present \union {Top}
      BY <1>3 DEF EditJobs, Walked
    <3>2. k.row.version \in Nat /\ k.row.version + 1 \in 1..(edits + 1)
      BY <1>4, <3>1, TreeFacts DEF TreeRow
    <3>3. k.row.version + 1 \in 1..(MaxEdits + 1)
      BY <3>2, TreeFacts
    <3>4. QED
      BY <2>1, <3>1, <3>2, <3>3 DEF TreeRow
  <2>5. tree' = [tree EXCEPT ![n] = row]
    BY <2>2 DEF Put
  <2>6. /\ tree' \in [Entity -> TreeRow \union {NoEntity}] /\ Present' = Present
        /\ tree'[n] = row /\ \A e \in Present \ {n} : tree'[e] = tree[e]
    BY <2>3, <2>4, <2>5, TreeFacts DEF Present
  <2>7. row.parent = tree[n].parent => Unmoved
    BY <2>6 DEF Unmoved
  <2>8. /\ editing'[w] = NoEdit
        /\ \A x \in Editor \ {w} : editing'[x] =
             IF editing[x] = NoEdit \/ row.parent = tree[n].parent THEN editing[x]
             ELSE [editing[x] EXCEPT !.moved = TRUE]
        /\ DOMAIN editing' = Editor /\ editing' = [x \in Editor |-> editing'[x]]
    BY <2>2, <2>3 DEF Put
  <2>9. ASSUME NEW x \in Editor
        PROVE  \E j \in EditJobs \union {NoEdit} : editing'[x] = j /\ (j # NoEdit => Walked(j)')
    <3>1. CASE x = w
      BY <2>8, <3>1
    <3>2. CASE x # w
      <4>1. PICK j \in EditJobs \union {NoEdit} : j = editing[x]
        BY TreeFacts
      <4>2. CASE j = NoEdit
        BY <2>8, <3>2, <4>1, <4>2
      <4>3. CASE j # NoEdit
        <5>1. j \in EditJobs /\ Walked(j)
          BY <4>1, <4>3, TreeFacts
        <5>2. CASE row.parent = tree[n].parent
          <6>1. Walked(j)'
            BY <1>4, <2>7, <5>1, <5>2, WalkedKept
          <6>2. QED
            BY <2>8, <3>2, <4>1, <5>2, <6>1
        <5>3. CASE row.parent # tree[n].parent
          <6>1. PICK i : i = [j EXCEPT !.moved = TRUE]
            OBVIOUS
          <6>2. editing'[x] = i
            BY <2>8, <3>2, <4>1, <4>3, <5>3, <6>1
          <6>3. i \in EditJobs /\ Walked(i)'
            BY <1>2, <2>6, <5>1, <6>1, MovedWalked
          <6>4. QED
            BY <6>2, <6>3
        <5>4. QED
          BY <5>2, <5>3
      <4>4. QED
        BY <4>2, <4>3
    <3>3. QED
      BY <3>1, <3>2
  <2>10. (\A x \in Editor : editing[x] # NoEdit => Walked(editing[x]))'
    BY <2>9, AllWalked
  <2>11. TreeTypes'
    <3>1. editing' \in [Editor -> EditJobs \union {NoEdit}]
      <4>1. \A x \in Editor : editing'[x] \in EditJobs \union {NoEdit}
        BY <2>9
      <4>2. QED
        BY <2>8, <4>1
    <3>2. overtaken' \in BOOLEAN
      BY <1>3, <2>2, TreeFacts DEF EditJobs
    <3>3. QED
      BY <1>2, <2>6, <3>1, <3>2, TreeFacts DEF TreeTypes
  <2>12. Placed'
    <3>1. \A e \in Present' : /\ tree'[e].parent \in Present' \union {Top}
                              /\ \/ tree'[e].version \in 1..(edits + 1)
                                 \/ e \in Present /\ tree'[e].version = tree[e].version
      BY <2>4, <2>6, TreeFacts
    <3>2. QED
      BY <1>2, <1>4, <2>6, <3>1, PlacedKept
  <2>13. (~overtaken => Rooted)'
    <3>1. SUFFICES ASSUME ~overtaken' PROVE Rooted'
      OBVIOUS
    <3>2. Rooted /\ (row.parent = tree[n].parent \/ ~k.moved)
      BY <2>2, <2>4, <3>1, TreeFacts
    <3>3. CASE row.parent = tree[n].parent
      BY <2>6, <2>7, <3>2, <3>3, RootedKept
    <3>4. CASE row.parent # tree[n].parent
      <4>1. PICK seen \in SUBSET Present : seen = k.seen
        BY <1>3 DEF Walked
      <4>2. n \notin seen /\ row.parent \in seen \union {Top} /\ Within(seen)
        BY <1>2, <1>3, <2>1, <2>4, <3>2, <3>4, <4>1 DEF Walked, Within
      <4>3. /\ tree'[n].parent \in seen \union {Top}
            /\ \A e \in Present \ {n} : tree'[e].parent = tree[e].parent
        BY <2>6, <4>2
      <4>4. QED
        BY <2>3, <2>6, <3>2, <4>1, <4>2, <4>3, RootedMove
    <3>5. QED
      BY <3>3, <3>4
  <2>14. QED
    BY <2>10, <2>11, <2>12, <2>13 DEF TreeInv
<1>7. QED
  BY <1>5, <1>6

LEMMA LoadStatusStep ==
  ASSUME TreeInv, NEW w \in Editor, NEW n \in Entity, NEW archived \in BOOLEAN, LoadStatus(w, n, archived)
  PROVE  TreeInv'
<1>1. /\ n \in Present /\ edits < MaxEdits /\ edits' = edits + 1 /\ UNCHANGED <<tree, filling, overtaken>>
  BY DEF LoadStatus
<1>2. PICK row : row = [tree[n] EXCEPT !.archived = archived]
  OBVIOUS
<1>3. row \in TreeRow /\ row.parent = tree[n].parent /\ row.version = tree[n].version
  BY <1>1, <1>2, TreeFacts DEF TreeRow
<1>4. PICK j : j = [stage |-> "status", entity |-> n, locked |-> FALSE, row |-> row,
                    next |-> tree[n].parent, seen |-> {}, moved |-> FALSE]
  OBVIOUS
<1>5. /\ j.stage = "status" /\ j.entity = n /\ j.row = row /\ j.next = tree[n].parent /\ j.seen = {}
      /\ j \in EditJobs
  BY <1>1, <1>3, <1>4, TreeFacts DEF EditJobs, Parents
<1>6. row.version <= edits'
  BY <1>1, <1>3, TreeFacts DEF TreeRow
<1>7. Present' = Present
  BY <1>1 DEF Present
<1>8. Walked(j)'
  BY <1>1, <1>3, <1>5, <1>6, <1>7, TreeFacts DEF Walked
<1>9. Edits(w, j) /\ edits' <= MaxEdits /\ 1 \in {0, 1}
  BY <1>1, <1>2, <1>4, TreeFacts DEF LoadStatus
<1>10. QED
  BY <1>1, <1>5, <1>8, <1>9, EditorStep

\* A row is archived or restored where it is.
LEMMA SaveStatusStep ==
  ASSUME TreeInv, NEW w \in Editor, SaveStatus(w)
  PROVE  TreeInv'
<1>1. PICK k : k = editing[w]
  OBVIOUS
<1>2. k.stage = "status" /\ UNCHANGED <<filling, overtaken, edits>>
  BY <1>1 DEF SaveStatus
<1>3. k \in EditJobs /\ Walked(k)
  <2>1. k # NoEdit
    BY <1>2 DEF NoEdit
  <2>2. QED
    BY <1>1, <2>1, TreeFacts
<1>4. PICK n \in Present : n = k.entity
  BY <1>3 DEF Walked
<1>5. PICK row : row = [tree[n] EXCEPT !.archived = k.row.archived, !.version = k.row.version + 1]
  OBVIOUS
<1>6. Put(w, n, row) /\ n \in Entity /\ tree[n] \in TreeRow /\ tree[n] # NoEntity
  BY <1>1, <1>4, <1>5, TreeFacts DEF SaveStatus
<1>7. row \in TreeRow /\ row.parent = tree[n].parent /\ row.version \in 1..(edits + 1)
  <2>1. k.row \in TreeRow /\ k.row.version <= edits
    BY <1>3 DEF EditJobs, Walked
  <2>2. k.row.version + 1 \in 1..(edits + 1) /\ k.row.version + 1 \in 1..(MaxEdits + 1)
    BY <2>1, TreeFacts DEF TreeRow
  <2>3. k.row.archived \in BOOLEAN
    BY <2>1 DEF TreeRow
  <2>4. QED
    BY <1>5, <1>6, <2>2, <2>3 DEF TreeRow
<1>8. /\ tree' = [tree EXCEPT ![n] = row]
      /\ editing' = [x \in Editor |-> IF x = w THEN NoEdit ELSE editing[x]]
  BY <1>6, <1>7 DEF Put
<1>9. /\ tree' \in [Entity -> TreeRow \union {NoEntity}] /\ Present' = Present
      /\ tree'[n] = row /\ \A e \in Present \ {n} : tree'[e] = tree[e]
  BY <1>6, <1>7, <1>8, TreeFacts DEF Present
<1>10. Unmoved
  BY <1>7, <1>9 DEF Unmoved
<1>11. /\ edits' = edits + 0 /\ 0 \in {0, 1} /\ edits \in Int /\ edits' \in Int /\ edits <= edits'
  BY <1>2, TreeFacts
<1>12. TreeTypes'
  BY <1>2, <1>8, <1>9, TreeFacts DEF TreeTypes
<1>13. Placed'
  <2>1. \A e \in Present' : /\ tree'[e].parent \in Present' \union {Top}
                            /\ \/ tree'[e].version \in 1..(edits + 1)
                               \/ e \in Present /\ tree'[e].version = tree[e].version
    BY <1>7, <1>9, TreeFacts
  <2>2. QED
    BY <1>2, <1>9, <1>11, <2>1, PlacedKept
<1>14. (\A x \in Editor : editing[x] # NoEdit => Walked(editing[x]))'
  <2>1. ASSUME NEW x \in Editor
        PROVE  \E j \in EditJobs \union {NoEdit} : editing'[x] = j /\ (j # NoEdit => Walked(j)')
    <3>1. PICK j \in EditJobs \union {NoEdit} : j = editing[x]
      BY TreeFacts
    <3>2. j # NoEdit => j \in EditJobs /\ Walked(j)
      BY <3>1, TreeFacts
    <3>3. j # NoEdit => Walked(j)'
      BY <1>10, <1>11, <3>2, WalkedKept
    <3>4. QED
      BY <1>8, <3>1, <3>3
  <2>2. QED
    BY <2>1, AllWalked
<1>15. (~overtaken => Rooted)'
  BY <1>2, <1>9, <1>10, TreeFacts, RootedKept
<1>16. QED
  BY <1>12, <1>13, <1>14, <1>15 DEF TreeInv

LEMMA BeginFillStep ==
  ASSUME TreeInv, BeginFill
  PROVE  TreeInv'
<1>1. /\ edits < MaxEdits /\ edits' = edits + 1 /\ filling' = [e \in Present |-> tree[e]]
      /\ UNCHANGED <<tree, editing, overtaken>>
  BY DEF BeginFill, TreeRows
<1>2. Present' = Present /\ Unmoved
  BY <1>1 DEF Present, Unmoved
<1>3. edits \in Int /\ edits' \in Int /\ edits' \in 0..MaxEdits /\ edits <= edits' /\ 1 \in {0, 1}
  BY <1>1, TreeFacts
<1>4. TreeTypes'
  BY <1>1, <1>3, TreeFacts DEF TreeTypes
<1>5. Placed'
  <2>1. DOMAIN filling' = Present /\ \A e \in Present : filling'[e] = tree[e]
    BY <1>1
  <2>2. /\ \A e \in Present : e \in Present'
        /\ \A e \in Present' : /\ tree'[e].parent \in Present' \union {Top}
                               /\ e \in Present /\ tree'[e].version = tree[e].version
    BY <1>1, <1>2, TreeFacts
  <2>3. QED
    BY <1>1, <1>3, <2>1, <2>2, PlacedKept
<1>6. (\A x \in Editor : editing[x] # NoEdit => Walked(editing[x]))'
  <2>1. ASSUME NEW x \in Editor
        PROVE  \E k \in EditJobs \union {NoEdit} : editing'[x] = k /\ (k # NoEdit => Walked(k)')
    <3>1. PICK k \in EditJobs \union {NoEdit} : k = editing[x]
      BY TreeFacts
    <3>2. k # NoEdit => k \in EditJobs /\ Walked(k)
      BY <3>1, TreeFacts
    <3>3. k # NoEdit => Walked(k)'
      BY <1>2, <1>3, <3>2, WalkedKept
    <3>4. QED
      BY <1>1, <3>1, <3>3
  <2>2. QED
    BY <2>1, AllWalked
<1>7. (~overtaken => Rooted)'
  BY <1>1, <1>2, TreeFacts, RootedKept
<1>8. QED
  BY <1>4, <1>5, <1>6, <1>7 DEF TreeInv

\* Links are filled in, rows are not moved.
LEMMA EndFillStep ==
  ASSUME TreeInv, EndFill
  PROVE  TreeInv'
<1>1. PICK others \in SUBSET {e \in DOMAIN filling : filling[e].parent # Top} :
        tree' = Filled(filling, others)
  BY DEF EndFill
<1>2. filling' = NoRows /\ UNCHANGED <<editing, overtaken, edits>>
  BY DEF EndFill
<1>3. PICK dirty : dirty = {e \in DOMAIN filling :
                              filling[e].dept = NoLink /\ FirstAbove(filling, e, Departments) \in Departments}
  OBVIOUS
<1>4. PICK dept : dept = [e \in DOMAIN filling |->
                            IF e \in dirty THEN FirstAbove(filling, e, Departments) ELSE filling[e].dept]
  OBVIOUS
<1>5. \A e \in DOMAIN filling : dept[e] \in Departments \union {NoLink}
  BY <1>3, <1>4, TreeFacts DEF TreeRow
<1>6. PICK late : late = dirty \union others
  OBVIOUS
<1>7. late \subseteq DOMAIN filling /\ late \subseteq Present
  BY <1>1, <1>3, <1>6, TreeFacts
<1>8. tree' = [e \in Entity |-> IF e \in late THEN [tree[e] EXCEPT !.dept = dept[e]] ELSE tree[e]]
  <2>1. tree' = [e \in Entity |->
          IF e \in late
          THEN [tree[e] EXCEPT !.dept = IF e \in dirty THEN FirstAbove(filling, e, Departments)
                                        ELSE filling[e].dept]
          ELSE tree[e]]
    BY <1>1, <1>3, <1>6 DEF Filled
  <2>2. \A e \in late : dept[e] = IF e \in dirty THEN FirstAbove(filling, e, Departments)
                                  ELSE filling[e].dept
    BY <1>4, <1>7
  <2>3. QED
    BY <2>1, <2>2
<1>9. /\ DOMAIN tree' = Entity /\ tree' = [e \in Entity |-> tree'[e]]
      /\ \A e \in Entity \ late : tree'[e] = tree[e]
      /\ \A e \in late : tree'[e] = [tree[e] EXCEPT !.dept = dept[e]]
  BY <1>7, <1>8, TreeFacts
<1>10. \A e \in late : /\ tree'[e] \in TreeRow /\ tree'[e].parent = tree[e].parent
                       /\ tree'[e].version = tree[e].version
  <2>1. TAKE e \in late
  <2>2. tree[e] \in TreeRow /\ dept[e] \in Departments \union {NoLink}
    BY <1>5, <1>7, TreeFacts
  <2>3. QED
    BY <1>9, <2>2 DEF TreeRow
<1>11. /\ tree' \in [Entity -> TreeRow \union {NoEntity}] /\ Present' = Present
       /\ \A e \in Present : tree'[e].parent = tree[e].parent /\ tree'[e].version = tree[e].version
  BY <1>7, <1>9, <1>10, TreeFacts DEF Present
<1>12. Unmoved
  BY <1>11 DEF Unmoved
<1>13. DOMAIN filling' = {}
  BY <1>2 DEF NoRows
<1>14. QED
  BY <1>2, <1>11, <1>12, <1>13, RowsStep

LEMMA TreeStep == TreeInv /\ [TreeNext]_treeVars => TreeInv'
<1>1. SUFFICES ASSUME TreeInv, [TreeNext]_treeVars PROVE TreeInv'
  OBVIOUS
<1>2. CASE \E e \in Entity, p \in Parents, d \in Departments \union {NoLink} : CreateEntity(e, p, d)
  BY <1>1, <1>2, CreateStep
<1>3. CASE \E e, src \in Entity : CloneEntity(e, src)
  BY <1>1, <1>3, CloneStep
<1>4. CASE \E e \in Entity, w \in Editor, locked \in BOOLEAN : LoadEntity(w, e, locked)
  BY <1>1, <1>4, LoadEntityStep
<1>5. CASE \E w \in Editor : Walk(w) \/ SaveEntity(w) \/ SaveStatus(w) \/ GiveUpEdit(w)
  BY <1>1, <1>5, WalkStep, SaveEntityStep, SaveStatusStep, GiveUpEditStep
<1>6. CASE BeginFill \/ EndFill
  BY <1>1, <1>6, BeginFillStep, EndFillStep
<1>7. CASE UNCHANGED treeVars
  <2>1. UNCHANGED <<tree, editing, filling, overtaken, edits>> /\ Present' = Present /\ Unmoved
    BY <1>7 DEF treeVars, Present, Unmoved
  <2>2. tree' \in [Entity -> TreeRow \union {NoEntity}]
    BY <1>1, <2>1, TreeFacts
  <2>3. QED
    BY <1>1, <2>1, <2>2, RowsStep
<1>8. CASE \E e \in Entity, w \in Editor, archived \in BOOLEAN : LoadStatus(w, e, archived)
  BY <1>1, <1>8, LoadStatusStep
<1>9. QED
  BY <1>1, <1>2, <1>3, <1>4, <1>5, <1>6, <1>7, <1>8 DEF TreeNext

LEMMA TreeInvariant == TreeSpec => []TreeInv
  BY TreeInitInv, TreeStep, PTL DEF TreeSpec

-----------------------------------------------------------------------------
\* The rows, what editors have loaded and the bounds keep their types.
THEOREM TreeTypesHold == TreeSpec => []TreeTypeOK
<1>1. TreeInv => TreeTypeOK
  BY TreeFacts DEF TreeTypeOK, EditJobs, Parents
<1>2. QED
  BY <1>1, TreeInvariant, PTL

\* However many handlers move entities while others walk up from theirs, until
\* one that had missed a move writes a parent no entity comes to be above itself.
THEOREM NoLoops == TreeSpec => [](~overtaken => Rooted)
<1>1. TreeInv => (~overtaken => Rooted)
  BY DEF TreeInv
<1>2. QED
  BY <1>1, TreeInvariant, PTL

-----------------------------------------------------------------------------
(* Searches through the rows end. *)

TrailRank == [x \in Trails(Parents) |-> Cardinality(Entity \ x.seen)]

LEMMA TrailRanks ==
  /\ Cardinality(Entity) \in Nat /\ TrailRank \in [Trails(Parents) -> 0..Cardinality(Entity)]
  /\ \A x, y \in Trails(Parents) : \A c \in Entity :
       c \notin x.seen /\ y.seen = x.seen \union {c} => TrailRank[y] < TrailRank[x]
<1>1. IsFiniteSet(Entity) /\ Cardinality(Entity) \in Nat
  BY EntityTreeAssumption, FS_CardinalityType
<1>2. ASSUME NEW s \in SUBSET Entity
      PROVE  /\ IsFiniteSet(Entity \ s) /\ Cardinality(Entity \ s) \in 0..Cardinality(Entity)
  <2>1. IsFiniteSet(Entity \ s) /\ Cardinality(Entity \ s) <= Cardinality(Entity)
    <3>1. Entity \ s \subseteq Entity
      OBVIOUS
    <3>2. QED
      BY <1>1, <3>1, FS_Subset
  <2>2. Cardinality(Entity \ s) \in Nat
    BY <2>1, FS_CardinalityType
  <2>3. QED
    BY <1>1, <2>1, <2>2
<1>3. \A x \in Trails(Parents) : x.seen \in SUBSET Entity
  BY DEF Trails
<1>4. \A x \in Trails(Parents) : TrailRank[x] = Cardinality(Entity \ x.seen)
  BY DEF TrailRank
<1>5. TrailRank \in [Trails(Parents) -> 0..Cardinality(Entity)]
  BY <1>2, <1>3 DEF TrailRank
<1>6. ASSUME NEW x \in Trails(Parents), NEW y \in Trails(Parents), NEW c \in Entity,
             c \notin x.seen, y.seen = x.seen \union {c}
      PROVE  TrailRank[y] < TrailRank[x]
  <2>1. PICK S : S = Entity \ x.seen
    OBVIOUS
  <2>2. Entity \ y.seen = S \ {c} /\ c \in S
    BY <1>6, <2>1
  <2>3. IsFiniteSet(S) /\ Cardinality(S) \in 0..Cardinality(Entity)
    BY <1>2, <1>3, <2>1
  <2>4. Cardinality(S \ {c}) = Cardinality(S) - 1
    BY <2>2, <2>3, FS_RemoveElement
  <2>5. QED
    BY <1>1, <1>4, <2>1, <2>2, <2>3, <2>4
<1>7. QED
  BY <1>1, <1>5, <1>6

\* A search that goes on only to rows it has not seen has a result.
Goes(S, K) ==
  /\ K \in [Trails(S) -> SUBSET Trails(S)]
  /\ \A x \in Trails(S) : \A y \in K[x] : \E c \in Entity \ x.seen : y.seen = x.seen \union {c}

LEMMA SearchExists ==
  ASSUME NEW S \in SUBSET Parents, NEW K, Goes(S, K), NEW V, NEW F, Makes(Trails(S), V, K, F)
  PROVE  Solvable(Trails(S), V, K, F)
<1>1. Trails(S) \subseteq Trails(Parents)
  BY DEF Trails
<1>2. PICK N \in Nat : N = Cardinality(Entity)
  BY TrailRanks
<1>3. PICK rank : rank = [x \in Trails(S) |-> TrailRank[x]]
  OBVIOUS
<1>4. rank \in [Trails(S) -> 0..N]
  BY <1>1, <1>2, <1>3, TrailRanks
<1>5. ASSUME NEW x \in Trails(S), NEW y \in K[x] PROVE rank[y] < rank[x]
  <2>1. y \in Trails(S) /\ \E c \in Entity \ x.seen : y.seen = x.seen \union {c}
    BY DEF Goes
  <2>2. TrailRank[y] < TrailRank[x]
    BY <1>1, <2>1, TrailRanks
  <2>3. QED
    BY <1>3, <2>1, <2>2
<1>6. Descends(Trails(S), N, rank, K)
  BY <1>4, <1>5 DEF Descends, Goes
<1>7. QED
  BY <1>6, RecursionExists

\* Downwards a search goes on to the children it has not seen.
LEMMA FurtherIs ==
  ASSUME NEW R \in SUBSET Present, NEW S \in SUBSET Parents, R \subseteq S, NEW x \in Trails(S)
  PROVE  /\ Children(R, x.at) \subseteq R /\ Present \subseteq Entity
         /\ Further(R, x) \in SUBSET Trails(S)
         /\ \A y \in Further(R, x) : \E c \in Entity \ x.seen : y.seen = x.seen \union {c}
<1>1. Children(R, x.at) \subseteq R /\ Present \subseteq Entity
  BY DEF Children, Present
<1>2. x.seen \in SUBSET Entity
  BY DEF Trails
<1>3. ASSUME NEW y \in Further(R, x)
      PROVE  y \in Trails(S) /\ \E c \in Entity \ x.seen : y.seen = x.seen \union {c}
  <2>1. PICK c \in Children(R, x.at) \ x.seen : y = [at |-> c, seen |-> x.seen \union {c}]
    BY DEF Further
  <2>2. c \in S /\ c \in Entity \ x.seen
    BY <1>1
  <2>3. QED
    BY <1>2, <2>1, <2>2 DEF Trails
<1>4. QED
  BY <1>1, <1>3

-----------------------------------------------------------------------------
(* What the tree endpoint shows of the rows it has read. *)

Downwards(S, g) == g = [x \in Trails(Parents) |-> Children(S, x.at) \union UNION {g[y] : y \in Further(S, x)}]

LEMMA DownExists ==
  ASSUME NEW S \in SUBSET Present
  PROVE  \E g : Downwards(S, g)
<1> DEFINE D == Trails(Parents)
           V == SUBSET Entity
           K == [x \in D |-> Further(S, x)]
           Make(x, h) == Children(S, x.at) \union UNION {h[y] : y \in Further(S, x)}
           F == [x \in D |-> [h \in [K[x] -> V] |-> Make(x, h)]]
<1>1. S \subseteq Parents
  BY DEF Present, Parents
<1>2. K \in [D -> SUBSET D] /\ \A x \in D : K[x] = Further(S, x)
  BY <1>1, FurtherIs
<1>3. \A x \in D : \A y \in K[x] : \E c \in Entity \ x.seen : y.seen = x.seen \union {c}
  BY <1>1, <1>2, FurtherIs
<1>4. ASSUME NEW x \in D, NEW h \in [K[x] -> V]
      PROVE  F[x][h] = Make(x, h) /\ F[x][h] \in V
  <2>1. F[x][h] = Make(x, h)
    <3>1. F[x] = [k \in [K[x] -> V] |-> Make(x, k)]
      <4>1. HIDE DEF D, K, V, Make
      <4>2. QED
        OBVIOUS
    <3>2. HIDE DEF D, K, V, Make, F
    <3>3. QED
      BY <3>1
  <2>2. \A y \in Further(S, x) : h[y] \in V
    <3>1. HIDE DEF D, K, V
    <3>2. QED
      BY <1>2
  <2>3. Children(S, x.at) \subseteq Entity
    BY DEF Children, Present
  <2>4. Make(x, h) \in V
    BY <2>2, <2>3
  <2>5. HIDE DEF F, Make, V
  <2>6. QED
    BY <2>1, <2>4
<1>5. PICK g \in [D -> V] : \A x \in D : g[x] = F[x][[y \in K[x] |-> g[y]]]
  <2>1. Makes(D, V, K, F)
    <3>1. V # {} /\ \A x \in D : \A h \in [K[x] -> V] : F[x][h] \in V
      BY <1>4
    <3>2. HIDE DEF D, V, K, F
    <3>3. QED
      BY <3>1 DEF Makes
  <2>2. Goes(Parents, K)
    <3>1. HIDE DEF K
    <3>2. QED
      BY <1>2, <1>3 DEF Goes
  <2>3. Solvable(D, V, K, F)
    <3>1. Parents \in SUBSET Parents
      OBVIOUS
    <3>2. HIDE DEF V, K, F
    <3>3. QED
      BY <2>1, <2>2, <3>1, SearchExists
  <2>4. HIDE DEF D, V, K, F
  <2>5. QED
    BY <2>3 DEF Solvable
<1>6. ASSUME NEW x \in D PROVE g[x] = Children(S, x.at) \union UNION {g[y] : y \in Further(S, x)}
  <2>1. PICK h : h = [y \in K[x] |-> g[y]]
    OBVIOUS
  <2>2. h \in [K[x] -> V] /\ \A y \in Further(S, x) : h[y] = g[y]
    <3>1. HIDE DEF D, V, K
    <3>2. QED
      BY <1>2, <2>1
  <2>3. g[x] = Make(x, h)
    <3>1. HIDE DEF D, V, K, F, Make
    <3>2. QED
      BY <1>4, <1>5, <2>1, <2>2
  <2>4. QED
    BY <2>2, <2>3
<1>7. Downwards(S, [x \in D |-> g[x]])
  <2>1. g = [x \in D |-> g[x]]
    <3>1. HIDE DEF D, V
    <3>2. QED
      BY <1>5
  <2>2. g = [x \in D |-> Children(S, x.at) \union UNION {g[y] : y \in Further(S, x)}]
    <3>1. HIDE DEF D
    <3>2. QED
      BY <1>6, <2>1
  <2>3. QED
    BY <2>1, <2>2 DEF Downwards
<1>8. QED
  BY <1>7

\* Whatever is shown, its children are.
LEMMA ShownCloses ==
  ASSUME NEW S \in SUBSET Present
  PROVE  /\ Children(S, Top) \subseteq Shown(S) /\ Shown(S) \subseteq S
         /\ \A e \in Shown(S) : Children(S, e) \subseteq Shown(S)
<1>1. PICK g : Downwards(S, g) /\ Shown(S) = g[[at |-> Top, seen |-> {}]]
  <2>1. Shown(S) = (CHOOSE g : Downwards(S, g))[[at |-> Top, seen |-> {}]]
    BY DEF Shown, Downwards
  <2>2. QED
    BY <2>1, DownExists
<1> DEFINE D == Trails(Parents)
           Closed(x) == /\ Children(S, x.at) \subseteq g[x] /\ g[x] \subseteq S
                        /\ \A e \in g[x] \ x.seen : Children(S, e) \subseteq g[x]
<1>2. \A x \in D : g[x] = Children(S, x.at) \union UNION {g[y] : y \in Further(S, x)}
  BY <1>1 DEF Downwards
<1>3. S \subseteq Parents /\ S \subseteq Entity
  BY DEF Present, Parents
<1>4. \A x \in D : Closed(x)
  <2> DEFINE Bad == {n \in Nat : \E x \in D : TrailRank[x] = n /\ ~Closed(x)}
  <2>1. SUFFICES ASSUME Bad # {} PROVE FALSE
    <3>1. \A x \in D : TrailRank[x] \in Nat
      BY TrailRanks
    <3>2. HIDE DEF D, Closed
    <3>3. QED
      BY <3>1
  <2>2. PICK n \in Bad : \A m \in Bad : n <= m
    <3>1. Bad \in SUBSET Nat
      OBVIOUS
    <3>2. HIDE DEF Bad
    <3>3. QED
      BY <2>1, <3>1, LeastExists
  <2>3. PICK x \in D : TrailRank[x] = n /\ ~Closed(x)
    BY <2>2
  <2>4. ASSUME NEW c \in Children(S, x.at) \ x.seen, NEW y, y = [at |-> c, seen |-> x.seen \union {c}]
        PROVE  y \in Further(S, x) /\ y \in D /\ Closed(y)
    <3>1. y \in Further(S, x)
      BY <2>4 DEF Further
    <3>2. y \in D /\ c \in Entity
      BY <1>3, <3>1, FurtherIs
    <3>3. TrailRank[y] < TrailRank[x]
      BY <2>4, <3>2, TrailRanks
    <3>4. TrailRank[y] \notin Bad
      BY <2>2, <2>3, <3>2, <3>3, TrailRanks
    <3>5. Closed(y)
      <4>1. TrailRank[y] \in Nat
        BY <3>2, TrailRanks
      <4>2. HIDE DEF D, Closed
      <4>3. QED
        BY <3>2, <3>4, <4>1
    <3>6. QED
      BY <3>1, <3>2, <3>5
  <2>5. \A y \in Further(S, x) : Closed(y) /\ \E c \in Children(S, x.at) \ x.seen : y = [at |-> c, seen |-> x.seen \union {c}]
    <3>1. HIDE DEF Closed
    <3>2. QED
      BY <2>4 DEF Further
  <2>6. Children(S, x.at) \subseteq S
    BY <1>3, FurtherIs
  <2>7. Children(S, x.at) \subseteq g[x] /\ g[x] \subseteq S
    BY <1>2, <2>5, <2>6
  <2>8. ASSUME NEW e \in g[x] \ x.seen PROVE Children(S, e) \subseteq g[x]
    <3>1. CASE e \in Children(S, x.at)
      <4>1. PICK y : y = [at |-> e, seen |-> x.seen \union {e}]
        OBVIOUS
      <4>2. y \in Further(S, x) /\ Children(S, e) \subseteq g[y]
        BY <2>4, <3>1, <4>1
      <4>3. QED
        BY <1>2, <4>2
    <3>2. CASE e \notin Children(S, x.at)
      <4>1. PICK y \in Further(S, x) : e \in g[y]
        BY <1>2, <3>2
      <4>2. PICK c \in Children(S, x.at) \ x.seen : y = [at |-> c, seen |-> x.seen \union {c}]
        BY <2>5
      <4>3. e \notin y.seen
        BY <3>2, <4>2
      <4>4. Children(S, e) \subseteq g[y]
        BY <2>5, <4>1, <4>3
      <4>5. QED
        BY <1>2, <4>4
    <3>3. QED
      BY <3>1, <3>2
  <2>9. QED
    BY <2>3, <2>7, <2>8
<1>5. [at |-> Top, seen |-> {}] \in D
  BY DEF Trails, Parents
<1>6. QED
  <2>1. PICK x \in D : x = [at |-> Top, seen |-> {}]
    BY <1>5
  <2>2. x.at = Top /\ x.seen = {} /\ Shown(S) = g[x]
    BY <1>1, <2>1
  <2>3. QED
    BY <1>4, <2>2

\* And nothing else is: a set that holds the rows without a parent, and the
\* children of its members, holds whatever is shown.
LEMMA ShownLeast ==
  ASSUME NEW S \in SUBSET Present, NEW C \in SUBSET S, Children(S, Top) \subseteq C,
         \A e \in C : Children(S, e) \subseteq C
  PROVE  Shown(S) \subseteq C
<1>1. PICK g : Downwards(S, g) /\ Shown(S) = g[[at |-> Top, seen |-> {}]]
  <2>1. Shown(S) = (CHOOSE g : Downwards(S, g))[[at |-> Top, seen |-> {}]]
    BY DEF Shown, Downwards
  <2>2. QED
    BY <2>1, DownExists
<1> DEFINE D == Trails(Parents)
           Stays(x) == x.at \in C \union {Top} => g[x] \subseteq C
<1>2. \A x \in D : g[x] = Children(S, x.at) \union UNION {g[y] : y \in Further(S, x)}
  BY <1>1 DEF Downwards
<1>3. S \subseteq Parents
  BY DEF Present, Parents
<1>4. \A x \in D : Stays(x)
  <2> DEFINE Bad == {n \in Nat : \E x \in D : TrailRank[x] = n /\ ~Stays(x)}
  <2>1. SUFFICES ASSUME Bad # {} PROVE FALSE
    <3>1. \A x \in D : TrailRank[x] \in Nat
      BY TrailRanks
    <3>2. HIDE DEF D, Stays
    <3>3. QED
      BY <3>1
  <2>2. PICK n \in Bad : \A m \in Bad : n <= m
    <3>1. Bad \in SUBSET Nat
      OBVIOUS
    <3>2. HIDE DEF Bad
    <3>3. QED
      BY <2>1, <3>1, LeastExists
  <2>3. PICK x \in D : TrailRank[x] = n /\ ~Stays(x)
    BY <2>2
  <2>4. x.at \in C \union {Top} /\ Children(S, x.at) \subseteq C
    BY <2>3
  <2>5. ASSUME NEW y \in Further(S, x) PROVE g[y] \subseteq C
    <3>1. y \in D /\ \E c \in Entity \ x.seen : y.seen = x.seen \union {c}
      <4>1. S \in SUBSET Present /\ Parents \in SUBSET Parents /\ x \in Trails(Parents)
        OBVIOUS
      <4>2. /\ Further(S, x) \in SUBSET Trails(Parents)
            /\ \A z \in Further(S, x) : \E c \in Entity \ x.seen : z.seen = x.seen \union {c}
        <5>1. HIDE DEF Bad, Stays, D
        <5>2. QED
          BY <1>3, <4>1, FurtherIs
      <4>3. QED
        BY <4>2
    <3>2. TrailRank[y] \in Nat /\ TrailRank[y] < TrailRank[x]
      BY <3>1, TrailRanks
    <3>3. TrailRank[y] \notin Bad
      BY <2>2, <2>3, <3>2, TrailRanks
    <3>4. Stays(y)
      <4>1. HIDE DEF D, Stays
      <4>2. QED
        BY <3>1, <3>2, <3>3
    <3>5. y.at \in Children(S, x.at)
      BY DEF Further
    <3>6. QED
      BY <2>4, <3>4, <3>5
  <2>6. QED
    BY <1>2, <2>3, <2>4, <2>5
<1>5. PICK x \in D : x = [at |-> Top, seen |-> {}]
  BY DEF Trails, Parents
<1>6. QED
  BY <1>1, <1>4, <1>5

-----------------------------------------------------------------------------
(* What a search finds above a row: its parent, or what is above that. *)

\* Rows under rows, without a loop.
Grounded(table) ==
  /\ DOMAIN table \subseteq Entity /\ \A e \in DOMAIN table : table[e].parent \in DOMAIN table \union {Top}
  /\ \A S \in SUBSET DOMAIN table : S # {} => \E e \in S : table[e].parent \notin S

UpStops(table, W, n, seen) == n \notin DOMAIN table \/ n \in seen \/ n \in W
UpFinds(table, W, n, seen) == IF n \notin DOMAIN table \/ n \in seen THEN NoLink ELSE n
OneUp(table, x) == [at |-> table[x.at].parent, seen |-> x.seen \union {x.at}]

Upwards(g, table, W) ==
  g = [x \in Trails(Parents) |->
         IF x.at \notin DOMAIN table \/ x.at \in x.seen THEN NoLink
         ELSE IF x.at \in W THEN x.at
         ELSE g[[at |-> table[x.at].parent, seen |-> x.seen \union {x.at}]]]

LEMMA UpExists ==
  ASSUME NEW table, Grounded(table), NEW W
  PROVE  \E g : Upwards(g, table, W)
<1> DEFINE D == Trails(Parents)
           V == Entity \union {NoLink}
           Stops(x) == UpStops(table, W, x.at, x.seen)
           K == [x \in D |-> IF Stops(x) THEN {} ELSE {OneUp(table, x)}]
           Make(x, h) == IF Stops(x) THEN UpFinds(table, W, x.at, x.seen) ELSE h[OneUp(table, x)]
           F == [x \in D |-> [h \in [K[x] -> V] |-> Make(x, h)]]
<1>1. ASSUME NEW x \in D, ~Stops(x)
      PROVE  /\ x.at \in Entity \ x.seen /\ OneUp(table, x) \in D
             /\ OneUp(table, x).seen = x.seen \union {x.at}
  <2>1. x.seen \in SUBSET Entity
    BY DEF Trails
  <2>2. x.at \in DOMAIN table /\ x.at \notin x.seen /\ x.at \in Entity /\ table[x.at].parent \in Parents
    BY <1>1 DEF UpStops, Grounded, Parents
  <2>3. QED
    BY <2>1, <2>2 DEF OneUp, Trails
<1>2. \A x \in D : K[x] = IF Stops(x) THEN {} ELSE {OneUp(table, x)}
  <2>1. HIDE DEF D, Stops
  <2>2. QED
    OBVIOUS
<1>3. Goes(Parents, K)
  <2>1. K \in [D -> SUBSET D]
    <3>1. \A x \in D : (IF Stops(x) THEN {} ELSE {OneUp(table, x)}) \in SUBSET D
      BY <1>1
    <3>2. HIDE DEF D, Stops
    <3>3. QED
      BY <3>1
  <2>2. ASSUME NEW x \in D, NEW y \in K[x]
        PROVE  \E c \in Entity \ x.seen : y.seen = x.seen \union {c}
    <3>1. ~Stops(x) /\ y = OneUp(table, x)
      <4>1. HIDE DEF D, Stops, K
      <4>2. QED
        BY <1>2, <2>2
    <3>2. QED
      BY <1>1, <3>1
  <2>3. HIDE DEF K
  <2>4. QED
    BY <2>1, <2>2 DEF Goes
<1>4. ASSUME NEW x \in D, NEW h \in [K[x] -> V]
      PROVE  F[x][h] = Make(x, h) /\ F[x][h] \in V
  <2>1. F[x][h] = Make(x, h)
    <3>1. F[x] = [k \in [K[x] -> V] |-> Make(x, k)]
      <4>1. HIDE DEF D, K, V, Make
      <4>2. QED
        OBVIOUS
    <3>2. HIDE DEF D, K, V, Make, F
    <3>3. QED
      BY <3>1
  <2>2. CASE Stops(x)
    <3>1. UpFinds(table, W, x.at, x.seen) \in V
      BY DEF UpFinds, Grounded
    <3>2. HIDE DEF F, V, Stops, K, D
    <3>3. QED
      BY <2>1, <2>2, <3>1
  <2>3. CASE ~Stops(x)
    <3>1. K[x] = {OneUp(table, x)}
      <4>1. HIDE DEF K, D, Stops
      <4>2. QED
        BY <1>2, <2>3
    <3>2. h[OneUp(table, x)] \in V
      <4>1. HIDE DEF K, V, D
      <4>2. QED
        BY <3>1
    <3>3. HIDE DEF F, V, Stops, K, D
    <3>4. QED
      BY <2>1, <2>3, <3>2
  <2>4. QED
    BY <2>2, <2>3
<1>5. PICK g \in [D -> V] : \A x \in D : g[x] = F[x][[y \in K[x] |-> g[y]]]
  <2>1. Makes(D, V, K, F)
    <3>1. V # {} /\ \A x \in D : \A h \in [K[x] -> V] : F[x][h] \in V
      BY <1>4
    <3>2. HIDE DEF D, V, K, F
    <3>3. QED
      BY <3>1 DEF Makes
  <2>2. Solvable(D, V, K, F)
    <3>1. Parents \in SUBSET Parents
      OBVIOUS
    <3>2. HIDE DEF V, K, F
    <3>3. QED
      BY <1>3, <2>1, <3>1, SearchExists
  <2>3. HIDE DEF D, V, K, F
  <2>4. QED
    BY <2>2 DEF Solvable
<1>6. ASSUME NEW x \in D
      PROVE  g[x] = IF Stops(x) THEN UpFinds(table, W, x.at, x.seen) ELSE g[OneUp(table, x)]
  <2>1. PICK h : h = [y \in K[x] |-> g[y]]
    OBVIOUS
  <2>2. h \in [K[x] -> V] /\ \A y \in K[x] : h[y] = g[y]
    <3>1. K[x] \in SUBSET D
      BY <1>3 DEF Goes
    <3>2. HIDE DEF D, V, K
    <3>3. QED
      BY <2>1, <3>1
  <2>3. g[x] = Make(x, h)
    <3>1. HIDE DEF D, V, K, F, Make
    <3>2. QED
      BY <1>4, <1>5, <2>1, <2>2
  <2>4. ~Stops(x) => h[OneUp(table, x)] = g[OneUp(table, x)]
    <3>1. HIDE DEF D, V, K, Stops
    <3>2. QED
      BY <1>2, <2>2
  <2>5. HIDE DEF Stops
  <2>6. QED
    BY <2>3, <2>4
<1>7. g = [x \in D |-> g[x]]
  <2>1. HIDE DEF D, V
  <2>2. QED
    BY <1>5
<1>8. \A x \in D : g[x] = IF x.at \notin DOMAIN table \/ x.at \in x.seen THEN NoLink
                          ELSE IF x.at \in W THEN x.at
                          ELSE g[[at |-> table[x.at].parent, seen |-> x.seen \union {x.at}]]
  <2>1. HIDE DEF D
  <2>2. QED
    BY <1>6 DEF UpStops, UpFinds, OneUp
<1>9. Upwards(g, table, W)
  <2>1. HIDE DEF D
  <2>2. g = [x \in D |-> IF x.at \notin DOMAIN table \/ x.at \in x.seen THEN NoLink
                          ELSE IF x.at \in W THEN x.at
                          ELSE g[[at |-> table[x.at].parent, seen |-> x.seen \union {x.at}]]]
    BY <1>7, <1>8
  <2>3. QED
    BY <2>2 DEF Upwards, D
<1>10. QED
  BY <1>9

Finds(g, table, W) ==
  /\ \A e \in DOMAIN table : FirstAbove(table, e, W) = g[[at |-> table[e].parent, seen |-> {}]]
  /\ \A x \in Trails(Parents) :
       g[x] = IF x.at \notin DOMAIN table \/ x.at \in x.seen THEN NoLink
              ELSE IF x.at \in W THEN x.at
              ELSE g[[at |-> table[x.at].parent, seen |-> x.seen \union {x.at}]]

LEMMA UpIs ==
  ASSUME NEW table, Grounded(table), NEW W
  PROVE  \E g : Finds(g, table, W)
<1>1. PICK g : g = CHOOSE k : Upwards(k, table, W)
  OBVIOUS
<1>2. Upwards(g, table, W)
  BY <1>1, UpExists
<1>3. \A e \in DOMAIN table : FirstAbove(table, e, W) = g[[at |-> table[e].parent, seen |-> {}]]
  BY <1>1 DEF FirstAbove, Upwards
<1>4. QED
  BY <1>2, <1>3 DEF Upwards, Finds

\* From rows that lead up among themselves.
UpClosed(table, C) == C \subseteq DOMAIN table /\ \A e \in C : table[e].parent \in C \union {Top}

\* Everything above a row, and not the row itself.
LEMMA RowsAbove ==
  ASSUME NEW table, Grounded(table), NEW e \in DOMAIN table
  PROVE  \E C : UpClosed(table, C) /\ e \notin C /\ table[e].parent \in C \union {Top}
<1> DEFINE Has(n) == \E C : UpClosed(table, C) /\ n \notin C /\ table[n].parent \in C \union {Top}
           Bad == {n \in DOMAIN table : ~Has(n)}
<1>1. ASSUME Bad # {} PROVE FALSE
  <2>1. PICK n \in Bad : table[n].parent \notin Bad
    <3>1. Bad \in SUBSET DOMAIN table
      OBVIOUS
    <3>2. HIDE DEF Bad
    <3>3. QED
      BY <1>1, <3>1 DEF Grounded
  <2>2. n \in DOMAIN table /\ table[n].parent \in DOMAIN table \union {Top}
    BY <2>1 DEF Grounded
  <2>3. CASE table[n].parent = Top
    <3>1. UpClosed(table, {}) /\ n \notin {} /\ table[n].parent \in {} \union {Top}
      BY <2>3 DEF UpClosed
    <3>2. QED
      BY <2>1, <3>1
  <2>4. CASE table[n].parent # Top
    <3>1. PICK q \in DOMAIN table : q = table[n].parent /\ q # Top
      BY <2>2, <2>4
    <3>2. q # n
      BY <2>1, <3>1
    <3>3. PICK C : UpClosed(table, C) /\ q \notin C /\ table[q].parent \in C \union {Top}
      BY <2>1, <3>1
    <3>4. n \notin C
      BY <3>1, <3>3 DEF UpClosed
    <3>5. UpClosed(table, C \union {q}) /\ n \notin C \union {q} /\ table[n].parent \in (C \union {q}) \union {Top}
      BY <3>1, <3>2, <3>3, <3>4 DEF UpClosed
    <3>6. Has(n)
      BY <3>5
    <3>7. QED
      BY <2>1, <3>6
  <2>5. QED
    BY <2>3, <2>4
<1>2. QED
  BY <1>1

\* What a search has seen behind it makes no difference.
LEMMA NearestIs ==
  ASSUME NEW table, Grounded(table), NEW W, NEW e \in DOMAIN table
  PROVE  FirstAbove(table, e, W) =
           IF table[e].parent = Top THEN NoLink
           ELSE IF table[e].parent \in W THEN table[e].parent
           ELSE FirstAbove(table, table[e].parent, W)
<1>0. PICK g : Finds(g, table, W)
  BY UpIs
<1>1. /\ \A n \in DOMAIN table : FirstAbove(table, n, W) = g[[at |-> table[n].parent, seen |-> {}]]
      /\ \A x \in Trails(Parents) :
           g[x] = IF x.at \notin DOMAIN table \/ x.at \in x.seen THEN NoLink
                  ELSE IF x.at \in W THEN x.at
                  ELSE g[[at |-> table[x.at].parent, seen |-> x.seen \union {x.at}]]
  BY <1>0 DEF Finds
<1> DEFINE Up(n, s) == g[[at |-> n, seen |-> s]]
<1>2. ASSUME NEW n \in Parents, NEW s \in SUBSET Entity
      PROVE  Up(n, s) = IF n \notin DOMAIN table \/ n \in s THEN NoLink
                        ELSE IF n \in W THEN n ELSE Up(table[n].parent, s \union {n})
  <2>1. PICK x \in Trails(Parents) : x = [at |-> n, seen |-> s]
    BY DEF Trails
  <2>2. x.at = n /\ x.seen = s
    BY <2>1
  <2>3. QED
    BY <1>1, <2>1, <2>2
<1> HIDE DEF Up
<1>3. /\ DOMAIN table \subseteq Entity /\ Top \notin DOMAIN table /\ DOMAIN table \subseteq Parents /\ Top \in Parents
      /\ \A n \in DOMAIN table : table[n].parent \in DOMAIN table \union {Top}
  BY EntityTreeAssumption DEF Grounded, Parents
<1> DEFINE Behind(C, n, s, t) ==
             /\ UpClosed(table, C) /\ n \in C
             /\ s \in SUBSET Entity /\ s \intersect C = {} /\ t \in SUBSET Entity /\ t \intersect C = {}
           Bad == {n \in DOMAIN table : \E C, s, t : Behind(C, n, s, t) /\ Up(n, s) # Up(n, t)}
<1>4. ASSUME Bad # {} PROVE FALSE
  <2>1. PICK n \in Bad : table[n].parent \notin Bad
    <3>1. Bad \in SUBSET DOMAIN table
      OBVIOUS
    <3>2. HIDE DEF Bad
    <3>3. QED
      BY <1>4, <3>1 DEF Grounded
  <2>2. PICK C, s, t : Behind(C, n, s, t) /\ Up(n, s) # Up(n, t)
    BY <2>1
  <2>3. n \in DOMAIN table /\ n \in Parents /\ n \notin s /\ n \notin t /\ n \in Entity
    BY <1>3, <2>1, <2>2
  <2>4. PICK q : q = table[n].parent
    OBVIOUS
  <2>5. Up(q, s \union {n}) # Up(q, t \union {n})
    BY <1>2, <2>2, <2>3, <2>4
  <2>6. q \in C \union {Top} /\ q \in Parents /\ s \union {n} \in SUBSET Entity /\ t \union {n} \in SUBSET Entity
    BY <1>3, <2>2, <2>3, <2>4 DEF UpClosed
  <2>7. CASE q = Top
    <3>1. q \in Parents /\ q \notin DOMAIN table
      BY <1>3, <2>7
    <3>2. Up(q, s \union {n}) = NoLink /\ Up(q, t \union {n}) = NoLink
      BY <1>2, <2>6, <3>1
    <3>3. QED
      BY <2>5, <3>2
  <2>8. CASE q # Top
    <3>1. PICK B : UpClosed(table, B) /\ n \notin B /\ q \in B \union {Top}
      BY <2>3, <2>4, RowsAbove
    <3>2. UpClosed(table, B \intersect C) /\ q \in B \intersect C /\ q \in DOMAIN table
      BY <2>2, <2>6, <2>8, <3>1 DEF UpClosed
    <3>3. Behind(B \intersect C, q, s \union {n}, t \union {n})
      BY <2>2, <2>6, <3>1, <3>2
    <3>4. q \in Bad
      BY <2>5, <3>2, <3>3
    <3>5. QED
      BY <2>1, <2>4, <3>4
  <2>9. QED
    BY <2>7, <2>8
<1>5. PICK p : p = table[e].parent
  OBVIOUS
<1>6. FirstAbove(table, e, W) = Up(p, {}) /\ p \in DOMAIN table \union {Top} /\ {} \in SUBSET Entity
  BY <1>1, <1>3, <1>5 DEF Up
<1>7. CASE p = Top
  BY <1>2, <1>3, <1>5, <1>6, <1>7
<1>8. CASE p # Top
  <2>1. p \in DOMAIN table /\ p \in Parents /\ p \in Entity
    BY <1>3, <1>6, <1>8
  <2>2. PICK q : q = table[p].parent
    OBVIOUS
  <2>3. Up(p, {}) = IF p \in W THEN p ELSE Up(q, {p})
    <3>1. {} \union {p} = {p}
      OBVIOUS
    <3>2. QED
      BY <1>2, <1>6, <2>1, <2>2, <3>1
  <2>4. FirstAbove(table, p, W) = Up(q, {})
    BY <1>1, <2>1, <2>2 DEF Up
  <2>5. Up(q, {p}) = Up(q, {})
    <3>1. PICK C : UpClosed(table, C) /\ p \notin C /\ q \in C \union {Top}
      BY <2>1, <2>2, RowsAbove
    <3>2. CASE q = Top
      <4>1. {p} \in SUBSET Entity
        BY <2>1
      <4>2. QED
        BY <1>2, <1>3, <1>6, <3>2, <4>1
    <3>3. CASE q # Top
      <4>1. q \in DOMAIN table /\ Behind(C, q, {p}, {})
        BY <2>1, <3>1, <3>3 DEF UpClosed
      <4>2. q \notin Bad
        BY <1>4
      <4>3. QED
        BY <4>1, <4>2
    <3>4. QED
      BY <3>2, <3>3
  <2>6. QED
    BY <1>5, <1>6, <1>8, <2>3, <2>4, <2>5
<1>9. QED
  BY <1>7, <1>8

-----------------------------------------------------------------------------
(* What is above a row, in a tree without loops. *)

Standing == Rooted /\ \A e \in Present : tree[e].parent \in Present \union {Top}

\* Rows as the tree has them, their links aside.
Alike(table) == DOMAIN table = Present /\ \A e \in Present : table[e].parent = tree[e].parent

LEMMA AlikeGrounded ==
  ASSUME Standing
  PROVE  Alike(TreeRows) /\ \A table : Alike(table) => Grounded(table)
<1>1. Present \subseteq Entity
  BY DEF Present
<1>2. Alike(TreeRows)
  BY DEF Alike, TreeRows
<1>3. ASSUME NEW table, Alike(table) PROVE Grounded(table)
  BY <1>1, <1>3 DEF Standing, Rooted, Alike, Grounded
<1>4. QED
  BY <1>2, <1>3

\* Everything above a row is its parent and what is above that.
LEMMA AboveIs ==
  ASSUME Standing, NEW e \in Present, NEW p, p = tree[e].parent
  PROVE  /\ p = Top => Above(e) = {}
         /\ p # Top => p \in Present /\ Above(e) = {p} \union Above(p)
<1>1. Grounded(TreeRows) /\ DOMAIN TreeRows = Present /\ TreeRows[e].parent = p
  BY AlikeGrounded DEF Alike
<1>2. Present \subseteq Entity /\ NoLink \notin Entity /\ (p # Top => p \in Present)
  BY EntityTreeAssumption DEF Present, Standing
<1>3. ASSUME NEW a \in Present
      PROVE  FirstAbove(TreeRows, e, {a}) =
               IF p = Top THEN NoLink ELSE IF p = a THEN a ELSE FirstAbove(TreeRows, p, {a})
  BY <1>1, NearestIs
<1>4. CASE p = Top
  BY <1>2, <1>3, <1>4 DEF Above
<1>5. CASE p # Top
  <2>1. \A a \in Present : a \in Above(e) <=> (p = a \/ a \in Above(p))
    BY <1>3, <1>5 DEF Above
  <2>2. Above(e) \subseteq Present /\ Above(p) \subseteq Present
    BY DEF Above
  <2>3. QED
    BY <1>2, <1>5, <2>1, <2>2
<1>6. QED
  BY <1>4, <1>5

\* What is above is above by way of the parents, and nothing is above itself.
LEMMA AboveOrders ==
  ASSUME Standing
  PROVE  /\ \A e \in Present : Above(e) \subseteq Present /\ \A a \in Above(e) : Above(a) \subseteq Above(e)
         /\ \A e \in Present : e \notin Above(e)
         /\ \A e \in Present : \A a \in Above(e) : \E c \in Children(Present, a) : e = c \/ c \in Above(e)
         /\ \A e \in Present : \A a, b \in Above(e) : a = b \/ a \in Above(b) \/ b \in Above(a)
<1>1. \A e \in Present : Above(e) \subseteq Present
  BY DEF Above
<1>2. ASSUME NEW Bad \in SUBSET Present, Bad # {}
      PROVE  \E e \in Bad : tree[e].parent \notin Bad
  BY <1>2 DEF Standing, Rooted
<1>3. ASSUME NEW e \in Present
      PROVE  \/ Above(e) = {}
             \/ tree[e].parent \in Present /\ Above(e) = {tree[e].parent} \union Above(tree[e].parent)
  BY AboveIs
<1>4. \A e \in Present : \A a \in Above(e) : Above(a) \subseteq Above(e)
  <2> DEFINE Bad == {e \in Present : ~\A a \in Above(e) : Above(a) \subseteq Above(e)}
  <2>1. ASSUME Bad # {} PROVE FALSE
    <3>1. PICK e \in Bad : tree[e].parent \notin Bad
      BY <1>2, <2>1
    <3>2. QED
      BY <1>3, <3>1
  <2>2. QED
    BY <2>1
<1>5. \A e \in Present : e \notin Above(e)
  <2> DEFINE Bad == {e \in Present : e \in Above(e)}
  <2>1. ASSUME Bad # {} PROVE FALSE
    <3>1. PICK e \in Bad : tree[e].parent \notin Bad
      BY <1>2, <2>1
    <3>2. QED
      BY <1>3, <1>4, <3>1
  <2>2. QED
    BY <2>1
<1>6. \A e \in Present : \A a \in Above(e) : \E c \in Children(Present, a) : e = c \/ c \in Above(e)
  <2> DEFINE Bad == {e \in Present : ~\A a \in Above(e) : \E c \in Children(Present, a) : e = c \/ c \in Above(e)}
  <2>1. ASSUME Bad # {} PROVE FALSE
    <3>1. PICK e \in Bad : tree[e].parent \notin Bad
      BY <1>2, <2>1
    <3>2. e \in Children(Present, tree[e].parent)
      BY <3>1 DEF Children
    <3>3. QED
      BY <1>3, <3>1, <3>2
  <2>2. QED
    BY <2>1
<1>7. \A e \in Present : \A a, b \in Above(e) : a = b \/ a \in Above(b) \/ b \in Above(a)
  <2> DEFINE Bad == {e \in Present : ~\A a, b \in Above(e) : a = b \/ a \in Above(b) \/ b \in Above(a)}
  <2>1. ASSUME Bad # {} PROVE FALSE
    <3>1. PICK e \in Bad : tree[e].parent \notin Bad
      BY <1>2, <2>1
    <3>2. QED
      BY <1>3, <3>1
  <2>2. QED
    BY <2>1
<1>8. QED
  BY <1>1, <1>4, <1>5, <1>6, <1>7

\* The first of some entities above a row has no other of them in between.
LEMMA NearestOf ==
  ASSUME Standing, NEW table, Alike(table), NEW W, NEW e \in Present
  PROVE  /\ Above(e) \intersect W = {} => FirstAbove(table, e, W) = NoLink
         /\ Above(e) \intersect W # {} =>
              /\ FirstAbove(table, e, W) \in Above(e) \intersect W
              /\ \A a \in Above(e) \intersect W : FirstAbove(table, e, W) \notin Above(a)
<1> DEFINE First(n) == FirstAbove(table, n, W)
           Right(n) == /\ Above(n) \intersect W = {} => First(n) = NoLink
                       /\ Above(n) \intersect W # {} =>
                            /\ First(n) \in Above(n) \intersect W
                            /\ \A a \in Above(n) \intersect W : First(n) \notin Above(a)
           Bad == {n \in Present : ~Right(n)}
<1>1. ASSUME NEW n \in Present, NEW p, p = tree[n].parent
      PROVE  First(n) = IF p = Top THEN NoLink ELSE IF p \in W THEN p ELSE First(p)
  <2>1. Grounded(table) /\ n \in DOMAIN table /\ table[n].parent = p
    BY <1>1, AlikeGrounded DEF Alike
  <2>2. QED
    BY <2>1, NearestIs
<1> HIDE DEF First
<1>2. ASSUME Bad # {} PROVE FALSE
  <2>1. PICK n \in Bad : tree[n].parent \notin Bad
    BY <1>2 DEF Standing, Rooted
  <2>2. PICK p : p = tree[n].parent
    OBVIOUS
  <2>3. CASE p = Top
    BY <1>1, <2>1, <2>2, <2>3, AboveIs
  <2>4. CASE p # Top
    <3>1. p \in Present /\ Above(n) = {p} \union Above(p) /\ Right(p)
      BY <2>1, <2>2, <2>4, AboveIs
    <3>2. CASE p \in W
      <4>1. First(n) = p
        BY <1>1, <2>1, <2>2, <2>4, <3>2
      <4>2. ASSUME NEW a \in Above(n), p \in Above(a) PROVE FALSE
        <5>1. a = p \/ a \in Above(p)
          BY <3>1
        <5>2. QED
          BY <3>1, <4>2, <5>1, AboveOrders
      <4>3. QED
        BY <2>1, <3>1, <3>2, <4>1, <4>2
    <3>3. CASE p \notin W
      <4>1. First(n) = First(p) /\ Above(n) \intersect W = Above(p) \intersect W
        BY <1>1, <2>1, <2>2, <2>4, <3>1, <3>3
      <4>2. QED
        BY <2>1, <3>1, <4>1
    <3>4. QED
      BY <3>2, <3>3
  <2>5. QED
    BY <2>3, <2>4
<1>3. QED
  BY <1>2 DEF First

\* Shown are the rows that were read with everything above them.
LEMMA RowsShown ==
  ASSUME Standing, NEW S \in SUBSET Present
  PROVE  Shown(S) = {e \in S : Above(e) \subseteq S}
<1>1. PICK C \in SUBSET S : C = {e \in S : Above(e) \subseteq S}
  OBVIOUS
<1>2. Top \notin Present
  BY EntityTreeAssumption DEF Present
<1>3. ASSUME NEW e \in S, NEW p, p = tree[e].parent
      PROVE  e \in C <=> p = Top \/ p \in C
  <2>1. CASE p = Top
    BY <1>1, <1>3, <2>1, AboveIs
  <2>2. CASE p # Top
    <3>1. p \in Present /\ Above(e) = {p} \union Above(p)
      BY <1>3, <2>2, AboveIs
    <3>2. QED
      BY <1>1, <2>2, <3>1
  <2>3. QED
    BY <2>1, <2>2
<1>4. Shown(S) \subseteq C
  <2>1. Children(S, Top) \subseteq C /\ \A e \in C : Children(S, e) \subseteq C
    BY <1>3 DEF Children
  <2>2. QED
    BY <2>1, ShownLeast
<1>5. ASSUME C \ Shown(S) # {} PROVE FALSE
  <2>1. PICK e \in C \ Shown(S) : tree[e].parent \notin C \ Shown(S)
    BY <1>5 DEF Standing, Rooted
  <2>2. tree[e].parent = Top \/ tree[e].parent \in Shown(S)
    BY <1>3, <2>1
  <2>3. e \in Children(S, tree[e].parent)
    BY <2>1 DEF Children
  <2>4. QED
    BY <2>1, <2>2, <2>3, ShownCloses
<1>6. QED
  BY <1>1, <1>4, <1>5

-----------------------------------------------------------------------------
(* Each node is shown with the worst rating of all it reaches below it. *)

LEMMA MaxOfFew ==
  ASSUME NEW S \in SUBSET (0..4), S # {}
  PROVE  Max(S) \in S /\ \A y \in S : y <= Max(S)
<1>1. \E x \in S : \A y \in S : x >= y
  <2>1. \A y \in S : y \in Int /\ 0 <= y /\ y <= 4
    OBVIOUS
  <2>2. 4 \in S \/ 3 \in S \/ 2 \in S \/ 1 \in S \/ 0 \in S
    <3>1. PICK y \in S : TRUE
      OBVIOUS
    <3>2. y = 4 \/ y = 3 \/ y = 2 \/ y = 1 \/ y = 0
      BY <2>1
    <3>3. QED
      BY <3>2
  <2>3. CASE 4 \in S
    BY <2>1, <2>3
  <2>4. CASE 3 \in S /\ 4 \notin S
    BY <2>1, <2>4
  <2>5. CASE 2 \in S /\ 3 \notin S /\ 4 \notin S
    BY <2>1, <2>5
  <2>6. CASE 1 \in S /\ 2 \notin S /\ 3 \notin S /\ 4 \notin S
    BY <2>1, <2>6
  <2>7. CASE 0 \in S /\ 1 \notin S /\ 2 \notin S /\ 3 \notin S /\ 4 \notin S
    BY <2>1, <2>7
  <2>8. QED
    BY <2>2, <2>3, <2>4, <2>5, <2>6, <2>7
<1>2. QED
  BY <1>1 DEF Max

Worsens(S, g) ==
  g = [x \in Trails(S) |-> Max({Severity[x.at]} \union {g[y] : y \in Further(S, x)})]

LEMMA WorstExists ==
  ASSUME NEW S \in SUBSET Present
  PROVE  \E g : Worsens(S, g)
<1> DEFINE D == Trails(S)
           V == 0..4
           K == [x \in D |-> Further(S, x)]
           Make(x, h) == Max({Severity[x.at]} \union {h[y] : y \in Further(S, x)})
           F == [x \in D |-> [h \in [K[x] -> V] |-> Make(x, h)]]
<1>1. S \in SUBSET Parents /\ S \subseteq S
  BY DEF Present, Parents
<1>2. K \in [D -> SUBSET D] /\ \A x \in D : K[x] = Further(S, x)
  BY <1>1, FurtherIs
<1>3. Goes(S, K)
  <2>1. \A x \in D : \A y \in K[x] : \E c \in Entity \ x.seen : y.seen = x.seen \union {c}
    BY <1>1, <1>2, FurtherIs
  <2>2. HIDE DEF K
  <2>3. QED
    BY <1>2, <2>1 DEF Goes
<1>4. ASSUME NEW x \in D, NEW h \in [K[x] -> V]
      PROVE  F[x][h] = Make(x, h) /\ F[x][h] \in V
  <2>1. F[x][h] = Make(x, h)
    <3>1. F[x] = [k \in [K[x] -> V] |-> Make(x, k)]
      <4>1. HIDE DEF D, K, V, Make
      <4>2. QED
        OBVIOUS
    <3>2. HIDE DEF D, K, V, Make, F
    <3>3. QED
      BY <3>1
  <2>2. \A y \in Further(S, x) : h[y] \in 0..4
    <3>1. HIDE DEF D, K
    <3>2. QED
      BY <1>2
  <2>3. Severity[x.at] \in 0..4
    BY EntityTreeAssumption DEF Trails, Present
  <2>4. PICK H : H = {Severity[x.at]} \union {h[y] : y \in Further(S, x)}
    OBVIOUS
  <2>5. H \in SUBSET (0..4) /\ H # {}
    BY <2>2, <2>3, <2>4
  <2>6. Make(x, h) \in V
    BY <2>4, <2>5, MaxOfFew
  <2>7. HIDE DEF F, Make, V
  <2>8. QED
    BY <2>1, <2>6
<1>5. PICK g \in [D -> V] : \A x \in D : g[x] = F[x][[y \in K[x] |-> g[y]]]
  <2>1. Makes(D, V, K, F)
    <3>1. V # {}
      OBVIOUS
    <3>2. HIDE DEF D, V, K, F
    <3>3. \A x \in D : \A h \in [K[x] -> V] : F[x][h] \in V
      BY <1>4
    <3>4. QED
      BY <3>1, <3>3 DEF Makes
  <2>2. Solvable(D, V, K, F)
    <3>1. HIDE DEF V, K, F
    <3>2. QED
      BY <1>1, <1>3, <2>1, SearchExists
  <2>3. HIDE DEF D, V, K, F
  <2>4. QED
    BY <2>2 DEF Solvable
<1>6. ASSUME NEW x \in D PROVE g[x] = Max({Severity[x.at]} \union {g[y] : y \in Further(S, x)})
  <2>1. PICK h : h = [y \in K[x] |-> g[y]]
    OBVIOUS
  <2>2. h \in [K[x] -> V] /\ \A y \in Further(S, x) : h[y] = g[y]
    <3>1. HIDE DEF D, V, K
    <3>2. QED
      BY <1>2, <2>1
  <2>3. g[x] = Make(x, h)
    <3>1. HIDE DEF D, V, K, F, Make
    <3>2. QED
      BY <1>4, <1>5, <2>1, <2>2
  <2>4. {h[y] : y \in Further(S, x)} = {g[y] : y \in Further(S, x)}
    BY <2>2
  <2>5. QED
    BY <2>3, <2>4
<1>7. g = [x \in D |-> Max({Severity[x.at]} \union {g[y] : y \in Further(S, x)})]
  <2>1. g = [x \in D |-> g[x]]
    <3>1. HIDE DEF D, V
    <3>2. QED
      BY <1>5
  <2>2. HIDE DEF D
  <2>3. QED
    BY <1>6, <2>1
<1>8. QED
  BY <1>5, <1>7 DEF Worsens

\* What stands below a row's children stands below the row, and nothing else does.
LEMMA BelowIs ==
  ASSUME Standing, NEW S \in SUBSET Present, NEW n \in S
  PROVE  /\ Below(S, n) \subseteq S
         /\ \A c \in Children(S, n) : c \in S /\ c # n /\ Below(S, c) \subseteq Below(S, n) /\ n \notin Below(S, c)
         /\ \A e \in Below(S, n) \ {n} : \E c \in Children(S, n) : e \in Below(S, c)
<1>1. ASSUME NEW c \in Children(S, n)
      PROVE  c \in S /\ n \in Above(c) /\ c # n /\ Below(S, c) \subseteq Below(S, n) /\ n \notin Below(S, c)
  <2>1. c \in S /\ tree[c].parent = n
    BY DEF Children
  <2>2. Above(c) = {n} \union Above(n)
    <3>1. n # Top
      BY EntityTreeAssumption DEF Present
    <3>2. QED
      BY <2>1, <3>1, AboveIs
  <2>3. c # n /\ c \notin Above(n)
    BY <2>1, <2>2, AboveOrders
  <2>4. ASSUME NEW e \in Below(S, c) PROVE e \in Below(S, n)
    <3>1. CASE e = c
      <4>1. \A a \in Above(c) : n \in Above(a) => a \in S
        BY <2>1, <2>2, AboveOrders
      <4>2. QED
        BY <2>1, <2>2, <3>1, <4>1 DEF Below
    <3>2. CASE e # c
      <4>1. /\ e \in S /\ c \in Above(e) /\ n \in Above(e) /\ Above(e) \subseteq Present
            /\ \A a \in Above(e) : c \in Above(a) => a \in S
        BY <2>1, <2>2, <2>4, <3>2, AboveOrders DEF Below
      <4>2. ASSUME NEW a \in Above(e), n \in Above(a) PROVE a \in S
        <5>1. a = c \/ a \in Above(c) \/ c \in Above(a)
          BY <4>1, AboveOrders
        <5>2. a \notin Above(c)
          <6>1. a # n
            BY <4>2, AboveOrders
          <6>2. a \notin Above(n)
            BY <4>2, AboveOrders
          <6>3. QED
            BY <2>2, <6>1, <6>2
        <5>3. QED
          BY <2>1, <4>1, <5>1, <5>2
      <4>3. QED
        BY <4>1, <4>2 DEF Below
    <3>3. QED
      BY <3>1, <3>2
  <2>5. n \notin Below(S, c)
    BY <2>3 DEF Below
  <2>6. QED
    BY <2>1, <2>2, <2>3, <2>4, <2>5
<1>2. ASSUME NEW e \in Below(S, n) \ {n} PROVE \E c \in Children(S, n) : e \in Below(S, c)
  <2>1. e \in S /\ n \in Above(e) /\ \A a \in Above(e) : n \in Above(a) => a \in S
    BY DEF Below
  <2>2. PICK c \in Children(Present, n) : e = c \/ c \in Above(e)
    BY <2>1, AboveOrders
  <2>3. c \in Present /\ tree[c].parent = n /\ n \in Above(c)
    <3>1. c \in Present /\ tree[c].parent = n /\ n # Top
      BY EntityTreeAssumption DEF Children, Present
    <3>2. QED
      BY <3>1, AboveIs
  <2>4. c \in Children(S, n)
    BY <2>1, <2>2, <2>3 DEF Children
  <2>5. \A a \in Above(e) : c \in Above(a) => a \in S
    <3>1. \A a \in Above(e) : c \in Above(a) => n \in Above(a)
      BY <2>1, <2>3, AboveOrders
    <3>2. QED
      BY <2>1, <3>1
  <2>6. QED
    BY <2>1, <2>2, <2>4, <2>5 DEF Below
<1>3. QED
  BY <1>1, <1>2 DEF Below

LEMMA WorstShown ==
  ASSUME Standing, NEW S \in SUBSET Present, NEW n \in S
  PROVE  SubtreeSeverity(S)[n] = Max({Severity[e] : e \in Below(S, n)})
<1>1. PICK g : Worsens(S, g) /\ SubtreeSeverity(S)[n] = g[[at |-> n, seen |-> {n}]]
  <2>1. PICK g : g = CHOOSE k : Worsens(S, k)
    OBVIOUS
  <2>2. Worsens(S, g)
    BY <2>1, WorstExists
  <2>3. SubtreeSeverity(S)[n] = g[[at |-> n, seen |-> {n}]]
    BY <2>1 DEF SubtreeSeverity, Worsens
  <2>4. QED
    BY <2>2, <2>3
<1>2. \A x \in Trails(S) : x.at \in S /\ x.seen \in SUBSET Entity
  BY DEF Trails
<1>3. S \in SUBSET Parents /\ S \subseteq S /\ S \subseteq Entity
  BY DEF Present, Parents
<1>4. ASSUME NEW x \in Trails(S), NEW y \in Further(S, x)
      PROVE  /\ y \in Trails(S) /\ TrailRank[y] < TrailRank[x]
             /\ y.at \in Children(S, x.at) \ x.seen /\ y.seen = x.seen \union {y.at}
  <2>1. y.at \in Children(S, x.at) \ x.seen /\ y.seen = x.seen \union {y.at}
    BY DEF Further
  <2>2. y \in Trails(S) /\ Children(S, x.at) \subseteq S
    BY <1>3, FurtherIs
  <2>3. x \in Trails(Parents) /\ y \in Trails(Parents)
    BY <1>3, <2>2 DEF Trails
  <2>4. QED
    BY <1>3, <2>1, <2>2, <2>3, TrailRanks
<1> DEFINE Sev(x) == {Severity[e] : e \in Below(S, x.at)}
           Whole(x) == x.seen \intersect Below(S, x.at) \subseteq {x.at}
           Right(x) == /\ g[x] \in Sev(x)
                       /\ Whole(x) => \A e \in Below(S, x.at) : Severity[e] <= g[x]
           Bad == {m \in Nat : \E x \in Trails(S) : TrailRank[x] = m /\ ~Right(x)}
<1>5. \A x \in Trails(S) : Sev(x) \in SUBSET (0..4) /\ Severity[x.at] \in Sev(x)
  BY <1>2, <1>3, BelowIs, EntityTreeAssumption DEF Below
<1>6. ASSUME Bad # {} PROVE FALSE
  <2>1. PICK m \in Bad : \A k \in Bad : m <= k
    <3>1. Bad \in SUBSET Nat
      OBVIOUS
    <3>2. HIDE DEF Bad
    <3>3. QED
      BY <1>6, <3>1, LeastExists
  <2>2. PICK x \in Trails(S) : TrailRank[x] = m /\ ~Right(x)
    BY <2>1
  <2>3. ASSUME NEW y \in Further(S, x) PROVE Right(y)
    <3>1. y \in Trails(S) /\ TrailRank[y] < m
      BY <1>4, <2>2
    <3>2. y \in Trails(Parents)
      BY <1>3, <3>1 DEF Trails
    <3>3. TrailRank[y] \in Nat /\ TrailRank[y] \notin Bad
      BY <2>1, <3>1, <3>2, TrailRanks
    <3>4. HIDE DEF Right
    <3>5. QED
      BY <3>1, <3>3
  <2>4. PICK M : M = {Severity[x.at]} \union {g[y] : y \in Further(S, x)}
    OBVIOUS
  <2>5. ASSUME NEW y \in Further(S, x) PROVE Sev(y) \subseteq Sev(x)
    BY <1>2, <1>4, BelowIs
  <2>6. M \subseteq Sev(x) /\ M # {}
    <3>1. \A y \in Further(S, x) : g[y] \in Sev(x)
      <4>1. HIDE DEF Sev
      <4>2. QED
        BY <2>3, <2>5
    <3>2. HIDE DEF Sev
    <3>3. QED
      BY <1>5, <2>4, <3>1
  <2>7. g[x] = Max(M)
    BY <1>1, <2>4 DEF Worsens
  <2>8. M \in SUBSET (0..4) /\ g[x] \in M /\ \A s \in M : s <= g[x]
    <3>1. M \in SUBSET (0..4)
      <4>1. HIDE DEF Sev
      <4>2. QED
        BY <1>5, <2>6
    <3>2. QED
      BY <2>6, <2>7, <3>1, MaxOfFew
  <2>9. ASSUME Whole(x), NEW e \in Below(S, x.at) PROVE Severity[e] <= g[x]
    <3>1. CASE e = x.at
      BY <2>4, <2>8, <3>1
    <3>2. CASE e # x.at
      <4>1. PICK c \in Children(S, x.at) : e \in Below(S, c)
        BY <1>2, <3>2, BelowIs
      <4>2. c \in S /\ c # x.at /\ Below(S, c) \subseteq Below(S, x.at) /\ x.at \notin Below(S, c) /\ c \in Below(S, c)
        BY <1>2, BelowIs DEF Below
      <4>3. c \notin x.seen
        BY <2>9, <4>2
      <4>4. PICK y : y = [at |-> c, seen |-> x.seen \union {c}]
        OBVIOUS
      <4>5. y \in Further(S, x) /\ y.at = c /\ y.seen = x.seen \union {c}
        BY <4>3, <4>4 DEF Further
      <4>6. Whole(y)
        BY <2>9, <4>2, <4>5
      <4>7. Severity[e] <= g[y]
        BY <2>3, <4>1, <4>5, <4>6
      <4>8. g[y] \in M
        BY <2>4, <4>5
      <4>9. Severity[e] \in 0..4
        BY <1>2, <1>3, BelowIs, EntityTreeAssumption
      <4>10. PICK i, j, k \in 0..4 : i = Severity[e] /\ j = g[y] /\ k = g[x]
        BY <2>8, <4>8, <4>9
      <4>11. i <= j /\ j <= k
        BY <2>8, <4>7, <4>8, <4>10
      <4>12. i <= k
        BY <4>11
      <4>13. QED
        BY <4>10, <4>12
    <3>3. QED
      BY <3>1, <3>2
  <2>10. Right(x)
    BY <2>6, <2>8, <2>9
  <2>11. QED
    BY <2>2, <2>10
<1>7. PICK x \in Trails(S) : x = [at |-> n, seen |-> {n}]
  BY <1>3 DEF Trails
<1>8. Right(x) /\ Whole(x) /\ x.at = n
  <2>1. TrailRank[x] \in Nat
    <3>1. x \in Trails(Parents)
      BY <1>3 DEF Trails
    <3>2. QED
      BY <3>1, TrailRanks
  <2>2. Right(x)
    <3>1. HIDE DEF Right
    <3>2. QED
      BY <1>6, <2>1
  <2>3. x.at = n /\ x.seen = {n}
    BY <1>7
  <2>4. QED
    BY <2>2, <2>3
<1>9. PICK M : M = {Severity[e] : e \in Below(S, n)}
  OBVIOUS
<1>10. M \in SUBSET (0..4) /\ g[x] \in M /\ \A s \in M : s <= g[x]
  BY <1>5, <1>8, <1>9
<1>11. Max(M) \in M /\ \A s \in M : s <= Max(M)
  BY <1>10, MaxOfFew
<1>12. g[x] = Max(M)
  <2>1. PICK i, j \in 0..4 : i = g[x] /\ j = Max(M)
    BY <1>10, <1>11
  <2>2. i <= j /\ j <= i
    BY <1>10, <1>11, <2>1
  <2>3. i = j
    BY <2>2
  <2>4. QED
    BY <2>1, <2>3
<1>13. QED
  BY <1>1, <1>7, <1>9, <1>12

-----------------------------------------------------------------------------
(* What a backfill nobody wrote under has derived. *)

DerivedDept(e) ==
  LET first == FirstAbove(filled, e, Departments) IN
  tree[e].dept = IF filled[e].dept = NoLink /\ first \in Departments THEN first ELSE filled[e].dept

FillInv == filled # NoRows => Alike(filled) /\ \A e \in Present : DerivedDept(e)

LEMMA EndFillLinks ==
  ASSUME TreeInv, EndFill
  PROVE  FillInv'
<1>1. SUFFICES ASSUME filled' # NoRows PROVE FillInv'
  BY DEF FillInv
<1>2. PICK table : table = filling
  OBVIOUS
<1>3. /\ filled' = table /\ DOMAIN table \subseteq Entity
      /\ \A e \in Entity : tree[e] = (IF e \in DOMAIN table THEN table[e] ELSE NoEntity)
  <2>1. filled' = table /\ \A e \in Entity : tree[e] = (IF e \in DOMAIN table THEN table[e] ELSE NoEntity)
    BY <1>1, <1>2 DEF EndFill
  <2>2. DOMAIN table \subseteq Entity
    BY <1>2, TreeFacts
  <2>3. QED
    BY <2>1, <2>2
<1>4. /\ Present = DOMAIN table /\ \A e \in Present : tree[e] = table[e] /\ table[e] \in TreeRow
  <2>1. \A e \in DOMAIN table : table[e] \in TreeRow /\ table[e] # NoEntity
    BY <1>2, TreeFacts
  <2>2. Present = DOMAIN table
    BY <1>3, <2>1 DEF Present
  <2>3. QED
    BY <1>3, <2>1, <2>2
<1> DEFINE First(e) == FirstAbove(table, e, Departments)
<1>5. PICK others \in SUBSET {e \in DOMAIN table : table[e].parent # Top} : tree' = Filled(table, others)
  BY <1>2 DEF EndFill
<1>6. PICK dirty : dirty = {e \in DOMAIN table : table[e].dept = NoLink /\ First(e) \in Departments}
  OBVIOUS
<1>7. PICK dept : dept = [e \in DOMAIN table |-> IF e \in dirty THEN First(e) ELSE table[e].dept]
  OBVIOUS
<1>8. PICK late : late = dirty \union others /\ late \subseteq DOMAIN table
  BY <1>5, <1>6
<1>9. \A e \in Entity : tree'[e] = IF e \in late THEN [tree[e] EXCEPT !.dept = dept[e]] ELSE tree[e]
  <2>1. tree' = [e \in Entity |->
          IF e \in late
          THEN [tree[e] EXCEPT !.dept = IF e \in dirty THEN First(e) ELSE table[e].dept]
          ELSE tree[e]]
    BY <1>5, <1>6, <1>8 DEF Filled
  <2>2. \A e \in late : dept[e] = IF e \in dirty THEN First(e) ELSE table[e].dept
    BY <1>7, <1>8
  <2>3. QED
    BY <2>1, <2>2
<1>10. ASSUME NEW e \in Present
       PROVE  /\ tree'[e] \in TreeRow /\ tree'[e].parent = table[e].parent
              /\ tree'[e].dept = IF table[e].dept = NoLink /\ First(e) \in Departments THEN First(e) ELSE table[e].dept
  <2>1. e \in DOMAIN table /\ e \in Entity /\ tree[e] = table[e] /\ table[e] \in TreeRow
    BY <1>3, <1>4
  <2>2. dept[e] = IF table[e].dept = NoLink /\ First(e) \in Departments THEN First(e) ELSE table[e].dept
    BY <1>6, <1>7, <2>1
  <2>3. dept[e] \in Departments \union {NoLink}
    BY <2>1, <2>2 DEF TreeRow
  <2>4. CASE e \in late
    <3>1. tree'[e] = [table[e] EXCEPT !.dept = dept[e]]
      BY <1>9, <2>1, <2>4
    <3>2. QED
      BY <2>1, <2>2, <2>3, <3>1 DEF TreeRow
  <2>5. CASE e \notin late
    <3>1. tree'[e] = table[e] /\ e \notin dirty
      BY <1>8, <1>9, <2>1, <2>5
    <3>2. QED
      BY <1>6, <2>1, <3>1
  <2>6. QED
    BY <2>4, <2>5
<1>11. Present' = Present
  <2>1. \A e \in Present : tree'[e] # NoEntity
    BY <1>10, TreeFacts
  <2>2. \A e \in Entity \ Present : tree'[e] = NoEntity
    <3>1. \A e \in Entity \ Present : e \notin late /\ tree[e] = NoEntity
      BY <1>4, <1>8 DEF Present
    <3>2. QED
      BY <1>9, <3>1
  <2>3. QED
    BY <2>1, <2>2 DEF Present
<1>12. Alike(filled)'
  BY <1>3, <1>4, <1>10, <1>11 DEF Alike
<1>13. \A e \in Present : DerivedDept(e)'
  BY <1>3, <1>10 DEF DerivedDept
<1>14. QED
  BY <1>11, <1>12, <1>13 DEF FillInv

LEMMA FillStep == TreeInv /\ FillInv /\ [TreeNext]_treeVars => FillInv'
<1>1. SUFFICES ASSUME TreeInv, FillInv, [TreeNext]_treeVars PROVE FillInv'
  OBVIOUS
<1>2. ASSUME UNCHANGED <<tree, filled>> PROVE FillInv'
  <2>1. Present' = Present
    BY <1>2 DEF Present
  <2>2. filled' # NoRows => Alike(filled)' /\ \A e \in Present : DerivedDept(e)'
    BY <1>1, <1>2, <2>1 DEF FillInv, Alike, DerivedDept
  <2>3. QED
    BY <2>1, <2>2 DEF FillInv
<1>3. ASSUME filled' = NoRows PROVE FillInv'
  BY <1>3 DEF FillInv
<1>4. CASE \E e \in Entity, p \in Parents, d \in Departments \union {NoLink} : CreateEntity(e, p, d)
  BY <1>3, <1>4 DEF CreateEntity
<1>5. CASE \E e, src \in Entity : CloneEntity(e, src)
  BY <1>3, <1>5 DEF CloneEntity
<1>6. CASE \E e \in Entity, w \in Editor, locked \in BOOLEAN : LoadEntity(w, e, locked)
  BY <1>2, <1>6 DEF LoadEntity
<1>7. CASE \E w \in Editor : Walk(w) \/ GiveUpEdit(w) \/ \E e \in Entity, archived \in BOOLEAN : LoadStatus(w, e, archived)
  BY <1>2, <1>7 DEF Walk, GiveUpEdit, LoadStatus
<1>8. CASE \E w \in Editor : SaveEntity(w) \/ SaveStatus(w)
  BY <1>2, <1>3, <1>8 DEF SaveEntity, SaveStatus, Put
<1>9. CASE BeginFill
  BY <1>2, <1>9 DEF BeginFill
<1>10. CASE EndFill
  BY <1>1, <1>10, EndFillLinks
<1>11. CASE UNCHANGED treeVars
  BY <1>2, <1>11 DEF treeVars
<1>12. QED
  BY <1>1, <1>4, <1>5, <1>6, <1>7, <1>8, <1>9, <1>10, <1>11 DEF TreeNext

LEMMA FillInvariant == TreeSpec => [](TreeInv /\ FillInv)
<1>1. TreeInit => TreeInv /\ FillInv
  BY TreeInitInv DEF TreeInit, FillInv
<1>2. QED
  BY <1>1, TreeStep, FillStep, PTL DEF TreeSpec

\* Of the rows it reads, unarchived or all, the register shows every one that has
\* nothing above it that was not read, each with the worst rating of all it reaches
\* below it, however handlers and backfills overlap, until an overtaken handler
\* writes a parent; and a backfill nobody wrote under leaves the links as they
\* were, or, where they were blank, the nearest department above.
THEOREM TreeStands == TreeSpec => []TreeHolds
<1>1. ASSUME TreeInv, FillInv PROVE TreeHolds
  <2>1. ASSUME ~overtaken PROVE Standing
    BY <1>1, <2>1, TreeFacts DEF Standing
  <2>2. ASSUME ~overtaken
        PROVE  /\ Rooted
               /\ \A S \in {Live, Present} :
                    /\ Shown(S) = {e \in S : Above(e) \subseteq S}
                    /\ \A n \in S : SubtreeSeverity(S)[n] = Max({Severity[e] : e \in Below(S, n)})
    <3>1. Standing /\ Live \subseteq Present
      BY <2>1, <2>2 DEF Live
    <3>2. QED
      BY <3>1, RowsShown, WorstShown DEF Standing
  <2>3. ASSUME ~overtaken, filled # NoRows, NEW e \in Present, NEW above, above = Above(e) \intersect Departments
        PROVE  IF filled[e].dept # NoLink THEN tree[e].dept = filled[e].dept
               ELSE IF above = {} THEN tree[e].dept = NoLink
               ELSE tree[e].dept \in above /\ \A a \in above : tree[e].dept \notin Above(a)
    <3>1. PICK first : first = FirstAbove(filled, e, Departments)
      OBVIOUS
    <3>2. /\ Alike(filled)
          /\ tree[e].dept = IF filled[e].dept = NoLink /\ first \in Departments THEN first ELSE filled[e].dept
      BY <1>1, <2>3, <3>1 DEF FillInv, DerivedDept
    <3>3. /\ above = {} => first = NoLink
          /\ above # {} => first \in above /\ \A a \in above : first \notin Above(a)
      BY <2>1, <2>3, <3>1, <3>2, NearestOf
    <3>4. NoLink \notin Departments
      BY EntityTreeAssumption
    <3>5. QED
      BY <2>3, <3>2, <3>3, <3>4
  <2>4. QED
    BY <2>2, <2>3 DEF TreeHolds
<1>2. QED
  BY <1>1, FillInvariant, PTL

-----------------------------------------------------------------------------
(***************************************************************************)
(* AuditPlans.                                                             *)
(***************************************************************************)

PlanSettings == profile \in [Names -> Profiles]

LEMMA ProfileFacts ==
  ASSUME PlanSettings, NEW u \in Names
  PROVE  /\ u \in Int /\ profile[u] \in Profiles /\ profile[u].days \in Nat
         /\ profile[u].composite \in Int /\ profile[u].required \in BOOLEAN
BY AuditPlansAssumption DEF PlanSettings

\* The order of the candidates is total.
LEMMA GroupIs ==
  ASSUME NEW ask, NEW u
  PROVE  Group(u, ask) \in Int /\ (Group(u, ask) = 0 <=> Mandated(u, ask)) /\ Group(u, ask) >= 0
BY DEF Group

LEMMA BeforeIs ==
  ASSUME PlanSettings, NEW ask, NEW u \in Names, NEW v \in Names
  PROVE  Before(u, v, ask) <=>
           \/ Group(u, ask) < Group(v, ask)
           \/ /\ Group(u, ask) = Group(v, ask)
              /\ \/ -profile[u].composite < -profile[v].composite
                 \/ -profile[u].composite = -profile[v].composite /\ u < v
<1>1. PICK k : k = [x \in {u, v} |-> <<Group(x, ask), -profile[x].composite, x>>]
  OBVIOUS
<1>2. /\ k[u][1] = Group(u, ask) /\ k[u][2] = -profile[u].composite /\ k[u][3] = u
      /\ k[v][1] = Group(v, ask) /\ k[v][2] = -profile[v].composite /\ k[v][3] = v
  BY <1>1
<1>3. Before(u, v, ask) <=>
        \E i \in 1..3 : k[u][i] < k[v][i] /\ \A j \in 1..i-1 : k[u][j] = k[v][j]
  BY <1>1 DEF Before
<1>4. /\ 1 \in 1..3 /\ 2 \in 1..3 /\ 3 \in 1..3 /\ 1..1-1 = {} /\ 1..2-1 = {1} /\ 1..3-1 = {1, 2}
      /\ \A i \in 1..3 : i = 1 \/ i = 2 \/ i = 3
  OBVIOUS
<1>5. (\E i \in 1..3 : k[u][i] < k[v][i] /\ \A j \in 1..i-1 : k[u][j] = k[v][j]) <=>
        \/ k[u][1] < k[v][1]
        \/ k[u][2] < k[v][2] /\ k[u][1] = k[v][1]
        \/ k[u][3] < k[v][3] /\ k[u][1] = k[v][1] /\ k[u][2] = k[v][2]
  BY <1>4
<1>6. QED
  BY <1>2, <1>3, <1>5

LEMMA BeforeOrders ==
  ASSUME PlanSettings, NEW ask, NEW u \in Names, NEW v \in Names, NEW x \in Names
  PROVE  /\ ~Before(u, u, ask)
         /\ Before(u, v, ask) /\ Before(v, x, ask) => Before(u, x, ask)
         /\ u # v => Before(u, v, ask) \/ Before(v, u, ask)
         /\ Before(u, v, ask) => ~Before(v, u, ask)
         /\ Before(u, v, ask) /\ Mandated(v, ask) => Mandated(u, ask)
<1>1. /\ u \in Int /\ v \in Int /\ x \in Int /\ profile[u].composite \in Int
      /\ profile[v].composite \in Int /\ profile[x].composite \in Int
  BY ProfileFacts
<1>2. /\ Group(u, ask) \in Int /\ Group(v, ask) \in Int /\ Group(x, ask) \in Int /\ Group(u, ask) >= 0
      /\ (Group(u, ask) = 0 <=> Mandated(u, ask)) /\ (Group(v, ask) = 0 <=> Mandated(v, ask))
  BY GroupIs
<1>3. ~Before(u, u, ask)
  BY <1>1, <1>2, BeforeIs
<1>4. Before(u, v, ask) /\ Before(v, x, ask) => Before(u, x, ask)
  BY <1>1, <1>2, BeforeIs
<1>5. u # v => Before(u, v, ask) \/ Before(v, u, ask)
  BY <1>1, <1>2, BeforeIs
<1>6. Before(u, v, ask) => ~Before(v, u, ask)
  BY <1>1, <1>2, BeforeIs
<1>7. Before(u, v, ask) /\ Mandated(v, ask) => Mandated(u, ask)
  BY <1>1, <1>2, BeforeIs
<1>8. QED
  BY <1>3, <1>4, <1>5, <1>6, <1>7

LEMMA AssessedFacts ==
  ASSUME NEW ask
  PROVE  /\ Assessed(ask) \subseteq Names /\ IsFiniteSet(Assessed(ask))
         /\ Cardinality(Assessed(ask)) \in Nat
<1>1. Assessed(ask) \subseteq Names
  BY DEF Assessed
<1>2. IsFiniteSet(Assessed(ask))
  BY <1>1, AuditPlansAssumption, FS_Subset
<1>3. QED
  BY <1>1, <1>2, FS_CardinalityType

\* Each place of the sorted candidates is taken by one of them.
LEMMA Ranked ==
  ASSUME PlanSettings, NEW ask, NEW A, A = Assessed(ask), NEW n \in Nat, n = Cardinality(A),
         NEW rank, rank = [u \in A |-> Cardinality({v \in A : Before(v, u, ask)})]
  PROVE  /\ \A u, v \in A : Before(u, v, ask) <=> rank[u] < rank[v]
         /\ rank \in [A -> 0..n-1] /\ \A u, v \in A : rank[u] = rank[v] => u = v
         /\ \A i \in 1..n : \E u \in A : rank[u] = i - 1
<1>1. A \subseteq Names /\ IsFiniteSet(A)
  BY AssessedFacts
<1>2. PICK below : below = [u \in A |-> {v \in A : Before(v, u, ask)}]
  OBVIOUS
<1>3. \A u \in A : /\ below[u] \subseteq A /\ u \notin below[u] /\ IsFiniteSet(below[u])
                   /\ rank[u] = Cardinality(below[u])
  <2>1. TAKE u \in A
  <2>2. below[u] = {v \in A : Before(v, u, ask)}
    BY <1>2
  <2>3. below[u] \in SUBSET A /\ u \notin below[u]
    BY <1>1, <2>2, BeforeOrders
  <2>4. IsFiniteSet(below[u])
    BY <1>1, <2>3, FS_Subset
  <2>5. QED
    BY <2>2, <2>3, <2>4
<1>4. \A u \in A : rank[u] \in 0..n-1
  <2>1. TAKE u \in A
  <2>2. PICK S : S = A \ {u}
    OBVIOUS
  <2>3. IsFiniteSet(S) /\ Cardinality(S) = n - 1 /\ below[u] \in SUBSET S
    BY <1>1, <1>3, <2>2, FS_RemoveElement
  <2>4. Cardinality(below[u]) <= n - 1 /\ Cardinality(below[u]) \in Nat
    BY <1>3, <2>3, FS_Subset, FS_CardinalityType
  <2>5. QED
    BY <1>3, <2>4
<1>5. ASSUME NEW u \in A, NEW v \in A, Before(u, v, ask)
      PROVE  rank[u] < rank[v]
  <2>1. below[u] \in SUBSET below[v] /\ u \in below[v] /\ u \notin below[u]
    <3>1. ASSUME NEW x \in below[u] PROVE x \in below[v]
      <4>1. x \in A /\ Before(x, u, ask)
        BY <1>2, <3>1
      <4>2. Before(x, v, ask)
        BY <1>1, <1>5, <4>1, BeforeOrders
      <4>3. QED
        BY <1>2, <4>1, <4>2
    <3>2. QED
      BY <1>2, <1>3, <1>5, <3>1
  <2>2. PICK S : S = below[v] \ {u}
    OBVIOUS
  <2>3. IsFiniteSet(S) /\ Cardinality(S) = Cardinality(below[v]) - 1 /\ below[u] \in SUBSET S
    BY <1>3, <2>1, <2>2, FS_RemoveElement
  <2>4. Cardinality(below[u]) <= Cardinality(S)
    BY <2>3, FS_Subset
  <2>5. rank[u] \in Int /\ rank[v] \in Int
    BY <1>4
  <2>6. QED
    BY <1>3, <2>3, <2>4, <2>5
<1>6. ASSUME NEW u \in A, NEW v \in A
      PROVE  /\ rank[u] < rank[v] => Before(u, v, ask)
             /\ rank[u] = rank[v] => u = v
  <2>1. rank[u] \in Int /\ rank[v] \in Int
    BY <1>4
  <2>2. Before(v, u, ask) => rank[v] < rank[u]
    BY <1>5
  <2>3. Before(u, v, ask) => rank[u] < rank[v]
    BY <1>5
  <2>4. u # v => Before(u, v, ask) \/ Before(v, u, ask)
    BY <1>1, BeforeOrders
  <2>5. QED
    BY <2>1, <2>2, <2>3, <2>4
<1>7. rank \in [A -> 0..n-1]
  BY <1>4
<1>8. ASSUME NEW i \in 1..n, \A u \in A : rank[u] # i - 1 PROVE FALSE
  <2>1. PICK m \in Int : m = n - 1
    OBVIOUS
  <2>2. PICK R : R = 0..m
    OBVIOUS
  <2>3. IsFiniteSet(R) /\ Cardinality(R) = IF 0 > m THEN 0 ELSE m - 0 + 1
    BY <2>2, FS_Interval
  <2>4. Cardinality(R) = n /\ i - 1 \in R
    BY <1>8, <2>1, <2>2, <2>3
  <2>5. PICK T : T = R \ {i - 1}
    OBVIOUS
  <2>6. IsFiniteSet(T) /\ Cardinality(T) = n - 1
    BY <2>3, <2>4, <2>5, FS_RemoveElement
  <2>7. rank \in [A -> T]
    BY <1>7, <1>8, <2>1, <2>2, <2>5
  <2>8. Cardinality(T) < Cardinality(A)
    BY <2>6
  <2>9. \E u, v \in A : u # v /\ rank[u] = rank[v]
    BY <1>1, <2>6, <2>7, <2>8, FS_PigeonHole
  <2>10. QED
    BY <1>6, <2>9
<1>9. \A u, v \in A : Before(u, v, ask) <=> rank[u] < rank[v]
  BY <1>5, <1>6
<1>10. \A u, v \in A : rank[u] = rank[v] => u = v
  BY <1>6
<1>11. \A i \in 1..n : \E u \in A : rank[u] = i - 1
  BY <1>8
<1>12. QED
  BY <1>7, <1>9, <1>10, <1>11

\* The candidates in their order: all of them, each once, the pressing ones first.
Sorts(order, ask, n) ==
  /\ order \in [1..n -> Assessed(ask)] /\ \A u \in Assessed(ask) : \E i \in 1..n : order[i] = u
  /\ \A i, j \in 1..n : order[i] = order[j] => i = j
  /\ \A i, j \in 1..n : i < j <=> Before(order[i], order[j], ask)

LEMMA OrderedSorts ==
  ASSUME PlanSettings, NEW ask
  PROVE  Sorts(Ordered(ask), ask, Cardinality(Assessed(ask)))
<1>1. PICK A : A = Assessed(ask)
  OBVIOUS
<1>2. PICK n \in Nat : n = Cardinality(A)
  BY <1>1, AssessedFacts
<1>3. PICK rank : rank = [u \in A |-> Cardinality({v \in A : Before(v, u, ask)})]
  OBVIOUS
<1>4. /\ \A u, v \in A : Before(u, v, ask) <=> rank[u] < rank[v]
      /\ rank \in [A -> 0..n-1] /\ \A u, v \in A : rank[u] = rank[v] => u = v
      /\ \A i \in 1..n : \E u \in A : rank[u] = i - 1
  BY <1>1, <1>2, <1>3, Ranked
<1>5. PICK order : order = Ordered(ask)
  OBVIOUS
<1>6. order = [i \in 1..n |-> CHOOSE u \in A : Cardinality({v \in A : Before(v, u, ask)}) = i - 1]
  BY <1>1, <1>2, <1>5 DEF Ordered
<1>7. \A i \in 1..n : order[i] \in A /\ rank[order[i]] = i - 1
  <2>1. TAKE i \in 1..n
  <2>2. order[i] = CHOOSE u \in A : Cardinality({v \in A : Before(v, u, ask)}) = i - 1
    BY <1>6
  <2>3. \E u \in A : Cardinality({v \in A : Before(v, u, ask)}) = i - 1
    BY <1>3, <1>4
  <2>4. order[i] \in A /\ Cardinality({v \in A : Before(v, order[i], ask)}) = i - 1
    BY <2>2, <2>3
  <2>5. QED
    BY <1>3, <2>4
<1>8. order \in [1..n -> A]
  BY <1>6, <1>7
<1>9. \A u \in A : \E i \in 1..n : order[i] = u
  <2>1. TAKE u \in A
  <2>2. PICK i \in 1..n : i = rank[u] + 1
    BY <1>4
  <2>3. rank[order[i]] = rank[u] /\ order[i] \in A
    BY <1>4, <1>7, <2>2
  <2>4. QED
    BY <1>4, <2>3
<1>10. \A i, j \in 1..n : order[i] = order[j] => i = j
  BY <1>7
<1>11. \A i, j \in 1..n : i < j <=> Before(order[i], order[j], ask)
  BY <1>4, <1>7
<1>12. Sorts(order, ask, n)
  BY <1>1, <1>8, <1>9, <1>10, <1>11 DEF Sorts
<1>13. QED
  BY <1>1, <1>2, <1>5, <1>12

-----------------------------------------------------------------------------
(* The pass over the sorted candidates. *)

Passes(g, ask, order, n) ==
  g = [m \in 0..n |-> IF m = 0 THEN FreshPlan(ask) ELSE Place(g[m - 1], order[m])]

LEMMA PassExists ==
  ASSUME NEW ask, NEW order, NEW n \in Nat
  PROVE  \E g : Passes(g, ask, order, n)
<1>1. DEFINE Bad == {k \in Nat : ~\E g : Passes(g, ask, order, k)}
<1>2. ASSUME Bad # {} PROVE FALSE
  <2>1. PICK k \in Bad : \A j \in Bad : k <= j
    <3>1. Bad \in SUBSET Nat
      OBVIOUS
    <3>2. HIDE DEF Bad
    <3>3. QED
      BY <1>2, <3>1, LeastExists
  <2>2. k \in Nat /\ ~\E g : Passes(g, ask, order, k)
    BY <2>1
  <2>3. CASE k = 0
    <3>1. Passes([m \in 0..0 |-> FreshPlan(ask)], ask, order, 0)
      BY DEF Passes
    <3>2. QED
      BY <2>2, <2>3, <3>1
  <2>4. CASE k # 0
    <3>1. PICK j \in Nat : j + 1 = k
      BY <2>2, <2>4
    <3>2. j \notin Bad
      BY <2>1, <3>1
    <3>3. PICK g : Passes(g, ask, order, j)
      BY <3>1, <3>2
    <3>4. PICK last : last = Place(g[j], order[k])
      OBVIOUS
    <3>5. DEFINE h == [m \in 0..k |-> IF m = k THEN last ELSE g[m]]
    <3>6. ASSUME NEW m \in 0..k
          PROVE  h[m] = IF m = 0 THEN FreshPlan(ask) ELSE Place(h[m - 1], order[m])
      <4>1. CASE m = k
        <5>1. h[m - 1] = g[j] /\ h[m] = last /\ m # 0
          BY <2>2, <2>4, <3>1, <4>1
        <5>2. HIDE DEF h
        <5>3. QED
          BY <3>4, <4>1, <5>1
      <4>2. CASE m # k
        <5>1. m \in 0..j
          BY <2>2, <3>1, <4>2
        <5>2. g[m] = IF m = 0 THEN FreshPlan(ask) ELSE Place(g[m - 1], order[m])
          BY <3>3, <5>1 DEF Passes
        <5>3. h[m] = g[m] /\ (m # 0 => h[m - 1] = g[m - 1])
          BY <2>2, <3>1, <4>2, <5>1
        <5>4. HIDE DEF h
        <5>5. QED
          BY <5>2, <5>3
      <4>3. QED
        BY <4>1, <4>2
    <3>7. h = [m \in 0..k |-> h[m]]
      OBVIOUS
    <3>8. HIDE DEF h
    <3>9. h = [m \in 0..k |-> IF m = 0 THEN FreshPlan(ask) ELSE Place(h[m - 1], order[m])]
      BY <3>6, <3>7
    <3>10. Passes(h, ask, order, k)
      BY <3>9 DEF Passes
    <3>11. QED
      BY <2>2, <3>10
  <2>5. QED
    BY <2>3, <2>4
<1>3. QED
  BY <1>2

LEMMA SelectPasses ==
  ASSUME NEW ask, NEW order, order = Ordered(ask), NEW n \in Nat, n = Cardinality(Assessed(ask))
  PROVE  \E g : Passes(g, ask, order, n) /\ Select(ask) = g[n]
<1>1. Select(ask) = (CHOOSE g : Passes(g, ask, order, n))[n]
  BY DEF Select, Passes
<1>2. QED
  BY <1>1, PassExists

LEMMA PassSteps ==
  ASSUME NEW ask, NEW order, NEW n \in Nat, NEW g, Passes(g, ask, order, n)
  PROVE  g[0] = FreshPlan(ask) /\ \A m \in 1..n : g[m] = Place(g[m - 1], order[m])
<1>1. PICK h : h = [m \in 0..n |-> IF m = 0 THEN FreshPlan(ask) ELSE Place(g[m - 1], order[m])]
  OBVIOUS
<1>2. g = h
  BY <1>1 DEF Passes
<1>3. h[0] = FreshPlan(ask)
  BY <1>1
<1>4. \A m \in 1..n : h[m] = Place(g[m - 1], order[m])
  BY <1>1
<1>5. QED
  BY <1>2, <1>3, <1>4

-----------------------------------------------------------------------------
(* What holds after the first m candidates. *)

Days == [u \in Names |-> profile[u].days]
Done(order, m) == {order[i] : i \in 1..m}
MandatedIn(S, ask) == {u \in S : Mandated(u, ask)}

\* The days left are what the capacity allows beyond those used; the mandated
\* ones come first and are all taken; who was passed over needs more than is
\* left, unless the plan is long enough.
Good(s, ask, done, m) ==
  /\ s \in [ask : {ask}, selected : Seq(Names), spilled : Seq(Names), used : Nat, remaining : Nat]
  /\ Range(s.selected) \union Range(s.spilled) = done /\ Len(s.selected) + Len(s.spilled) = m
  /\ s.used = SumOf(Days, Range(s.selected))
  /\ ask.capacity # NoCapacity =>
       /\ MandatedIn(done, ask) \subseteq Range(s.selected)
       /\ s.remaining = IF Available(ask.capacity) > s.used THEN Available(ask.capacity) - s.used ELSE 0
       /\ s.used > Available(ask.capacity) =>
            SumOf(Days, MandatedIn(done, ask)) > Available(ask.capacity)
       /\ \A u \in Range(s.spilled) : ~Mandated(u, ask)
  /\ \A u \in Range(s.spilled) :
       /\ \/ Len(s.selected) >= ask.topN
          \/ ask.capacity # NoCapacity /\ profile[u].days > s.remaining
       /\ \A v \in Range(s.selected) : Before(u, v, ask) => profile[v].days < profile[u].days

\* What a request that is not refused asks for.
Sensible(ask) ==
  /\ ask.topN \in Int
  /\ ask.capacity # NoCapacity => Available(ask.capacity) \in Nat

LEMMA AppendRange ==
  ASSUME NEW S, NEW s \in Seq(S), NEW u \in S
  PROVE  /\ Append(s, u) \in Seq(S) /\ Len(Append(s, u)) = Len(s) + 1 /\ Len(s) \in Nat
         /\ Range(Append(s, u)) = Range(s) \union {u} /\ Range(s) \subseteq S
<1>1. PICK t : t = Append(s, u)
  OBVIOUS
<1>2. PICK n \in Nat : n = Len(s)
  OBVIOUS
<1>3. /\ t \in Seq(S) /\ Len(t) = n + 1 /\ DOMAIN t = 1..n+1 /\ DOMAIN s = 1..n
      /\ \A i \in 1..n : t[i] = s[i] /\ s[i] \in S
      /\ t[n + 1] = u
  BY <1>1, <1>2
<1>4. \A x : x \in Range(t) <=> x \in Range(s) \/ x = u
  <2>1. TAKE x
  <2>2. x \in Range(t) <=> \E i \in 1..n+1 : t[i] = x
    BY <1>3 DEF Range
  <2>3. x \in Range(s) <=> \E i \in 1..n : s[i] = x
    BY <1>3 DEF Range
  <2>4. (\E i \in 1..n+1 : t[i] = x) <=> (\E i \in 1..n : t[i] = x) \/ t[n + 1] = x
    BY <1>2
  <2>5. QED
    BY <1>3, <2>2, <2>3, <2>4
<1>5. Range(t) = Range(s) \union {u}
  BY <1>4
<1>6. Range(s) \subseteq S
  BY <1>3 DEF Range
<1>7. QED
  BY <1>1, <1>2, <1>3, <1>5, <1>6

LEMMA DaysAdd ==
  ASSUME PlanSettings, NEW S \in SUBSET Names, NEW u \in Names, u \notin S
  PROVE  /\ SumOf(Days, S \union {u}) = SumOf(Days, S) + profile[u].days
         /\ SumOf(Days, S) \in Nat
<1>1. IsFiniteSet(S)
  BY AuditPlansAssumption, FS_Subset
<1>2. PICK d : d = Days
  OBVIOUS
<1>3. \A x \in Names : d[x] = profile[x].days /\ d[x] \in Nat
  BY <1>2, ProfileFacts DEF Days
<1>4. \A x \in S \union {u} : d[x] \in Int
  BY <1>3
<1>5. SumOf(d, S \union {u}) = SumOf(d, S) + d[u]
  BY <1>1, <1>4, SumAdd
<1>6. SumOf(d, S) \in Nat
  BY <1>1, <1>3, SumNat
<1>7. QED
  BY <1>2, <1>3, <1>5, <1>6

\* The next candidate is new; those before it are more pressing.
LEMMA NextDone ==
  ASSUME PlanSettings, NEW ask, NEW n \in Nat, NEW order, Sorts(order, ask, n), NEW m \in 0..n-1,
         NEW u, u = order[m + 1]
  PROVE  /\ Done(order, m + 1) = Done(order, m) \union {u} /\ u \notin Done(order, m)
         /\ u \in Names /\ Done(order, m) \subseteq Names
         /\ \A x \in Done(order, m) : ~Before(u, x, ask)
         /\ Mandated(u, ask) => \A x \in Done(order, m) : Mandated(x, ask)
<1>1. /\ m + 1 \in 1..n /\ \A i \in 1..m : i \in 1..n /\ i < m + 1
      /\ \A i \in 1..m+1 : i \in 1..m \/ i = m + 1
      /\ \A i \in 1..m : i \in 1..m+1
      /\ m + 1 \in 1..m+1
  OBVIOUS
<1>2. /\ \A i \in 1..n : order[i] \in Names
      /\ \A i, j \in 1..n : order[i] = order[j] => i = j
      /\ \A i, j \in 1..n : i < j <=> Before(order[i], order[j], ask)
  BY AssessedFacts DEF Sorts
<1>3. u \in Names /\ Done(order, m) \subseteq Names
  BY <1>1, <1>2 DEF Done
<1>4. Done(order, m + 1) = Done(order, m) \union {u}
  BY <1>1 DEF Done
<1>5. u \notin Done(order, m)
  <2>1. SUFFICES ASSUME NEW i \in 1..m, order[i] = u PROVE FALSE
    BY DEF Done
  <2>2. i = m + 1
    BY <1>1, <1>2, <2>1
  <2>3. QED
    BY <1>1, <2>2
<1>6. \A x \in Done(order, m) : Before(x, u, ask)
  BY <1>1, <1>2 DEF Done
<1>7. \A x \in Done(order, m) : ~Before(u, x, ask)
  BY <1>3, <1>6, BeforeOrders
<1>8. Mandated(u, ask) => \A x \in Done(order, m) : Mandated(x, ask)
  BY <1>3, <1>6, BeforeOrders
<1>9. QED
  BY <1>3, <1>4, <1>5, <1>7, <1>8

\* A candidate that is taken.
LEMMA TakenGood ==
  ASSUME PlanSettings, NEW ask, Sensible(ask), NEW done \in SUBSET Names, NEW m \in Nat, NEW s, Good(s, ask, done, m),
         NEW u \in Names, u \notin done, \A x \in done : ~Before(u, x, ask),
         Mandated(u, ask) => \A x \in done : Mandated(x, ask),
         Fits(s, u), NEW more, more = done \union {u}
  PROVE  Good(Place(s, u), ask, more, m + 1)
<1>1. PICK t : t = Place(s, u)
  OBVIOUS
<1>2. PICK d \in Nat : d = profile[u].days
  BY ProfileFacts
<1>3. /\ s.ask = ask /\ s.selected \in Seq(Names) /\ s.spilled \in Seq(Names)
      /\ s.used \in Nat /\ s.remaining \in Nat
      /\ s \in [ask : {ask}, selected : Seq(Names), spilled : Seq(Names), used : Nat, remaining : Nat]
      /\ Len(s.selected) \in Nat /\ Len(s.spilled) \in Nat
  BY DEF Good
<1>4. PICK now \in SUBSET Names : now = Range(s.selected)
  <2>1. Range(s.selected) \subseteq Names
    BY <1>3, AppendRange
  <2>2. QED
    BY <2>1
<1>5. PICK left \in Nat : left = IF s.remaining > d THEN s.remaining - d ELSE 0
  BY <1>3
<1>6. PICK list \in Seq(Names) : list = Append(s.selected, u)
  BY <1>3, AppendRange
<1>7. PICK used \in Nat : used = s.used + d
  BY <1>3
<1>8. /\ t \in [ask : {ask}, selected : Seq(Names), spilled : Seq(Names), used : Nat, remaining : Nat]
      /\ t.selected = list /\ t.spilled = s.spilled /\ t.used = used /\ t.remaining = left
  <2>1. t = [s EXCEPT !.selected = list, !.used = used, !.remaining = left]
    BY <1>1, <1>2, <1>5, <1>6, <1>7 DEF Place
  <2>2. QED
    BY <1>3, <2>1
<1>9. Range(list) = now \union {u} /\ Len(list) = Len(s.selected) + 1
  BY <1>3, <1>4, <1>6, AppendRange
<1>10. now \union Range(s.spilled) = done /\ Len(s.selected) + Len(s.spilled) = m /\ s.used = SumOf(Days, now)
  BY <1>4 DEF Good
<1>11. Range(list) \union Range(t.spilled) = more
  BY <1>8, <1>9, <1>10
<1>12. Len(list) + Len(t.spilled) = m + 1
  BY <1>3, <1>8, <1>9, <1>10
<1>13. used = SumOf(Days, Range(list))
  <2>1. u \notin now
    BY <1>10
  <2>2. SumOf(Days, now \union {u}) = SumOf(Days, now) + d
    BY <1>2, <2>1, DaysAdd
  <2>3. QED
    BY <1>7, <1>9, <1>10, <2>2
<1>14. ASSUME ask.capacity # NoCapacity
       PROVE  /\ MandatedIn(more, ask) \subseteq Range(list)
              /\ left = IF Available(ask.capacity) > used THEN Available(ask.capacity) - used ELSE 0
              /\ used > Available(ask.capacity) =>
                   SumOf(Days, MandatedIn(more, ask)) > Available(ask.capacity)
  <2>1. PICK all \in Nat : all = Available(ask.capacity)
    BY <1>14 DEF Sensible
  <2>2. /\ MandatedIn(done, ask) \subseteq now
        /\ s.remaining = IF all > s.used THEN all - s.used ELSE 0
        /\ s.used > all => SumOf(Days, MandatedIn(done, ask)) > all
    BY <1>4, <1>14, <2>1 DEF Good
  <2>3. MandatedIn(more, ask) \subseteq Range(list)
    BY <1>9, <2>2 DEF MandatedIn
  <2>4. left = IF all > used THEN all - used ELSE 0
    <3>1. PICK a, b \in Nat : a = s.used /\ b = s.remaining
      BY <1>3
    <3>2. b = (IF all > a THEN all - a ELSE 0) /\ left = (IF b > d THEN b - d ELSE 0) /\ used = a + d
      BY <1>5, <1>7, <2>2, <3>1
    <3>3. QED
      BY <3>2
  <2>5. ASSUME used > all PROVE SumOf(Days, MandatedIn(more, ask)) > all
    <3>1. CASE Mandated(u, ask)
      <4>1. MandatedIn(more, ask) = Range(list)
        <5>1. MandatedIn(done, ask) = done
          BY <3>1 DEF MandatedIn
        <5>2. now = done
          BY <1>10, <2>2, <5>1
        <5>3. \A x \in more : Mandated(x, ask)
          BY <3>1
        <5>4. QED
          BY <1>9, <5>2, <5>3 DEF MandatedIn
      <4>2. QED
        BY <1>13, <2>5, <4>1
    <3>2. CASE ~Mandated(u, ask)
      <4>1. MandatedIn(more, ask) = MandatedIn(done, ask)
        BY <3>2 DEF MandatedIn
      <4>2. d <= s.remaining
        BY <1>2, <1>3, <1>14, <3>2 DEF Fits
      <4>3. s.used > all
        BY <1>3, <1>7, <2>2, <2>5, <4>2
      <4>4. QED
        BY <2>2, <4>1, <4>3
    <3>3. QED
      BY <3>1, <3>2
  <2>6. QED
    BY <2>1, <2>3, <2>4, <2>5
<1>15. ASSUME ask.capacity # NoCapacity, NEW x \in Range(s.spilled) PROVE ~Mandated(x, ask)
  BY <1>15 DEF Good
<1>16. ASSUME NEW x \in Range(s.spilled)
       PROVE  /\ \/ Len(list) >= ask.topN
                 \/ ask.capacity # NoCapacity /\ profile[x].days > left
              /\ \A v \in Range(list) : Before(x, v, ask) => profile[v].days < profile[x].days
  <2>1. /\ \/ Len(s.selected) >= ask.topN
           \/ ask.capacity # NoCapacity /\ profile[x].days > s.remaining
        /\ \A v \in now : Before(x, v, ask) => profile[v].days < profile[x].days
    BY <1>4, <1>16 DEF Good
  <2>2. x \in done /\ x \in Names /\ profile[x].days \in Nat
    BY <1>10, ProfileFacts
  <2>3. left <= s.remaining /\ ask.topN \in Int
    BY <1>3, <1>5 DEF Sensible
  <2>4. \/ Len(list) >= ask.topN
        \/ ask.capacity # NoCapacity /\ profile[x].days > left
    BY <1>3, <1>9, <2>1, <2>2, <2>3
  <2>5. d < profile[x].days
    <3>1. CASE ask.capacity = NoCapacity
      BY <1>3, <2>1, <2>3, <3>1 DEF Fits
    <3>2. CASE ask.capacity # NoCapacity
      <4>1. ~Mandated(x, ask) /\ ~Mandated(u, ask)
        BY <1>15, <2>2, <3>2
      <4>2. Len(s.selected) < ask.topN /\ d <= s.remaining
        BY <1>2, <1>3, <3>2, <4>1 DEF Fits
      <4>3. QED
        BY <1>3, <2>1, <2>2, <2>3, <4>2
    <3>3. QED
      BY <3>1, <3>2
  <2>6. QED
    BY <1>2, <1>9, <2>1, <2>4, <2>5
<1>17. Good(t, ask, more, m + 1)
  BY <1>8, <1>11, <1>12, <1>13, <1>14, <1>15, <1>16 DEF Good
<1>18. QED
  BY <1>1, <1>17

\* A candidate that does not fit.
LEMMA SpilledGood ==
  ASSUME PlanSettings, NEW ask, Sensible(ask), NEW done \in SUBSET Names, NEW m \in Nat, NEW s, Good(s, ask, done, m),
         NEW u \in Names, u \notin done, \A x \in done : ~Before(u, x, ask),
         ~Fits(s, u), NEW more, more = done \union {u}
  PROVE  Good(Place(s, u), ask, more, m + 1)
<1>1. PICK t : t = Place(s, u)
  OBVIOUS
<1>2. /\ s.ask = ask /\ s.selected \in Seq(Names) /\ s.spilled \in Seq(Names)
      /\ s.used \in Nat /\ s.remaining \in Nat
      /\ s \in [ask : {ask}, selected : Seq(Names), spilled : Seq(Names), used : Nat, remaining : Nat]
      /\ Len(s.selected) \in Nat /\ Len(s.spilled) \in Nat
  BY DEF Good
<1>3. PICK list \in Seq(Names) : list = Append(s.spilled, u)
  BY <1>2, AppendRange
<1>4. /\ t \in [ask : {ask}, selected : Seq(Names), spilled : Seq(Names), used : Nat, remaining : Nat]
      /\ t.selected = s.selected /\ t.spilled = list /\ t.used = s.used /\ t.remaining = s.remaining
  <2>1. t = [s EXCEPT !.spilled = list]
    BY <1>1, <1>3 DEF Place
  <2>2. QED
    BY <1>2, <2>1
<1>5. Range(list) = Range(s.spilled) \union {u} /\ Len(list) = Len(s.spilled) + 1
  BY <1>2, <1>3, AppendRange
<1>6. /\ Range(s.selected) \union Range(list) = more /\ Len(s.selected) + Len(list) = m + 1
      /\ s.used = SumOf(Days, Range(s.selected))
  BY <1>2, <1>5 DEF Good
<1>7. ASSUME ask.capacity # NoCapacity
      PROVE  /\ MandatedIn(more, ask) \subseteq Range(s.selected)
             /\ s.remaining = IF Available(ask.capacity) > s.used THEN Available(ask.capacity) - s.used ELSE 0
             /\ s.used > Available(ask.capacity) =>
                  SumOf(Days, MandatedIn(more, ask)) > Available(ask.capacity)
             /\ \A x \in Range(list) : ~Mandated(x, ask)
  <2>1. ~Mandated(u, ask)
    BY <1>2, <1>7 DEF Fits
  <2>2. MandatedIn(more, ask) = MandatedIn(done, ask)
    BY <2>1 DEF MandatedIn
  <2>3. QED
    BY <1>5, <1>7, <2>1, <2>2 DEF Good
<1>8. ASSUME NEW x \in Range(list)
      PROVE  /\ \/ Len(s.selected) >= ask.topN
                \/ ask.capacity # NoCapacity /\ profile[x].days > s.remaining
             /\ \A v \in Range(s.selected) : Before(x, v, ask) => profile[v].days < profile[x].days
  <2>1. CASE x \in Range(s.spilled)
    BY <2>1 DEF Good
  <2>2. CASE x = u
    <3>1. \A v \in Range(s.selected) : ~Before(u, v, ask)
      BY DEF Good
    <3>2. Len(s.selected) >= ask.topN \/ (ask.capacity # NoCapacity /\ profile[u].days > s.remaining)
      <4>1. profile[u].days \in Nat /\ ask.topN \in Int
        BY ProfileFacts DEF Sensible
      <4>2. CASE ask.capacity = NoCapacity
        BY <1>2, <4>1, <4>2 DEF Fits
      <4>3. CASE ask.capacity # NoCapacity
        BY <1>2, <4>1, <4>3 DEF Fits
      <4>4. QED
        BY <4>2, <4>3
    <3>3. QED
      BY <2>2, <3>1, <3>2
  <2>3. QED
    BY <1>5, <2>1, <2>2
<1>9. Good(t, ask, more, m + 1)
  BY <1>4, <1>6, <1>7, <1>8 DEF Good
<1>10. QED
  BY <1>1, <1>9

LEMMA StartGood ==
  ASSUME NEW ask, Sensible(ask)
  PROVE  Good(FreshPlan(ask), ask, {}, 0)
<1>1. PICK s, left : /\ left = IF ask.capacity = NoCapacity THEN 0 ELSE Available(ask.capacity)
                     /\ s = [ask |-> ask, selected |-> <<>>, spilled |-> <<>>, used |-> 0,
                             remaining |-> left]
  OBVIOUS
<1>2. left \in Nat
  BY <1>1 DEF Sensible
<1>3. /\ s \in [ask : {ask}, selected : Seq(Names), spilled : Seq(Names), used : Nat, remaining : Nat]
      /\ s.selected = <<>> /\ s.spilled = <<>> /\ s.used = 0 /\ s.remaining = left
  BY <1>1, <1>2
<1>4. Range(s.selected) = {} /\ Range(s.spilled) = {} /\ Len(s.selected) + Len(s.spilled) = 0
  BY <1>3 DEF Range
<1>5. s.used = SumOf(Days, Range(s.selected))
  BY <1>3, <1>4, SumEmpty
<1>6. ask.capacity # NoCapacity =>
        /\ MandatedIn({}, ask) \subseteq Range(s.selected)
        /\ s.remaining = IF Available(ask.capacity) > s.used THEN Available(ask.capacity) - s.used ELSE 0
        /\ ~(s.used > Available(ask.capacity))
  BY <1>1, <1>3 DEF Sensible, MandatedIn
<1>7. Good(s, ask, {}, 0)
  BY <1>3, <1>4, <1>5, <1>6 DEF Good
<1>8. QED
  BY <1>1, <1>7 DEF FreshPlan

LEMMA AllGood ==
  ASSUME PlanSettings, NEW ask, Sensible(ask), NEW n \in Nat, NEW order, Sorts(order, ask, n),
         NEW g, Passes(g, ask, order, n)
  PROVE  Good(g[n], ask, Done(order, n), n)
<1>1. g[0] = FreshPlan(ask) /\ \A i \in 1..n : g[i] = Place(g[i - 1], order[i])
  BY PassSteps
<1>2. DEFINE Bad == {m \in 0..n : ~Good(g[m], ask, Done(order, m), m)}
<1>3. ASSUME Bad # {} PROVE FALSE
  <2>1. PICK k \in Bad : \A j \in Bad : k <= j
    <3>1. Bad \in SUBSET Nat
      OBVIOUS
    <3>2. HIDE DEF Bad
    <3>3. QED
      BY <1>3, <3>1, LeastExists
  <2>2. k \in 0..n /\ ~Good(g[k], ask, Done(order, k), k)
    BY <2>1
  <2>3. CASE k = 0
    <3>1. Done(order, 0) = {}
      BY DEF Done
    <3>2. QED
      BY <1>1, <2>2, <2>3, <3>1, StartGood
  <2>4. CASE k # 0
    <3>1. PICK m \in 0..n-1 : m + 1 = k
      BY <2>2, <2>4
    <3>2. m \notin Bad /\ m \in 0..n /\ m \in Nat
      BY <2>1, <3>1
    <3>3. Good(g[m], ask, Done(order, m), m)
      BY <3>2
    <3>4. PICK u, s : u = order[m + 1] /\ s = g[m]
      OBVIOUS
    <3>5. PICK done, more : done = Done(order, m) /\ more = Done(order, m + 1)
      OBVIOUS
    <3>6. /\ more = done \union {u} /\ u \notin done /\ u \in Names /\ done \in SUBSET Names
          /\ \A x \in done : ~Before(u, x, ask)
          /\ Mandated(u, ask) => \A x \in done : Mandated(x, ask)
      <4>1. /\ Done(order, m + 1) = Done(order, m) \union {u} /\ u \notin Done(order, m)
            /\ u \in Names /\ Done(order, m) \subseteq Names
            /\ \A x \in Done(order, m) : ~Before(u, x, ask)
            /\ Mandated(u, ask) => \A x \in Done(order, m) : Mandated(x, ask)
        BY <3>4, NextDone
      <4>2. QED
        BY <3>5, <4>1
    <3>7. g[k] = Place(s, u)
      <4>1. k \in 1..n /\ k - 1 = m
        BY <2>2, <2>4, <3>1
      <4>2. QED
        BY <1>1, <3>1, <3>4, <4>1
    <3>8. Good(s, ask, done, m)
      BY <3>3, <3>4, <3>5
    <3>9. Good(Place(s, u), ask, more, m + 1)
      <4>1. CASE Fits(s, u)
        BY <3>2, <3>6, <3>8, <4>1, TakenGood
      <4>2. CASE ~Fits(s, u)
        BY <3>2, <3>6, <3>8, <4>2, SpilledGood
      <4>3. QED
        BY <4>1, <4>2
    <3>10. QED
      BY <2>2, <3>1, <3>5, <3>7, <3>9
  <2>5. QED
    BY <2>3, <2>4
<1>4. n \in 0..n /\ n \notin Bad
  BY <1>3
<1>5. QED
  BY <1>4

\* A plan as drawn up.
Drawn(p) ==
  /\ p.ask \in Asks /\ Sensible(p.ask)
  /\ Good(p, p.ask, Assessed(p.ask), Cardinality(Assessed(p.ask)))

LEMMA AskSensible ==
  ASSUME NEW ask \in Asks, ask.topN > 0, ask.capacity # NoCapacity => ShapeAllowed(ask.capacity)
  PROVE  Sensible(ask)
<1>1. ask.topN \in Int /\ ask.capacity \in Shapes \union {NoCapacity}
  BY AuditPlansAssumption
<1>2. ASSUME ask.capacity # NoCapacity PROVE Available(ask.capacity) \in Nat
  <2>1. PICK c : c = ask.capacity
    OBVIOUS
  <2>2. c \in Shapes /\ ShapeAllowed(c)
    BY <1>1, <1>2, <2>1
  <2>3. PICK days, direct, kept : /\ days = OrDefault(c.days, 230) /\ direct = OrDefault(c.direct, 65)
                                  /\ kept = 100 - OrDefault(c.reserve, 15)
    OBVIOUS
  <2>4. c.auditors \in Nat /\ days \in Nat /\ direct \in Nat /\ kept \in Nat
    BY <2>2, <2>3 DEF Shapes, ShapeAllowed, OrDefault
  <2>5. \A a, b \in Nat : a * b \in Nat
    OBVIOUS
  <2>6. PICK ab \in Nat : ab = c.auditors * days
    BY <2>4, <2>5
  <2>7. PICK abc \in Nat : abc = ab * direct
    BY <2>4, <2>5, <2>6
  <2>8. PICK all \in Nat : all = abc * kept
    BY <2>4, <2>5, <2>7
  <2>9. Available(c) = all \div 10000
    BY <2>3, <2>6, <2>7, <2>8 DEF Available
  <2>10. QED
    BY <2>1, <2>8, <2>9
<1>3. QED
  BY <1>1, <1>2 DEF Sensible

LEMMA SelectDrawn ==
  ASSUME PlanSettings, NEW ask \in Asks, ask.topN > 0, ask.capacity # NoCapacity => ShapeAllowed(ask.capacity)
  PROVE  Drawn(Select(ask))
<1>1. Sensible(ask)
  BY AskSensible
<1>2. PICK order, A : order = Ordered(ask) /\ A = Assessed(ask)
  OBVIOUS
<1>3. PICK n \in Nat : n = Cardinality(A)
  BY <1>2, AssessedFacts
<1>4. Sorts(order, ask, n)
  BY <1>2, <1>3, OrderedSorts
<1>5. PICK g : Passes(g, ask, order, n) /\ Select(ask) = g[n]
  BY <1>2, <1>3, SelectPasses
<1>6. PICK p : p = g[n]
  OBVIOUS
<1>7. Good(p, ask, Done(order, n), n)
  BY <1>1, <1>4, <1>5, <1>6, AllGood
<1>8. Done(order, n) = A
  BY <1>2, <1>4 DEF Done, Sorts
<1>9. p.ask = ask /\ Good(p, ask, A, n)
  BY <1>7, <1>8 DEF Good
<1>10. Drawn(p)
  BY <1>1, <1>2, <1>3, <1>9 DEF Drawn
<1>11. QED
  BY <1>5, <1>6, <1>10

-----------------------------------------------------------------------------
(* What a plan promises follows from what its pass kept. *)

\* The second half of PlanHonest, of a plan.
Honest(p) ==
  LET ask == p.ask
      selected == Range(p.selected)
      spilled == Range(p.spilled)
      capped == ask.capacity # NoCapacity
      mandated == {u \in Assessed(ask) : Mandated(u, ask)}
      daysOf(S) == SumFunctionOnSet([u \in Names |-> profile[u].days], S)
  IN /\ selected \union spilled = Assessed(ask)
     /\ Len(p.selected) + Len(p.spilled) = Cardinality(Assessed(ask))
     /\ capped => /\ mandated \subseteq selected
                  /\ daysOf(selected) > Available(ask.capacity) =>
                       daysOf(mandated) > Available(ask.capacity)
     /\ \A u \in spilled :
          /\ \/ Len(p.selected) >= ask.topN
             \/ capped /\ daysOf(selected) + profile[u].days > Available(ask.capacity)
          /\ \A v \in selected : Before(u, v, ask) => profile[v].days < profile[u].days

LEMMA DrawnHonest ==
  ASSUME PlanSettings, NEW p, Drawn(p)
  PROVE  Honest(p)
<1>1. PICK ask, A, mandated : ask = p.ask /\ A = Assessed(ask) /\ mandated = MandatedIn(A, ask)
  OBVIOUS
<1>2. PICK selected, spilled : selected = Range(p.selected) /\ spilled = Range(p.spilled)
  OBVIOUS
<1>3. Sensible(ask) /\ Good(p, ask, A, Cardinality(A))
  BY <1>1 DEF Drawn
<1>4. /\ selected \union spilled = A /\ Len(p.selected) + Len(p.spilled) = Cardinality(A)
      /\ p.used = SumOf(Days, selected) /\ p.used \in Nat /\ p.remaining \in Nat
  BY <1>2, <1>3 DEF Good
<1>5. /\ SumFunctionOnSet([u \in Names |-> profile[u].days], selected) = SumOf(Days, selected)
      /\ SumFunctionOnSet([u \in Names |-> profile[u].days], mandated) = SumOf(Days, mandated)
  BY SumIsSumOf DEF Days
<1>6. ASSUME ask.capacity # NoCapacity
      PROVE  /\ mandated \subseteq selected
             /\ SumOf(Days, selected) > Available(ask.capacity) =>
                  SumOf(Days, mandated) > Available(ask.capacity)
  BY <1>1, <1>2, <1>3, <1>4, <1>6 DEF Good
<1>7. ASSUME NEW u \in spilled
      PROVE  /\ \/ Len(p.selected) >= ask.topN
                \/ ask.capacity # NoCapacity /\ SumOf(Days, selected) + profile[u].days > Available(ask.capacity)
             /\ \A v \in selected : Before(u, v, ask) => profile[v].days < profile[u].days
  <2>1. /\ \/ Len(p.selected) >= ask.topN
           \/ ask.capacity # NoCapacity /\ profile[u].days > p.remaining
        /\ \A v \in selected : Before(u, v, ask) => profile[v].days < profile[u].days
    BY <1>2, <1>3, <1>7 DEF Good
  <2>2. ASSUME ask.capacity # NoCapacity, profile[u].days > p.remaining
        PROVE  SumOf(Days, selected) + profile[u].days > Available(ask.capacity)
    <3>1. u \in Names /\ profile[u].days \in Nat
      BY <1>1, <1>4, AssessedFacts, ProfileFacts
    <3>2. PICK all \in Nat : all = Available(ask.capacity)
      BY <1>3, <2>2 DEF Sensible
    <3>3. p.remaining = IF all > p.used THEN all - p.used ELSE 0
      BY <1>3, <2>2, <3>2 DEF Good
    <3>4. QED
      BY <1>4, <2>2, <3>1, <3>2, <3>3
  <2>3. QED
    BY <2>1, <2>2
<1>8. mandated = {u \in A : Mandated(u, ask)}
  BY <1>1 DEF MandatedIn
<1>9. QED
  BY <1>1, <1>2, <1>4, <1>5, <1>6, <1>7, <1>8 DEF Honest

\* Nothing but the entities' rows enters into it.
LEMMA SameProfile ==
  ASSUME profile' = profile
  PROVE  /\ \A u, ask : Mandated(u, ask)' <=> Mandated(u, ask)
         /\ \A u, v, ask : Before(u, v, ask)' <=> Before(u, v, ask)
         /\ \A ask : Assessed(ask)' = Assessed(ask)
         /\ Days' = Days
<1>1. \A u, ask : Mandated(u, ask)' <=> Mandated(u, ask)
  BY DEF Mandated
<1>2. \A u : Overdue(u)' <=> Overdue(u)
  BY DEF Overdue
<1>3. \A u, ask : Group(u, ask)' = Group(u, ask)
  BY <1>1, <1>2 DEF Group
<1>4. \A u, v, ask : Before(u, v, ask)' <=> Before(u, v, ask)
  BY <1>3 DEF Before
<1>5. \A u : Readiness(u)' = Readiness(u)
  BY DEF Readiness
<1>6. \A ask : Assessed(ask)' = Assessed(ask)
  BY <1>5 DEF Assessed
<1>7. Days' = Days
  BY DEF Days
<1>8. QED
  BY <1>1, <1>4, <1>6, <1>7

LEMMA DrawnKept ==
  ASSUME profile' = profile, NEW p, Drawn(p)
  PROVE  Drawn(p)'
<1>1. PICK ask, A : ask = p.ask /\ A = Assessed(ask)
  OBVIOUS
<1>2. PICK n : n = Cardinality(A)
  OBVIOUS
<1>3. Assessed(ask)' = A
  BY <1>1, SameProfile
<1>4. \A S : MandatedIn(S, ask)' = MandatedIn(S, ask)
  BY SameProfile DEF MandatedIn
<1>5. Good(p, ask, A, n)' <=> Good(p, ask, A, n)
  BY <1>4, SameProfile DEF Good
<1>6. Good(p, ask, A, n)'
  BY <1>1, <1>2, <1>5 DEF Drawn
<1>7. QED
  BY <1>1, <1>2, <1>3, <1>6 DEF Drawn, Sensible

-----------------------------------------------------------------------------
(* Drafts and their numbers. *)

\* With no other draft or deletion on its way, drafts are numbered through.
Numbered ==
  /\ \A i \in DOMAIN drafts : drafts[i] = i
  /\ \A w \in Planner : filing[w] = 0 \/ filing[w] = Len(drafts) + 1

PlanInv ==
  /\ PlanSettings /\ alone \in BOOLEAN
  /\ drafts \in Seq(Nat \ {0}) /\ filing \in [Planner -> 0..MaxDrafts + 1]
  /\ plan = NoPlan \/ Drawn(plan)
  /\ alone => Numbered

LEMMA PlanInitInv == PlanInit => PlanInv
<1>1. SUFFICES ASSUME PlanInit PROVE PlanInv
  OBVIOUS
<1>2. /\ PlanSettings /\ drafts = <<>> /\ filing = [w \in Planner |-> 0] /\ plan = NoPlan /\ alone = TRUE
  BY <1>1 DEF PlanInit, PlanSettings
<1>3. drafts \in Seq(Nat \ {0}) /\ filing \in [Planner -> 0..MaxDrafts + 1] /\ Numbered
  BY <1>2, AuditPlansAssumption DEF Numbered
<1>4. alone \in BOOLEAN
  BY <1>2
<1>5. QED
  BY <1>2, <1>3, <1>4 DEF PlanInv

LEMMA PlanFacts ==
  ASSUME PlanInv
  PROVE  /\ PlanSettings /\ alone \in BOOLEAN /\ drafts \in Seq(Nat \ {0})
         /\ filing \in [Planner -> 0..MaxDrafts + 1] /\ Len(drafts) \in Nat /\ MaxDrafts \in Nat
         /\ alone => Numbered
  BY AuditPlansAssumption DEF PlanInv

\* A step that keeps the plan.
LEMMA FilesStep ==
  ASSUME PlanInv, UNCHANGED <<profile, plan>>, alone' \in BOOLEAN, drafts' \in Seq(Nat \ {0}),
         filing' \in [Planner -> 0..MaxDrafts + 1], alone' => Numbered'
  PROVE  PlanInv'
<1>1. PICK p : p = plan
  OBVIOUS
<1>2. p = NoPlan \/ Drawn(p)
  BY <1>1 DEF PlanInv
<1>3. p = NoPlan \/ Drawn(p)'
  BY <1>2, DrawnKept
<1>4. (plan = NoPlan \/ Drawn(plan))'
  <2>1. plan' = p
    BY <1>1
  <2>2. CASE p = NoPlan
    BY <2>1, <2>2 DEF NoPlan
  <2>3. CASE Drawn(p)'
    BY <2>1, <2>3 DEF Drawn
  <2>4. QED
    BY <1>3, <2>2, <2>3
<1>5. PlanSettings'
  BY PlanFacts DEF PlanSettings
<1>6. QED
  BY <1>4, <1>5 DEF PlanInv

LEMMA DrawUpStep ==
  ASSUME PlanInv, NEW w \in Planner, NEW ask \in Asks, DrawUp(w, ask)
  PROVE  PlanInv'
<1>1. /\ filing[w] = 0 /\ Len(drafts) < MaxDrafts /\ plan' = Select(ask)
      /\ filing' = [filing EXCEPT ![w] = Len(drafts) + 1] /\ UNCHANGED <<profile, drafts, alone>>
  BY DEF DrawUp
<1>2. Drawn(Select(ask))
  BY PlanFacts, SelectDrawn DEF DrawUp
<1>3. PICK p : p = Select(ask)
  OBVIOUS
<1>4. Drawn(p)'
  BY <1>1, <1>2, <1>3, DrawnKept
<1>5. (plan = NoPlan \/ Drawn(plan))'
  BY <1>1, <1>3, <1>4 DEF Drawn
<1>6. PlanSettings' /\ filing' \in [Planner -> 0..MaxDrafts + 1]
  BY <1>1, PlanFacts DEF PlanSettings
<1>7. (alone => Numbered)'
  BY <1>1, PlanFacts DEF Numbered
<1>8. QED
  BY <1>1, <1>5, <1>6, <1>7, PlanFacts DEF PlanInv

LEMMA FileStep ==
  ASSUME PlanInv, NEW w \in Planner, File(w)
  PROVE  PlanInv'
<1>1. /\ filing[w] # 0 /\ drafts' = Append(drafts, filing[w]) /\ filing' = [filing EXCEPT ![w] = 0]
      /\ alone' = (alone /\ \A x \in Planner \ {w} : filing[x] = 0) /\ UNCHANGED <<profile, plan>>
  BY DEF File
<1>2. filing[w] \in Nat \ {0} /\ drafts' \in Seq(Nat \ {0}) /\ filing' \in [Planner -> 0..MaxDrafts + 1]
  BY <1>1, PlanFacts
<1>3. alone' \in BOOLEAN
  BY <1>1
<1>4. ASSUME alone' PROVE Numbered'
  <2>1. alone /\ Numbered /\ \A x \in Planner \ {w} : filing[x] = 0
    BY <1>1, <1>4, PlanFacts
  <2>2. PICK n \in Nat : n = Len(drafts)
    BY PlanFacts
  <2>3. /\ filing[w] = n + 1 /\ DOMAIN drafts = 1..n /\ DOMAIN drafts' = 1..n+1
        /\ drafts'[n + 1] = n + 1 /\ \A i \in 1..n : drafts'[i] = drafts[i]
    BY <1>1, <1>2, <2>1, <2>2, PlanFacts DEF Numbered
  <2>4. \A i \in 1..n+1 : i \in 1..n \/ i = n + 1
    OBVIOUS
  <2>5. \A i \in DOMAIN drafts' : drafts'[i] = i
    BY <2>1, <2>3, <2>4 DEF Numbered
  <2>6. \A x \in Planner : filing'[x] = 0
    BY <1>1, <2>1, PlanFacts
  <2>7. QED
    BY <2>5, <2>6 DEF Numbered
<1>5. QED
  BY <1>1, <1>2, <1>3, <1>4, FilesStep

LEMMA DiscardStep ==
  ASSUME PlanInv, NEW i \in DOMAIN drafts, Discard(i)
  PROVE  PlanInv'
<1>1. PICK n \in Nat : n = Len(drafts)
  BY PlanFacts
<1>2. /\ drafts' = RemoveAt(drafts, i)
      /\ alone' = (alone /\ i = n /\ \A w \in Planner : filing[w] = 0)
      /\ UNCHANGED <<profile, plan, filing>>
  BY <1>1 DEF Discard
<1>3. i \in 1..n /\ n \in 1..n /\ DOMAIN drafts = 1..n
  BY <1>1, PlanFacts
<1>4. PICK a, b : a = SubSeq(drafts, 1, i - 1) /\ b = SubSeq(drafts, i + 1, n)
  OBVIOUS
<1>5. a \in Seq(Nat \ {0}) /\ b \in Seq(Nat \ {0})
  <2>1. /\ \A k \in 1..(i - 1) : drafts[k] \in Nat \ {0}
        /\ \A k \in (i + 1)..n : drafts[k] \in Nat \ {0}
    BY <1>1, <1>3, PlanFacts
  <2>2. QED
    BY <1>1, <1>3, <1>4, <2>1, PlanFacts
<1>6. drafts' = a \o b /\ drafts' \in Seq(Nat \ {0})
  BY <1>1, <1>2, <1>4, <1>5 DEF RemoveAt
<1>7. alone' \in BOOLEAN
  BY <1>2
<1>8. ASSUME alone' PROVE Numbered'
  <2>1. alone /\ Numbered /\ i = n /\ \A w \in Planner : filing[w] = 0
    BY <1>2, <1>8, PlanFacts
  <2>2. /\ Len(a) = n - 1 /\ Len(b) = 0 /\ \A k \in 1..n-1 : a[k] = drafts[k]
    BY <1>1, <1>3, <1>4, <2>1, PlanFacts
  <2>3. Len(drafts') = n - 1 /\ \A k \in 1..n-1 : drafts'[k] = a[k]
    BY <1>3, <1>5, <1>6, <2>2
  <2>4. DOMAIN drafts' = 1..n-1
    BY <1>6, <2>3
  <2>5. \A k \in 1..n-1 : drafts'[k] = k
    BY <1>3, <2>1, <2>2, <2>3 DEF Numbered
  <2>6. QED
    BY <1>2, <2>1, <2>4, <2>5 DEF Numbered
<1>9. QED
  BY <1>2, <1>6, <1>7, <1>8, PlanFacts, FilesStep

LEMMA PlanStep == PlanInv /\ [PlanNext]_planVars => PlanInv'
<1>1. SUFFICES ASSUME PlanInv, [PlanNext]_planVars PROVE PlanInv'
  OBVIOUS
<1>2. CASE \E w \in Planner, ask \in Asks : DrawUp(w, ask)
  BY <1>1, <1>2, DrawUpStep
<1>3. CASE \E w \in Planner : File(w)
  BY <1>1, <1>3, FileStep
<1>4. CASE \E i \in DOMAIN drafts : Discard(i)
  BY <1>1, <1>4, DiscardStep
<1>5. CASE UNCHANGED planVars
  <2>1. UNCHANGED <<profile, plan>> /\ drafts' = drafts /\ filing' = filing /\ alone' = alone
    BY <1>5 DEF planVars
  <2>2. alone' => Numbered'
    BY <1>1, <2>1, PlanFacts DEF Numbered
  <2>3. QED
    BY <1>1, <2>1, <2>2, PlanFacts, FilesStep
<1>6. QED
  BY <1>1, <1>2, <1>3, <1>4, <1>5 DEF PlanNext

LEMMA PlanInvariant == PlanSpec => []PlanInv
  BY PlanInitInv, PlanStep, PTL DEF PlanSpec

-----------------------------------------------------------------------------
\* Plans, drafts and the requests that file them keep their types; whatever the
\* rows, the capacity and the gate, a plan uses up a natural number of days.
THEOREM PlanTypesHold == PlanSpec => []PlanTypeOK
<1>1. PlanInv => PlanTypeOK
  <2>1. SUFFICES ASSUME PlanInv PROVE PlanTypeOK
    OBVIOUS
  <2>2. ASSUME plan # NoPlan
        PROVE  /\ plan.ask \in Asks /\ plan.used \in Nat /\ plan.remaining \in Nat
               /\ Range(plan.selected) \union Range(plan.spilled) \subseteq Names
    BY <2>1, <2>2, AssessedFacts DEF PlanInv, Drawn, Good
  <2>3. QED
    BY <2>1, <2>2, PlanFacts DEF PlanTypeOK, PlanSettings
<1>2. QED
  BY <1>1, PlanInvariant, PTL

\* Every plan drawn up, for any entities and any request, is honest about what it
\* left out and why; drafts of a year that did not overlap have different numbers.
THEOREM PlansAreHonest == PlanSpec => []PlanHonest
<1>1. PlanInv => PlanHonest
  <2>1. SUFFICES ASSUME PlanInv PROVE PlanHonest
    OBVIOUS
  <2>2. alone => IsInjective(drafts)
    BY <2>1, PlanFacts DEF Numbered, IsInjective
  <2>3. ASSUME plan # NoPlan PROVE Honest(plan)
    BY <2>1, <2>3, PlanFacts, DrawnHonest DEF PlanInv
  <2>4. QED
    BY <2>2, <2>3 DEF PlanHonest, Honest
<1>2. QED
  BY <1>1, PlanInvariant, PTL

-----------------------------------------------------------------------------
(***************************************************************************)
(* All of it at once.                                                      *)
(***************************************************************************)

\* A step is one of each module, or leaves it alone.
LEMMA StepOfEach ==
  ASSUME [AssuranceNext]_assuranceVars
  PROVE  /\ [ScoreNext]_scoreVars /\ [ModelNext]_modelVars /\ [PlanNext]_planVars
         /\ [CsaNext]_csaVars /\ [IcfrNext]_icfrVars /\ [EngagementNext]_engagementVars
         /\ [IntegrationsNext]_integrationVars
         /\ [TreeNext]_treeVars /\ [MaterialityNext]_keepVars
<1> USE DEF riskVars, testVars, registerVars
<1>1. CASE ScoreMoves \/ ModelMoves \/ PlanMoves
  BY <1>1 DEF ScoreMoves, ModelMoves, PlanMoves, RiskOnly
<1>2. CASE CsaMoves \/ IcfrMoves \/ EngagementMoves
  BY <1>2 DEF CsaMoves, IcfrMoves, EngagementMoves, TestsOnly
<1>3. CASE InboundMoves \/ OutboundMoves
  <2>1. IntegrationsNext
    BY <1>3 DEF InboundMoves, OutboundMoves, IntegrationsNext
  <2>2. IntegrationsOnly
    BY <1>3 DEF InboundMoves, OutboundMoves
  <2>3. QED
    BY <2>1, <2>2 DEF IntegrationsOnly
<1>4. CASE TreeMoves \/ MaterialityMoves
  BY <1>4 DEF TreeMoves, MaterialityMoves, RegisterOnly
<1>5. CASE UNCHANGED assuranceVars
  BY <1>5 DEF assuranceVars
<1>6. QED
  BY <1>1, <1>2, <1>3, <1>4, <1>5 DEF AssuranceNext

\* A behaviour of all of it is one of each module, the others' steps aside: what
\* is proved of a module holds with the others at work.
THEOREM AssuranceComposes ==
  AssuranceSpec => /\ ScoreSpec /\ ModelSpec /\ PlanSpec
                   /\ CsaSpec /\ IcfrSpec /\ EngagementSpec
                   /\ IntegrationsSpec /\ TreeSpec /\ MaterialitySpec
<1>1. AssuranceInit => /\ ScoreInit /\ ModelInit /\ PlanInit /\ CsaInit /\ IcfrInit
                       /\ IntegrationsInit /\ EngagementInit /\ TreeInit /\ MaterialityInit
  BY DEF AssuranceInit
<1>2. QED
  BY <1>1, StepOfEach, PTL
     DEF AssuranceSpec, ScoreSpec, ModelSpec, PlanSpec, CsaSpec, IcfrSpec, EngagementSpec,
         IntegrationsSpec, TreeSpec, MaterialitySpec

\* The scores, plans, answers, verdicts, deliveries, reports, rows and figures are
\* of their types, whatever the handlers of all the modules do.
THEOREM AssuranceTypesHold == AssuranceSpec => []TypesOK
<1>1. /\ ScoreTypeOK /\ ModelTypeOK /\ PlanTypeOK /\ CsaTypeOK /\ IcfrTypeOK
      /\ IntegrationsTypeOK /\ EngagementTypeOK /\ TreeTypeOK /\ MaterialityTypeOK
      => TypesOK
  BY DEF TypesOK
<1>2. QED
  BY <1>1, AssuranceComposes, ScoreTypesHold, ModelTypesHold, PlanTypesHold, CsaTypesHold,
     IcfrTypesHold, IntegrationTypesHold, EngagementTypesHold, TreeTypesHold,
     MaterialityTypesHold, PTL

\* The register shows the tree as TreeHolds says, archived rows included, and each
\* entity by the figure that is its own, however edits, imports, changes of status,
\* backfills and refreshes overlap.
THEOREM RegisterStands == AssuranceSpec => []RegisterHolds
<1>1. TreeHolds /\ CacheInStep => RegisterHolds
  BY DEF RegisterHolds
<1>2. QED
  BY <1>1, AssuranceComposes, TreeStands, CachesInStep, PTL

=============================================================================
