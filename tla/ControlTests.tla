---- MODULE ControlTests ----
(***************************************************************************)
(* ICFR (iams/icfr.py): one test of a control, the conclusions management  *)
(* and the auditor record on it, and its deficiency report.  Recording a   *)
(* result saves only the fields it sets, in one transaction with the draft *)
(* deficiency; a PATCH of the test saves every column.                     *)
(***************************************************************************)
EXTENDS Naturals

CONSTANTS Tester, NoReport

ASSUME ControlTestsAssumption == NoReport \notin {"draft", "open", "remediating", "closed"}

Conclusions == {"not_tested", "effective", "deficient"}
Roles == {"management", "auditor"}
Tests == [status : {"planned", "in_progress", "completed"}, management : Conclusions, auditor : Conclusions]
Reports == {NoReport, "draft", "open", "remediating", "closed"}

VARIABLES
  test,        \* the ControlTest row
  report,      \* the status of its DeficiencyReport, or NoReport
  testing,     \* what each process is doing with them
  raced,       \* history: a result was saved over another one it had not seen
  overridden   \* history: the test was posted with a verdict, a PATCH changed the
               \* verdict or the status, or a report was deleted or moved to another test

icfrVars == <<test, report, testing, raced, overridden>>

NotTesting == [stage |-> "none"]
Jobs == {NotTesting}
  \union [stage : {"loaded", "saved"}, role : Roles, conclusion : Conclusions, planned : BOOLEAN, fresh : BOOLEAN]
  \union [stage : {"patch"}, saw : Tests]
  \union [stage : {"opening", "closing", "editing"}]

IcfrTypeOK ==
  /\ test \in Tests /\ report \in Reports
  /\ testing \in [Tester -> Jobs]
  /\ raced \in BOOLEAN /\ overridden \in BOOLEAN

\* The POST of the test may bring any status and conclusions; a verdict of the
\* auditor it brings is one that was entered by hand.
IcfrInit ==
  /\ test \in Tests /\ overridden = (test.auditor # "not_tested")
  /\ report = NoReport /\ testing = [w \in Tester |-> NotTesting]
  /\ raced = FALSE

AtRest(w) == testing[w] = NotTesting
Start(w, job) ==
  /\ AtRest(w) /\ testing' = [testing EXCEPT ![w] = job]
  /\ UNCHANGED <<test, report, raced, overridden>>

----
\* conclusion: the auditor's, when there is one.
Conclusion == IF test.auditor # "not_tested" THEN test.auditor ELSE test.management

\* POST record-result: the row as loaded.
BeginRecord(w, role, conclusion) ==
  Start(w, [stage |-> "loaded", role |-> role, conclusion |-> conclusion,
            planned |-> test.status = "planned", fresh |-> TRUE])

\* test.save(update_fields=...): the row is locked until the end.
SaveResult(w) ==
  /\ testing[w].stage = "loaded"
  /\ \A x \in Tester : testing[x].stage # "saved"
  /\ testing' = [testing EXCEPT ![w].stage = "saved"]
  /\ UNCHANGED <<test, report, raced, overridden>>

\* What that save sets; the status goes by the row as loaded.
Recorded(w) ==
  LET h == testing[w]
      status == IF h.conclusion = "not_tested" THEN test.status
                ELSE IF h.role = "auditor" THEN "completed"
                ELSE IF h.planned THEN "in_progress" ELSE test.status
  IN IF h.role = "management" THEN [test EXCEPT !.management = h.conclusion, !.status = status]
     ELSE [test EXCEPT !.auditor = h.conclusion, !.status = status]

\* Faulty variant: a deficient verdict is recorded without a report.
CommitResultOnly(w) ==
  /\ testing[w].stage = "saved"
  /\ test' = Recorded(w)
  /\ testing' = [testing EXCEPT ![w] = NotTesting]
  /\ UNCHANGED <<report, raced, overridden>>

\* A deficient verdict ensures a report; both commit together.
CommitResult(w) ==
  /\ testing[w].stage = "saved"
  /\ test' = Recorded(w)
  /\ report' = IF testing[w].role = "auditor" /\ testing[w].conclusion = "deficient" /\ report = NoReport
               THEN "draft" ELSE report
  /\ testing' = [x \in Tester |->
       IF x = w THEN NotTesting
       ELSE IF testing[x].stage = "loaded" THEN [testing[x] EXCEPT !.fresh = FALSE] ELSE testing[x]]
  /\ raced' = (raced \/ ~testing[w].fresh)
  /\ UNCHANGED overridden

\* PATCH of the test: status and conclusions are writable, and whatever the
\* request does not mention is saved as it was loaded.
BeginPatchTest(w) == Start(w, [stage |-> "patch", saw |-> test])
CommitPatchTest(w, row) ==
  /\ testing[w].stage = "patch"
  /\ \A x \in Tester : testing[x].stage # "saved"
  /\ row \in {testing[w].saw} \union {[testing[w].saw EXCEPT !.auditor = c] : c \in Conclusions}
       \union {[testing[w].saw EXCEPT !.status = s] : s \in {"planned", "completed"}}
  /\ test' = row
  /\ testing' = [testing EXCEPT ![w] = NotTesting]
  /\ overridden' = (overridden \/ row # test)
  /\ UNCHANGED <<report, raced>>

----
\* open_deficiency and close_deficiency check the status they loaded.
BeginOpenReport(w) == report \in {"draft", "open"} /\ Start(w, [stage |-> "opening"])
BeginCloseReport(w) == report \in {"open", "remediating"} /\ Start(w, [stage |-> "closing"])
BeginEditReport(w) == report # NoReport /\ Start(w, [stage |-> "editing"])

\* A PATCH sets any status.
CommitReport(w, status) ==
  /\ report # NoReport
  /\ \/ testing[w].stage = "opening" /\ status = "open"
     \/ testing[w].stage = "closing" /\ status = "closed"
     \/ testing[w].stage = "editing" /\ status # NoReport
  /\ report' = status
  /\ testing' = [testing EXCEPT ![w] = NotTesting]
  /\ UNCHANGED <<test, raced, overridden>>

\* POST of a report (one per test), DELETE, or a PATCH of its testId.
CreateReport ==
  /\ report = NoReport /\ report' = "draft"
  /\ UNCHANGED <<test, testing, raced, overridden>>
LoseReport ==
  /\ report # NoReport /\ report' = NoReport /\ overridden' = TRUE
  /\ UNCHANGED <<test, testing, raced>>

\* An error, a row that is gone, a client that left: nothing is written.
AbandonTest(w) ==
  /\ ~AtRest(w) /\ testing' = [testing EXCEPT ![w] = NotTesting]
  /\ UNCHANGED <<test, report, raced, overridden>>

IcfrNext ==
  \/ \E w \in Tester :
       \/ \E role \in Roles, c \in Conclusions : BeginRecord(w, role, c)
       \/ SaveResult(w) \/ CommitResult(w) \/ AbandonTest(w)
       \/ BeginPatchTest(w) \/ \E row \in Tests : CommitPatchTest(w, row)
       \/ BeginOpenReport(w) \/ BeginCloseReport(w) \/ BeginEditReport(w)
       \/ \E status \in Reports : CommitReport(w, status)
  \/ CreateReport \/ LoseReport

IcfrSpec == IcfrInit /\ [][IcfrNext]_icfrVars

----
\* Whoever records results at the same time, a deficient verdict of the auditor
\* has its deficiency report and is the conclusion of the test; and a test the
\* auditor has concluded is completed, unless a result was saved over another.
\* Both until somebody overrides them by hand.
VerdictStands ==
  ~overridden =>
    /\ test.auditor = "deficient" => report # NoReport /\ Conclusion = "deficient"
    /\ ~raced /\ test.auditor # "not_tested" => test.status = "completed"
====
