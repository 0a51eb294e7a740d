---- MODULE Engagements ----
(***************************************************************************)
(* Engagements: the report of an audit and the audit's findings, which are *)
(* formally issued when the report becomes Final (iams/signals.py), the    *)
(* edits of both (iams/views/domain.py) and the scope an auditee has       *)
(* (iams/permissions.py).  Reading a row, reading the prior status in      *)
(* pre_save, writing the row and issuing the findings are separate         *)
(* commits; the approval path is one.                                      *)
(***************************************************************************)
EXTENDS Naturals, FiniteSets

CONSTANTS Writer, Finding, Audits, Unwritten, NoPatch

VARIABLES
  auditReport,     \* the audit report
  findings,   \* the finding rows
  writing,    \* the request each worker serves
  covered,    \* history: findings their audit held when its report became Final
  rewritten,  \* history: findings an edit moved, or an auditor's stale copy wrote back
  missed      \* history: an issuing was lost, or a report was written over a status
              \* that was no longer the captured one

engagementVars == <<auditReport, findings, writing, covered, rewritten, missed>>

ReportStatus == {"Draft", "In Review", "Final"}
\* mine: the department or the owner is the auditee's.
ReportRow == [status : ReportStatus, audit : Audits]
FindingRow == [audit : Audits, issued : BOOLEAN, mine : BOOLEAN]
NotWriting == [doing |-> "nothing"]
WriteJobs ==
  {NotWriting}
    \union [doing : {"saving"}, row : ReportRow]
    \union [doing : {"captured"}, row : ReportRow, prior : ReportStatus \union {NoPatch}]
    \union [doing : {"issuing"}, audit : Audits]
    \union [doing : {"editing"}, finding : Finding, row : FindingRow, who : {"auditor", "auditee"}]

ASSUME EngagementsAssumption == Unwritten \notin ReportRow \union FindingRow

EngagementTypeOK ==
  /\ auditReport \in ReportRow \union {Unwritten}
  /\ findings \in [Finding -> FindingRow \union {Unwritten}]
  /\ writing \in [Writer -> WriteJobs]
  /\ covered \subseteq Finding /\ rewritten \subseteq Finding /\ missed \in BOOLEAN

EngagementInit ==
  /\ auditReport = Unwritten
  /\ findings = [f \in Finding |-> Unwritten]
  /\ writing = [w \in Writer |-> NotWriting]
  /\ covered = {} /\ rewritten = {} /\ missed = FALSE

Writes(w, job) == writing' = [writing EXCEPT ![w] = job]
Status == IF auditReport = Unwritten THEN NoPatch ELSE auditReport.status
HeldBy(a) == {f \in Finding : findings[f] # Unwritten /\ findings[f].audit = a}

----
\* issue_findings_for_audit
Issued(a) == [f \in Finding |-> IF f \in HeldBy(a) THEN [findings[f] EXCEPT !.issued = TRUE] ELSE findings[f]]

\* POST, or PUT and PATCH over the row as the handler loaded it.
LoadReport(w, status, audit) ==
  /\ writing[w] = NotWriting
  /\ LET copy == IF auditReport = Unwritten THEN [status |-> "Draft", audit |-> audit] ELSE auditReport
     IN /\ auditReport = Unwritten => audit # NoPatch
        /\ Writes(w, [doing |-> "saving",
                     row |-> [status |-> IF status = NoPatch THEN copy.status ELSE status,
                              audit |-> IF audit = NoPatch THEN copy.audit ELSE audit]])
  /\ UNCHANGED <<auditReport, findings, covered, rewritten, missed>>

CapturePriorReportStatus(w) ==
  /\ writing[w].doing = "saving"
  /\ Writes(w, [doing |-> "captured", row |-> writing[w].row,
               prior |-> Status])
  /\ UNCHANGED <<auditReport, findings, covered, rewritten, missed>>

\* The row is written whole, and inserted again when it was deleted meanwhile.
SaveReport(w) ==
  /\ writing[w].doing = "captured"
  /\ LET row == writing[w].row
         turns == row.status = "Final" /\ Status # "Final"
     IN /\ auditReport' = row
        /\ covered' = IF turns THEN covered \union HeldBy(row.audit) ELSE covered
        /\ Writes(w, IF row.status = "Final" /\ writing[w].prior # "Final"
                    THEN [doing |-> "issuing", audit |-> row.audit] ELSE NotWriting)
        /\ missed' = (missed \/ writing[w].prior # Status)
  /\ UNCHANGED <<findings, rewritten>>

ReportFinalIssuesFindings(w) ==
  /\ writing[w].doing = "issuing"
  /\ findings' = Issued(writing[w].audit) /\ Writes(w, NotWriting)
  /\ UNCHANGED <<auditReport, covered, rewritten, missed>>

\* An error of the update is logged and swallowed; a death loses it too.
IssueLost(w) ==
  /\ writing[w].doing = "issuing"
  /\ missed' = TRUE /\ Writes(w, NotWriting)
  /\ UNCHANGED <<auditReport, findings, covered, rewritten>>

\* Faulty variant: update() skips the signals, and nobody issues the findings.
ReportApprovedOnly ==
  /\ auditReport # Unwritten
  /\ auditReport' = [auditReport EXCEPT !.status = "Final"]
  /\ covered' = IF auditReport.status = "Final" THEN covered ELSE covered \union HeldBy(auditReport.audit)
  /\ UNCHANGED <<findings, writing, rewritten, missed>>

\* The side effect of the approved request, inside the approval's transaction;
\* update() skips the signals and the findings are issued explicitly.
ReportApproved ==
  /\ auditReport # Unwritten
  /\ auditReport' = [auditReport EXCEPT !.status = "Final"]
  /\ findings' = Issued(auditReport.audit)
  /\ covered' = IF auditReport.status = "Final" THEN covered ELSE covered \union HeldBy(auditReport.audit)
  /\ UNCHANGED <<writing, rewritten, missed>>

DeleteReport ==
  /\ auditReport # Unwritten /\ auditReport' = Unwritten
  /\ UNCHANGED <<findings, writing, covered, rewritten, missed>>

----
\* The scope of an auditee whose role requires issuance: his department's or his
\* own findings, and of those the issued ones.
InScope(row) == row.mine /\ row.issued

\* An auditee's new finding is stamped with his department.
CreateFinding(f, who, a, mine) ==
  /\ findings[f] = Unwritten
  /\ findings' = [findings EXCEPT ![f] = [audit |-> a, issued |-> FALSE, mine |-> mine \/ who = "auditee"]]
  /\ UNCHANGED <<auditReport, writing, covered, rewritten, missed>>

LoadFinding(w, f, who) ==
  /\ writing[w] = NotWriting /\ findings[f] # Unwritten
  /\ who = "auditee" => InScope(findings[f])
  /\ Writes(w, [doing |-> "editing", finding |-> f, row |-> findings[f], who |-> who])
  /\ UNCHANGED <<auditReport, findings, covered, rewritten, missed>>

\* The whole copy is written, is_issued with it; a row deleted meanwhile comes back.
SaveFinding(w, audit, mine) ==
  /\ writing[w].doing = "editing"
  /\ LET f == writing[w].finding
         row == [writing[w].row EXCEPT
                   !.audit = IF audit = NoPatch THEN @ ELSE audit,
                   !.mine = mine \/ writing[w].who = "auditee"]
         takenBack == writing[w].who = "auditor" /\ findings[f] # Unwritten /\ findings[f].issued /\ ~row.issued
     IN /\ findings' = [findings EXCEPT ![f] = row]
        /\ rewritten' = IF takenBack \/ findings[f] = Unwritten \/ findings[f].audit # row.audit
                      THEN rewritten \union {f} ELSE rewritten
  /\ Writes(w, NotWriting)
  /\ UNCHANGED <<auditReport, covered, missed>>

DeleteFinding(f, who) ==
  /\ findings[f] # Unwritten
  /\ who = "auditee" => InScope(findings[f])
  /\ findings' = [findings EXCEPT ![f] = Unwritten]
  /\ covered' = covered \ {f}
  /\ UNCHANGED <<auditReport, writing, rewritten, missed>>

\* The handler fails or its worker dies before the write.
Abandon(w) ==
  /\ writing[w].doing \in {"saving", "captured", "editing"} /\ Writes(w, NotWriting)
  /\ UNCHANGED <<auditReport, findings, covered, rewritten, missed>>

EngagementNext ==
  \/ \E w \in Writer :
       \/ \E s \in ReportStatus \union {NoPatch}, a \in Audits \union {NoPatch} : LoadReport(w, s, a)
       \/ CapturePriorReportStatus(w) \/ SaveReport(w) \/ ReportFinalIssuesFindings(w) \/ IssueLost(w)
       \/ \E f \in Finding, who \in {"auditor", "auditee"} : LoadFinding(w, f, who)
       \/ \E a \in Audits \union {NoPatch}, mine \in BOOLEAN : SaveFinding(w, a, mine)
       \/ Abandon(w)
  \/ ReportApproved \/ DeleteReport
  \/ \E f \in Finding, who \in {"auditor", "auditee"} :
       \/ \E a \in Audits, mine \in BOOLEAN : CreateFinding(f, who, a, mine)
       \/ DeleteFinding(f, who)

EngagementSpec == EngagementInit /\ [][EngagementNext]_engagementVars

----
\* While no report was deleted or written between a save's look at the prior status
\* and its write, and no issuing is under way or was lost, every finding its
\* audit held when the report became Final is issued, whichever of two writers and
\* the approval got there first; except one moved to another audit, or written
\* back by an auditor who had loaded it before.  An auditee's edit never takes
\* the issuing back.
CoveredAreIssued ==
  (~missed /\ \A w \in Writer : writing[w].doing # "issuing") =>
    \A f \in covered \ rewritten : findings[f] # Unwritten /\ findings[f].issued
====
