---- MODULE BackgroundJobs ----
(***************************************************************************)
(* Work handed to the queue as a job row: the import of entities, the      *)
(* import of a risk-assessment workbook (iams/tasks) and the rendering of  *)
(* a report (iams/tasks/reports.py, iams/reports).  The task runs outside  *)
(* a transaction, so that the savepoint around a row of a lenient import   *)
(* is none and each write commits by itself; a strict one is a single      *)
(* transaction.  The message is acknowledged late: when the worker dies it *)
(* may be delivered again.                                                 *)
(***************************************************************************)
EXTENDS Integers, Sequences, FiniteSets

CONSTANTS
  Job,
  Uploads,   \* what may be asked for
  FileRows,  \* rows a file may have
  MaxNamed,  \* bound on the entities of the same name
  MaxEdits,  \* bound on the records edited at once
  NoJob, NotRunning

JobKinds == {"entities", "workbook", "report"}

\* How a row of the file says which entity it is about: by its external key, by
\* name alone, by name and with a rating override, or not at all.
RowKinds == {"keyed", "named", "pinned", "bad"}

ASSUME BackgroundJobsAssumption ==
  /\ Uploads \subseteq [kind : JobKinds, strict : BOOLEAN, link : BOOLEAN, file : Seq(RowKinds)]
  /\ \A u \in Uploads : Len(u.file) <= FileRows
  /\ FileRows \in Nat /\ MaxNamed \in Nat

VARIABLES
  jobs,       \* the job rows
  message,    \* jobs with a message on the broker that nobody acknowledged
  runs,       \* the task at work on each job
  entities,   \* how many entities the key and the name stand for
  records,    \* workbook records: job and row
  summaries,  \* how many summary items each record has
  storage,    \* jobs with a rendered file
  ready,      \* jobs whose requester was told the report is ready
  written,    \* history: rows a job created and updated
  split,      \* history: jobs of which a row was saved without all that goes with it
  again,      \* history: report jobs that ran more than once
  overlapped, \* history: two summaries were rebuilt at once
  edits,      \* records a PATCH has loaded and not saved yet
  revived     \* history: records such a PATCH inserted again, not summarised since

jobVars == <<jobs, message, runs, entities, records, summaries, storage, ready,
             written, split, again, overlapped, edits, revived>>

Outcome == [created : Nat, updated : Nat, skipped : Nat]
NoOutcome == [created |-> 0, updated |-> 0, skipped |-> 0]
JobStatuses == {"Pending", "Importing", "Completed", "PartialSuccess", "Failed"}
RecordKeys == Job \X (1..FileRows)

JobRows == [upload : Uploads, status : JobStatuses, outcome : Outcome]

\* Where a task is: in the rows of its file, past them, or at a report.
RowStages == {"row", "save", "extra"}
AfterStages == {"look", "summarise", "finish"}
ReportStages == {"render", "notify"}
RunRows ==
  [stage : RowStages \union AfterStages \union ReportStages, at : Nat \ {0}, outcome : Outcome,
   found : BOOLEAN, keyed : 0..1, named : Nat, bare : SUBSET RecordKeys]

ASSUME NoneAssumption == NoJob \notin JobRows /\ NotRunning \notin RunRows

JobTypeOK ==
  /\ jobs \in [Job -> JobRows \union {NoJob}]
  /\ message \subseteq Job
  /\ runs \in [Job -> RunRows \union {NotRunning}]
  /\ entities \in [keyed : 0..1, named : 0..MaxNamed]
  /\ records \subseteq RecordKeys
  /\ summaries \in [RecordKeys -> Nat]
  /\ storage \subseteq Job /\ ready \subseteq Job
  /\ written \in [Job -> Outcome]
  /\ split \subseteq Job /\ again \subseteq Job /\ overlapped \in BOOLEAN
  /\ edits \subseteq RecordKeys /\ revived \subseteq RecordKeys

JobInit ==
  /\ jobs = [j \in Job |-> NoJob] /\ message = {} /\ runs = [j \in Job |-> NotRunning]
  /\ entities = [keyed |-> 0, named |-> 0]
  /\ records = {} /\ summaries = [k \in RecordKeys |-> 0]
  /\ storage = {} /\ ready = {}
  /\ written = [j \in Job |-> NoOutcome]
  /\ split = {} /\ again = {} /\ overlapped = FALSE
  /\ edits = {} /\ revived = {}

jobHistory == <<written, split, again, overlapped>>
patches == <<edits, revived>>
importTables == <<entities, records, summaries>>
reportFiles == <<storage, ready>>

Running(j, stage) == runs[j] # NotRunning /\ runs[j].stage = stage
Ask(j) == jobs[j].upload
Strict(j) == Ask(j).strict
Kind(j) == Ask(j).kind
FileRow(j) == Ask(j).file[runs[j].at]
Goes(j, run) == runs' = [runs EXCEPT ![j] = run]
To(j, stage) == Goes(j, [runs[j] EXCEPT !.stage = stage])
Counted(o, field) == [o EXCEPT ![field] = @ + 1]

\* On to the next row, with one more counted.
NextRow(j, field) ==
  Goes(j, [runs[j] EXCEPT !.stage = "row", !.at = @ + 1, !.outcome = Counted(@, field)])

\* The job row is written and the task returns: the message is acknowledged.
Ends(j, status, outcome) ==
  /\ jobs' = [jobs EXCEPT ![j].status = status, ![j].outcome = outcome]
  /\ Goes(j, NotRunning) /\ message' = message \ {j}

\* A strict import rolls back: what it wrote is gone.  The entity import clears
\* its counters, or calls every row it read skipped when the file is to blame;
\* the workbook's keeps counting the rows that were rolled back.
Abort(j, blamed) ==
  /\ Ends(j, "Failed", IF Kind(j) = "workbook" THEN runs[j].outcome
                       ELSE [NoOutcome EXCEPT !.skipped = IF blamed THEN runs[j].at ELSE 0])
  /\ written' = [written EXCEPT ![j] = NoOutcome]
  /\ UNCHANGED <<importTables, reportFiles, split, again, overlapped, patches>>

\* A row that is refused, or cannot be saved.
SkipRow(j, blamed) ==
  IF Strict(j) THEN Abort(j, blamed)
  ELSE /\ NextRow(j, "skipped")
       /\ UNCHANGED <<jobs, message, importTables, reportFiles, jobHistory, patches>>

----
\* The request: the job row, then its message, which the broker may not take.
Upload(j, upload) ==
  /\ jobs[j] = NoJob
  /\ jobs' = [jobs EXCEPT ![j] = [upload |-> upload, status |-> "Pending", outcome |-> NoOutcome]]
  /\ message' \in {message, message \union {j}}
  /\ UNCHANGED <<runs, importTables, reportFiles, jobHistory, patches>>

\* Faulty variant: a redelivered import starts over.
StartTaskAnyway(j) ==
  /\ j \in message /\ runs[j] = NotRunning
  /\ jobs' = [jobs EXCEPT ![j].status = "Importing"]
  /\ Goes(j, [stage |-> IF Kind(j) = "report" THEN "render" ELSE "row", at |-> 1,
              outcome |-> NoOutcome, found |-> FALSE, keyed |-> 0, named |-> 0, bare |-> {}])
  /\ UNCHANGED <<message, importTables, reportFiles, jobHistory, patches>>

\* The task starts.  An import that is not pending any more is left alone; a
\* report is rendered again.
StartTask(j) ==
  /\ j \in message /\ runs[j] = NotRunning
  /\ IF Kind(j) # "report" /\ jobs[j].status # "Pending"
     THEN message' = message \ {j} /\ UNCHANGED <<jobs, runs, again>>
     ELSE /\ jobs' = [jobs EXCEPT ![j].status = "Importing"]
          /\ Goes(j, [stage |-> IF Kind(j) = "report" THEN "render" ELSE "row", at |-> 1,
                      outcome |-> NoOutcome, found |-> FALSE, keyed |-> 0, named |-> 0, bare |-> {}])
          /\ again' = IF jobs[j].status = "Pending" THEN again ELSE again \union {j}
          /\ UNCHANGED message
  /\ UNCHANGED <<importTables, reportFiles, written, split, overlapped, patches>>

\* A row of the entity import: is the entity there?  A row without a name, or one
\* the serializer refuses, is skipped.
MatchRow(j) ==
  /\ Running(j, "row") /\ Kind(j) = "entities" /\ runs[j].at <= Len(Ask(j).file)
  /\ IF FileRow(j) = "bad" THEN SkipRow(j, TRUE)
     ELSE LET here == IF FileRow(j) = "keyed" THEN entities.keyed + runs[j].keyed
                      ELSE entities.named + runs[j].named
          IN /\ Goes(j, [runs[j] EXCEPT !.stage = "save", !.found = here > 0])
             /\ UNCHANGED <<jobs, message, importTables, reportFiles, jobHistory, patches>>

\* Faulty variant: the key is not unique in the database.
KeyHeldNever(j) == FALSE

\* A strict transaction that holds the key makes another insert of it wait.
KeyHeld(j) == \E i \in Job \ {j} : runs[i] # NotRunning /\ runs[i].keyed > 0

\* Updated, or created: the key is unique in the database, the name is not.
SaveRow(j) ==
  /\ Running(j, "save") /\ Kind(j) = "entities"
  /\ LET field == IF runs[j].found THEN "updated" ELSE "created"
         adds == IF runs[j].found THEN 0 ELSE 1
         next == IF FileRow(j) = "pinned"
                 THEN [runs[j] EXCEPT !.stage = "extra"]
                 ELSE [runs[j] EXCEPT !.stage = "row", !.at = @ + 1, !.outcome = Counted(@, field)]
     IN IF FileRow(j) = "keyed"
        THEN /\ adds = 1 => ~KeyHeld(j)
             /\ IF adds = 1 /\ entities.keyed = 1 THEN SkipRow(j, FALSE)
                ELSE /\ Goes(j, IF Strict(j) THEN [next EXCEPT !.keyed = @ + adds] ELSE next)
                     /\ entities' = IF Strict(j) THEN entities ELSE [entities EXCEPT !.keyed = @ + adds]
                     /\ written' = [written EXCEPT ![j] = Counted(@, field)]
                     /\ UNCHANGED <<jobs, message, records, summaries, reportFiles, split, again, overlapped, patches>>
        ELSE /\ entities.named + adds <= MaxNamed
             /\ Goes(j, IF Strict(j) THEN [next EXCEPT !.named = @ + adds] ELSE next)
             /\ entities' = IF Strict(j) THEN entities ELSE [entities EXCEPT !.named = @ + adds]
             /\ written' = [written EXCEPT ![j] = Counted(@, field)]
             /\ UNCHANGED <<jobs, message, records, summaries, reportFiles, split, again, overlapped, patches>>

\* The rating override of the row, or the link of the record to the engine: a
\* write of its own.  When it fails the row is skipped, but what it saved stays: a
\* record deleted meanwhile cannot be linked.
Extra(j) ==
  /\ Running(j, "extra")
  /\ Kind(j) = "workbook" /\ ~Strict(j) => <<j, runs[j].at>> \in records
  /\ IF Kind(j) = "entities" THEN NextRow(j, IF runs[j].found THEN "updated" ELSE "created")
     ELSE Goes(j, [runs[j] EXCEPT !.stage = "row", !.at = @ + 1])
  /\ UNCHANGED <<jobs, message, importTables, reportFiles, jobHistory, patches>>
ExtraFails(j) ==
  /\ Running(j, "extra")
  /\ IF Strict(j) THEN Abort(j, FALSE)
     ELSE /\ NextRow(j, "skipped") /\ split' = split \union {j}
          /\ UNCHANGED <<jobs, message, importTables, reportFiles, written, again, overlapped, patches>>

\* The row's own write fails.
SaveFails(j) == Running(j, "save") /\ SkipRow(j, FALSE)

----
\* A row of the workbook: always a new record, counted before it is linked.
SaveRecord(j) ==
  /\ Running(j, "row") /\ Kind(j) = "workbook" /\ runs[j].at <= Len(Ask(j).file)
  /\ IF FileRow(j) = "bad" THEN SkipRow(j, TRUE)
     ELSE /\ Goes(j, [runs[j] EXCEPT !.stage = IF Ask(j).link THEN "extra" ELSE "row",
                        !.at = IF Ask(j).link THEN @ ELSE @ + 1,
                        !.outcome = Counted(@, "created")])
          /\ records' = IF Strict(j) THEN records ELSE records \union {<<j, runs[j].at>>}
          /\ written' = [written EXCEPT ![j] = Counted(@, "created")]
          /\ UNCHANGED <<jobs, message, entities, summaries, reportFiles, split, again, overlapped, patches>>

\* The file is done.  A strict import commits.
RowsDone(j) ==
  /\ Running(j, "row") /\ runs[j].at > Len(Ask(j).file)
  /\ IF Strict(j) THEN /\ entities' = [keyed |-> entities.keyed + runs[j].keyed,
                                       named |-> entities.named + runs[j].named]
                       /\ records' = IF Kind(j) = "workbook"
                                     THEN records \union ({j} \X DOMAIN Ask(j).file) ELSE records
                  ELSE UNCHANGED <<entities, records>>
  /\ entities'.named <= MaxNamed
  /\ Goes(j, [runs[j] EXCEPT !.stage = IF Kind(j) = "workbook" THEN "look" ELSE "finish",
                             !.keyed = 0, !.named = 0])
  /\ UNCHANGED <<jobs, message, summaries, reportFiles, jobHistory, patches>>

\* _rebuild_summary: the records, of any job, without a summary item,
LookForBare(j) ==
  /\ Running(j, "look")
  /\ Goes(j, [runs[j] EXCEPT !.stage = "summarise", !.bare = {k \in records : summaries[k] = 0}])
  /\ overlapped' = (overlapped \/ \E i \in Job \ {j} : Running(i, "summarise"))
  /\ UNCHANGED <<jobs, message, importTables, reportFiles, written, split, again, patches>>

\* then one item for each.  A record deleted meanwhile fails the insert, outside
\* the handler: the task ends and the job stays Importing.
Summarise(j) ==
  /\ Running(j, "summarise")
  /\ IF runs[j].bare \subseteq records
     THEN /\ summaries' = [k \in RecordKeys |-> summaries[k] + (IF k \in runs[j].bare THEN 1 ELSE 0)]
          /\ revived' = revived \ runs[j].bare
          /\ To(j, "finish") /\ UNCHANGED message
     ELSE Goes(j, NotRunning) /\ message' = message \ {j} /\ UNCHANGED <<summaries, revived>>
  /\ UNCHANGED <<jobs, entities, records, reportFiles, jobHistory, edits>>

\* The counters and the status are saved.
FinishImport(j) ==
  /\ Running(j, "finish")
  /\ Ends(j, IF runs[j].outcome.skipped > 0 THEN "PartialSuccess" ELSE "Completed", runs[j].outcome)
  /\ UNCHANGED <<importTables, reportFiles, jobHistory, patches>>

\* An error outside the rows: an unreadable file, the database.
ImportCrashes(j) ==
  /\ Running(j, "row")
  /\ IF Strict(j) THEN Abort(j, FALSE)
     ELSE /\ Ends(j, "Failed", IF Kind(j) = "workbook" THEN runs[j].outcome ELSE NoOutcome)
          /\ UNCHANGED <<importTables, reportFiles, jobHistory, patches>>

\* A record and its summary items are deleted through the API.
DeleteRecord(k) ==
  /\ k \in records
  /\ records' = records \ {k} /\ summaries' = [summaries EXCEPT ![k] = 0]
  /\ revived' = revived \ {k}
  /\ UNCHANGED <<jobs, message, runs, entities, reportFiles, jobHistory, edits>>

\* A record is edited: it is loaded,
EditRecord(k) ==
  /\ k \in records
  /\ edits' = edits \union {k} /\ Cardinality(edits') <= MaxEdits
  /\ UNCHANGED <<jobs, message, runs, importTables, reportFiles, jobHistory, revived>>

\* and saved with every column: one deleted meanwhile is inserted again, without
\* the summary items that went with it.  Another PATCH may have it loaded still.
SaveEdit(k) ==
  /\ k \in edits
  /\ edits' \in {edits, edits \ {k}}
  /\ records' = records \union {k}
  /\ revived' = IF k \in records THEN revived ELSE revived \union {k}
  /\ UNCHANGED <<jobs, message, runs, entities, summaries, reportFiles, jobHistory>>

----
\* BaseRenderer.run: the file is stored and the row points at it, or the job failed.
Render(j) ==
  /\ Running(j, "render")
  /\ storage' = storage \union {j}
  /\ jobs' = [jobs EXCEPT ![j].status = "Completed"]
  /\ To(j, "notify")
  /\ UNCHANGED <<message, importTables, ready, jobHistory, patches>>
RenderFails(j) ==
  /\ Running(j, "render")
  /\ jobs' = [jobs EXCEPT ![j].status = "Failed"]
  /\ To(j, "notify")
  /\ UNCHANGED <<message, importTables, reportFiles, jobHistory, patches>>

\* The requester is told, and the task returns.
Notify(j) ==
  /\ Running(j, "notify")
  /\ ready' = IF jobs[j].status = "Completed" THEN ready \union {j} ELSE ready
  /\ Goes(j, NotRunning) /\ message' = message \ {j}
  /\ UNCHANGED <<jobs, importTables, storage, jobHistory, patches>>

\* The worker dies, or an error escapes the task: an open transaction is rolled back, and the message is
\* delivered again or, when only the child process died, lost.
WorkerDies(j) ==
  /\ runs[j] # NotRunning
  /\ Goes(j, NotRunning)
  /\ message' \in {message, message \ {j}}
  /\ written' = IF Strict(j) /\ runs[j].stage \in RowStages
                THEN [written EXCEPT ![j] = NoOutcome] ELSE written
  /\ UNCHANGED <<jobs, importTables, reportFiles, split, again, overlapped, patches>>

JobNext ==
  \/ \E j \in Job :
       \/ \E u \in Uploads : Upload(j, u)
       \/ StartTask(j) \/ MatchRow(j) \/ SaveRow(j) \/ SaveFails(j) \/ Extra(j) \/ ExtraFails(j)
       \/ SaveRecord(j) \/ RowsDone(j) \/ LookForBare(j) \/ Summarise(j)
       \/ FinishImport(j) \/ ImportCrashes(j)
       \/ Render(j) \/ RenderFails(j) \/ Notify(j) \/ WorkerDies(j)
  \/ \E k \in RecordKeys : DeleteRecord(k) \/ EditRecord(k) \/ SaveEdit(k)

JobSpec == JobInit /\ [][JobNext]_jobVars

----
\* What a finished job says is so.  Its counters are the rows it wrote, unless a
\* row lost its override after it was saved; a strict import that failed left
\* nothing behind; every record of a finished workbook has its summary item, and
\* one only unless two were rebuilt at once, but one that a PATCH inserted again
\* waits for the next rebuild; a report said to be ready can be downloaded, unless
\* the message was delivered again.
Finished(j) == jobs[j] # NoJob /\ jobs[j].status \in {"Completed", "PartialSuccess"}
JobsTellTheTruth ==
  /\ \A j \in Job : Finished(j) /\ Kind(j) # "report" =>
       LET o == jobs[j].outcome IN
       j \notin split =>
         /\ o.created = written[j].created /\ o.updated = written[j].updated
         /\ o.created + o.updated + o.skipped = Len(Ask(j).file)
  /\ \A j \in Job : jobs[j] # NoJob /\ Kind(j) # "report" /\ Strict(j) /\ jobs[j].status = "Failed" =>
       written[j] = NoOutcome /\ \A k \in records : k[1] # j
  /\ \A k \in records : Finished(k[1]) =>
       /\ k \in revived \/ summaries[k] >= 1
       /\ ~overlapped => summaries[k] <= 1
  /\ \A j \in ready : j \in storage /\ (j \notin again => jobs[j].status = "Completed")
====
