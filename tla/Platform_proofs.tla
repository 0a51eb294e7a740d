---------------------------- MODULE Platform_proofs ----------------------------
(***************************************************************************)
(* Theorems about what runs outside a request: BackgroundJobs and          *)
(* Reminders, for every number of jobs, files, rows and workers; and about *)
(* all of Platform, with the accounts and sign-in of Accounts_proofs.      *)
(***************************************************************************)
EXTENDS Platform, Accounts_proofs, SequenceTheorems, TLAPS

-----------------------------------------------------------------------------
(* BackgroundJobs: the inductive invariant. *)

\* Where a task may be with its job.
Placed(job, run) ==
  LET kind == job.upload.kind
      len == Len(job.upload.file)
  IN /\ kind = "report" <=> run.stage \in ReportStages
     /\ run.stage # "notify" => job.status = "Importing"
     /\ run.stage = "save" => kind = "entities"
     /\ run.stage \in {"look", "summarise"} => kind = "workbook"
     /\ run.stage = "row" => run.at <= len + 1
     /\ run.stage \in {"save", "extra"} => run.at <= len
     /\ run.stage \in AfterStages => run.at = len + 1

\* An entity that waits for its override is written and not yet counted; a
\* record that waits for its link is counted already.
Uncounted(kind, run, found) ==
  IF run.stage = "extra" /\ kind = "entities" /\ run.found = found THEN 1 ELSE 0
Linking(kind, run) == IF run.stage = "extra" /\ kind = "workbook" THEN 1 ELSE 0
Total(o) == o.created + o.updated + o.skipped
Tallied(kind, run, w) ==
  /\ w.created = run.outcome.created + Uncounted(kind, run, FALSE)
  /\ w.updated = run.outcome.updated + Uncounted(kind, run, TRUE)
  /\ Total(run.outcome) + 1 = run.at + Linking(kind, run)

RunSound(j) ==
  runs[j] # NotRunning =>
    /\ jobs[j] # NoJob
    /\ Placed(jobs[j], runs[j])
    /\ Kind(j) # "report" /\ j \notin split => Tallied(Kind(j), runs[j], written[j])

\* No task has begun on the job.
Unrun(j) == jobs[j] = NoJob \/ jobs[j].status = "Pending"

JobSound(j) ==
  /\ j \in message => jobs[j] # NoJob
  /\ Unrun(j) => runs[j] = NotRunning /\ written[j] = NoOutcome
  /\ jobs[j] # NoJob /\ Kind(j) # "report" /\ Strict(j) /\ jobs[j].status = "Failed" =>
       written[j] = NoOutcome
  /\ Finished(j) /\ Kind(j) # "report" /\ j \notin split =>
       /\ jobs[j].outcome.created = written[j].created
       /\ jobs[j].outcome.updated = written[j].updated
       /\ Total(jobs[j].outcome) = Len(Ask(j).file)
  /\ Finished(j) /\ Kind(j) = "report" => j \in storage
  /\ j \in ready =>
       /\ jobs[j] # NoJob /\ Kind(j) = "report" /\ j \in storage
       /\ j \notin again => jobs[j].status = "Completed"

\* What a record says of the job that made it, also one that is deleted and that a
\* PATCH still holds.
Known == records \union edits
RecordSound(k) ==
  LET j == k[1] IN
  /\ ~Unrun(j) /\ Kind(j) = "workbook"
  /\ Strict(j) => jobs[j].status # "Failed" /\ (runs[j] # NotRunning => runs[j].stage \in AfterStages)
  /\ k \in records \ revived =>
       /\ Finished(j) \/ Running(j, "finish") => summaries[k] >= 1
       /\ Running(j, "summarise") => summaries[k] >= 1 \/ k \in runs[j].bare

\* One rebuild of the summary at a time gives a record one item at most.
Summarised ==
  ~overlapped =>
    /\ \A k \in RecordKeys : summaries[k] <= 1
    /\ \A i, j \in Job : Running(i, "summarise") /\ Running(j, "summarise") => i = j
    /\ \A j \in Job : Running(j, "summarise") => \A k \in runs[j].bare : summaries[k] = 0

\* The key is held by one strict import at most, and then no row has it yet.
Holds(j) == runs[j] # NotRunning /\ runs[j].keyed = 1
KeySound ==
  /\ \A j \in Job : Holds(j) => entities.keyed = 0 /\ ~KeyHeld(j)
  /\ \A j \in Job :
       Running(j, "save") /\ FileRow(j) = "keyed" /\ ~runs[j].found => runs[j].keyed = 0

RunsSound == \A j \in Job : RunSound(j)
JobsSound == \A j \in Job : JobSound(j)
RecordsSound == \A k \in Known : RecordSound(k)
JobInv == JobTypeOK /\ RunsSound /\ JobsSound /\ RecordsSound /\ Summarised /\ KeySound

-----------------------------------------------------------------------------
(* What a step that serves job j leaves to the others. *)

Others(j) ==
  /\ \A i \in Job \ {j} : jobs'[i] = jobs[i] /\ runs'[i] = runs[i] /\ written'[i] = written[i]
  /\ split \subseteq split' /\ split' \subseteq split \union {j}
  /\ again \subseteq again' /\ storage \subseteq storage' /\ edits' = edits
  /\ message' \subseteq message \union {j} /\ ready' \subseteq ready \union {j}

LEMMA OthersRuns ==
  ASSUME RunsSound, NEW j \in Job, Others(j), RunSound(j)'
  PROVE  RunsSound'
<1> SUFFICES ASSUME NEW i \in Job, i # j PROVE RunSound(i)'
  BY DEF RunsSound
<1>1. RunSound(i) /\ jobs'[i] = jobs[i] /\ runs'[i] = runs[i] /\ written'[i] = written[i]
      /\ (i \in split' <=> i \in split)
  BY DEF RunsSound, Others
<1>2. QED
  BY <1>1 DEF RunSound, Kind, Ask

LEMMA OthersJobs ==
  ASSUME JobsSound, NEW j \in Job, Others(j), JobSound(j)'
  PROVE  JobsSound'
<1> SUFFICES ASSUME NEW i \in Job, i # j PROVE JobSound(i)'
  BY DEF JobsSound
<1>1. JobSound(i) /\ jobs'[i] = jobs[i] /\ runs'[i] = runs[i] /\ written'[i] = written[i]
      /\ (i \in split' <=> i \in split) /\ (i \in message' => i \in message) /\ (i \in ready' => i \in ready)
      /\ (i \in storage => i \in storage') /\ (i \in again => i \in again')
  BY DEF JobsSound, Others
<1>2. QED
  BY <1>1 DEF JobSound, Kind, Ask, Strict, Finished, Unrun

\* A record of another job keeps what it says, if its summary items stay.
LEMMA OthersRecords ==
  ASSUME RecordsSound, records \subseteq RecordKeys, edits \subseteq RecordKeys,
         NEW j \in Job, Others(j),
         \A k \in records' : k \in records \/ k[1] = j,
         \A k \in records' : summaries[k] >= 1 \/ k \in revived \ revived' => summaries'[k] >= 1,
         \A k \in Known' : k[1] = j => RecordSound(k)'
  PROVE  RecordsSound'
<1> SUFFICES ASSUME NEW k \in Known', k[1] # j PROVE RecordSound(k)'
  BY DEF RecordsSound
<1>1. k \in Known /\ k[1] \in Job /\ (k \in records' => k \in records)
  BY DEF RecordKeys, Known, Others
<1>2. RecordSound(k) /\ jobs'[k[1]] = jobs[k[1]] /\ runs'[k[1]] = runs[k[1]]
  BY <1>1 DEF RecordsSound, Others
<1>3. QED
  BY <1>1, <1>2 DEF RecordSound, Kind, Ask, Strict, Finished, Unrun, Running

\* A step that neither looks for bare records nor gives them items.
LEMMA OthersSummarised ==
  ASSUME Summarised, NEW j \in Job, Others(j), overlapped' = overlapped,
         summaries' = summaries, runs'[j] = NotRunning \/ runs'[j].stage # "summarise"
  PROVE  Summarised'
<1>1. \A i \in Job : Running(i, "summarise")' => Running(i, "summarise") /\ runs'[i] = runs[i]
  BY DEF Others, Running
<1>2. QED
  BY <1>1 DEF Summarised

\* A step that adds no key and matches no row.
LEMMA OthersKeys ==
  ASSUME KeySound, NEW j \in Job, Others(j), entities'.keyed = entities.keyed,
         \/ runs'[j] = NotRunning
         \/ /\ runs[j] # NotRunning /\ runs'[j].keyed \in {0, runs[j].keyed}
            /\ runs'[j].stage # "save"
  PROVE  KeySound'
<1>1. \A i \in Job : runs'[i] # NotRunning => runs[i] # NotRunning /\ runs'[i].keyed \in {0, runs[i].keyed}
  BY DEF Others
<1>2. \A i \in Job : Holds(i)' => Holds(i) /\ (KeyHeld(i)' => KeyHeld(i))
  BY <1>1 DEF Holds, KeyHeld
<1>3. ASSUME NEW i \in Job, Running(i, "save")', (FileRow(i) = "keyed")', ~(runs'[i].found)
      PROVE  runs'[i].keyed = 0
  <2>1. i # j
    BY <1>3 DEF Running
  <2>2. jobs'[i] = jobs[i] /\ runs'[i] = runs[i]
    BY <2>1 DEF Others
  <2>3. Running(i, "save") /\ FileRow(i) = "keyed" /\ ~runs[i].found
    BY <1>3, <2>2 DEF Running, FileRow, Ask
  <2>4. QED
    BY <2>2, <2>3 DEF KeySound
<1>4. QED
  BY <1>2, <1>3 DEF KeySound

-----------------------------------------------------------------------------
(* Rows and runs. *)

LEMMA RunIsNone == \A x \in RunRows : x # NotRunning
BY NoneAssumption

LEMMA JobIsNone == \A x \in JobRows : x # NoJob
BY NoneAssumption

LEMMA RunningJob ==
  ASSUME JobInv, NEW j \in Job, runs[j] # NotRunning
  PROVE  /\ runs[j] \in RunRows /\ jobs[j] \in JobRows /\ jobs[j] # NoJob
         /\ Ask(j) \in Uploads /\ Kind(j) \in JobKinds /\ Strict(j) \in BOOLEAN
         /\ Len(Ask(j).file) \in Nat
         /\ Placed(jobs[j], runs[j])
         /\ Kind(j) # "report" /\ j \notin split => Tallied(Kind(j), runs[j], written[j])
         /\ written[j] \in Outcome
<1>1. runs[j] \in RunRows /\ written[j] \in Outcome
  BY DEF JobInv, JobTypeOK
<1>2. RunSound(j)
  BY DEF JobInv, RunsSound
<1>3. jobs[j] \in JobRows /\ jobs[j] # NoJob
  BY <1>2 DEF JobInv, JobTypeOK, RunSound
<1>4. Ask(j) \in Uploads
  BY <1>3 DEF JobRows, Ask
<1>5. Kind(j) \in JobKinds /\ Strict(j) \in BOOLEAN /\ Len(Ask(j).file) \in Nat
  BY <1>4, BackgroundJobsAssumption DEF Kind, Strict
<1>6. QED
  BY <1>1, <1>2, <1>3, <1>4, <1>5 DEF RunSound

LEMMA OutcomeNumbers ==
  ASSUME NEW o \in Outcome
  PROVE  o.created \in Nat /\ o.updated \in Nat /\ o.skipped \in Nat /\ Total(o) \in Nat
<1>1. o.created \in Nat /\ o.updated \in Nat /\ o.skipped \in Nat
  BY DEF Outcome
<1>2. QED
  BY <1>1 DEF Total

\* One more of a kind is counted.
LEMMA CountedOne ==
  ASSUME NEW o \in Outcome, NEW f \in {"created", "updated", "skipped"}
  PROVE  /\ Counted(o, f) \in Outcome
         /\ Counted(o, f).created = o.created + (IF f = "created" THEN 1 ELSE 0)
         /\ Counted(o, f).updated = o.updated + (IF f = "updated" THEN 1 ELSE 0)
         /\ Total(Counted(o, f)) = Total(o) + 1
         /\ Total(o) \in Nat
<1>1. o.created \in Nat /\ o.updated \in Nat /\ o.skipped \in Nat
  BY DEF Outcome
<1>2. CASE f = "created"
  <2>1. Counted(o, f) = [created |-> o.created + 1, updated |-> o.updated, skipped |-> o.skipped]
    <3>1. Counted(o, "created") = [o EXCEPT !.created = o.created + 1]
      BY DEF Counted
    <3>2. QED
      BY <1>2, <3>1 DEF Outcome
  <2>2. QED
    BY <1>1, <1>2, <2>1 DEF Outcome, Total
<1>3. CASE f = "updated"
  <2>1. Counted(o, f) = [created |-> o.created, updated |-> o.updated + 1, skipped |-> o.skipped]
    <3>1. Counted(o, "updated") = [o EXCEPT !.updated = o.updated + 1]
      BY DEF Counted
    <3>2. QED
      BY <1>3, <3>1 DEF Outcome
  <2>2. QED
    BY <1>1, <1>3, <2>1 DEF Outcome, Total
<1>4. CASE f = "skipped"
  <2>1. Counted(o, f) = [created |-> o.created, updated |-> o.updated, skipped |-> o.skipped + 1]
    <3>1. Counted(o, "skipped") = [o EXCEPT !.skipped = o.skipped + 1]
      BY DEF Counted
    <3>2. QED
      BY <1>4, <3>1 DEF Outcome
  <2>2. QED
    BY <1>1, <1>4, <2>1 DEF Outcome, Total
<1>5. QED
  BY <1>2, <1>3, <1>4

LEMMA SkippedOne ==
  ASSUME NEW o \in Outcome
  PROVE  /\ Counted(o, "skipped") \in Outcome
         /\ Counted(o, "skipped").created = o.created
         /\ Counted(o, "skipped").updated = o.updated
         /\ Total(Counted(o, "skipped")) = Total(o) + 1
<1>1. o.created \in Nat /\ o.updated \in Nat
  BY DEF Outcome
<1>2. \A f \in {"created", "updated", "skipped"} :
        /\ Counted(o, f) \in Outcome
        /\ Counted(o, f).created = o.created + (IF f = "created" THEN 1 ELSE 0)
        /\ Counted(o, f).updated = o.updated + (IF f = "updated" THEN 1 ELSE 0)
        /\ Total(Counted(o, f)) = Total(o) + 1
  BY CountedOne
<1>3. QED
  BY <1>1, <1>2

\* The job of a task that goes on with its import.
LEMMA GoesOn ==
  ASSUME JobInv, NEW j \in Job, runs[j] # NotRunning, Kind(j) # "report",
         NEW run \in RunRows, Goes(j, run), Placed(jobs[j], run),
         UNCHANGED <<jobs, message, storage, ready, again, edits>>,
         NEW w \in Outcome, written' = [written EXCEPT ![j] = w],
         split' \in {split, split \union {j}},
         j \notin split' => Tallied(Kind(j), run, w)
  PROVE  /\ Others(j) /\ runs'[j] = run /\ written'[j] = w
         /\ runs' \in [Job -> RunRows \union {NotRunning}] /\ written' \in [Job -> Outcome]
         /\ RunsSound' /\ JobsSound'
<1>1. runs'[j] = run /\ written'[j] = w /\ run # NotRunning
  BY RunIsNone DEF Goes, JobInv, JobTypeOK
<1>2. Others(j)
  BY DEF Others, Goes, JobInv, JobTypeOK
<1>3. runs' \in [Job -> RunRows \union {NotRunning}] /\ written' \in [Job -> Outcome]
  BY DEF Goes, JobInv, JobTypeOK
<1>4. RunSound(j)'
  <2>1. jobs[j] # NoJob
    BY RunningJob
  <2>2. QED
    BY <1>1, <2>1 DEF RunSound, Kind, Ask
<1>5. JobSound(j)'
  <2>1. run.stage # "notify" /\ jobs[j].status = "Importing" /\ jobs[j] # NoJob
    BY RunningJob DEF Placed, Kind, Ask, ReportStages
  <2>2. ~Unrun(j) /\ ~Finished(j)
    BY <2>1 DEF Unrun, Finished
  <2>3. JobSound(j)
    BY DEF JobInv, JobsSound
  <2>4. Kind(j)' = Kind(j) /\ Unrun(j)' = Unrun(j) /\ Finished(j)' = Finished(j)
    BY DEF Kind, Ask, Unrun, Finished
  <2>5. QED
    BY <2>1, <2>2, <2>3, <2>4 DEF JobSound
<1>6. RunsSound' /\ JobsSound'
  BY <1>2, <1>4, <1>5, OthersRuns, OthersJobs DEF JobInv
<1>7. QED
  BY <1>1, <1>2, <1>3, <1>6

\* A record that a step does not add was known before.
LEMMA KnownSound ==
  ASSUME JobInv, records' \subseteq records, edits' = edits
  PROVE  \A k \in Known' : k \in Known /\ RecordSound(k)
BY DEF JobInv, RecordsSound, Known

\* In its rows a lenient import may leave a record behind, a strict one leaves none.
LEMMA RowRecords ==
  ASSUME JobInv, NEW j \in Job, runs[j] # NotRunning, runs[j].stage \in RowStages,
         UNCHANGED <<jobs, summaries, edits, revived>>, Others(j),
         runs'[j] # NotRunning, runs'[j].stage \in RowStages,
         \/ records' = records
         \/ /\ ~Strict(j) /\ Kind(j) = "workbook"
            /\ \A k \in records' : k \in records \/ k[1] = j
  PROVE  RecordsSound'
<1>1. ASSUME NEW k \in Known', k[1] = j PROVE RecordSound(k)'
  <2>1. Placed(jobs[j], runs[j])
    BY RunningJob
  <2>2. jobs[j].status = "Importing" /\ jobs[j] # NoJob
    BY <2>1, RunningJob DEF Placed, RowStages
  <2>3. Kind(j) = "workbook" /\ ~Strict(j)
    <3>1. CASE k \in Known
      <4>1. RecordSound(k)
        BY <3>1 DEF JobInv, RecordsSound
      <4>2. Kind(j) = "workbook" /\ (Strict(j) => runs[j].stage \in AfterStages)
        BY <1>1, <4>1 DEF RecordSound
      <4>3. QED
        BY <4>2 DEF AfterStages, RowStages
    <3>2. CASE k \notin Known
      BY <1>1, <3>2 DEF Known
    <3>3. QED
      BY <3>1, <3>2
  <2>4. /\ Unrun(j)' = Unrun(j) /\ Kind(j)' = Kind(j) /\ Strict(j)' = Strict(j)
        /\ Finished(j)' = Finished(j)
    BY DEF Unrun, Kind, Ask, Strict, Finished
  <2>5. ~Running(j, "finish")' /\ ~Running(j, "summarise")'
    BY DEF Running, RowStages
  <2>6. ~Unrun(j) /\ ~Finished(j)
    BY <2>2 DEF Unrun, Finished
  <2>7. QED
    BY <1>1, <2>3, <2>4, <2>5, <2>6 DEF RecordSound
<1>2. \A k \in records' : k \in records \/ k[1] = j
  OBVIOUS
<1>3. QED
  BY <1>1, <1>2, OthersRecords DEF JobInv, JobTypeOK

\* A task that goes on in the rows of its file.
LEMMA RowStep ==
  ASSUME JobInv, NEW j \in Job, runs[j] # NotRunning, runs[j].stage \in RowStages, Kind(j) # "report",
         NEW run \in RunRows, run.stage \in RowStages, Goes(j, run), Placed(jobs[j], run),
         UNCHANGED <<jobs, message, storage, ready, again, summaries, overlapped, edits, revived>>,
         NEW w \in Outcome, written' = [written EXCEPT ![j] = w],
         split' \in {split, split \union {j}},
         j \notin split' => Tallied(Kind(j), run, w),
         records' \subseteq RecordKeys,
         \/ records' = records
         \/ /\ ~Strict(j) /\ Kind(j) = "workbook"
            /\ \A k \in records' : k \in records \/ k[1] = j,
         entities' \in [keyed : 0..1, named : 0..MaxNamed],
         Others(j) => KeySound'
  PROVE  JobInv'
<1>1. /\ Others(j) /\ runs'[j] = run
      /\ runs' \in [Job -> RunRows \union {NotRunning}] /\ written' \in [Job -> Outcome]
      /\ RunsSound' /\ JobsSound'
  BY GoesOn
<1>2. run # NotRunning /\ run.stage # "summarise"
  BY RunIsNone DEF RowStages
<1>3. RecordsSound'
  BY <1>1, <1>2, RowRecords
<1>4. Summarised'
  BY <1>1, <1>2, OthersSummarised DEF JobInv
<1>5. JobTypeOK'
  BY <1>1 DEF JobInv, JobTypeOK
<1>6. QED
  BY <1>1, <1>3, <1>4, <1>5 DEF JobInv

-----------------------------------------------------------------------------
(* Imports. *)

\* An import that ends.  A strict one that fails left nothing behind; one that
\* does not fail has counted its rows and given its records their items.
LEMMA EndStep ==
  ASSUME JobInv, NEW j \in Job, runs[j] # NotRunning, Kind(j) # "report",
         NEW status \in {"Completed", "PartialSuccess", "Failed"}, NEW outcome \in Outcome,
         Ends(j, status, outcome),
         UNCHANGED <<entities, records, summaries, storage, ready, split, again, overlapped, edits, revived>>,
         NEW w \in Outcome, written' = [written EXCEPT ![j] = w],
         status = "Failed" /\ Strict(j) => w = NoOutcome /\ runs[j].stage \in RowStages,
         status # "Failed" =>
           /\ runs[j].stage = "finish"
           /\ j \notin split =>
                /\ outcome.created = w.created /\ outcome.updated = w.updated
                /\ Total(outcome) = Len(Ask(j).file)
  PROVE  JobInv'
<1>1. jobs[j] \in JobRows /\ jobs[j] # NoJob
  BY RunningJob
<1> DEFINE new == [jobs[j] EXCEPT !.status = status, !.outcome = outcome]
<1>2. /\ new \in JobRows /\ new # NoJob
      /\ new.upload = jobs[j].upload /\ new.status = status /\ new.outcome = outcome
  <2>1. status \in JobStatuses
    BY DEF JobStatuses
  <2>2. /\ new \in JobRows /\ new.upload = jobs[j].upload
        /\ new.status = status /\ new.outcome = outcome
    BY <1>1, <2>1 DEF JobRows
  <2>3. QED
    <3> HIDE DEF new
    <3> QED
      BY <2>2, JobIsNone
<1>3. jobs' = [jobs EXCEPT ![j] = new] /\ runs' = [runs EXCEPT ![j] = NotRunning] /\ message' = message \ {j}
  BY DEF Ends, Goes, JobInv, JobTypeOK
<1> HIDE DEF new
<1>4. jobs'[j] = new /\ runs'[j] = NotRunning /\ written'[j] = w
  BY <1>3 DEF JobInv, JobTypeOK
<1>5. Others(j)
  BY <1>3 DEF Others, JobInv, JobTypeOK
<1>6. JobTypeOK'
  BY <1>2, <1>3 DEF JobInv, JobTypeOK
<1>7. RunsSound'
  BY <1>4, <1>5, OthersRuns DEF RunSound, JobInv
<1>8. /\ Kind(j)' = Kind(j) /\ Strict(j)' = Strict(j) /\ Ask(j)' = Ask(j)
      /\ ~(Unrun(j)') /\ (Finished(j)' => status # "Failed")
  BY <1>2, <1>4 DEF Kind, Strict, Ask, Unrun, Finished
<1>9. JobSound(j)'
  <2>1. JobSound(j)
    BY DEF JobInv, JobsSound
  <2>2. j \notin ready'
    BY <2>1 DEF JobSound
  <2>3. j \notin message'
    BY <1>3
  <2>4. Finished(j)' /\ j \notin split' =>
          /\ jobs'[j].outcome.created = w.created /\ jobs'[j].outcome.updated = w.updated
          /\ Total(jobs'[j].outcome) = Len(Ask(j).file)
    BY <1>2, <1>4, <1>8
  <2>5. QED
    BY <1>2, <1>4, <1>8, <2>2, <2>3, <2>4 DEF JobSound
<1>10. JobsSound'
  BY <1>5, <1>9, OthersJobs DEF JobInv
<1>11. ASSUME NEW k \in Known', k[1] = j PROVE RecordSound(k)'
  <2>1. k \in Known /\ RecordSound(k)
    BY <1>11, KnownSound
  <2>2. Kind(j) = "workbook" /\ (Strict(j) => runs[j].stage \in AfterStages)
    BY <1>11, <2>1 DEF RecordSound
  <2>3. Strict(j) => status # "Failed"
    BY <2>2 DEF RowStages, AfterStages
  <2>4. status # "Failed" /\ k \in records \ revived => summaries[k] >= 1
    BY <1>11, <2>1 DEF RecordSound, Running
  <2>5. ~Running(j, "finish")' /\ ~Running(j, "summarise")'
    BY <1>4 DEF Running
  <2>6. QED
    BY <1>2, <1>4, <1>8, <1>11, <2>2, <2>3, <2>4, <2>5 DEF RecordSound
<1>12. RecordsSound'
  BY <1>5, <1>11, OthersRecords DEF JobInv, JobTypeOK
<1>13. Summarised' /\ KeySound'
  BY <1>4, <1>5, OthersSummarised, OthersKeys DEF JobInv
<1>14. QED
  BY <1>6, <1>7, <1>10, <1>12, <1>13 DEF JobInv

LEMMA NoOutcomeType == NoOutcome \in Outcome
BY DEF NoOutcome, Outcome

\* A strict import that rolls back.
LEMMA AbortStep ==
  ASSUME JobInv, NEW j \in Job, runs[j] # NotRunning, runs[j].stage \in RowStages, Kind(j) # "report",
         NEW blamed \in BOOLEAN, Abort(j, blamed)
  PROVE  JobInv'
<1> DEFINE outcome == IF Kind(j) = "workbook" THEN runs[j].outcome
                      ELSE [NoOutcome EXCEPT !.skipped = IF blamed THEN runs[j].at ELSE 0]
<1>1. runs[j].outcome \in Outcome /\ runs[j].at \in Nat
  BY RunningJob DEF RunRows
<1>2. outcome \in Outcome
  BY <1>1 DEF NoOutcome, Outcome
<1>3. Ends(j, "Failed", outcome) /\ written' = [written EXCEPT ![j] = NoOutcome]
      /\ UNCHANGED <<entities, records, summaries, storage, ready, split, again, overlapped, edits, revived>>
  BY DEF Abort, importTables, reportFiles, patches
<1> HIDE DEF outcome
<1>4. QED
  BY <1>2, <1>3, NoOutcomeType, EndStep

\* A row that is counted as skipped, or what followed its save; if it was saved
\* all the same its job is split.
LEMMA SkipStep ==
  ASSUME JobInv, NEW j \in Job, runs[j] # NotRunning, runs[j].stage \in RowStages, Kind(j) # "report",
         runs[j].at <= Len(Ask(j).file), NextRow(j, "skipped"),
         UNCHANGED <<jobs, message, importTables, reportFiles, written, again, overlapped, edits, revived>>,
         split' = (IF runs[j].stage = "extra" THEN split \union {j} ELSE split)
  PROVE  JobInv'
<1> DEFINE o == Counted(runs[j].outcome, "skipped")
           run == [runs[j] EXCEPT !.stage = "row", !.at = runs[j].at + 1, !.outcome = o]
<1>1. runs[j] \in RunRows /\ runs[j].outcome \in Outcome /\ runs[j].at \in Nat /\ runs[j].stage # "notify"
      /\ Placed(jobs[j], runs[j])
  BY RunningJob DEF RunRows, RowStages
<1>2. /\ o \in Outcome /\ o.created = runs[j].outcome.created /\ o.updated = runs[j].outcome.updated
      /\ Total(o) = Total(runs[j].outcome) + 1 /\ Total(runs[j].outcome) \in Nat
      /\ runs[j].outcome.created \in Nat /\ runs[j].outcome.updated \in Nat
  <2>1. runs[j].outcome.created \in Nat /\ runs[j].outcome.updated \in Nat
    BY <1>1 DEF Outcome
  <2>2. Total(runs[j].outcome) \in Nat
    BY <1>1, OutcomeNumbers
  <2>3. QED
    BY <1>1, <2>1, <2>2, SkippedOne
<1>3. /\ run \in RunRows /\ run.stage = "row" /\ run.at = runs[j].at + 1 /\ run.outcome = o
      /\ run.keyed = runs[j].keyed
  <2> HIDE DEF o
  <2>1. runs[j].at + 1 \in Nat \ {0}
    BY <1>1
  <2>2. QED
    BY <1>1, <1>2, <2>1 DEF RunRows, RowStages
<1>4. Goes(j, run)
  BY DEF NextRow
<1> HIDE DEF o, run
<1>5. Placed(jobs[j], run)
  BY <1>1, <1>3 DEF Placed, RowStages, ReportStages, AfterStages, Ask, Kind
<1>6. ASSUME j \notin split' PROVE Tallied(Kind(j), run, written[j])
  <2>1. runs[j].stage # "extra" /\ j \notin split
    BY <1>6
  <2>2. Tallied(Kind(j), runs[j], written[j])
    BY <2>1, RunningJob
  <2>3. QED
    BY <1>1, <1>2, <1>3, <2>1, <2>2 DEF Tallied, Uncounted, Linking
<1>7. written' = [written EXCEPT ![j] = written[j]] /\ written[j] \in Outcome
  BY DEF JobInv, JobTypeOK
<1>8. UNCHANGED <<entities, records, summaries, storage, ready, edits, revived>>
  BY DEF importTables, reportFiles, patches
<1>9. runs'[j] = run
  BY <1>4 DEF Goes, JobInv, JobTypeOK
<1>10. Others(j) => KeySound'
  BY <1>3, <1>8, <1>9, OthersKeys DEF JobInv
<1>11. QED
  BY <1>3, <1>4, <1>5, <1>6, <1>7, <1>8, <1>10, RowStep DEF RowStages, JobInv, JobTypeOK

LEMMA SkipRowStep ==
  ASSUME JobInv, NEW j \in Job, runs[j] # NotRunning, runs[j].stage \in {"row", "save"}, Kind(j) # "report",
         runs[j].at <= Len(Ask(j).file), NEW blamed \in BOOLEAN, SkipRow(j, blamed)
  PROVE  JobInv'
<1>1. CASE Strict(j)
  BY <1>1, AbortStep DEF SkipRow, RowStages
<1>2. CASE ~Strict(j)
  BY <1>2, SkipStep DEF SkipRow, RowStages, jobHistory, patches
<1>3. QED
  BY <1>1, <1>2

\* The key, when the run that goes on gains none.
LEMMA SameKeys ==
  ASSUME JobInv, NEW j \in Job, Others(j), entities'.keyed = entities.keyed,
         runs[j] # NotRunning, runs'[j].keyed = runs[j].keyed,
         (Running(j, "save") /\ FileRow(j) = "keyed" /\ ~runs[j].found)' => runs[j].keyed = 0
  PROVE  KeySound'
<1>1. \A i \in Job : runs'[i] # NotRunning => runs[i] # NotRunning /\ runs'[i].keyed = runs[i].keyed
  BY DEF Others
<1>2. \A i \in Job : Holds(i)' => Holds(i) /\ (KeyHeld(i)' => KeyHeld(i))
  BY <1>1 DEF Holds, KeyHeld
<1>3. ASSUME NEW i \in Job, i # j, Running(i, "save")', (FileRow(i) = "keyed")', ~(runs'[i].found)
      PROVE  runs'[i].keyed = 0
  <2>1. jobs'[i] = jobs[i] /\ runs'[i] = runs[i]
    BY <1>3 DEF Others
  <2>2. Running(i, "save") /\ FileRow(i) = "keyed" /\ ~runs[i].found
    BY <1>3, <2>1 DEF Running, FileRow, Ask
  <2>3. QED
    BY <2>1, <2>2 DEF JobInv, KeySound
<1>4. QED
  BY <1>2, <1>3 DEF JobInv, KeySound

\* The run of a job, and what it may be compared with.
LEMMA RunFields ==
  ASSUME JobInv, NEW j \in Job, NEW st, Running(j, st)
  PROVE  /\ runs[j] # NotRunning /\ runs[j] \in RunRows /\ runs[j].stage = st
         /\ runs[j].at \in Nat \ {0} /\ runs[j].outcome \in Outcome
         /\ runs[j].keyed \in 0..1 /\ runs[j].named \in Nat /\ runs[j].found \in BOOLEAN
         /\ runs[j].bare \subseteq RecordKeys
         /\ jobs[j] \in JobRows /\ jobs[j] # NoJob
         /\ Len(Ask(j).file) \in Nat /\ Placed(jobs[j], runs[j])
         /\ Kind(j) = "report" <=> st \in ReportStages
         /\ Kind(j) \in JobKinds
         /\ Kind(j) # "report" /\ j \notin split => Tallied(Kind(j), runs[j], written[j])
         /\ written[j] \in Outcome
<1>1. runs[j] # NotRunning /\ runs[j].stage = st
  BY DEF Running
<1>2. runs[j] \in RunRows /\ Placed(jobs[j], runs[j])
  BY <1>1, RunningJob
<1>3. Kind(j) = "report" <=> st \in ReportStages
  BY <1>1, <1>2 DEF Placed, Kind, Ask
<1>4. QED
  BY <1>1, <1>2, <1>3, RunningJob DEF RunRows

LEMMA MatchStep ==
  ASSUME JobInv, NEW j \in Job, MatchRow(j)
  PROVE  JobInv'
<1>1. Running(j, "row") /\ Kind(j) = "entities" /\ runs[j].at <= Len(Ask(j).file)
  BY DEF MatchRow
<1>2. /\ runs[j] # NotRunning /\ runs[j] \in RunRows /\ runs[j].stage = "row"
      /\ runs[j].keyed \in 0..1 /\ Placed(jobs[j], runs[j])
      /\ j \notin split => Tallied(Kind(j), runs[j], written[j])
  BY <1>1, RunFields
<1>3. CASE FileRow(j) = "bad"
  BY <1>1, <1>2, <1>3, SkipRowStep DEF MatchRow
<1>4. CASE FileRow(j) # "bad"
  <2> DEFINE here == IF FileRow(j) = "keyed" THEN entities.keyed + runs[j].keyed
                     ELSE entities.named + runs[j].named
             run == [runs[j] EXCEPT !.stage = "save", !.found = here > 0]
  <2>1. Goes(j, run) /\ UNCHANGED <<jobs, message, importTables, reportFiles, jobHistory, patches>>
    BY <1>4 DEF MatchRow
  <2>2. (here > 0) \in BOOLEAN
    OBVIOUS
  <2>3. /\ run \in RunRows /\ run.stage = "save" /\ run.at = runs[j].at /\ run.outcome = runs[j].outcome
        /\ run.keyed = runs[j].keyed /\ run.found = (here > 0)
    <3> HIDE DEF here
    <3> QED
      BY <1>2, <2>2 DEF RunRows, RowStages
  <2>4. FileRow(j) = "keyed" /\ ~run.found => runs[j].keyed = 0
    <3>1. FileRow(j) = "keyed" /\ ~run.found => ~(entities.keyed + runs[j].keyed > 0)
      BY <2>3
    <3>2. entities.keyed \in 0..1
      BY DEF JobInv, JobTypeOK
    <3>3. QED
      BY <1>2, <3>1, <3>2
  <2> HIDE DEF here, run
  <2>5. Placed(jobs[j], run)
    BY <1>1, <1>2, <2>3 DEF Placed, ReportStages, AfterStages, Kind, Ask
  <2>6. j \notin split => Tallied(Kind(j), run, written[j])
    BY <1>2, <2>3 DEF Tallied, Uncounted, Linking
  <2>7. runs'[j] = run /\ written' = [written EXCEPT ![j] = written[j]] /\ written[j] \in Outcome
        /\ UNCHANGED <<entities, records, summaries, storage, ready, written, split, again, overlapped, edits, revived>>
    BY <2>1 DEF Goes, importTables, reportFiles, patches, jobHistory, JobInv, JobTypeOK
  <2>8. Others(j) => KeySound'
    <3>1. FileRow(j)' = FileRow(j)
      BY <2>1, <2>3, <2>7 DEF FileRow, Ask
    <3>2. QED
      BY <1>2, <2>3, <2>4, <2>7, <3>1, SameKeys
  <2>9. QED
    BY <1>1, <1>2, <2>1, <2>3, <2>5, <2>6, <2>7, <2>8, RowStep DEF RowStages, JobInv, JobTypeOK
<1>5. QED
  BY <1>3, <1>4

Field(found) == IF found THEN "updated" ELSE "created"

\* A saved entity is counted as written, and its row is counted or waits for
\* its override.
LEMMA SavedTally ==
  ASSUME JobInv, NEW j \in Job, Running(j, "save"), NEW run \in RunRows,
         \/ /\ run.stage = "extra" /\ run.at = runs[j].at
            /\ run.outcome = runs[j].outcome /\ run.found = runs[j].found
         \/ /\ run.stage = "row" /\ run.at = runs[j].at + 1
            /\ run.outcome = Counted(runs[j].outcome, Field(runs[j].found))
  PROVE  /\ Placed(jobs[j], run) /\ Kind(j) = "entities"
         /\ Counted(written[j], Field(runs[j].found)) \in Outcome
         /\ j \notin split => Tallied(Kind(j), run, Counted(written[j], Field(runs[j].found)))
<1> DEFINE f == Field(runs[j].found)
           o == Counted(runs[j].outcome, f)
           w == Counted(written[j], f)
           created == IF runs[j].found THEN 0 ELSE 1
           updated == IF runs[j].found THEN 1 ELSE 0
<1>1. /\ runs[j] # NotRunning /\ runs[j].stage = "save" /\ runs[j].at \in Nat \ {0}
      /\ runs[j].outcome \in Outcome /\ written[j] \in Outcome /\ runs[j].found \in BOOLEAN
      /\ Placed(jobs[j], runs[j]) /\ Len(Ask(j).file) \in Nat
  BY RunFields
<1>2. Kind(j) = "entities" /\ runs[j].at <= Len(Ask(j).file)
  BY <1>1 DEF Placed, Kind, Ask
<1>3. j \notin split => Tallied(Kind(j), runs[j], written[j])
  BY <1>1, <1>2, RunningJob
<1>4. /\ f \in {"created", "updated", "skipped"}
      /\ (IF f = "created" THEN 1 ELSE 0) = created /\ (IF f = "updated" THEN 1 ELSE 0) = updated
  BY <1>1 DEF Field
<1>5. /\ o.created = runs[j].outcome.created + created
      /\ o.updated = runs[j].outcome.updated + updated
      /\ Total(o) = Total(runs[j].outcome) + 1
  <2> HIDE DEF f, created, updated
  <2>1. \A x \in {"created", "updated", "skipped"} :
          LET c == Counted(runs[j].outcome, x) IN
          /\ c.created = runs[j].outcome.created + (IF x = "created" THEN 1 ELSE 0)
          /\ c.updated = runs[j].outcome.updated + (IF x = "updated" THEN 1 ELSE 0)
          /\ Total(c) = Total(runs[j].outcome) + 1
    BY <1>1, CountedOne
  <2>2. QED
    BY <1>4, <2>1
<1>6. /\ w \in Outcome
      /\ w.created = written[j].created + created
      /\ w.updated = written[j].updated + updated
  <2> HIDE DEF f, created, updated
  <2>1. \A x \in {"created", "updated", "skipped"} :
          LET c == Counted(written[j], x) IN
          /\ c \in Outcome
          /\ c.created = written[j].created + (IF x = "created" THEN 1 ELSE 0)
          /\ c.updated = written[j].updated + (IF x = "updated" THEN 1 ELSE 0)
    BY <1>1, CountedOne
  <2>2. QED
    BY <1>4, <2>1
<1>7. /\ runs[j].outcome.created \in Nat /\ runs[j].outcome.updated \in Nat /\ Total(runs[j].outcome) \in Nat
      /\ created \in Nat /\ updated \in Nat
  BY <1>1, OutcomeNumbers
<1>8. Placed(jobs[j], run)
  BY <1>1, <1>2 DEF Placed, ReportStages, AfterStages, Kind, Ask
<1>9. ASSUME j \notin split PROVE Tallied(Kind(j), run, w)
  <2>1. /\ written[j].created = runs[j].outcome.created /\ written[j].updated = runs[j].outcome.updated
        /\ Total(runs[j].outcome) + 1 = runs[j].at
    BY <1>1, <1>3, <1>7, <1>9 DEF Tallied, Uncounted, Linking
  <2>2. CASE run.stage = "extra"
    <3>1. run.outcome = runs[j].outcome /\ run.at = runs[j].at /\ run.found = runs[j].found
      BY <2>2
    <3>2. Uncounted(Kind(j), run, FALSE) = created /\ Uncounted(Kind(j), run, TRUE) = updated
          /\ Linking(Kind(j), run) = 0
      BY <1>1, <1>2, <2>2, <3>1 DEF Uncounted, Linking
    <3> HIDE DEF f, o, w, created, updated
    <3>3. /\ w.created = run.outcome.created + Uncounted(Kind(j), run, FALSE)
          /\ w.updated = run.outcome.updated + Uncounted(Kind(j), run, TRUE)
      BY <1>6, <2>1, <3>1, <3>2
    <3>4. Total(run.outcome) + 1 = run.at + Linking(Kind(j), run)
      BY <1>1, <2>1, <3>1, <3>2
    <3>5. QED
      BY <3>3, <3>4 DEF Tallied
  <2>3. CASE run.stage = "row"
    <3>1. run.outcome = o /\ run.at = runs[j].at + 1
      BY <2>3
    <3>2. /\ Uncounted(Kind(j), run, FALSE) = 0 /\ Uncounted(Kind(j), run, TRUE) = 0
          /\ Linking(Kind(j), run) = 0
      BY <2>3 DEF Uncounted, Linking
    <3> HIDE DEF f, o, w, created, updated
    <3>3. /\ w.created = run.outcome.created + Uncounted(Kind(j), run, FALSE)
          /\ w.updated = run.outcome.updated + Uncounted(Kind(j), run, TRUE)
      <4>1. w.created = o.created /\ w.updated = o.updated
        BY <1>5, <1>6, <2>1
      <4>2. o.created \in Nat /\ o.updated \in Nat
        BY <1>5, <1>7
      <4>3. w.created = run.outcome.created + 0 /\ w.updated = run.outcome.updated + 0
        BY <3>1, <4>1, <4>2
      <4>4. QED
        BY <3>2, <4>3
    <3>4. Total(run.outcome) + 1 = run.at + Linking(Kind(j), run)
      BY <1>1, <1>5, <1>7, <2>1, <3>1, <3>2
    <3>5. QED
      BY <3>3, <3>4 DEF Tallied
  <2>4. QED
    BY <2>2, <2>3
<1>10. QED
  BY <1>2, <1>6, <1>8, <1>9

LEMMA SaveStep ==
  ASSUME JobInv, NEW j \in Job, SaveRow(j)
  PROVE  JobInv'
<1> DEFINE field == Field(runs[j].found)
           adds == IF runs[j].found THEN 0 ELSE 1
           counted == Counted(runs[j].outcome, field)
           next == IF FileRow(j) = "pinned"
                   THEN [runs[j] EXCEPT !.stage = "extra"]
                   ELSE [runs[j] EXCEPT !.stage = "row", !.at = runs[j].at + 1, !.outcome = counted]
           w == Counted(written[j], field)
<1>1. Running(j, "save") /\ Kind(j) = "entities"
  BY DEF SaveRow
<1>2. /\ runs[j] # NotRunning /\ runs[j] \in RunRows /\ runs[j].stage = "save" /\ runs[j].at \in Nat \ {0}
      /\ runs[j].outcome \in Outcome /\ runs[j].keyed \in 0..1 /\ runs[j].named \in Nat
      /\ Placed(jobs[j], runs[j]) /\ runs[j].found \in BOOLEAN
  BY <1>1, RunFields
<1>3. runs[j].at <= Len(Ask(j).file)
  BY <1>2 DEF Placed, Ask
<1>4. entities \in [keyed : 0..1, named : 0..MaxNamed] /\ MaxNamed \in Nat
  BY BackgroundJobsAssumption DEF JobInv, JobTypeOK
<1>5. /\ next \in RunRows /\ next.keyed = runs[j].keyed /\ next.named = runs[j].named
      /\ \/ /\ next.stage = "extra" /\ next.at = runs[j].at
            /\ next.outcome = runs[j].outcome /\ next.found = runs[j].found
         \/ /\ next.stage = "row" /\ next.at = runs[j].at + 1
            /\ next.outcome = counted
  <2>1. counted \in Outcome
    BY <1>2, CountedOne DEF Field
  <2>2. runs[j].at + 1 \in Nat \ {0}
    BY <1>2
  <2> HIDE DEF counted
  <2>3. QED
    BY <1>2, <2>1, <2>2 DEF RunRows, RowStages
<1> HIDE DEF next, counted
\* The row is saved: what is left to say is what becomes of the key.
<1>6. ASSUME NEW run \in RunRows, Goes(j, run),
             run.stage = next.stage, run.at = next.at, run.outcome = next.outcome, run.found = next.found,
             written' = [written EXCEPT ![j] = w],
             UNCHANGED <<jobs, message, records, summaries, reportFiles, split, again, overlapped, edits, revived>>,
             entities' \in [keyed : 0..1, named : 0..MaxNamed],
             Others(j) => KeySound'
      PROVE  JobInv'
  <2>1. \/ /\ run.stage = "extra" /\ run.at = runs[j].at
           /\ run.outcome = runs[j].outcome /\ run.found = runs[j].found
        \/ /\ run.stage = "row" /\ run.at = runs[j].at + 1
           /\ run.outcome = Counted(runs[j].outcome, Field(runs[j].found))
    BY <1>5, <1>6 DEF counted
  <2>2. Placed(jobs[j], run) /\ w \in Outcome /\ (j \notin split => Tallied(Kind(j), run, w))
    BY <1>1, <2>1, SavedTally
  <2>3. run.stage \in RowStages
    BY <2>1 DEF RowStages
  <2>4. UNCHANGED <<storage, ready, edits>>
    BY <1>6 DEF reportFiles, patches
  <2> HIDE DEF w
  <2>5. QED
    BY <1>1, <1>2, <1>6, <2>2, <2>3, <2>4, RowStep DEF RowStages, JobInv, JobTypeOK
<1>7. CASE FileRow(j) = "keyed" /\ adds = 1 /\ entities.keyed = 1
  <2>1. SkipRow(j, FALSE)
    BY <1>7 DEF SaveRow, Field
  <2>2. QED
    BY <1>1, <1>2, <1>3, <2>1, SkipRowStep
<1>8. CASE FileRow(j) = "keyed" /\ ~(adds = 1 /\ entities.keyed = 1)
  <2> DEFINE run == IF Strict(j) THEN [next EXCEPT !.keyed = next.keyed + adds] ELSE next
  <2>1. /\ adds = 1 => ~KeyHeld(j)
        /\ Goes(j, run)
        /\ entities' = IF Strict(j) THEN entities ELSE [entities EXCEPT !.keyed = entities.keyed + adds]
        /\ written' = [written EXCEPT ![j] = w]
        /\ UNCHANGED <<jobs, message, records, summaries, reportFiles, split, again, overlapped, edits, revived>>
    BY <1>8 DEF SaveRow, next, counted, Field, patches
  <2>2. adds \in 0..1 /\ (adds = 1 => runs[j].keyed = 0 /\ entities.keyed = 0)
    <3>1. adds = 1 => ~runs[j].found
      OBVIOUS
    <3>2. adds = 1 => runs[j].keyed = 0
      BY <1>1, <1>8, <3>1 DEF JobInv, KeySound
    <3>3. QED
      BY <1>4, <1>8, <3>2
  <2> DEFINE k == IF Strict(j) THEN runs[j].keyed + adds ELSE runs[j].keyed
  <2>3. k \in 0..1
    BY <1>2, <2>2
  <2>4. /\ run \in RunRows /\ run.keyed = k
        /\ run.stage = next.stage /\ run.at = next.at /\ run.outcome = next.outcome /\ run.found = next.found
    <3>1. CASE Strict(j)
      <4>1. run = [next EXCEPT !.keyed = k]
        BY <1>5, <3>1
      <4> HIDE DEF run, k
      <4>2. QED
        BY <1>5, <2>3, <4>1 DEF RunRows
    <3>2. CASE ~Strict(j)
      BY <1>5, <3>2
    <3>3. QED
      BY <3>1, <3>2
  <2>5. entities' \in [keyed : 0..1, named : 0..MaxNamed]
    BY <1>4, <2>1, <2>2
  <2>6. entities'.keyed = IF Strict(j) THEN entities.keyed ELSE entities.keyed + adds
    BY <1>4, <2>1
  <2> HIDE DEF run, adds
  <2>7. runs'[j] = run /\ runs'[j].stage # "save"
    BY <1>5, <2>1, <2>4 DEF Goes, JobInv, JobTypeOK
  <2>8. ASSUME Others(j) PROVE KeySound'
    <3>1. CASE adds = 0
      <4>1. entities'.keyed = entities.keyed /\ runs'[j].keyed = runs[j].keyed
        BY <1>2, <1>4, <2>4, <2>6, <2>7, <3>1
      <4>2. QED
        BY <1>2, <2>7, <2>8, <4>1, OthersKeys DEF JobInv
    <3>2. CASE adds = 1
      <4>1. runs[j].keyed = 0 /\ entities.keyed = 0 /\ ~KeyHeld(j)
        BY <2>1, <2>2, <3>2
      <4>2. \A i \in Job \ {j} : runs'[i] = runs[i] /\ jobs'[i] = jobs[i]
        BY <2>8 DEF Others
      <4>3. \A i \in Job \ {j} : runs'[i] # NotRunning => ~(runs'[i].keyed > 0)
        BY <4>1, <4>2 DEF KeyHeld
      <4>4. ASSUME NEW i \in Job, Holds(i)' PROVE entities'.keyed = 0 /\ ~(KeyHeld(i)')
        <5>1. i = j
          <6>1. i # j => ~(runs'[i].keyed > 0)
            BY <4>3, <4>4 DEF Holds
          <6>2. QED
            BY <4>4, <6>1 DEF Holds
        <5>2. k = 1
          BY <2>4, <2>7, <4>4, <5>1 DEF Holds
        <5>3. Strict(j)
          BY <4>1, <5>2
        <5>4. QED
          BY <2>6, <4>1, <4>3, <5>1, <5>3 DEF KeyHeld
      <4>5. ASSUME NEW i \in Job, Running(i, "save")', (FileRow(i) = "keyed")', ~(runs'[i].found)
            PROVE  runs'[i].keyed = 0
        <5>1. i # j
          BY <2>7, <4>5 DEF Running
        <5>2. runs'[i] = runs[i] /\ jobs'[i] = jobs[i]
          BY <4>2, <5>1
        <5>3. Running(i, "save") /\ FileRow(i) = "keyed" /\ ~runs[i].found
          BY <4>5, <5>2 DEF Running, FileRow, Ask
        <5>4. QED
          BY <5>2, <5>3 DEF JobInv, KeySound
      <4>6. QED
        BY <4>4, <4>5 DEF KeySound
    <3>3. QED
      BY <2>2, <3>1, <3>2
  <2> HIDE DEF w
  <2>9. QED
    BY <1>6, <2>1, <2>4, <2>5, <2>8
<1>9. CASE FileRow(j) # "keyed"
  <2> DEFINE run == IF Strict(j) THEN [next EXCEPT !.named = next.named + adds] ELSE next
  <2>1. /\ entities.named + adds <= MaxNamed
        /\ Goes(j, run)
        /\ entities' = IF Strict(j) THEN entities ELSE [entities EXCEPT !.named = entities.named + adds]
        /\ written' = [written EXCEPT ![j] = w]
        /\ UNCHANGED <<jobs, message, records, summaries, reportFiles, split, again, overlapped, edits, revived>>
    BY <1>9 DEF SaveRow, next, counted, Field, patches
  <2>2. next.named + adds \in Nat /\ entities.named + adds \in 0..MaxNamed
    BY <1>2, <1>4, <1>5, <2>1
  <2>3. /\ run \in RunRows /\ run.keyed = next.keyed
        /\ run.stage = next.stage /\ run.at = next.at /\ run.outcome = next.outcome /\ run.found = next.found
    <3> HIDE DEF adds
    <3> QED
      BY <1>5, <2>2 DEF RunRows
  <2>4. entities' \in [keyed : 0..1, named : 0..MaxNamed] /\ entities'.keyed = entities.keyed
    <3> HIDE DEF adds
    <3> QED
      BY <1>4, <2>1, <2>2
  <2> HIDE DEF run, adds
  <2>5. runs'[j] = run /\ runs'[j].stage # "save" /\ runs'[j].keyed = runs[j].keyed
    BY <1>5, <2>1, <2>3 DEF Goes, JobInv, JobTypeOK
  <2>6. Others(j) => KeySound'
    BY <1>2, <2>4, <2>5, OthersKeys DEF JobInv
  <2> HIDE DEF w
  <2>7. QED
    BY <1>6, <2>1, <2>3, <2>4, <2>6
<1>10. QED
  BY <1>7, <1>8, <1>9

LEMMA SaveFailsStep ==
  ASSUME JobInv, NEW j \in Job, SaveFails(j)
  PROVE  JobInv'
<1>1. Running(j, "save") /\ SkipRow(j, FALSE)
  BY DEF SaveFails
<1>2. runs[j] # NotRunning /\ runs[j].stage = "save" /\ Placed(jobs[j], runs[j])
  BY <1>1, RunFields
<1>3. Kind(j) = "entities" /\ runs[j].at <= Len(Ask(j).file)
  BY <1>2 DEF Placed, Kind, Ask
<1>4. QED
  BY <1>1, <1>2, <1>3, SkipRowStep

\* What waited for its override is counted; what waited for its link was already.
LEMMA ExtraStep ==
  ASSUME JobInv, NEW j \in Job, Extra(j)
  PROVE  JobInv'
<1> DEFINE field == Field(runs[j].found)
           o == IF Kind(j) = "entities" THEN Counted(runs[j].outcome, field) ELSE runs[j].outcome
           run == [runs[j] EXCEPT !.stage = "row", !.at = runs[j].at + 1, !.outcome = o]
           newly == Uncounted(Kind(j), runs[j], FALSE)
           once == Uncounted(Kind(j), runs[j], TRUE)
           linking == Linking(Kind(j), runs[j])
<1>1. Running(j, "extra")
      /\ UNCHANGED <<jobs, message, importTables, reportFiles, jobHistory, patches>>
  BY DEF Extra
<1>2. /\ runs[j] # NotRunning /\ runs[j] \in RunRows /\ runs[j].stage = "extra" /\ runs[j].at \in Nat \ {0}
      /\ runs[j].outcome \in Outcome /\ runs[j].found \in BOOLEAN /\ Placed(jobs[j], runs[j])
      /\ written[j] \in Outcome /\ Len(Ask(j).file) \in Nat
  BY <1>1, RunFields
<1>3. Kind(j) # "report" /\ runs[j].at <= Len(Ask(j).file) /\ Kind(j) \in JobKinds
  BY <1>1, <1>2, RunningJob DEF Placed, Kind, Ask, ReportStages
<1>4. Goes(j, run)
  <2>1. CASE Kind(j) = "entities"
    BY <2>1 DEF Extra, NextRow, Field
  <2>2. CASE Kind(j) # "entities"
    <3>1. [runs[j] EXCEPT !.stage = "row", !.at = runs[j].at + 1] = run
      BY <1>2, <2>2 DEF RunRows
    <3> HIDE DEF run
    <3>2. QED
      BY <2>2, <3>1 DEF Extra
  <2>3. QED
    BY <2>1, <2>2
<1>5. /\ o \in Outcome
      /\ o.created = runs[j].outcome.created + newly
      /\ o.updated = runs[j].outcome.updated + once
      /\ Total(o) = Total(runs[j].outcome) + 1 - linking
      /\ Total(runs[j].outcome) \in Nat
      /\ o.created \in Nat /\ o.updated \in Nat
  <2>1. runs[j].outcome.created \in Nat /\ runs[j].outcome.updated \in Nat /\ Total(runs[j].outcome) \in Nat
    BY <1>2, OutcomeNumbers
  <2>2. CASE Kind(j) = "entities" /\ runs[j].found
    <3>1. o = Counted(runs[j].outcome, "updated")
      BY <2>2 DEF Field
    <3>2. newly = 0 /\ once = 1
          /\ linking = 0
      BY <1>2, <2>2 DEF Uncounted, Linking
    <3> HIDE DEF o, newly, once, linking
    <3>3. o \in Outcome /\ o.created = runs[j].outcome.created + 0 /\ o.updated = runs[j].outcome.updated + 1
          /\ Total(o) = Total(runs[j].outcome) + 1
      BY <1>2, <3>1, CountedOne
    <3>4. QED
      BY <2>1, <3>2, <3>3
  <2>3. CASE Kind(j) = "entities" /\ ~runs[j].found
    <3>1. o = Counted(runs[j].outcome, "created")
      BY <2>3 DEF Field
    <3>2. newly = 1 /\ once = 0
          /\ linking = 0
      BY <1>2, <2>3 DEF Uncounted, Linking
    <3> HIDE DEF o, newly, once, linking
    <3>3. o \in Outcome /\ o.created = runs[j].outcome.created + 1 /\ o.updated = runs[j].outcome.updated + 0
          /\ Total(o) = Total(runs[j].outcome) + 1
      BY <1>2, <3>1, CountedOne
    <3>4. QED
      BY <2>1, <3>2, <3>3
  <2>4. CASE Kind(j) = "workbook"
    <3>1. o = runs[j].outcome
      BY <2>4
    <3>2. newly = 0 /\ once = 0
          /\ linking = 1
      BY <1>2, <2>4 DEF Uncounted, Linking
    <3> HIDE DEF o, newly, once, linking
    <3>3. QED
      BY <1>2, <2>1, <3>1, <3>2
  <2>5. QED
    BY <1>3, <2>2, <2>3, <2>4 DEF JobKinds
<1> HIDE DEF o, field
<1>6. /\ run \in RunRows /\ run.stage = "row" /\ run.at = runs[j].at + 1 /\ run.outcome = o
      /\ run.keyed = runs[j].keyed
  <2>1. runs[j].at + 1 \in Nat \ {0}
    BY <1>2
  <2>2. QED
    BY <1>2, <1>5, <2>1 DEF RunRows, RowStages
<1> HIDE DEF run
<1>7. Placed(jobs[j], run)
  BY <1>2, <1>3, <1>6 DEF Placed, ReportStages, AfterStages, Kind, Ask
<1>8. ASSUME j \notin split PROVE Tallied(Kind(j), run, written[j])
  <2>1. Tallied(Kind(j), runs[j], written[j])
    BY <1>2, <1>3, <1>8, RunningJob
  <2>2. written[j].created = o.created /\ written[j].updated = o.updated
    BY <1>5, <2>1 DEF Tallied
  <2>3. Total(o) + 1 = run.at
    <3>1. linking \in {0, 1}
      BY DEF Linking
    <3>2. Total(runs[j].outcome) + 1 = runs[j].at + linking
      BY <2>1 DEF Tallied
    <3>3. QED
      BY <1>2, <1>5, <1>6, <3>1, <3>2
  <2>4. Uncounted(Kind(j), run, FALSE) = 0 /\ Uncounted(Kind(j), run, TRUE) = 0 /\ Linking(Kind(j), run) = 0
    BY <1>6 DEF Uncounted, Linking
  <2>5. Total(o) \in Int /\ run.at \in Int
    BY <1>2, <1>5, <1>6 DEF Linking
  <2>6. QED
    <3>1. run.outcome.created + 0 = o.created /\ run.outcome.updated + 0 = o.updated
          /\ Total(run.outcome) + 1 = run.at + 0
      <4>1. run.outcome = o
        BY <1>6
      <4>2. o.created + 0 = o.created /\ o.updated + 0 = o.updated
        <5> HIDE DEF newly, once, linking
        <5> QED
          BY <1>5
      <4>3. run.at + 0 = run.at
        BY <2>5
      <4>4. QED
        BY <2>3, <4>1, <4>2, <4>3
    <3>2. QED
      BY <2>2, <2>4, <3>1 DEF Tallied
<1>9. runs'[j] = run /\ written' = [written EXCEPT ![j] = written[j]]
      /\ UNCHANGED <<entities, records, summaries, storage, ready, written, split, again, overlapped, edits, revived>>
  BY <1>1, <1>4 DEF Goes, importTables, reportFiles, patches, jobHistory, JobInv, JobTypeOK
<1>10. Others(j) => KeySound'
  BY <1>2, <1>6, <1>9, OthersKeys DEF JobInv
<1>11. QED
  BY <1>1, <1>2, <1>3, <1>4, <1>6, <1>7, <1>8, <1>9, <1>10, RowStep DEF RowStages, JobInv, JobTypeOK

LEMMA ExtraFailsStep ==
  ASSUME JobInv, NEW j \in Job, ExtraFails(j)
  PROVE  JobInv'
<1>1. Running(j, "extra")
  BY DEF ExtraFails
<1>2. runs[j] # NotRunning /\ runs[j].stage = "extra" /\ Placed(jobs[j], runs[j])
  BY <1>1, RunFields
<1>3. Kind(j) # "report" /\ runs[j].at <= Len(Ask(j).file) /\ runs[j].stage \in RowStages
  BY <1>2 DEF Placed, Kind, Ask, ReportStages, RowStages
<1>4. CASE Strict(j)
  BY <1>2, <1>3, <1>4, AbortStep DEF ExtraFails
<1>5. CASE ~Strict(j)
  BY <1>2, <1>3, <1>5, SkipStep DEF ExtraFails, patches
<1>6. QED
  BY <1>4, <1>5

\* A record is counted when it is written, before its link.
LEMMA SavedRecordStep ==
  ASSUME JobInv, NEW j \in Job, SaveRecord(j)
  PROVE  JobInv'
<1>1. Running(j, "row") /\ Kind(j) = "workbook" /\ runs[j].at <= Len(Ask(j).file)
  BY DEF SaveRecord
<1>2. /\ runs[j] # NotRunning /\ runs[j] \in RunRows /\ runs[j].stage = "row" /\ runs[j].at \in Nat \ {0}
      /\ runs[j].outcome \in Outcome /\ Placed(jobs[j], runs[j]) /\ written[j] \in Outcome
      /\ Len(Ask(j).file) \in Nat
      /\ j \notin split => Tallied(Kind(j), runs[j], written[j])
  BY <1>1, RunFields
<1>3. CASE FileRow(j) = "bad"
  BY <1>1, <1>2, <1>3, SkipRowStep DEF SaveRecord
<1>4. CASE FileRow(j) # "bad"
  <2> DEFINE link == Ask(j).link
             o == Counted(runs[j].outcome, "created")
             w == Counted(written[j], "created")
             run == [runs[j] EXCEPT !.stage = IF link THEN "extra" ELSE "row",
                       !.at = IF link THEN runs[j].at ELSE runs[j].at + 1, !.outcome = o]
  <2>1. /\ Goes(j, run)
        /\ records' = IF Strict(j) THEN records ELSE records \union {<<j, runs[j].at>>}
        /\ written' = [written EXCEPT ![j] = w]
        /\ UNCHANGED <<jobs, message, entities, summaries, reportFiles, split, again, overlapped, edits, revived>>
    BY <1>4 DEF SaveRecord, patches
  <2>2. /\ o \in Outcome /\ o.created = runs[j].outcome.created + 1 /\ o.updated = runs[j].outcome.updated + 0
        /\ Total(o) = Total(runs[j].outcome) + 1 /\ Total(runs[j].outcome) \in Nat
    BY <1>2, CountedOne
  <2>3. w \in Outcome /\ w.created = written[j].created + 1 /\ w.updated = written[j].updated + 0
    BY <1>2, CountedOne
  <2>4. /\ runs[j].outcome.created \in Nat /\ runs[j].outcome.updated \in Nat
        /\ o.created \in Nat /\ o.updated \in Nat /\ Total(o) \in Nat
    <3>1. runs[j].outcome.created \in Nat /\ runs[j].outcome.updated \in Nat
      BY <1>2 DEF Outcome
    <3> HIDE DEF o
    <3>2. QED
      BY <2>2, <3>1
  <2>5. /\ run \in RunRows /\ run.outcome = o /\ run.keyed = runs[j].keyed
        /\ run.stage = (IF link THEN "extra" ELSE "row")
        /\ run.at = (IF link THEN runs[j].at ELSE runs[j].at + 1)
    <3>1. CASE link
      <4>1. run = [runs[j] EXCEPT !.stage = "extra", !.at = runs[j].at, !.outcome = o]
        BY <3>1
      <4> HIDE DEF run, o
      <4>2. QED
        BY <1>2, <2>2, <3>1, <4>1 DEF RunRows, RowStages
    <3>2. CASE ~link
      <4>1. run = [runs[j] EXCEPT !.stage = "row", !.at = runs[j].at + 1, !.outcome = o]
        BY <3>2
      <4>2. runs[j].at + 1 \in Nat \ {0}
        BY <1>2
      <4> HIDE DEF run, o
      <4>3. QED
        BY <1>2, <2>2, <3>2, <4>1, <4>2 DEF RunRows, RowStages
    <3>3. QED
      BY <3>1, <3>2
  <2> HIDE DEF run, o, w, link
  <2>6. run.stage \in RowStages /\ run.stage # "summarise" /\ run.stage # "save"
    BY <2>5 DEF RowStages
  <2>7. Placed(jobs[j], run)
    BY <1>1, <1>2, <2>5 DEF Placed, ReportStages, AfterStages, Kind, Ask
  <2>8. ASSUME j \notin split PROVE Tallied(Kind(j), run, w)
    <3>1. /\ written[j].created = runs[j].outcome.created /\ written[j].updated = runs[j].outcome.updated
          /\ Total(runs[j].outcome) + 1 = runs[j].at
      <4>1. Uncounted(Kind(j), runs[j], FALSE) = 0 /\ Uncounted(Kind(j), runs[j], TRUE) = 0
            /\ Linking(Kind(j), runs[j]) = 0
        BY <1>2 DEF Uncounted, Linking
      <4>2. /\ written[j].created = runs[j].outcome.created + 0 /\ written[j].updated = runs[j].outcome.updated + 0
            /\ Total(runs[j].outcome) + 1 = runs[j].at + 0
        BY <1>2, <2>8, <4>1 DEF Tallied
      <4>3. QED
        BY <1>2, <2>4, <4>2
    <3>2. w.created = o.created + 0 /\ w.updated = o.updated + 0
      BY <2>2, <2>3, <2>4, <3>1
    <3>3. Uncounted(Kind(j), run, FALSE) = 0 /\ Uncounted(Kind(j), run, TRUE) = 0
      BY <1>1 DEF Uncounted
    <3>4. Linking(Kind(j), run) = IF link THEN 1 ELSE 0
      BY <1>1, <2>5 DEF Linking
    <3>5. Total(o) + 1 = run.at + (IF link THEN 1 ELSE 0)
      BY <1>2, <2>2, <2>4, <2>5, <3>1
    <3>6. Total(run.outcome) + 1 = run.at + Linking(Kind(j), run)
      BY <2>5, <3>4, <3>5
    <3>7. w.created = run.outcome.created + Uncounted(Kind(j), run, FALSE)
          /\ w.updated = run.outcome.updated + Uncounted(Kind(j), run, TRUE)
      BY <2>5, <3>2, <3>3
    <3>8. QED
      BY <3>6, <3>7 DEF Tallied
  <2>9. runs'[j] = run /\ UNCHANGED <<storage, ready, edits>>
    BY <2>1 DEF Goes, reportFiles, patches, JobInv, JobTypeOK
  <2>10. Others(j) => KeySound'
    BY <1>2, <2>1, <2>5, <2>6, <2>9, OthersKeys DEF JobInv
  <2>11. records \subseteq RecordKeys /\ <<j, runs[j].at>> \in RecordKeys
    <3>1. Ask(j) \in Uploads /\ FileRows \in Nat
      BY <1>2, BackgroundJobsAssumption, RunningJob
    <3>2. Len(Ask(j).file) <= FileRows
      BY <3>1, BackgroundJobsAssumption
    <3>3. runs[j].at \in 1..FileRows
      BY <1>1, <1>2, <3>1, <3>2
    <3>4. QED
      BY <3>3 DEF RecordKeys, JobInv, JobTypeOK
  <2>12. /\ records' \subseteq RecordKeys
         /\ \/ records' = records
            \/ /\ ~Strict(j) /\ Kind(j) = "workbook"
               /\ \A k \in records' : k \in records \/ k[1] = j
    BY <1>1, <2>1, <2>11
  <2>13. QED
    BY <1>1, <1>2, <2>1, <2>3, <2>5, <2>6, <2>7, <2>8, <2>9, <2>10, <2>12, RowStep DEF RowStages, JobInv, JobTypeOK
<1>5. QED
  BY <1>3, <1>4

\* The file is done: a strict import gives up the key it held with the commit.
LEMMA DoneStep ==
  ASSUME JobInv, NEW j \in Job, RowsDone(j)
  PROVE  JobInv'
<1> DEFINE stage == IF Kind(j) = "workbook" THEN "look" ELSE "finish"
           run == [runs[j] EXCEPT !.stage = stage, !.keyed = 0, !.named = 0]
<1>1. /\ Running(j, "row") /\ runs[j].at > Len(Ask(j).file)
      /\ IF Strict(j)
         THEN /\ entities' = [keyed |-> entities.keyed + runs[j].keyed, named |-> entities.named + runs[j].named]
              /\ records' = IF Kind(j) = "workbook" THEN records \union ({j} \X DOMAIN Ask(j).file) ELSE records
         ELSE UNCHANGED <<entities, records>>
      /\ entities'.named <= MaxNamed /\ Goes(j, run)
      /\ UNCHANGED <<jobs, message, summaries, storage, ready, written, split, again, overlapped, edits, revived>>
  BY DEF RowsDone, reportFiles, patches, jobHistory
<1>2. /\ runs[j] # NotRunning /\ runs[j] \in RunRows /\ runs[j].stage = "row" /\ runs[j].at \in Nat \ {0}
      /\ Placed(jobs[j], runs[j]) /\ written[j] \in Outcome /\ Len(Ask(j).file) \in Nat
      /\ runs[j].keyed \in 0..1 /\ runs[j].named \in Nat
  BY <1>1, RunFields
<1>3. Kind(j) # "report" /\ Kind(j) \in JobKinds /\ runs[j].at = Len(Ask(j).file) + 1
      /\ jobs[j] # NoJob /\ jobs[j].status = "Importing"
  <2>1. Kind(j) # "report" /\ runs[j].at <= Len(Ask(j).file) + 1 /\ jobs[j].status = "Importing"
    BY <1>2 DEF Placed, Kind, Ask, ReportStages
  <2>2. QED
    BY <1>1, <1>2, <2>1, RunningJob
<1>4. /\ run \in RunRows /\ run.stage = stage /\ run.at = runs[j].at /\ run.outcome = runs[j].outcome
      /\ run.keyed = 0
  <2>1. stage \in RowStages \union AfterStages \union ReportStages
    BY DEF AfterStages
  <2>2. 0 \in 0..1 /\ 0 \in Nat
    OBVIOUS
  <2> HIDE DEF stage
  <2>3. run \in [stage : RowStages \union AfterStages \union ReportStages, at : Nat \ {0}, outcome : Outcome,
                 found : BOOLEAN, keyed : 0..1, named : Nat, bare : SUBSET RecordKeys]
    BY <1>2, <2>1, <2>2 DEF RunRows
  <2>4. QED
    BY <1>2, <2>3 DEF RunRows
<1> HIDE DEF run
<1>5. run # NotRunning /\ run.stage \in {"look", "finish"}
  BY <1>4, RunIsNone
<1>6. Placed(jobs[j], run)
  BY <1>2, <1>3, <1>4, <1>5 DEF Placed, ReportStages, AfterStages, Kind, Ask
<1>7. ASSUME j \notin split PROVE Tallied(Kind(j), run, written[j])
  <2>1. Tallied(Kind(j), runs[j], written[j])
    BY <1>2, <1>3, <1>7, RunningJob
  <2>2. /\ Uncounted(Kind(j), run, FALSE) = Uncounted(Kind(j), runs[j], FALSE)
        /\ Uncounted(Kind(j), run, TRUE) = Uncounted(Kind(j), runs[j], TRUE)
        /\ Linking(Kind(j), run) = Linking(Kind(j), runs[j])
    BY <1>2, <1>5 DEF Uncounted, Linking
  <2>3. QED
    BY <1>4, <2>1, <2>2 DEF Tallied
<1>8. written' = [written EXCEPT ![j] = written[j]]
  BY <1>1 DEF JobInv, JobTypeOK
<1>9. /\ Others(j) /\ runs'[j] = run
      /\ runs' \in [Job -> RunRows \union {NotRunning}]
      /\ RunsSound' /\ JobsSound'
  <2>1. split' \in {split, split \union {j}} /\ (j \notin split' => Tallied(Kind(j), run, written[j]))
    BY <1>1, <1>7
  <2>2. UNCHANGED <<jobs, message, storage, ready, again, edits>>
    BY <1>1
  <2>3. Goes(j, run) /\ runs[j] # NotRunning /\ Kind(j) # "report" /\ run \in RunRows /\ written[j] \in Outcome
    BY <1>1, <1>2, <1>3, <1>4
  <2>4. QED
    BY <1>6, <1>8, <2>1, <2>2, <2>3, GoesOn
<1>10. entities \in [keyed : 0..1, named : 0..MaxNamed] /\ MaxNamed \in Nat
  BY BackgroundJobsAssumption DEF JobInv, JobTypeOK
<1>11. runs[j].keyed = 1 => entities.keyed = 0 /\ ~KeyHeld(j)
  BY <1>2 DEF JobInv, KeySound, Holds
<1>12. entities' \in [keyed : 0..1, named : 0..MaxNamed]
  <2>1. CASE Strict(j)
    <3>1. entities.keyed + runs[j].keyed \in 0..1
      BY <1>2, <1>10, <1>11
    <3>2. entities.named + runs[j].named \in 0..MaxNamed
      BY <1>1, <1>2, <1>10, <2>1
    <3>3. QED
      BY <1>1, <2>1, <3>1, <3>2
  <2>2. CASE ~Strict(j)
    BY <1>1, <1>10, <2>2
  <2>3. QED
    BY <2>1, <2>2
<1>13. records' \subseteq RecordKeys
       /\ \A k \in records' : k \in records \/ (k[1] = j /\ Kind(j) = "workbook" /\ Strict(j))
  <2>1. Ask(j) \in Uploads /\ FileRows \in Nat
    BY <1>2, BackgroundJobsAssumption, RunningJob
  <2>2. Len(Ask(j).file) <= FileRows /\ Ask(j).file \in Seq(RowKinds)
    BY <2>1, BackgroundJobsAssumption
  <2>3. DOMAIN Ask(j).file = 1..Len(Ask(j).file)
    BY <2>2
  <2>4. DOMAIN Ask(j).file \subseteq 1..FileRows
    BY <1>2, <2>1, <2>2, <2>3
  <2>5. records \subseteq RecordKeys
    BY DEF JobInv, JobTypeOK
  <2>6. \A k \in {j} \X DOMAIN Ask(j).file : k[1] = j /\ k \in RecordKeys
    BY <2>4 DEF RecordKeys
  <2>7. QED
    BY <1>1, <2>5, <2>6
<1>14. ASSUME NEW k \in Known', k[1] = j PROVE RecordSound(k)'
  <2>1. Kind(j) = "workbook"
    <3>1. k \in Known => RecordSound(k)
      BY DEF JobInv, RecordsSound
    <3>2. QED
      BY <1>1, <1>13, <1>14, <3>1 DEF RecordSound, Known
  <2>2. run.stage = "look"
    BY <1>4, <2>1
  <2>3. ~Running(j, "finish")' /\ ~Running(j, "summarise")'
    BY <1>9, <2>2 DEF Running
  <2>4. ~Unrun(j)' /\ ~Finished(j)' /\ (Kind(j) = "workbook")'
    BY <1>1, <1>3, <2>1 DEF Unrun, Finished, Kind, Ask
  <2>5. QED
    BY <1>1, <1>3, <1>9, <1>14, <2>2, <2>3, <2>4 DEF RecordSound, AfterStages
<1>15. RecordsSound'
  BY <1>1, <1>9, <1>13, <1>14, OthersRecords DEF JobInv, JobTypeOK
<1>16. Summarised'
  BY <1>1, <1>5, <1>9, OthersSummarised DEF JobInv
<1>17. KeySound'
  <2>1. CASE entities'.keyed = entities.keyed
    BY <1>2, <1>4, <1>5, <1>9, <2>1, OthersKeys DEF JobInv
  <2>2. CASE entities'.keyed # entities.keyed
    <3>1. runs[j].keyed = 1
      BY <1>1, <1>2, <1>10, <2>2
    <3>2. \A i \in Job : ~(Holds(i)')
      <4>1. \A i \in Job \ {j} : runs'[i] = runs[i]
        BY <1>9 DEF Others
      <4>2. \A i \in Job \ {j} : runs[i] # NotRunning => ~(runs[i].keyed > 0)
        BY <1>11, <3>1 DEF KeyHeld
      <4>3. QED
        BY <1>4, <1>9, <4>1, <4>2 DEF Holds
    <3>3. ASSUME NEW i \in Job, Running(i, "save")', (FileRow(i) = "keyed")', ~(runs'[i].found)
          PROVE  runs'[i].keyed = 0
      <4>1. i # j
        BY <1>5, <1>9, <3>3 DEF Running
      <4>2. runs'[i] = runs[i] /\ jobs'[i] = jobs[i]
        BY <1>9, <4>1 DEF Others
      <4>3. Running(i, "save") /\ FileRow(i) = "keyed" /\ ~runs[i].found
        BY <3>3, <4>2 DEF Running, FileRow, Ask
      <4>4. QED
        BY <4>2, <4>3 DEF JobInv, KeySound
    <3>4. QED
      BY <3>2, <3>3 DEF KeySound
  <2>3. QED
    BY <2>1, <2>2
<1>18. JobTypeOK'
  BY <1>1, <1>9, <1>12, <1>13 DEF JobInv, JobTypeOK
<1>19. QED
  BY <1>9, <1>15, <1>16, <1>17, <1>18 DEF JobInv

-----------------------------------------------------------------------------
(* The summary of a workbook. *)

\* A workbook that goes on past its rows.
LEMMA AfterStep ==
  ASSUME JobInv, NEW j \in Job, runs[j] # NotRunning, runs[j].stage \in AfterStages, Kind(j) = "workbook",
         NEW run \in RunRows, run.stage \in AfterStages, run.at = runs[j].at, run.outcome = runs[j].outcome,
         run.keyed = runs[j].keyed, Goes(j, run),
         UNCHANGED <<jobs, message, storage, ready, again, edits>>,
         written' = [written EXCEPT ![j] = written[j]], split' = split, entities' = entities
  PROVE  /\ Others(j) /\ runs'[j] = run /\ runs' \in [Job -> RunRows \union {NotRunning}]
         /\ RunsSound' /\ JobsSound' /\ KeySound'
<1>1. /\ Placed(jobs[j], runs[j]) /\ written[j] \in Outcome /\ jobs[j] # NoJob
      /\ j \notin split => Tallied(Kind(j), runs[j], written[j])
  BY RunningJob
<1>2. Placed(jobs[j], run)
  BY <1>1 DEF Placed, AfterStages, ReportStages, Kind, Ask
<1>3. ASSUME j \notin split PROVE Tallied(Kind(j), run, written[j])
  <2>1. /\ Uncounted(Kind(j), run, FALSE) = Uncounted(Kind(j), runs[j], FALSE)
        /\ Uncounted(Kind(j), run, TRUE) = Uncounted(Kind(j), runs[j], TRUE)
        /\ Linking(Kind(j), run) = Linking(Kind(j), runs[j])
    BY DEF Uncounted, Linking, AfterStages
  <2>2. QED
    BY <1>1, <1>3, <2>1 DEF Tallied
<1>4. Kind(j) # "report" /\ split' \in {split, split \union {j}}
  OBVIOUS
<1>5. j \notin split' => Tallied(Kind(j), run, written[j])
  BY <1>3
<1>6. /\ Others(j) /\ runs'[j] = run /\ runs' \in [Job -> RunRows \union {NotRunning}]
      /\ RunsSound' /\ JobsSound'
  BY <1>1, <1>2, <1>4, <1>5, GoesOn
<1>7. KeySound'
  BY <1>6, OthersKeys DEF AfterStages, JobInv
<1>8. QED
  BY <1>6, <1>7

\* The records without an item are read: every record of the workbook has its
\* item or is among them.
LEMMA LookStep ==
  ASSUME JobInv, NEW j \in Job, LookForBare(j)
  PROVE  JobInv'
<1> DEFINE bare == {k \in records : summaries[k] = 0}
           run == [runs[j] EXCEPT !.stage = "summarise", !.bare = bare]
<1>1. /\ Running(j, "look") /\ Goes(j, run)
      /\ overlapped' = (overlapped \/ \E i \in Job \ {j} : Running(i, "summarise"))
      /\ UNCHANGED <<jobs, message, entities, records, summaries, storage, ready, written, split, again, edits, revived>>
  BY DEF LookForBare, importTables, reportFiles, patches
<1>2. runs[j] # NotRunning /\ runs[j] \in RunRows /\ runs[j].stage = "look" /\ Placed(jobs[j], runs[j])
  BY <1>1, RunFields
<1>3. Kind(j) = "workbook" /\ jobs[j].status = "Importing" /\ jobs[j] # NoJob
  BY <1>2, RunningJob DEF Placed, Kind, Ask
<1>4. bare \subseteq RecordKeys /\ records \subseteq RecordKeys /\ summaries \in [RecordKeys -> Nat]
  BY DEF JobInv, JobTypeOK
<1>5. /\ run \in RunRows /\ run.stage = "summarise" /\ run.bare = bare /\ run.at = runs[j].at
      /\ run.outcome = runs[j].outcome /\ run.keyed = runs[j].keyed
  <2> HIDE DEF bare
  <2> QED
    BY <1>2, <1>4 DEF RunRows, AfterStages
<1> HIDE DEF run
<1>6. /\ Others(j) /\ runs'[j] = run /\ runs' \in [Job -> RunRows \union {NotRunning}]
      /\ RunsSound' /\ JobsSound' /\ KeySound'
  <2>1. written' = [written EXCEPT ![j] = written[j]]
    BY <1>1 DEF JobInv, JobTypeOK
  <2>2. QED
    BY <1>1, <1>2, <1>3, <1>5, <2>1, AfterStep DEF AfterStages
<1>7. ASSUME NEW k \in Known', k[1] = j PROVE RecordSound(k)'
  <2>1. k \in records => summaries[k] >= 1 \/ k \in bare
    <3>1. ASSUME k \in records, summaries[k] # 0 PROVE summaries[k] >= 1
      BY <1>4, <3>1
    <3>2. QED
      BY <3>1
  <2>2. runs'[j].bare = bare /\ ~Running(j, "finish")' /\ runs'[j].stage \in AfterStages
    BY <1>5, <1>6 DEF Running, AfterStages
  <2>3. ~Unrun(j)' /\ ~Finished(j)' /\ (Kind(j) = "workbook")' /\ jobs'[j].status # "Failed"
    BY <1>1, <1>3 DEF Unrun, Finished, Kind, Ask
  <2>4. QED
    BY <1>1, <1>7, <2>1, <2>2, <2>3 DEF RecordSound
<1>8. RecordsSound'
  BY <1>1, <1>4, <1>6, <1>7, OthersRecords DEF JobInv, JobTypeOK
<1>9. ASSUME ~overlapped' PROVE Summarised'
  <2>1. ~overlapped /\ \A i \in Job \ {j} : ~Running(i, "summarise")
    BY <1>1, <1>9
  <2>2. \A i \in Job : Running(i, "summarise")' => i = j
    BY <1>6, <2>1 DEF Others, Running
  <2>3. \A k \in RecordKeys : summaries'[k] <= 1
    BY <1>1, <2>1 DEF JobInv, Summarised
  <2>4. runs'[j].bare = bare /\ \A k \in bare : summaries'[k] = 0
    BY <1>1, <1>5, <1>6
  <2>5. QED
    BY <2>2, <2>3, <2>4 DEF Summarised
<1>10. Summarised'
  BY <1>9 DEF Summarised
<1>11. (overlapped') \in BOOLEAN
  BY <1>1 DEF JobInv, JobTypeOK
<1>12. JobTypeOK'
  BY <1>1, <1>6, <1>11 DEF JobInv, JobTypeOK
<1>13. QED
  BY <1>6, <1>8, <1>10, <1>12 DEF JobInv

\* A task that stops without a word: what it had not committed is rolled back.
LEMMA StopStep ==
  ASSUME JobInv, NEW j \in Job, runs[j] # NotRunning,
         Goes(j, NotRunning), message' \subseteq message,
         UNCHANGED <<jobs, entities, records, summaries, storage, split, again, overlapped, edits, revived>>,
         NEW w \in Outcome, written' = [written EXCEPT ![j] = w],
         w # written[j] => w = NoOutcome /\ runs[j].stage \in RowStages,
         ready' = ready \/ (ready' = ready \union {j} /\ Kind(j) = "report" /\ jobs[j].status = "Completed")
  PROVE  JobInv'
<1>1. runs' = [runs EXCEPT ![j] = NotRunning] /\ runs'[j] = NotRunning /\ written'[j] = w
  BY DEF Goes, JobInv, JobTypeOK
<1>2. Others(j)
  BY <1>1 DEF Others, JobInv, JobTypeOK
<1>3. RunsSound'
  BY <1>1, <1>2, OthersRuns DEF RunSound, JobInv
<1>4. JobSound(j) /\ Placed(jobs[j], runs[j]) /\ jobs[j] # NoJob
  BY RunningJob DEF JobInv, JobsSound
<1>5. /\ Kind(j)' = Kind(j) /\ Strict(j)' = Strict(j) /\ Ask(j)' = Ask(j)
      /\ Unrun(j)' = Unrun(j) /\ Finished(j)' = Finished(j)
  BY DEF Kind, Strict, Ask, Unrun, Finished
<1>6. ~Unrun(j)
  BY <1>4 DEF JobSound
<1>7. w # written[j] => ~Finished(j) /\ jobs[j].status # "Failed"
  BY <1>4 DEF Placed, RowStages, Finished
<1>8. JobSound(j)'
  <2>1. Finished(j) /\ Kind(j) # "report" /\ j \notin split =>
          /\ jobs[j].outcome.created = w.created /\ jobs[j].outcome.updated = w.updated
          /\ Total(jobs[j].outcome) = Len(Ask(j).file)
    BY <1>4, <1>7 DEF JobSound
  <2>2. jobs[j] # NoJob /\ Kind(j) # "report" /\ Strict(j) /\ jobs[j].status = "Failed" => w = NoOutcome
    BY <1>4, <1>7 DEF JobSound
  <2>3. j \in ready' => /\ jobs[j] # NoJob /\ Kind(j) = "report" /\ j \in storage
                        /\ j \notin again => jobs[j].status = "Completed"
    <3>1. CASE j \in ready
      BY <1>4, <3>1 DEF JobSound
    <3>2. CASE j \notin ready /\ j \in ready'
      BY <1>4, <3>2 DEF JobSound, Finished
    <3>3. QED
      BY <3>1, <3>2
  <2>4. Finished(j) /\ Kind(j) = "report" => j \in storage
    BY <1>4 DEF JobSound
  <2>5. QED
    BY <1>1, <1>4, <1>5, <1>6, <2>1, <2>2, <2>3, <2>4 DEF JobSound
<1>9. JobsSound'
  BY <1>2, <1>8, OthersJobs DEF JobInv
<1>10. ASSUME NEW k \in Known', k[1] = j PROVE RecordSound(k)'
  <2>1. k \in Known /\ RecordSound(k)
    BY <1>1, <1>10, KnownSound
  <2>2. ~Running(j, "finish")' /\ ~Running(j, "summarise")'
    BY <1>1 DEF Running
  <2>3. QED
    BY <1>1, <1>5, <1>10, <2>1, <2>2 DEF RecordSound
<1>11. RecordsSound'
  BY <1>2, <1>10, OthersRecords DEF JobInv, JobTypeOK
<1>12. Summarised' /\ KeySound'
  BY <1>1, <1>2, OthersSummarised, OthersKeys DEF JobInv
<1>13. JobTypeOK'
  BY <1>1 DEF JobInv, JobTypeOK
<1>14. QED
  BY <1>3, <1>9, <1>11, <1>12, <1>13 DEF JobInv

\* Each record that was found bare gets an item, or the task ends with an error.
LEMMA SummariseStep ==
  ASSUME JobInv, NEW j \in Job, Summarise(j)
  PROVE  JobInv'
<1>1. /\ Running(j, "summarise")
      /\ UNCHANGED <<jobs, entities, records, storage, ready, written, split, again, overlapped, edits>>
  BY DEF Summarise, reportFiles, patches, jobHistory
<1>2. /\ runs[j] # NotRunning /\ runs[j] \in RunRows /\ runs[j].stage = "summarise"
      /\ Placed(jobs[j], runs[j]) /\ written[j] \in Outcome
  BY <1>1, RunFields
<1>3. Kind(j) = "workbook" /\ jobs[j].status = "Importing" /\ jobs[j] # NoJob
  BY <1>2, RunningJob DEF Placed, Kind, Ask
<1>4. CASE ~(runs[j].bare \subseteq records)
  <2>1. Goes(j, NotRunning) /\ message' \subseteq message /\ UNCHANGED <<summaries, revived>>
    BY <1>4 DEF Summarise
  <2>2. written' = [written EXCEPT ![j] = written[j]]
    BY <1>1 DEF JobInv, JobTypeOK
  <2>3. QED
    BY <1>1, <1>2, <2>1, <2>2, StopStep
<1>5. CASE runs[j].bare \subseteq records
  <2> DEFINE run == [runs[j] EXCEPT !.stage = "finish"]
  <2>1. /\ summaries' = [k \in RecordKeys |-> summaries[k] + (IF k \in runs[j].bare THEN 1 ELSE 0)]
        /\ Goes(j, run) /\ UNCHANGED message /\ revived' = revived \ runs[j].bare
    BY <1>5 DEF Summarise, To
  <2>2. /\ run \in RunRows /\ run.stage = "finish" /\ run.at = runs[j].at
        /\ run.outcome = runs[j].outcome /\ run.keyed = runs[j].keyed
    BY <1>2 DEF RunRows, AfterStages
  <2> HIDE DEF run
  <2>3. /\ Others(j) /\ runs'[j] = run /\ runs' \in [Job -> RunRows \union {NotRunning}]
        /\ RunsSound' /\ JobsSound' /\ KeySound'
    <3>1. written' = [written EXCEPT ![j] = written[j]]
      BY <1>1 DEF JobInv, JobTypeOK
    <3>2. QED
      BY <1>1, <1>2, <1>3, <2>1, <2>2, <3>1, AfterStep DEF AfterStages
  <2>4. /\ records \subseteq RecordKeys /\ summaries \in [RecordKeys -> Nat]
        /\ summaries' \in [RecordKeys -> Nat]
        /\ \A k \in RecordKeys : summaries'[k] >= summaries[k] /\ (k \in runs[j].bare => summaries'[k] >= 1)
    <3>1. records \subseteq RecordKeys /\ summaries \in [RecordKeys -> Nat]
      BY DEF JobInv, JobTypeOK
    <3>2. \A k \in RecordKeys : summaries'[k] = summaries[k] + (IF k \in runs[j].bare THEN 1 ELSE 0)
      BY <2>1
    <3>3. summaries' \in [RecordKeys -> Nat]
      BY <2>1, <3>1
    <3>4. QED
      BY <3>1, <3>2, <3>3
  <2>5. ASSUME NEW k \in Known', k[1] = j PROVE RecordSound(k)'
    <3>1. k \in Known /\ RecordSound(k)
      BY <1>1, <2>5, KnownSound
    <3>2. ASSUME k \in records', k \notin revived' PROVE summaries'[k] >= 1
      <4>1. k \in records /\ k \in RecordKeys /\ (k \in runs[j].bare \/ k \notin revived)
        BY <1>1, <2>1, <2>4, <3>2
      <4>2. summaries[k] >= 1 \/ k \in runs[j].bare
        BY <1>1, <2>5, <3>1, <4>1 DEF RecordSound
      <4>3. summaries[k] \in Nat /\ summaries'[k] \in Nat
        BY <2>4, <4>1
      <4>4. QED
        BY <2>4, <4>1, <4>2, <4>3
    <3>6. ~Unrun(j)' /\ (Kind(j) = "workbook")' /\ jobs'[j].status # "Failed"
          /\ (runs'[j].stage \in AfterStages)
      BY <1>1, <1>3, <2>2, <2>3 DEF Unrun, Kind, Ask, AfterStages
    <3>7. QED
      BY <1>1, <2>5, <3>2, <3>6 DEF RecordSound
  <2>6. RecordsSound'
    <3>1. \A k \in records' : k \in records \/ k[1] = j
      BY <1>1
    <3>2. \A k \in records' : summaries[k] >= 1 \/ k \in revived \ revived' => summaries'[k] >= 1
      <4>1. ASSUME NEW k \in records', summaries[k] >= 1 \/ k \in revived \ revived'
            PROVE  summaries'[k] >= 1
        <5>1. k \in RecordKeys /\ (summaries[k] >= 1 \/ k \in runs[j].bare)
          BY <1>1, <2>1, <2>4, <4>1
        <5>2. summaries[k] \in Nat /\ summaries'[k] \in Nat /\ summaries'[k] >= summaries[k]
          BY <2>4, <5>1
        <5>3. QED
          BY <2>4, <4>1, <5>1, <5>2
      <4>2. QED
        BY <4>1
    <3>3. QED
      BY <2>3, <2>4, <2>5, <3>1, <3>2, OthersRecords DEF JobInv, JobTypeOK
  <2>7. ASSUME ~overlapped' PROVE Summarised'
    <3>1. /\ \A k \in RecordKeys : summaries[k] <= 1
          /\ \A i, h \in Job : Running(i, "summarise") /\ Running(h, "summarise") => i = h
          /\ \A k \in runs[j].bare : summaries[k] = 0
      BY <1>1, <2>7 DEF JobInv, Summarised
    <3>2. \A i \in Job : ~Running(i, "summarise")'
      BY <1>1, <2>2, <2>3, <3>1 DEF Others, Running
    <3>3. ASSUME NEW k \in RecordKeys PROVE summaries'[k] <= 1
      <4>1. summaries'[k] = summaries[k] + (IF k \in runs[j].bare THEN 1 ELSE 0) /\ summaries[k] \in Nat
        BY <2>1, <2>4
      <4>2. CASE k \in runs[j].bare
        BY <3>1, <4>1, <4>2
      <4>3. CASE k \notin runs[j].bare
        BY <3>1, <4>1, <4>3
      <4>4. QED
        BY <4>2, <4>3
    <3>4. QED
      BY <3>2, <3>3 DEF Summarised
  <2>8. Summarised'
    BY <2>7 DEF Summarised
  <2>9. JobTypeOK'
    BY <1>1, <2>1, <2>3, <2>4 DEF JobInv, JobTypeOK
  <2>10. QED
    BY <2>3, <2>6, <2>8, <2>9 DEF JobInv
<1>6. QED
  BY <1>4, <1>5

LEMMA FinishStep ==
  ASSUME JobInv, NEW j \in Job, FinishImport(j)
  PROVE  JobInv'
<1> DEFINE status == IF runs[j].outcome.skipped > 0 THEN "PartialSuccess" ELSE "Completed"
<1>1. /\ Running(j, "finish") /\ Ends(j, status, runs[j].outcome)
      /\ UNCHANGED <<entities, records, summaries, storage, ready, written, split, again, overlapped, edits, revived>>
  BY DEF FinishImport, importTables, reportFiles, patches, jobHistory
<1>2. /\ runs[j] # NotRunning /\ runs[j] \in RunRows /\ runs[j].stage = "finish" /\ runs[j].at \in Nat \ {0}
      /\ runs[j].outcome \in Outcome /\ Placed(jobs[j], runs[j]) /\ written[j] \in Outcome
      /\ Len(Ask(j).file) \in Nat
  BY <1>1, RunFields
<1>3. Kind(j) # "report" /\ runs[j].at = Len(Ask(j).file) + 1
  BY <1>2 DEF Placed, Kind, Ask, ReportStages, AfterStages
<1>4. ASSUME j \notin split
      PROVE  /\ runs[j].outcome.created = written[j].created /\ runs[j].outcome.updated = written[j].updated
             /\ Total(runs[j].outcome) = Len(Ask(j).file)
  <2>1. Tallied(Kind(j), runs[j], written[j])
    BY <1>2, <1>3, <1>4, RunningJob
  <2>2. /\ Uncounted(Kind(j), runs[j], FALSE) = 0 /\ Uncounted(Kind(j), runs[j], TRUE) = 0
        /\ Linking(Kind(j), runs[j]) = 0
    BY <1>2 DEF Uncounted, Linking
  <2>3. /\ written[j].created = runs[j].outcome.created + 0 /\ written[j].updated = runs[j].outcome.updated + 0
        /\ Total(runs[j].outcome) + 1 = runs[j].at + 0
    BY <2>1, <2>2 DEF Tallied
  <2>4. runs[j].outcome.created \in Nat /\ runs[j].outcome.updated \in Nat /\ Total(runs[j].outcome) \in Nat
    BY <1>2, OutcomeNumbers
  <2>5. QED
    BY <1>2, <1>3, <2>3, <2>4
<1>5. status \in {"Completed", "PartialSuccess", "Failed"} /\ status # "Failed"
  OBVIOUS
<1>6. written' = [written EXCEPT ![j] = written[j]]
  BY <1>1 DEF JobInv, JobTypeOK
<1> HIDE DEF status
<1>7. status = "Failed" /\ Strict(j) => written[j] = NoOutcome /\ runs[j].stage \in RowStages
  BY <1>5
<1>8. status # "Failed" =>
        /\ runs[j].stage = "finish"
        /\ j \notin split =>
             /\ runs[j].outcome.created = written[j].created /\ runs[j].outcome.updated = written[j].updated
             /\ Total(runs[j].outcome) = Len(Ask(j).file)
  BY <1>2, <1>4
<1>9. QED
  <2>1. /\ runs[j] # NotRunning /\ Kind(j) # "report" /\ runs[j].outcome \in Outcome
        /\ written[j] \in Outcome /\ status \in {"Completed", "PartialSuccess", "Failed"}
        /\ Ends(j, status, runs[j].outcome)
        /\ UNCHANGED <<entities, records, summaries, storage, ready, split, again, overlapped, edits, revived>>
    BY <1>1, <1>2, <1>3, <1>5
  <2>2. QED
    BY <1>6, <1>7, <1>8, <2>1, EndStep

LEMMA CrashStep ==
  ASSUME JobInv, NEW j \in Job, ImportCrashes(j)
  PROVE  JobInv'
<1>1. Running(j, "row")
  BY DEF ImportCrashes
<1>2. /\ runs[j] # NotRunning /\ runs[j].stage \in RowStages /\ Placed(jobs[j], runs[j])
      /\ runs[j].outcome \in Outcome /\ written[j] \in Outcome
  BY <1>1, RunFields DEF RowStages
<1>3. Kind(j) # "report"
  BY <1>2 DEF Placed, Kind, Ask, ReportStages, RowStages
<1>4. CASE Strict(j)
  BY <1>2, <1>3, <1>4, AbortStep DEF ImportCrashes
<1>5. CASE ~Strict(j)
  <2> DEFINE outcome == IF Kind(j) = "workbook" THEN runs[j].outcome ELSE NoOutcome
  <2>1. /\ Ends(j, "Failed", outcome)
        /\ UNCHANGED <<entities, records, summaries, storage, ready, written, split, again, overlapped, edits, revived>>
    BY <1>5 DEF ImportCrashes, importTables, reportFiles, patches, jobHistory
  <2>2. outcome \in Outcome
    BY <1>2, NoOutcomeType
  <2>3. written' = [written EXCEPT ![j] = written[j]]
    BY <2>1 DEF JobInv, JobTypeOK
  <2> HIDE DEF outcome
  <2>4. QED
    BY <1>2, <1>3, <1>5, <2>1, <2>2, <2>3, EndStep
<1>6. QED
  BY <1>4, <1>5

LEMMA DieStep ==
  ASSUME JobInv, NEW j \in Job, WorkerDies(j)
  PROVE  JobInv'
<1>1. /\ runs[j] # NotRunning /\ Goes(j, NotRunning) /\ message' \subseteq message
      /\ UNCHANGED <<jobs, entities, records, summaries, storage, ready, split, again, overlapped, edits, revived>>
  BY DEF WorkerDies, importTables, reportFiles, patches
<1>2. written[j] \in Outcome
  BY DEF JobInv, JobTypeOK
<1>3. CASE Strict(j) /\ runs[j].stage \in RowStages
  <2>1. written' = [written EXCEPT ![j] = NoOutcome]
    BY <1>3 DEF WorkerDies
  <2>2. QED
    BY <1>1, <1>3, <2>1, NoOutcomeType, StopStep
<1>4. CASE ~(Strict(j) /\ runs[j].stage \in RowStages)
  <2>1. written' = [written EXCEPT ![j] = written[j]]
    BY <1>4 DEF WorkerDies, JobInv, JobTypeOK
  <2>2. QED
    BY <1>1, <1>2, <2>1, StopStep
<1>5. QED
  BY <1>3, <1>4

-----------------------------------------------------------------------------
(* A job is asked for, begins, and renders its report. *)

\* No record belongs to a job that is not a workbook or has not begun.
LEMMA NoRecords ==
  ASSUME JobInv, NEW j \in Job, Unrun(j) \/ Kind(j) # "workbook"
  PROVE  \A k \in Known : k[1] # j
BY DEF JobInv, RecordsSound, RecordSound

LEMMA UploadStep ==
  ASSUME JobInv, NEW j \in Job, NEW u \in Uploads, Upload(j, u)
  PROVE  JobInv'
<1> DEFINE new == [upload |-> u, status |-> "Pending", outcome |-> NoOutcome]
<1>1. /\ jobs[j] = NoJob /\ jobs' = [jobs EXCEPT ![j] = new] /\ message' \subseteq message \union {j}
      /\ UNCHANGED <<runs, entities, records, summaries, storage, ready, written, split, again, overlapped, edits, revived>>
  BY DEF Upload, importTables, reportFiles, patches, jobHistory
<1>2. JobSound(j) /\ Unrun(j)
  BY <1>1 DEF JobInv, JobsSound, Unrun
<1>3. runs[j] = NotRunning /\ written[j] = NoOutcome /\ j \notin ready
  BY <1>1, <1>2 DEF JobSound
<1>4. new \in JobRows /\ new # NoJob
  <2>1. new \in JobRows
    BY NoOutcomeType DEF JobRows, JobStatuses
  <2>2. QED
    BY <2>1, JobIsNone
<1>5. jobs'[j] = new /\ Others(j)
  BY <1>1 DEF Others, JobInv, JobTypeOK
<1>6. RunsSound'
  BY <1>1, <1>3, <1>5, OthersRuns DEF RunSound, JobInv
<1>7. JobSound(j)'
  BY <1>1, <1>3, <1>4, <1>5 DEF JobSound, Unrun, Finished, Kind, Ask
<1>8. JobsSound'
  BY <1>5, <1>7, OthersJobs DEF JobInv
<1>9. RecordsSound'
  <2>1. \A k \in Known' : k[1] # j
    BY <1>1, <1>2, NoRecords DEF Known
  <2>2. QED
    BY <1>1, <1>5, <2>1, OthersRecords DEF JobInv, JobTypeOK
<1>10. Summarised' /\ KeySound'
  BY <1>1, <1>3, <1>5, OthersSummarised, OthersKeys DEF JobInv
<1>11. JobTypeOK'
  BY <1>1, <1>4 DEF JobInv, JobTypeOK
<1>12. QED
  BY <1>6, <1>8, <1>9, <1>10, <1>11 DEF JobInv

\* A task that begins: an import that is pending, or a report.
LEMMA StartStep ==
  ASSUME JobInv, NEW j \in Job, StartTask(j)
  PROVE  JobInv'
<1>1. /\ j \in message /\ runs[j] = NotRunning
      /\ UNCHANGED <<entities, records, summaries, storage, ready, written, split, overlapped, edits, revived>>
  BY DEF StartTask, importTables, reportFiles, patches
<1>2. JobSound(j) /\ jobs[j] # NoJob /\ jobs[j] \in JobRows
  BY <1>1 DEF JobInv, JobsSound, JobSound, JobTypeOK
<1>3. CASE Kind(j) # "report" /\ jobs[j].status # "Pending"
  <2>1. message' = message \ {j} /\ UNCHANGED <<jobs, runs, again>>
    BY <1>3 DEF StartTask
  <2>2. Others(j)
    BY <1>1, <2>1 DEF Others
  <2>3. RunsSound'
    BY <1>1, <2>1, <2>2, OthersRuns DEF RunSound, JobInv
  <2>4. JobSound(j)'
    BY <1>1, <1>2, <2>1 DEF JobSound, Unrun, Finished, Kind, Ask, Strict
  <2>5. RecordsSound'
    <3>1. ASSUME NEW k \in Known', k[1] = j PROVE RecordSound(k)'
      <4>1. k \in Known /\ RecordSound(k)
        BY <1>1, <3>1, KnownSound
      <4>2. QED
        BY <1>1, <2>1, <4>1 DEF RecordSound, Unrun, Finished, Kind, Ask, Strict, Running
    <3>2. QED
      BY <1>1, <2>2, <3>1, OthersRecords DEF JobInv, JobTypeOK
  <2>6. Summarised' /\ KeySound'
    BY <1>1, <2>1, <2>2, OthersSummarised, OthersKeys DEF JobInv
  <2>7. QED
    BY <1>1, <2>1, <2>2, <2>3, <2>4, <2>5, <2>6, OthersJobs DEF JobInv, JobTypeOK
<1>4. CASE Kind(j) = "report" \/ jobs[j].status = "Pending"
  <2> DEFINE new == [jobs[j] EXCEPT !.status = "Importing"]
             run == [stage |-> IF Kind(j) = "report" THEN "render" ELSE "row", at |-> 1,
                     outcome |-> NoOutcome, found |-> FALSE, keyed |-> 0, named |-> 0, bare |-> {}]
  <2>1. /\ jobs' = [jobs EXCEPT ![j] = new] /\ Goes(j, run) /\ UNCHANGED message
        /\ again' = (IF jobs[j].status = "Pending" THEN again ELSE again \union {j})
    BY <1>4 DEF StartTask
  <2>2. /\ new \in JobRows /\ new # NoJob /\ new.status = "Importing" /\ new.upload = jobs[j].upload
    <3>1. new \in JobRows /\ new.status = "Importing" /\ new.upload = jobs[j].upload
      BY <1>2 DEF JobRows, JobStatuses
    <3>2. QED
      BY <3>1, JobIsNone
  <2>3. /\ run \in RunRows /\ run # NotRunning
        /\ run.stage = (IF Kind(j) = "report" THEN "render" ELSE "row") /\ run.at = 1
        /\ run.outcome = NoOutcome /\ run.keyed = 0
    <3>1. run \in RunRows
      BY NoOutcomeType DEF RunRows, RowStages, ReportStages
    <3>2. QED
      BY <3>1, RunIsNone
  <2> HIDE DEF new, run
  <2>4. jobs'[j] = new /\ runs'[j] = run /\ Others(j)
    BY <1>1, <2>1 DEF Others, Goes, JobInv, JobTypeOK
  <2>5. Ask(j) \in Uploads /\ Len(Ask(j).file) \in Nat
    BY <1>2, BackgroundJobsAssumption DEF Ask, JobRows
  <2>6. /\ Kind(j)' = Kind(j) /\ Strict(j)' = Strict(j) /\ ~(Unrun(j)') /\ ~(Finished(j)')
    BY <2>2, <2>4 DEF Kind, Ask, Strict, Unrun, Finished
  <2>7. RunSound(j)'
    <3>1. Placed(new, run)
      <4>1. new.upload.kind = Kind(j) /\ Len(new.upload.file) \in Nat
        BY <2>2, <2>5 DEF Kind, Ask
      <4>2. CASE Kind(j) = "report"
        BY <2>2, <2>3, <4>1, <4>2 DEF Placed, ReportStages, AfterStages
      <4>3. CASE Kind(j) # "report"
        BY <2>2, <2>3, <4>1, <4>3 DEF Placed, ReportStages, AfterStages
      <4>4. QED
        BY <4>2, <4>3
    <3>2. ASSUME Kind(j) # "report" PROVE Tallied(Kind(j), run, written[j])
      <4>1. written[j] = NoOutcome
        BY <1>2, <1>4, <3>2 DEF JobSound, Unrun
      <4>2. /\ Uncounted(Kind(j), run, FALSE) = 0 /\ Uncounted(Kind(j), run, TRUE) = 0
            /\ Linking(Kind(j), run) = 0
        BY <2>3, <3>2 DEF Uncounted, Linking
      <4>3. NoOutcome.created = NoOutcome.created + 0 /\ NoOutcome.updated = NoOutcome.updated + 0
            /\ Total(NoOutcome) + 1 = 1 + 0
        BY DEF NoOutcome, Total
      <4>4. QED
        BY <2>3, <4>1, <4>2, <4>3 DEF Tallied
    <3>3. QED
      BY <1>1, <2>2, <2>4, <2>6, <3>1, <3>2 DEF RunSound
  <2>8. RunsSound'
    BY <2>4, <2>7, OthersRuns DEF JobInv
  <2>9. JobSound(j)'
    <3>1. j \in ready => Kind(j) = "report" /\ j \in storage /\ j \in again'
      BY <1>2, <2>1 DEF JobSound
    <3>2. QED
      BY <1>1, <2>2, <2>4, <2>6, <3>1 DEF JobSound
  <2>10. JobsSound'
    BY <2>4, <2>9, OthersJobs DEF JobInv
  <2>11. RecordsSound'
    <3>1. Unrun(j) \/ Kind(j) # "workbook"
      BY <1>4 DEF Unrun
    <3>2. \A k \in Known' : k[1] # j
      BY <1>1, <3>1, NoRecords DEF Known
    <3>3. QED
      BY <1>1, <2>4, <3>2, OthersRecords DEF JobInv, JobTypeOK
  <2>12. run.stage # "summarise" /\ run.stage # "save"
    BY <2>3
  <2>13. Summarised'
    BY <1>1, <2>4, <2>12, OthersSummarised DEF JobInv
  <2>14. KeySound'
    <3>1. \A i \in Job \ {j} : runs'[i] = runs[i] /\ jobs'[i] = jobs[i]
      BY <2>4 DEF Others
    <3>2. \A i \in Job : Holds(i)' => Holds(i) /\ (KeyHeld(i)' => KeyHeld(i))
      BY <2>3, <2>4, <3>1 DEF Holds, KeyHeld
    <3>3. ASSUME NEW i \in Job, Running(i, "save")', (FileRow(i) = "keyed")', ~(runs'[i].found)
          PROVE  runs'[i].keyed = 0
      <4>1. i # j
        BY <2>4, <2>12, <3>3 DEF Running
      <4>2. Running(i, "save") /\ FileRow(i) = "keyed" /\ ~runs[i].found /\ runs'[i] = runs[i]
        BY <3>1, <3>3, <4>1 DEF Running, FileRow, Ask
      <4>3. QED
        BY <4>2 DEF JobInv, KeySound
    <3>4. QED
      BY <1>1, <3>2, <3>3 DEF JobInv, KeySound
  <2>15. JobTypeOK'
    <3>1. again' \subseteq Job
      BY <2>1 DEF JobInv, JobTypeOK
    <3>2. runs' \in [Job -> RunRows \union {NotRunning}] /\ jobs' \in [Job -> JobRows \union {NoJob}]
      BY <2>1, <2>2, <2>3 DEF Goes, JobInv, JobTypeOK
    <3>3. QED
      BY <1>1, <2>1, <3>1, <3>2 DEF JobInv, JobTypeOK
  <2>16. QED
    BY <2>8, <2>10, <2>11, <2>13, <2>14, <2>15 DEF JobInv
<1>5. QED
  BY <1>3, <1>4

\* The renderer writes the file, or fails; the row says which.
LEMMA RenderStep ==
  ASSUME JobInv, NEW j \in Job, Render(j) \/ RenderFails(j)
  PROVE  JobInv'
<1> DEFINE run == [runs[j] EXCEPT !.stage = "notify"]
<1>1. /\ Running(j, "render") /\ Goes(j, run)
      /\ UNCHANGED <<message, entities, records, summaries, ready, written, split, again, overlapped, edits, revived>>
      /\ storage' \in {storage, storage \union {j}}
  BY DEF Render, RenderFails, To, importTables, reportFiles, patches, jobHistory
<1>2. \E st \in {"Completed", "Failed"} :
         jobs' = [jobs EXCEPT ![j] = [jobs[j] EXCEPT !.status = st]] /\ (st = "Completed" => j \in storage')
  BY DEF Render, RenderFails
<1>3. PICK st \in {"Completed", "Failed"} :
         jobs' = [jobs EXCEPT ![j] = [jobs[j] EXCEPT !.status = st]] /\ (st = "Completed" => j \in storage')
  BY <1>2
<1> DEFINE job == [jobs[j] EXCEPT !.status = st]
<1>4. /\ runs[j] # NotRunning /\ runs[j] \in RunRows /\ runs[j].stage = "render"
      /\ jobs[j] \in JobRows /\ jobs[j] # NoJob /\ Placed(jobs[j], runs[j]) /\ Len(Ask(j).file) \in Nat
  BY <1>1, RunFields
<1>5. Kind(j) = "report" /\ jobs[j].status = "Importing"
  BY <1>4 DEF Placed, Kind, Ask, ReportStages
<1>6. /\ job \in JobRows /\ job # NoJob /\ job.status = st /\ job.upload = jobs[j].upload
  <2>1. job \in JobRows /\ job.status = st /\ job.upload = jobs[j].upload
    BY <1>4 DEF JobRows, JobStatuses
  <2>2. QED
    BY <2>1, JobIsNone
<1>7. run \in RunRows /\ run # NotRunning /\ run.stage = "notify" /\ run.keyed = runs[j].keyed
  <2>1. run \in RunRows /\ run.stage = "notify" /\ run.keyed = runs[j].keyed
    BY <1>4 DEF RunRows, ReportStages
  <2>2. QED
    BY <2>1, RunIsNone
<1>8. jobs' = [jobs EXCEPT ![j] = job]
  BY <1>3
<1> HIDE DEF job, run
<1>9. jobs'[j] = job /\ runs'[j] = run /\ Others(j)
  BY <1>1, <1>8 DEF Others, Goes, JobInv, JobTypeOK
<1>10. /\ Kind(j)' = Kind(j) /\ ~(Unrun(j)') /\ (Finished(j)' => j \in storage')
  BY <1>3, <1>6, <1>9 DEF Kind, Ask, Unrun, Finished
<1>11. RunSound(j)'
  <2>1. Placed(job, run)
    BY <1>5, <1>6, <1>7 DEF Placed, ReportStages, AfterStages, Kind, Ask
  <2>2. QED
    BY <1>5, <1>6, <1>9, <1>10, <2>1 DEF RunSound
<1>12. JobSound(j)'
  <2>1. JobSound(j)
    BY DEF JobInv, JobsSound
  <2>2. j \in ready => j \in storage' /\ j \in again
    BY <1>1, <1>5, <2>1 DEF JobSound
  <2>3. QED
    BY <1>1, <1>5, <1>6, <1>9, <1>10, <2>2 DEF JobSound
<1>13. RunsSound' /\ JobsSound'
  BY <1>9, <1>11, <1>12, OthersRuns, OthersJobs DEF JobInv
<1>14. RecordsSound'
  <2>1. \A k \in Known' : k[1] # j
    BY <1>1, <1>5, NoRecords DEF Known
  <2>2. QED
    BY <1>1, <1>9, <2>1, OthersRecords DEF JobInv, JobTypeOK
<1>15. Summarised' /\ KeySound'
  BY <1>1, <1>4, <1>7, <1>9, OthersSummarised, OthersKeys DEF JobInv
<1>16. JobTypeOK'
  <2>1. storage' \subseteq Job
    BY <1>1 DEF JobInv, JobTypeOK
  <2>2. runs' \in [Job -> RunRows \union {NotRunning}] /\ jobs' \in [Job -> JobRows \union {NoJob}]
    BY <1>1, <1>6, <1>7, <1>8 DEF Goes, JobInv, JobTypeOK
  <2>3. QED
    BY <1>1, <2>1, <2>2 DEF JobInv, JobTypeOK
<1>17. QED
  BY <1>13, <1>14, <1>15, <1>16 DEF JobInv

LEMMA NotifyStep ==
  ASSUME JobInv, NEW j \in Job, Notify(j)
  PROVE  JobInv'
<1>1. /\ Running(j, "notify") /\ Goes(j, NotRunning) /\ message' \subseteq message
      /\ ready' = (IF jobs[j].status = "Completed" THEN ready \union {j} ELSE ready)
      /\ UNCHANGED <<jobs, entities, records, summaries, storage, written, split, again, overlapped, edits, revived>>
  BY DEF Notify, importTables, jobHistory, patches
<1>2. runs[j] # NotRunning /\ runs[j].stage = "notify" /\ Placed(jobs[j], runs[j]) /\ written[j] \in Outcome
  BY <1>1, RunFields
<1>3. Kind(j) = "report"
  BY <1>2 DEF Placed, Kind, Ask, ReportStages
<1>4. written' = [written EXCEPT ![j] = written[j]]
  BY <1>1 DEF JobInv, JobTypeOK
<1>5. ready' = ready \/ (ready' = ready \union {j} /\ Kind(j) = "report" /\ jobs[j].status = "Completed")
  BY <1>1, <1>3
<1>6. QED
  BY <1>1, <1>2, <1>4, <1>5, StopStep

\* A record is deleted with its summary items.
LEMMA DeleteStep ==
  ASSUME JobInv, NEW k \in RecordKeys, DeleteRecord(k)
  PROVE  JobInv'
<1>1. /\ records' = records \ {k} /\ summaries' = [summaries EXCEPT ![k] = 0] /\ revived' = revived \ {k}
      /\ UNCHANGED <<jobs, message, runs, entities, storage, ready, written, split, again, overlapped, edits>>
  BY DEF DeleteRecord, reportFiles, patches, jobHistory
<1>2. summaries \in [RecordKeys -> Nat] /\ records \subseteq RecordKeys
  BY DEF JobInv, JobTypeOK
<1>3. \A h \in RecordKeys : summaries'[h] = IF h = k THEN 0 ELSE summaries[h]
  BY <1>1, <1>2
<1>4. summaries' \in [RecordKeys -> Nat]
  BY <1>1, <1>2
<1>5. RunsSound'
  BY <1>1 DEF JobInv, RunsSound, RunSound, Kind, Ask
<1>6. JobsSound'
  BY <1>1 DEF JobInv, JobsSound, JobSound, Unrun, Finished, Kind, Ask, Strict
<1>7. ASSUME NEW h \in Known' PROVE RecordSound(h)'
  <2>1. h \in Known /\ (h \in records' => h \in RecordKeys /\ h # k /\ h \in records)
    BY <1>1, <1>2 DEF Known
  <2>2. RecordSound(h) /\ (h \in records' => summaries'[h] = summaries[h])
    BY <1>3, <2>1 DEF JobInv, RecordsSound
  <2>3. QED
    BY <1>1, <2>2 DEF RecordSound, Unrun, Finished, Kind, Ask, Strict, Running
<1>8. RecordsSound'
  BY <1>7 DEF RecordsSound
<1>9. Summarised'
  <2>1. ASSUME ~overlapped PROVE \A h \in RecordKeys : summaries'[h] <= 1
    BY <1>3, <2>1 DEF JobInv, Summarised
  <2>2. ASSUME ~overlapped, NEW j \in Job, Running(j, "summarise"), NEW h \in runs[j].bare
        PROVE  summaries'[h] = 0
    <3>1. summaries[h] = 0
      BY <2>2 DEF JobInv, Summarised
    <3>2. h \in RecordKeys
      BY <2>2, RunFields
    <3>3. QED
      BY <1>3, <3>1, <3>2
  <2>3. QED
    BY <1>1, <2>1, <2>2 DEF JobInv, Summarised, Running
<1>10. KeySound'
  BY <1>1 DEF JobInv, KeySound, Holds, KeyHeld, Running, FileRow, Ask
<1>11. JobTypeOK'
  BY <1>1, <1>2, <1>4 DEF JobInv, JobTypeOK
<1>12. QED
  BY <1>5, <1>6, <1>8, <1>9, <1>10, <1>11 DEF JobInv

\* A record is loaded by a PATCH, or saved by one.
LEMMA EditStep ==
  ASSUME JobInv, NEW k \in RecordKeys, EditRecord(k) \/ SaveEdit(k)
  PROVE  JobInv'
<1>1. UNCHANGED <<jobs, message, runs, entities, summaries, storage, ready, written, split, again, overlapped>>
  BY DEF EditRecord, SaveEdit, importTables, reportFiles, jobHistory
<1>2. /\ records' \subseteq RecordKeys /\ edits' \subseteq RecordKeys /\ revived' \subseteq RecordKeys
      /\ Known' \subseteq Known
      /\ \A h \in records' \ revived' : h \in records \ revived
  BY DEF EditRecord, SaveEdit, importTables, Known, JobInv, JobTypeOK
<1>3. RunsSound' /\ KeySound' /\ Summarised'
  BY <1>1 DEF JobInv, RunsSound, RunSound, KeySound, Holds, KeyHeld, Running, FileRow, Kind, Ask, Summarised
<1>4. JobsSound'
  BY <1>1 DEF JobInv, JobsSound, JobSound, Unrun, Finished, Kind, Ask, Strict
<1>5. RecordsSound'
  BY <1>1, <1>2 DEF JobInv, RecordsSound, RecordSound, Unrun, Finished, Kind, Ask, Strict, Running
<1>6. JobTypeOK'
  BY <1>1, <1>2 DEF JobInv, JobTypeOK
<1>7. QED
  BY <1>3, <1>4, <1>5, <1>6 DEF JobInv

LEMMA JobStutter ==
  ASSUME JobInv, UNCHANGED jobVars
  PROVE  JobInv'
BY DEF JobInv, jobVars, JobTypeOK, RunsSound, RunSound, JobsSound, JobSound, RecordsSound, RecordSound, Known,
       Summarised, KeySound, Unrun, Finished, Kind, Ask, Strict, Running, Holds, KeyHeld, FileRow

LEMMA JobInitHolds == JobInit => JobInv
<1> SUFFICES ASSUME JobInit PROVE JobInv
  OBVIOUS
<1>1. NoOutcome \in Outcome
  BY NoOutcomeType
<1>2. JobTypeOK
  <2>1. 0 \in 0..1 /\ 0 \in 0..MaxNamed
    BY BackgroundJobsAssumption
  <2>2. entities \in [keyed : 0..1, named : 0..MaxNamed]
    BY <2>1 DEF JobInit
  <2>3. jobs \in [Job -> JobRows \union {NoJob}] /\ runs \in [Job -> RunRows \union {NotRunning}]
    BY DEF JobInit
  <2>4. summaries \in [RecordKeys -> Nat] /\ written \in [Job -> Outcome]
    BY <1>1 DEF JobInit
  <2>5. QED
    BY <2>2, <2>3, <2>4 DEF JobInit, JobTypeOK
<1>3. RunsSound /\ RecordsSound /\ KeySound
  BY DEF JobInit, RunsSound, RunSound, RecordsSound, Known, KeySound, Holds, Running
<1>4. JobsSound
  BY DEF JobInit, JobsSound, JobSound, Unrun, Finished
<1>5. Summarised
  BY DEF JobInit, Summarised, Running
<1>6. QED
  BY <1>2, <1>3, <1>4, <1>5 DEF JobInv

LEMMA JobStep == JobInv /\ [JobNext]_jobVars => JobInv'
<1> SUFFICES ASSUME JobInv, [JobNext]_jobVars PROVE JobInv'
  OBVIOUS
<1>1. CASE UNCHANGED jobVars
  BY <1>1, JobStutter
<1>2. CASE JobNext
  <2>1. ASSUME NEW k \in RecordKeys, DeleteRecord(k) \/ EditRecord(k) \/ SaveEdit(k) PROVE JobInv'
    BY <2>1, DeleteStep, EditStep
  <2>2. ASSUME NEW j \in Job, NEW u \in Uploads, Upload(j, u) PROVE JobInv'
    BY <2>2, UploadStep
  <2>3. ASSUME NEW j \in Job, StartTask(j) \/ MatchRow(j) \/ SaveRow(j) \/ SaveFails(j) PROVE JobInv'
    BY <2>3, StartStep, MatchStep, SaveStep, SaveFailsStep
  <2>4. ASSUME NEW j \in Job, Extra(j) \/ ExtraFails(j) \/ SaveRecord(j) \/ RowsDone(j) PROVE JobInv'
    BY <2>4, ExtraStep, ExtraFailsStep, SavedRecordStep, DoneStep
  <2>5. ASSUME NEW j \in Job, LookForBare(j) \/ Summarise(j) \/ FinishImport(j) \/ ImportCrashes(j) PROVE JobInv'
    BY <2>5, LookStep, SummariseStep, FinishStep, CrashStep
  <2>6. ASSUME NEW j \in Job, Render(j) \/ RenderFails(j) \/ Notify(j) \/ WorkerDies(j) PROVE JobInv'
    BY <2>6, RenderStep, NotifyStep, DieStep
  <2>7. QED
    BY <1>2, <2>1, <2>2, <2>3, <2>4, <2>5, <2>6 DEF JobNext
<1>3. QED
  BY <1>1, <1>2

\* Whatever the uploads, the redeliveries and the deaths of workers, a task is
\* where its job and its file allow, and its counters are the rows it wrote.
THEOREM JobsInvariant == JobSpec => []JobInv
<1>1. QED
  BY JobInitHolds, JobStep, PTL DEF JobSpec

\* The job rows, the tasks and what they write keep their types.
THEOREM JobTypesHold == JobSpec => []JobTypeOK
<1>1. JobInv => JobTypeOK
  BY DEF JobInv
<1>2. QED
  BY <1>1, JobsInvariant, PTL

\* What a finished import or report says of itself is so: iams/tasks writes the
\* job row after the rows it counts, whichever step the worker dies at.
THEOREM JobsHonest == JobSpec => []JobsTellTheTruth
<1>1. ASSUME JobInv PROVE JobsTellTheTruth
  <2>1. ASSUME NEW j \in Job, Finished(j), Kind(j) # "report", j \notin split
        PROVE  /\ jobs[j].outcome.created = written[j].created /\ jobs[j].outcome.updated = written[j].updated
               /\ jobs[j].outcome.created + jobs[j].outcome.updated + jobs[j].outcome.skipped = Len(Ask(j).file)
    BY <1>1, <2>1 DEF JobInv, JobsSound, JobSound, Total
  <2>2. ASSUME NEW j \in Job, jobs[j] # NoJob, Kind(j) # "report", Strict(j), jobs[j].status = "Failed"
        PROVE  written[j] = NoOutcome /\ \A k \in records : k[1] # j
    BY <1>1, <2>2 DEF JobInv, JobsSound, JobSound, RecordsSound, RecordSound, Known
  <2>3. ASSUME NEW k \in records, Finished(k[1])
        PROVE  (k \in revived \/ summaries[k] >= 1) /\ (~overlapped => summaries[k] <= 1)
    <3>1. k \in revived \/ summaries[k] >= 1
      BY <1>1, <2>3 DEF JobInv, RecordsSound, RecordSound, Known
    <3>2. k \in RecordKeys /\ summaries[k] \in Nat
      BY <1>1 DEF JobInv, JobTypeOK
    <3>3. ~overlapped => summaries[k] <= 1
      BY <1>1, <3>2 DEF JobInv, Summarised
    <3>4. QED
      BY <3>1, <3>2, <3>3
  <2>4. ASSUME NEW j \in ready PROVE j \in storage /\ (j \notin again => jobs[j].status = "Completed")
    BY <1>1 DEF JobInv, JobTypeOK, JobsSound, JobSound
  <2>5. QED
    BY <2>1, <2>2, <2>3, <2>4 DEF JobsTellTheTruth
<1>2. JobInv => JobsTellTheTruth
  BY <1>1
<1>3. QED
  BY <1>2, JobsInvariant, PTL

-----------------------------------------------------------------------------
(* Reminders: the inductive invariant. *)

ScanRows ==
  [stage : {"next", "dispatch"}, kind : NoteKinds, todo : SUBSET Cap, found : SUBSET Cap,
   cap : Cap \union {"none"}]
NoteRows == [cap : Cap, kind : NoteKinds, day : 0..MaxDay, mailed : BOOLEAN]

\* A mail names the row it was sent for, if any.
MailsSound ==
  \A m \in mails : m.note \in 0..Len(notes) /\ (m.sent /\ m.note # 0 => m.note \in delivered)
NotesSound ==
  \A i \in DOMAIN notes : notes[i].day <= day /\ (notes[i].mailed => i \in delivered)

OncePerNight ==
  \A i, j \in DOMAIN notes :
    notes[i].cap = notes[j].cap /\ notes[i].kind = notes[j].kind /\ notes[i].day = notes[j].day => i = j

\* One scan at a time: between the look and the row nobody else writes one.
OneScan == \A w, x \in Scanner : Scanning(w) /\ Scanning(x) => w = x
Dispatching(w) == Scanning(w) /\ scans[w].stage = "dispatch"
DispatchIsNew ==
  \A w \in Scanner : Dispatching(w) =>
    \A i \in DOMAIN notes :
      ~(notes[i].cap = scans[w].cap /\ notes[i].kind = scans[w].kind /\ notes[i].day = day)

\* What a scan has found and no longer has to look at was reminded of.
RemindedLately(c) == \E i \in DOMAIN notes : notes[i].cap = c /\ notes[i].day >= day - 1
Pending(s) == s.todo \union (IF s.stage = "dispatch" THEN {s.cap} ELSE {})
AllReminded ==
  /\ \A c \in scanned : RemindedLately(c)
  /\ \A w \in Scanner : Scanning(w) => \A c \in scans[w].found \ Pending(scans[w]) : RemindedLately(c)

RemInv ==
  /\ ReminderTypeOK
  /\ scans \in [Scanner -> ScanRows \union {NoScan}]
  /\ \A w \in Scanner : Dispatching(w) => scans[w].cap \in Cap
  /\ MailsSound /\ NotesSound
  /\ ~jumbled => OneScan /\ OncePerNight /\ DispatchIsNew /\ (pref.inApp => AllReminded)

-----------------------------------------------------------------------------
(* Rows, scans and mails. *)

LEMMA ScanIsNone == \A s \in ScanRows : s # NoScan
<1>1. ASSUME NEW s \in ScanRows PROVE s.stage # NoScan.stage
  BY DEF ScanRows, NoScan
<1>2. QED
  BY <1>1

LEMMA RemTypes ==
  ASSUME RemInv
  PROVE  /\ notes \in Seq(NoteRows) /\ Len(notes) \in Nat /\ DOMAIN notes = 1..Len(notes)
         /\ \A i \in DOMAIN notes : notes[i] \in NoteRows
         /\ day \in 0..MaxDay /\ MaxDay \in Nat /\ day \in Nat
<1>1. notes \in Seq(NoteRows)
  BY DEF RemInv, ReminderTypeOK, NoteRows
<1>2. Len(notes) \in Nat /\ DOMAIN notes = 1..Len(notes) /\ notes \in [1..Len(notes) -> NoteRows]
  BY <1>1, LenProperties
<1>3. day \in 0..MaxDay /\ MaxDay \in Nat /\ day \in Nat
  BY ReminderAssumption DEF RemInv, ReminderTypeOK
<1>4. QED
  BY <1>1, <1>2, <1>3

\* A scan that is at work: its fields.
LEMMA ScanFields ==
  ASSUME RemInv, NEW w \in Scanner, Scanning(w)
  PROVE  /\ scans[w] \in ScanRows /\ scans[w].todo \subseteq Cap /\ scans[w].found \subseteq Cap
         /\ scans[w].kind \in NoteKinds /\ scans[w].cap \in Cap \union {"none"}
         /\ scans[w].stage \in {"next", "dispatch"} /\ scans[w].todo \subseteq scans[w].found
         /\ scans[w].stage = "dispatch" => scans[w].cap \in Cap
<1>1. scans[w] \in ScanRows
  BY DEF RemInv, Scanning
<1>2. scans[w].todo \subseteq scans[w].found
  BY DEF RemInv, ReminderTypeOK
<1>3. scans[w].stage = "dispatch" => scans[w].cap \in Cap
  BY DEF RemInv, Dispatching
<1>4. QED
  BY <1>1, <1>2, <1>3 DEF ScanRows

\* A scan that begins, looks at a corrective action, goes to its next query or
\* ends writes no row.
LEMMA ScanMove ==
  ASSUME RemInv, NEW w \in Scanner, NEW s \in ScanRows \union {NoScan}, Scan(w, s),
         UNCHANGED <<day, notes, open, pref, mails, delivered>>,
         s # NoScan => s.todo \subseteq s.found,
         scanned' \subseteq Cap, (jumbled') \in BOOLEAN, jumbled => jumbled',
         ~jumbled' /\ s # NoScan => \A x \in Scanner \ {w} : ~Scanning(x),
         s # NoScan /\ s.stage = "dispatch" => s.cap \in Cap,
         ~jumbled' /\ s # NoScan /\ s.stage = "dispatch" =>
           \A i \in DOMAIN notes : ~(notes[i].cap = s.cap /\ notes[i].kind = s.kind /\ notes[i].day = day),
         ~jumbled' /\ pref.inApp =>
           /\ \A c \in scanned' : RemindedLately(c)
           /\ s # NoScan => \A c \in s.found \ Pending(s) : RemindedLately(c)
  PROVE  RemInv'
<1>1. /\ scans' \in [Scanner -> ScanRows \union {NoScan}] /\ scans'[w] = s
      /\ \A x \in Scanner \ {w} : scans'[x] = scans[x]
  BY DEF Scan, RemInv
<1>2. s # NoScan => s.kind \in NoteKinds
  BY DEF ScanRows
<1>3. \A x \in Scanner : Scanning(x)' => scans'[x].todo \subseteq scans'[x].found /\ scans'[x].kind \in NoteKinds
  BY <1>1, <1>2 DEF RemInv, ReminderTypeOK, Scanning
<1>4. ReminderTypeOK'
  BY <1>3 DEF RemInv, ReminderTypeOK
<1>5. MailsSound' /\ NotesSound'
  BY DEF RemInv, MailsSound, NotesSound
<1>6. ASSUME ~jumbled' PROVE OneScan' /\ OncePerNight' /\ DispatchIsNew' /\ (pref'.inApp => AllReminded')
  <2>1. ~jumbled /\ OneScan /\ OncePerNight /\ DispatchIsNew /\ (pref.inApp => AllReminded)
    BY <1>6 DEF RemInv
  <2>2. OneScan'
    BY <1>1, <1>6, <2>1 DEF OneScan, Scanning
  <2>3. OncePerNight'
    BY <2>1 DEF OncePerNight
  <2>4. DispatchIsNew'
    <3>1. ASSUME NEW x \in Scanner, Dispatching(x)'
          PROVE  \A i \in DOMAIN notes :
                   ~(notes[i].cap = scans'[x].cap /\ notes[i].kind = scans'[x].kind /\ notes[i].day = day)
      <4>1. CASE x = w
        BY <1>1, <1>6, <3>1, <4>1 DEF Dispatching, Scanning
      <4>2. CASE x # w
        BY <1>1, <2>1, <3>1, <4>2 DEF Dispatching, Scanning, DispatchIsNew
      <4>3. QED
        BY <4>1, <4>2
    <3>2. QED
      BY <3>1 DEF DispatchIsNew
  <2>5. ASSUME pref.inApp PROVE AllReminded'
    <3>1. \A c : RemindedLately(c)' = RemindedLately(c)
      BY DEF RemindedLately
    <3>2. \A c \in scanned' : RemindedLately(c)'
      BY <1>6, <2>5, <3>1
    <3>3. ASSUME NEW x \in Scanner, Scanning(x)', NEW c \in scans'[x].found \ Pending(scans'[x])
          PROVE  RemindedLately(c)'
      <4>1. CASE x = w
        BY <1>1, <1>6, <2>5, <3>1, <3>3, <4>1 DEF Scanning
      <4>2. CASE x # w
        BY <1>1, <2>1, <2>5, <3>1, <3>3, <4>2 DEF Scanning, AllReminded
      <4>3. QED
        BY <4>1, <4>2
    <3>4. (\A x \in Scanner : Scanning(x) => \A c \in scans[x].found \ Pending(scans[x]) : RemindedLately(c))'
      BY <3>3
    <3>5. QED
      BY <3>2, <3>4 DEF AllReminded
  <2>6. QED
    BY <2>2, <2>3, <2>4, <2>5
<1>7. \A x \in Scanner : Dispatching(x)' => scans'[x].cap \in Cap
  BY <1>1 DEF Dispatching, Scanning, RemInv
<1>8. (\A x \in Scanner : Dispatching(x) => scans[x].cap \in Cap)'
  BY <1>7
<1>9. QED
  BY <1>1, <1>4, <1>5, <1>6, <1>8 DEF RemInv

LEMMA StartScanStep ==
  ASSUME RemInv, NEW w \in Scanner, StartScan(w)
  PROVE  RemInv'
<1> DEFINE s == [stage |-> "next", kind |-> "cap_overdue", todo |-> Due("cap_overdue"),
                 found |-> Due("cap_overdue"), cap |-> "none"]
<1>1. /\ Scan(w, s) /\ scanned' = {}
      /\ jumbled' = (jumbled \/ \E x \in Scanner : Scanning(x))
      /\ UNCHANGED <<day, notes, open, pref, mails, delivered>>
  BY DEF StartScan, ScanDone
<1>2. Due("cap_overdue") \subseteq Cap
  BY DEF Due, RemInv, ReminderTypeOK
<1>3. s \in ScanRows /\ s.todo \subseteq s.found /\ s.stage = "next" /\ s.found \ Pending(s) = {}
  BY <1>2 DEF ScanRows, NoteKinds, Pending
<1>4. (jumbled') \in BOOLEAN
  BY <1>1 DEF RemInv, ReminderTypeOK
<1> HIDE DEF s
<1>5. QED
  BY <1>1, <1>3, <1>4, ScanMove

LEMMA CheckStep ==
  ASSUME RemInv, NEW w \in Scanner, NEW c \in Cap, NEW since \in {day - 1, day}, CheckCap(w, c, since)
  PROVE  RemInv'
<1> DEFINE rest == [scans[w] EXCEPT !.todo = scans[w].todo \ {c}]
           found == [rest EXCEPT !.stage = "dispatch", !.cap = c]
           s == IF Recent(c, scans[w].kind, since) THEN rest ELSE found
<1>1. /\ Scanning(w) /\ scans[w].stage = "next" /\ c \in scans[w].todo
      /\ Scan(w, s) /\ UNCHANGED <<day, notes, scanned, jumbled, open, pref, mails, delivered>>
  BY DEF CheckCap, ScanDone
<1>2. scans[w] \in ScanRows /\ scans[w].todo \subseteq scans[w].found
  BY <1>1, ScanFields
<1>3. /\ rest \in ScanRows /\ rest.stage = "next" /\ rest.todo = scans[w].todo \ {c}
      /\ rest.found = scans[w].found /\ rest.kind = scans[w].kind
  BY <1>1, <1>2 DEF ScanRows
<1>4. /\ found \in ScanRows /\ found.stage = "dispatch" /\ found.todo = scans[w].todo \ {c}
      /\ found.found = scans[w].found /\ found.kind = scans[w].kind /\ found.cap = c
  <2> HIDE DEF rest
  <2> QED
    BY <1>3 DEF ScanRows
<1>5. scanned \subseteq Cap /\ jumbled \in BOOLEAN
  BY DEF RemInv, ReminderTypeOK
<1>6. ~jumbled => /\ \A x \in Scanner \ {w} : ~Scanning(x)
                  /\ pref.inApp => /\ \A d \in scanned : RemindedLately(d)
                                   /\ \A d \in scans[w].found \ Pending(scans[w]) : RemindedLately(d)
  BY <1>1 DEF RemInv, OneScan, AllReminded
<1>7. Pending(scans[w]) = scans[w].todo /\ Pending(rest) = scans[w].todo \ {c} /\ Pending(found) = (scans[w].todo \ {c}) \union {c}
  <2> HIDE DEF rest, found
  <2> QED
    BY <1>1, <1>3, <1>4 DEF Pending
<1>8. CASE Recent(c, scans[w].kind, since)
  <2>1. RemindedLately(c)
    <3>1. PICK i \in DOMAIN notes : notes[i].cap = c /\ notes[i].day >= since
      BY <1>8 DEF Recent
    <3>2. notes[i].day \in Nat /\ day \in Nat
      BY RemTypes DEF NoteRows
    <3>3. QED
      BY <3>1, <3>2 DEF RemindedLately
  <2>2. s = rest
    BY <1>8
  <2> HIDE DEF s, rest, found
  <2>3. ~jumbled /\ pref.inApp => \A d \in s.found \ Pending(s) : RemindedLately(d)
    BY <1>3, <1>6, <1>7, <2>1, <2>2
  <2>4. s.todo \subseteq s.found /\ s.stage = "next" /\ s \in ScanRows
    BY <1>2, <1>3, <2>2
  <2>5. QED
    BY <1>1, <1>5, <1>6, <2>3, <2>4, ScanMove
<1>9. CASE ~Recent(c, scans[w].kind, since)
  <2>1. \A i \in DOMAIN notes : ~(notes[i].cap = c /\ notes[i].kind = scans[w].kind /\ notes[i].day = day)
    <3>1. day >= since /\ day \in Nat
      BY RemTypes
    <3>2. QED
      BY <1>9, <3>1 DEF Recent
  <2>2. s = found
    BY <1>9
  <2> HIDE DEF s, rest, found
  <2>3. ~jumbled /\ pref.inApp => \A d \in s.found \ Pending(s) : RemindedLately(d)
    BY <1>1, <1>4, <1>6, <1>7, <2>2
  <2>4. s.todo \subseteq s.found /\ s \in ScanRows /\ s.cap = c /\ s.kind = scans[w].kind
    BY <1>2, <1>4, <2>2
  <2>5. QED
    BY <1>1, <1>5, <1>6, <2>1, <2>3, <2>4, ScanMove
<1>10. QED
  BY <1>8, <1>9

LEMMA QueryStep ==
  ASSUME RemInv, NEW w \in Scanner, NextQuery(w)
  PROVE  RemInv'
<1>1. /\ Scanning(w) /\ scans[w].stage = "next" /\ scans[w].todo = {}
      /\ UNCHANGED <<day, notes, jumbled, open, pref, mails, delivered>>
  BY DEF NextQuery, ScanDone
<1>2. scans[w] \in ScanRows /\ scans[w].found \subseteq Cap
  BY <1>1, ScanFields
<1>3. scanned \subseteq Cap /\ jumbled \in BOOLEAN
  BY DEF RemInv, ReminderTypeOK
<1>4. ~jumbled => /\ \A x \in Scanner \ {w} : ~Scanning(x)
                  /\ pref.inApp => /\ \A d \in scanned : RemindedLately(d)
                                   /\ \A d \in scans[w].found \ Pending(scans[w]) : RemindedLately(d)
  BY <1>1 DEF RemInv, OneScan, AllReminded
<1>5. Pending(scans[w]) = {}
  BY <1>1 DEF Pending
<1>6. CASE scans[w].kind = "cap_overdue"
  <2> DEFINE soon == Due("cap_due_soon")
             s == [scans[w] EXCEPT !.kind = "cap_due_soon", !.todo = soon, !.found = scans[w].found \union soon]
  <2>1. Scan(w, s) /\ UNCHANGED scanned
    BY <1>6 DEF NextQuery
  <2>2. soon \subseteq Cap
    BY DEF Due, RemInv, ReminderTypeOK
  <2>3. /\ s \in ScanRows /\ s.stage = "next" /\ s.todo = soon /\ s.found = scans[w].found \union soon
    <3> HIDE DEF soon
    <3> QED
      BY <1>1, <1>2, <2>2 DEF ScanRows, NoteKinds
  <2> HIDE DEF s, soon
  <2>4. Pending(s) = soon
    BY <2>3 DEF Pending
  <2>5. ~jumbled /\ pref.inApp => \A d \in s.found \ Pending(s) : RemindedLately(d)
    BY <1>4, <1>5, <2>3, <2>4
  <2>6. QED
    BY <1>1, <1>3, <1>4, <2>1, <2>3, <2>5, ScanMove
<1>7. CASE scans[w].kind # "cap_overdue"
  <2>1. Scan(w, NoScan) /\ scanned' = scans[w].found
    BY <1>7 DEF NextQuery
  <2>2. ~jumbled /\ pref.inApp => \A d \in scanned' : RemindedLately(d)
    BY <1>4, <1>5, <2>1
  <2>3. QED
    BY <1>1, <1>2, <1>3, <2>1, <2>2, ScanMove
<1>8. QED
  BY <1>6, <1>7

LEMMA ScanDiesStep ==
  ASSUME RemInv, NEW w \in Scanner, ScanDies(w)
  PROVE  RemInv'
<1>1. Scan(w, NoScan) /\ UNCHANGED <<day, notes, scanned, jumbled, open, pref, mails, delivered>>
  BY DEF ScanDies, ScanDone
<1>2. scanned \subseteq Cap /\ jumbled \in BOOLEAN
  BY DEF RemInv, ReminderTypeOK
<1>3. ~jumbled /\ pref.inApp => \A d \in scanned : RemindedLately(d)
  BY DEF RemInv, AllReminded
<1>4. QED
  BY <1>1, <1>2, <1>3, ScanMove

\* A row of tonight, added or not.
LEMMA RowAdded ==
  ASSUME RemInv, NEW r \in NoteRows, r.day = day, ~r.mailed,
         notes' \in {notes, Append(notes, r)}, Len(notes) < MaxRowsKept
  PROVE  /\ notes' \in Seq(NoteRows)
         /\ Len(notes') \in Nat /\ Len(notes') >= Len(notes) /\ Len(notes') <= Len(notes) + 1
         /\ DOMAIN notes' = 1..Len(notes')
         /\ \A i \in DOMAIN notes : i \in DOMAIN notes' /\ notes'[i] = notes[i]
         /\ \A i \in DOMAIN notes' : i \in DOMAIN notes \/ (notes'[i] = r /\ i = Len(notes) + 1)
         /\ notes' = Append(notes, r) => Len(notes) + 1 \in DOMAIN notes' /\ notes'[Len(notes) + 1] = r
<1>1. notes \in Seq(NoteRows) /\ Len(notes) \in Nat /\ DOMAIN notes = 1..Len(notes)
  BY RemTypes
<1>2. CASE notes' = notes
  <2>1. Len(Append(notes, r)) = Len(notes) + 1
    BY <1>1, AppendProperties
  <2>2. ASSUME notes' = Append(notes, r) PROVE FALSE
    <3>1. Len(notes) = Len(notes) + 1
      BY <1>2, <2>1, <2>2
    <3>2. QED
      BY <1>1, <3>1
  <2>3. Len(notes') = Len(notes) /\ Len(notes') \in Nat
    BY <1>1, <1>2
  <2>4. Len(notes') >= Len(notes) /\ Len(notes') <= Len(notes) + 1
    BY <1>1, <2>3
  <2>5. notes' \in Seq(NoteRows) /\ DOMAIN notes' = 1..Len(notes')
    BY <1>1, <1>2
  <2>6. QED
    BY <1>2, <2>2, <2>3, <2>4, <2>5
<1>3. CASE notes' = Append(notes, r)
  <2>1. /\ notes' \in Seq(NoteRows) /\ Len(notes') = Len(notes) + 1
        /\ \A i \in 1..Len(notes) : notes'[i] = notes[i]
        /\ notes'[Len(notes) + 1] = r
    BY <1>1, <1>3, AppendProperties
  <2>2. DOMAIN notes' = 1..(Len(notes) + 1)
    BY <2>1, LenProperties
  <2>3. QED
    BY <1>1, <2>1, <2>2
<1>4. QED
  BY <1>2, <1>3

\* A reminder is dispatched: the row and the mail that were asked for.
LEMMA RowSent ==
  ASSUME RemInv, NEW w \in Scanner, Scanning(w), scans[w].stage = "dispatch",
         Len(notes) < MaxRowsKept,
         NEW r, r = [cap |-> scans[w].cap, kind |-> scans[w].kind, day |-> day, mailed |-> FALSE],
         notes' \in {notes, Append(notes, r)},
         mails' \subseteq mails \union {[note |-> 0, attempts |-> 0, sent |-> FALSE],
                                        [note |-> Len(notes'), attempts |-> 0, sent |-> FALSE]},
         Scan(w, [scans[w] EXCEPT !.stage = "next"]),
         UNCHANGED <<day, open, pref, delivered, scanned>>,
         (jumbled') \in BOOLEAN, jumbled => jumbled',
         ~jumbled' /\ pref.inApp => notes' = Append(notes, r)
  PROVE  RemInv'
<1> DEFINE s == [scans[w] EXCEPT !.stage = "next"]
<1>1. /\ scans[w] \in ScanRows /\ scans[w].todo \subseteq scans[w].found /\ scans[w].kind \in NoteKinds
      /\ scans[w].found \subseteq Cap /\ scans[w].cap \in Cap
  BY ScanFields
<1>2. /\ s \in ScanRows /\ s.stage = "next" /\ s.todo = scans[w].todo /\ s.found = scans[w].found
      /\ s.kind = scans[w].kind
  BY <1>1 DEF ScanRows
<1>3. Scan(w, s)
  OBVIOUS
<1> HIDE DEF s
<1>4. /\ scans' \in [Scanner -> ScanRows \union {NoScan}] /\ scans'[w] = s
      /\ \A x \in Scanner \ {w} : scans'[x] = scans[x]
  BY <1>2, <1>3 DEF Scan, RemInv
<1>5. /\ notes \in Seq(NoteRows) /\ Len(notes) \in Nat /\ DOMAIN notes = 1..Len(notes)
      /\ \A i \in DOMAIN notes : notes[i] \in NoteRows
      /\ day \in 0..MaxDay /\ MaxDay \in Nat /\ day \in Nat
  BY RemTypes
<1>6. r \in NoteRows /\ r.cap = scans[w].cap /\ r.kind = scans[w].kind /\ r.day = day /\ ~r.mailed
  BY <1>1, <1>5 DEF NoteRows
<1>7. /\ notes' \in Seq(NoteRows)
      /\ Len(notes') \in Nat /\ Len(notes') >= Len(notes) /\ Len(notes') <= Len(notes) + 1
      /\ DOMAIN notes' = 1..Len(notes')
      /\ \A i \in DOMAIN notes : i \in DOMAIN notes' /\ notes'[i] = notes[i]
      /\ \A i \in DOMAIN notes' : i \in DOMAIN notes \/ (notes'[i] = r /\ i = Len(notes) + 1)
      /\ notes' = Append(notes, r) => Len(notes) + 1 \in DOMAIN notes' /\ notes'[Len(notes) + 1] = r
  BY <1>6, RowAdded
<1> DEFINE n == Len(notes')
<1>8. /\ MaxRowsKept \in Nat /\ MaxAttempts \in Nat
      /\ n \in 0..MaxRowsKept /\ n >= Len(notes) /\ Len(notes') = n /\ Len(notes) <= MaxRowsKept
  <2>1. MaxRowsKept \in Nat /\ MaxAttempts \in Nat
    BY ReminderAssumption
  <2>2. n \in Nat /\ n >= Len(notes) /\ n <= Len(notes) + 1 /\ Len(notes') = n
    BY <1>7
  <2> HIDE DEF n
  <2>3. Len(notes) \in Nat /\ Len(notes) + 1 <= MaxRowsKept
    BY <1>5, <2>1
  <2>4. QED
    BY <2>1, <2>2, <2>3
<1> HIDE DEF n
<1>9. mails' \subseteq [note : 0..MaxRowsKept, attempts : 0..MaxAttempts, sent : BOOLEAN]
  <2>1. mails \subseteq [note : 0..MaxRowsKept, attempts : 0..MaxAttempts, sent : BOOLEAN]
    BY DEF RemInv, ReminderTypeOK
  <2>2. 0 \in 0..MaxRowsKept /\ 0 \in 0..MaxAttempts /\ Len(notes') \in 0..MaxRowsKept
    BY <1>8
  <2>3. ASSUME NEW x \in {0, Len(notes')}
        PROVE  [note |-> x, attempts |-> 0, sent |-> FALSE]
                 \in [note : 0..MaxRowsKept, attempts : 0..MaxAttempts, sent : BOOLEAN]
    <3>1. x \in 0..MaxRowsKept
      BY <2>2
    <3>2. QED
      BY <2>2, <3>1
  <2>4. QED
    BY <2>1, <2>3
<1>10. \A x \in Scanner : Scanning(x)' => scans'[x].todo \subseteq scans'[x].found /\ scans'[x].kind \in NoteKinds
  BY <1>1, <1>2, <1>4 DEF RemInv, ReminderTypeOK, Scanning
<1>11. ReminderTypeOK'
  BY <1>7, <1>9, <1>10 DEF RemInv, ReminderTypeOK, NoteRows
<1>12. MailsSound'
  <2>1. ASSUME NEW m \in mails' PROVE m.note \in 0..n /\ (m.sent /\ m.note # 0 => m.note \in delivered)
    <3>1. CASE m \in mails
      <4>1. m.note \in 0..Len(notes) /\ (m.sent /\ m.note # 0 => m.note \in delivered)
        BY <3>1 DEF RemInv, MailsSound
      <4>2. QED
        BY <1>5, <1>8, <4>1
    <3>2. CASE m \notin mails
      <4>1. ~m.sent /\ m.note \in {0, n}
        BY <1>8, <3>2
      <4>2. 0 \in 0..n /\ n \in 0..n
        BY <1>8
      <4>3. QED
        BY <4>1, <4>2
    <3>3. QED
      BY <3>1, <3>2
  <2>2. QED
    BY <1>8, <2>1 DEF MailsSound
<1>13. NotesSound'
  <2>1. ASSUME NEW i \in DOMAIN notes' PROVE notes'[i].day <= day /\ (notes'[i].mailed => i \in delivered)
    <3>1. CASE i \in DOMAIN notes
      BY <1>7, <3>1 DEF RemInv, NotesSound
    <3>2. CASE i \notin DOMAIN notes
      <4>1. notes'[i] = r
        BY <1>7, <3>2
      <4>2. r.day <= day /\ ~r.mailed
        BY <1>5, <1>6
      <4>3. QED
        BY <4>1, <4>2
    <3>3. QED
      BY <3>1, <3>2
  <2>2. QED
    BY <2>1 DEF NotesSound
<1>14. ASSUME ~jumbled' PROVE OneScan' /\ OncePerNight' /\ DispatchIsNew' /\ (pref'.inApp => AllReminded')
  <2>1. ~jumbled /\ OneScan /\ OncePerNight /\ DispatchIsNew /\ (pref.inApp => AllReminded)
    BY <1>14 DEF RemInv
  <2>2. \A x \in Scanner \ {w} : ~Scanning(x) /\ ~(Scanning(x)')
    BY <1>4, <2>1 DEF OneScan, Scanning
  <2>3. OneScan'
    BY <2>2 DEF OneScan
  <2>4. \A i \in DOMAIN notes :
          ~(notes[i].cap = scans[w].cap /\ notes[i].kind = scans[w].kind /\ notes[i].day = day)
    BY <2>1 DEF DispatchIsNew, Dispatching
  <2>5. OncePerNight'
    <3>1. ASSUME NEW i \in DOMAIN notes', NEW k \in DOMAIN notes',
                 notes'[i].cap = notes'[k].cap, notes'[i].kind = notes'[k].kind, notes'[i].day = notes'[k].day
          PROVE  i = k
      <4>1. CASE i \in DOMAIN notes /\ k \in DOMAIN notes
        BY <1>7, <2>1, <3>1, <4>1 DEF OncePerNight
      <4>2. CASE i \in DOMAIN notes /\ k \notin DOMAIN notes
        BY <1>6, <1>7, <2>4, <3>1, <4>2
      <4>3. CASE i \notin DOMAIN notes /\ k \in DOMAIN notes
        BY <1>6, <1>7, <2>4, <3>1, <4>3
      <4>4. CASE i \notin DOMAIN notes /\ k \notin DOMAIN notes
        BY <1>7, <4>4
      <4>5. QED
        BY <4>1, <4>2, <4>3, <4>4
    <3>2. QED
      BY <3>1 DEF OncePerNight
  <2>6. DispatchIsNew'
    BY <1>2, <1>4, <2>2 DEF DispatchIsNew, Dispatching
  <2>7. ASSUME pref.inApp PROVE AllReminded'
    <3>1. \A c : RemindedLately(c) => RemindedLately(c)'
      BY <1>7 DEF RemindedLately
    <3>2. ASSUME NEW c, c = scans[w].cap PROVE RemindedLately(c)'
      <4>1. Len(notes) + 1 \in DOMAIN notes' /\ notes'[Len(notes) + 1] = r
        BY <1>7, <1>14, <2>7
      <4>2. r.cap = scans[w].cap /\ r.day >= day - 1
        BY <1>5, <1>6
      <4>3. notes'[Len(notes) + 1].cap = scans[w].cap /\ notes'[Len(notes) + 1].day >= day - 1
        BY <4>1, <4>2
      <4>4. QED
        BY <3>2, <4>1, <4>3 DEF RemindedLately
    <3>3. \A c \in scanned' : RemindedLately(c)'
      BY <2>1, <2>7, <3>1 DEF AllReminded
    <3>4. ASSUME NEW x \in Scanner, Scanning(x)', NEW c \in scans'[x].found \ Pending(scans'[x])
          PROVE  RemindedLately(c)'
      <4>1. x = w
        BY <2>2, <3>4
      <4>2. c \in scans[w].found /\ c \notin scans[w].todo
        BY <1>2, <1>4, <3>4, <4>1 DEF Pending
      <4>3. c = scans[w].cap \/ c \notin Pending(scans[w])
        BY <4>2 DEF Pending
      <4>4. c \notin Pending(scans[w]) => RemindedLately(c)
        BY <2>1, <2>7, <4>2 DEF AllReminded
      <4>5. QED
        BY <3>1, <3>2, <4>3, <4>4
    <3>5. (\A x \in Scanner : Scanning(x) => \A c \in scans[x].found \ Pending(scans[x]) : RemindedLately(c))'
      BY <3>4
    <3>6. QED
      BY <3>3, <3>5 DEF AllReminded
  <2>8. QED
    BY <2>3, <2>5, <2>6, <2>7
<1>15. (\A x \in Scanner : Dispatching(x) => scans[x].cap \in Cap)'
  <2>1. ASSUME NEW x \in Scanner, Dispatching(x)' PROVE scans'[x].cap \in Cap
    BY <1>2, <1>4, <2>1 DEF RemInv, Dispatching, Scanning
  <2>2. QED
    BY <2>1
<1>16. QED
  BY <1>4, <1>11, <1>12, <1>13, <1>14, <1>15 DEF RemInv

LEMMA DispatchStep ==
  ASSUME RemInv, NEW w \in Scanner, Dispatch(w) \/ DispatchFails(w)
  PROVE  RemInv'
<1> DEFINE r == [cap |-> scans[w].cap, kind |-> scans[w].kind, day |-> day, mailed |-> FALSE]
<1>1. /\ Scanning(w) /\ scans[w].stage = "dispatch" /\ Len(notes) < MaxRowsKept
      /\ Scan(w, [scans[w] EXCEPT !.stage = "next"])
      /\ UNCHANGED <<day, open, pref, delivered, scanned>>
  BY DEF Dispatch, DispatchFails, ScanDone
<1>2. jumbled \in BOOLEAN
  BY DEF RemInv, ReminderTypeOK
<1>3. CASE Dispatch(w)
  <2>1. /\ notes' = (IF pref.inApp THEN Append(notes, r) ELSE notes) /\ jumbled' = jumbled
        /\ mails' = (IF pref.email
                     THEN mails \union {[note |-> IF pref.inApp THEN Len(notes) + 1 ELSE 0,
                                         attempts |-> 0, sent |-> FALSE]}
                     ELSE mails)
    BY <1>3 DEF Dispatch
  <2>2. scans[w].cap \in Cap /\ scans[w].kind \in NoteKinds
    BY <1>1, ScanFields
  <2>3. notes \in Seq(NoteRows) /\ r \in NoteRows
    BY <2>2, RemTypes DEF NoteRows
  <2> HIDE DEF r
  <2>4. pref.inApp => Len(notes') = Len(notes) + 1
    BY <2>1, <2>3, AppendProperties
  <2>5. mails' \subseteq mails \union {[note |-> 0, attempts |-> 0, sent |-> FALSE],
                                        [note |-> Len(notes'), attempts |-> 0, sent |-> FALSE]}
    BY <2>1, <2>4
  <2>6. r = [cap |-> scans[w].cap, kind |-> scans[w].kind, day |-> day, mailed |-> FALSE]
    BY DEF r
  <2>7. QED
    BY <1>1, <1>2, <2>1, <2>5, <2>6, RowSent
<1>4. CASE DispatchFails(w)
  <2>1. notes' \in {notes, Append(notes, r)} /\ jumbled' = TRUE /\ mails' = mails
    BY <1>4 DEF DispatchFails, ScanDone
  <2>2. mails' \subseteq mails \union {[note |-> 0, attempts |-> 0, sent |-> FALSE],
                                        [note |-> Len(notes'), attempts |-> 0, sent |-> FALSE]}
    BY <2>1
  <2>3. r = [cap |-> scans[w].cap, kind |-> scans[w].kind, day |-> day, mailed |-> FALSE]
    OBVIOUS
  <2> HIDE DEF r
  <2>4. QED
    BY <1>1, <2>1, <2>2, <2>3, RowSent
<1>5. QED
  BY <1>3, <1>4

\* What is said of scans depends on the rows, not on their marks.
LEMMA ScansUndisturbed ==
  ASSUME RemInv, UNCHANGED <<day, pref, scans, scanned, jumbled>>,
         DOMAIN notes' = DOMAIN notes,
         \A i \in DOMAIN notes : /\ notes'[i].cap = notes[i].cap /\ notes'[i].kind = notes[i].kind
                                 /\ notes'[i].day = notes[i].day
  PROVE  ~jumbled' => OneScan' /\ OncePerNight' /\ DispatchIsNew' /\ (pref'.inApp => AllReminded')
<1> SUFFICES ASSUME ~jumbled
             PROVE  OneScan' /\ OncePerNight' /\ DispatchIsNew' /\ (pref.inApp => AllReminded')
  OBVIOUS
<1>1. OneScan /\ OncePerNight /\ DispatchIsNew /\ (pref.inApp => AllReminded)
  BY DEF RemInv
<1>2. OneScan' /\ OncePerNight' /\ DispatchIsNew'
  BY <1>1 DEF OneScan, OncePerNight, DispatchIsNew, Dispatching, Scanning
<1>3. \A c : RemindedLately(c) => RemindedLately(c)'
  BY DEF RemindedLately
<1>4. pref.inApp => AllReminded'
  BY <1>1, <1>3 DEF AllReminded, Scanning
<1>5. QED
  BY <1>2, <1>4

LEMMA MailStep ==
  ASSUME RemInv, NEW m \in mails, SendMail(m) \/ MarkMailed(m) \/ MailFails(m)
  PROVE  RemInv'
<1>1. UNCHANGED <<day, open, pref, scans, scanned, jumbled>>
  BY DEF SendMail, MarkMailed, MailFails, MailDone
<1>2. /\ m.note \in 0..MaxRowsKept /\ m.attempts \in 0..MaxAttempts /\ m.sent \in BOOLEAN
      /\ m \in [note : 0..MaxRowsKept, attempts : 0..MaxAttempts, sent : BOOLEAN]
      /\ MaxAttempts \in Nat /\ MaxRowsKept \in Nat
      /\ m.note \in 0..Len(notes) /\ (m.sent /\ m.note # 0 => m.note \in delivered)
  BY ReminderAssumption DEF RemInv, ReminderTypeOK, MailsSound
<1>3. /\ notes \in Seq(NoteRows) /\ Len(notes) \in Nat /\ DOMAIN notes = 1..Len(notes)
      /\ \A i \in DOMAIN notes : notes[i] \in NoteRows
  BY RemTypes
<1>4. \A n \in mails' :
        \/ n \in mails
        \/ /\ n.note = m.note /\ n \in [note : 0..MaxRowsKept, attempts : 0..MaxAttempts, sent : BOOLEAN]
           /\ n.sent => SendMail(m)
  <2>1. CASE SendMail(m)
    <3>1. [m EXCEPT !.sent = TRUE] \in [note : 0..MaxRowsKept, attempts : 0..MaxAttempts, sent : BOOLEAN]
          /\ [m EXCEPT !.sent = TRUE].note = m.note
      BY <1>2
    <3>2. QED
      BY <2>1, <3>1 DEF SendMail
  <2>2. CASE MarkMailed(m)
    BY <2>2 DEF MarkMailed
  <2>3. CASE MailFails(m)
    <3>1. CASE m.attempts < MaxAttempts
      <4>1. m.attempts + 1 \in 0..MaxAttempts
        BY <1>2, <3>1
      <4>2. /\ [m EXCEPT !.attempts = m.attempts + 1, !.sent = FALSE]
                 \in [note : 0..MaxRowsKept, attempts : 0..MaxAttempts, sent : BOOLEAN]
            /\ [m EXCEPT !.attempts = m.attempts + 1, !.sent = FALSE].note = m.note
            /\ ~[m EXCEPT !.attempts = m.attempts + 1, !.sent = FALSE].sent
        BY <1>2, <4>1
      <4>3. QED
        BY <2>3, <4>2 DEF MailFails
    <3>2. CASE ~(m.attempts < MaxAttempts)
      BY <2>3, <3>2 DEF MailFails
    <3>3. QED
      BY <3>1, <3>2
  <2>4. QED
    BY <2>1, <2>2, <2>3
<1>5. /\ delivered \subseteq delivered' /\ delivered' \subseteq 1..MaxRowsKept
      /\ SendMail(m) => m.note = 0 \/ m.note \in delivered'
  <2>1. delivered \subseteq 1..MaxRowsKept
    BY DEF RemInv, ReminderTypeOK
  <2>2. {m.note} \ {0} \subseteq 1..MaxRowsKept
    BY <1>2
  <2>3. delivered' = delivered \/ (delivered' = delivered \union ({m.note} \ {0}))
    BY DEF SendMail, MarkMailed, MailFails
  <2>4. SendMail(m) => delivered' = delivered \union ({m.note} \ {0})
    BY DEF SendMail
  <2>5. QED
    BY <2>1, <2>2, <2>3, <2>4
<1>6. /\ notes' \in Seq(NoteRows) /\ Len(notes') = Len(notes) /\ DOMAIN notes' = DOMAIN notes
      /\ \A i \in DOMAIN notes :
           /\ notes'[i].cap = notes[i].cap /\ notes'[i].kind = notes[i].kind /\ notes'[i].day = notes[i].day
           /\ notes'[i].mailed => notes[i].mailed \/ i \in delivered
  <2>1. CASE notes' = notes
    BY <1>3, <2>1
  <2>2. CASE notes' # notes
    <3>1. /\ MarkMailed(m) /\ m.sent /\ m.note # 0
          /\ notes' = [notes EXCEPT ![m.note] = [notes[m.note] EXCEPT !.mailed = TRUE]]
      BY <2>2 DEF SendMail, MarkMailed, MailFails
    <3>2. m.note \in 1..Len(notes) /\ m.note \in delivered
      BY <1>2, <1>3, <3>1
    <3> DEFINE row == [notes[m.note] EXCEPT !.mailed = TRUE]
    <3>3. /\ row \in NoteRows /\ row.cap = notes[m.note].cap /\ row.kind = notes[m.note].kind
          /\ row.day = notes[m.note].day
      BY <1>3, <3>2 DEF NoteRows
    <3>4. notes' = [notes EXCEPT ![m.note] = row]
      BY <3>1
    <3> HIDE DEF row
    <3>5. /\ notes' \in Seq(NoteRows) /\ Len(notes') = Len(notes)
          /\ \A i \in 1..Len(notes) : notes'[i] = IF i = m.note THEN row ELSE notes[i]
      BY <1>3, <3>2, <3>3, <3>4, ExceptSeq
    <3>6. DOMAIN notes' = 1..Len(notes')
      BY <3>5, LenProperties
    <3>7. QED
      BY <1>3, <3>2, <3>3, <3>5, <3>6
  <2>3. QED
    BY <2>1, <2>2
<1>7. ~jumbled' => OneScan' /\ OncePerNight' /\ DispatchIsNew' /\ (pref'.inApp => AllReminded')
  BY <1>1, <1>6, ScansUndisturbed
<1>8. mails' \subseteq [note : 0..MaxRowsKept, attempts : 0..MaxAttempts, sent : BOOLEAN]
  BY <1>4 DEF RemInv, ReminderTypeOK
<1>9. MailsSound'
  <2>1. ASSUME NEW n \in mails' PROVE n.note \in 0..Len(notes) /\ (n.sent /\ n.note # 0 => n.note \in delivered')
    <3>1. CASE n \in mails
      BY <1>5, <3>1 DEF RemInv, MailsSound
    <3>2. CASE n \notin mails
      BY <1>2, <1>4, <1>5, <3>2
    <3>3. QED
      BY <3>1, <3>2
  <2>2. QED
    BY <1>6, <2>1 DEF MailsSound
<1>10. NotesSound'
  <2>1. ASSUME NEW i \in DOMAIN notes' PROVE notes'[i].day <= day /\ (notes'[i].mailed => i \in delivered')
    BY <1>5, <1>6 DEF RemInv, NotesSound
  <2>2. QED
    BY <1>1, <2>1 DEF NotesSound
<1>11. ReminderTypeOK'
  BY <1>1, <1>5, <1>6, <1>8 DEF RemInv, ReminderTypeOK, NoteRows, Scanning
<1>12. QED
  BY <1>1, <1>7, <1>9, <1>10, <1>11 DEF RemInv, Dispatching, Scanning

LEMMA UserStep ==
  ASSUME RemInv, \/ \E c \in Cap : CloseCap(c)
                 \/ \E p \in [inApp : BOOLEAN, email : BOOLEAN] : SetPreference(p)
  PROVE  RemInv'
<1>1. /\ UNCHANGED <<day, notes, mails, delivered, scans, scanned>>
      /\ (open') \subseteq Cap /\ pref' \in [inApp : BOOLEAN, email : BOOLEAN]
      /\ jumbled' = TRUE \/ (jumbled' = jumbled /\ pref' = pref)
  BY DEF CloseCap, SetPreference, RemInv, ReminderTypeOK
<1>2. ReminderTypeOK'
  BY <1>1 DEF RemInv, ReminderTypeOK, Scanning
<1>3. MailsSound' /\ NotesSound'
  BY <1>1 DEF RemInv, MailsSound, NotesSound
<1>4. ~jumbled' => OneScan' /\ OncePerNight' /\ DispatchIsNew' /\ (pref'.inApp => AllReminded')
  BY <1>1, ScansUndisturbed
<1>5. QED
  BY <1>1, <1>2, <1>3, <1>4 DEF RemInv, Dispatching, Scanning

LEMMA NightStep ==
  ASSUME RemInv, NextNight
  PROVE  RemInv'
<1>1. /\ day' = day + 1 /\ day < MaxDay /\ scanned' = {} /\ \A w \in Scanner : ~Scanning(w)
      /\ UNCHANGED <<open, pref, notes, mails, delivered, scans, jumbled>>
  BY DEF NextNight
<1>2. day \in Nat /\ day' \in 0..MaxDay /\ \A i \in DOMAIN notes : notes[i].day \in Nat
  BY <1>1, RemTypes DEF NoteRows
<1>3. ReminderTypeOK'
  BY <1>1, <1>2 DEF RemInv, ReminderTypeOK, Scanning
<1>4. MailsSound'
  BY <1>1 DEF RemInv, MailsSound
<1>5. NotesSound'
  <2>1. ASSUME NEW i \in DOMAIN notes PROVE notes[i].day <= day + 1 /\ (notes[i].mailed => i \in delivered)
    <3>1. notes[i].day <= day /\ (notes[i].mailed => i \in delivered)
      BY DEF RemInv, NotesSound
    <3>2. QED
      BY <1>2, <3>1
  <2>2. QED
    BY <1>1, <2>1 DEF NotesSound
<1>6. ~jumbled' => OneScan' /\ OncePerNight' /\ DispatchIsNew' /\ AllReminded'
  BY <1>1 DEF RemInv, OneScan, OncePerNight, DispatchIsNew, AllReminded, Dispatching, Scanning
<1>7. QED
  BY <1>1, <1>3, <1>4, <1>5, <1>6 DEF RemInv, Dispatching, Scanning

LEMMA RemInitHolds == ReminderInit => RemInv
<1> SUFFICES ASSUME ReminderInit PROVE RemInv
  OBVIOUS
<1>1. \A w \in Scanner : ~Scanning(w)
  BY DEF ReminderInit, Scanning
<1>2. notes = <<>> /\ notes \in Seq(NoteRows) /\ Len(notes) = 0 /\ DOMAIN notes = {}
  <2>1. notes = <<>> /\ notes \in Seq(NoteRows) /\ Len(notes) = 0
    BY EmptySeq DEF ReminderInit
  <2>2. DOMAIN notes = 1..0
    BY <2>1, LenProperties
  <2>3. QED
    BY <2>1, <2>2
<1>3. ReminderTypeOK
  <2>1. day \in 0..MaxDay
    BY ReminderAssumption DEF ReminderInit
  <2>2. notes \in Seq([cap : Cap, kind : NoteKinds, day : 0..MaxDay, mailed : BOOLEAN])
    BY <1>2 DEF NoteRows
  <2>3. /\ open \subseteq Cap /\ pref \in [inApp : BOOLEAN, email : BOOLEAN]
        /\ mails = {} /\ delivered = {} /\ scanned = {} /\ jumbled = FALSE
    BY DEF ReminderInit
  <2>4. QED
    BY <1>1, <2>1, <2>2, <2>3 DEF ReminderTypeOK
<1>4. scans \in [Scanner -> ScanRows \union {NoScan}] /\ mails = {} /\ scanned = {}
  BY DEF ReminderInit
<1>5. QED
  BY <1>1, <1>2, <1>3, <1>4
     DEF RemInv, MailsSound, NotesSound, OneScan, OncePerNight, DispatchIsNew, Dispatching, AllReminded

LEMMA ReminderStep == RemInv /\ [ReminderNext]_reminderVars => RemInv'
<1> SUFFICES ASSUME RemInv, [ReminderNext]_reminderVars PROVE RemInv'
  OBVIOUS
<1>1. CASE UNCHANGED reminderVars
  BY <1>1 DEF reminderVars, RemInv, ReminderTypeOK, MailsSound, NotesSound, OneScan, OncePerNight, DispatchIsNew,
              Dispatching, AllReminded, Scanning, RemindedLately
<1>2. CASE ReminderNext
  <2>1. ASSUME NEW w \in Scanner, StartScan(w) \/ Dispatch(w) \/ DispatchFails(w) \/ NextQuery(w) \/ ScanDies(w)
        PROVE  RemInv'
    BY <2>1, StartScanStep, DispatchStep, QueryStep, ScanDiesStep
  <2>2. ASSUME NEW w \in Scanner, NEW c \in Cap, NEW since \in {day - 1, day}, CheckCap(w, c, since)
        PROVE  RemInv'
    BY <2>2, CheckStep
  <2>3. ASSUME NEW m \in mails, SendMail(m) \/ MarkMailed(m) \/ MailFails(m) PROVE RemInv'
    BY <2>3, MailStep
  <2>4. QED
    BY <1>2, <2>1, <2>2, <2>3, UserStep, NightStep DEF ReminderNext
<1>3. QED
  BY <1>1, <1>2

\* The rows, the mails and the scans keep their types.
THEOREM ReminderTypesHold == ReminderSpec => []ReminderTypeOK
<1>1. RemInv => ReminderTypeOK
  BY DEF RemInv
<1>2. QED
  BY <1>1, RemInitHolds, ReminderStep, PTL DEF ReminderSpec

\* However many corrective actions, nights and workers: a scan that is repeated,
\* or dies, reminds nobody twice of the same thing the same night and leaves
\* nobody out (iams/tasks/notify.py), and no mail is marked that did not go out.
THEOREM OwnersReminded == ReminderSpec => []RemindersHold
<1>1. ASSUME RemInv PROVE RemindersHold
  <2>1. ~jumbled => OncePerNight /\ (pref.inApp => \A c \in scanned : RemindedLately(c))
    BY <1>1 DEF RemInv, AllReminded
  <2>2. \A i \in DOMAIN notes : notes[i].mailed => i \in delivered
    BY <1>1 DEF RemInv, NotesSound
  <2>3. QED
    BY <2>1, <2>2 DEF RemindersHold, OncePerNight, RemindedLately
<1>2. RemInv => RemindersHold
  BY <1>1
<1>3. QED
  BY <1>2, RemInitHolds, ReminderStep, PTL DEF ReminderSpec

-----------------------------------------------------------------------------
(***************************************************************************)
(* All of it at once.                                                      *)
(***************************************************************************)

\* A step is one of each module, or leaves it alone.
LEMMA StepOfEach ==
  ASSUME [PlatformNext]_platformVars
  PROVE  /\ [LockNext]_lockVars /\ [CredNext]_credVars /\ [MatrixNext]_matrixVars
         /\ [SsoNext]_ssoVars /\ [JobNext]_jobVars /\ [ReminderNext]_reminderVars
<1> USE DEF signInVars, accountVars, serviceVars
<1>1. CASE LockMoves \/ PasswordMoves \/ FactorMoves
  BY <1>1 DEF LockMoves, PasswordMoves, FactorMoves, SignInOnly, CredNext
<1>2. CASE MatrixMoves \/ SsoMoves
  BY <1>2 DEF MatrixMoves, SsoMoves, AccountsOnly
<1>3. CASE JobMoves \/ ReminderMoves
  BY <1>3 DEF JobMoves, ReminderMoves, ServicesOnly
<1>4. CASE UNCHANGED platformVars
  BY <1>4 DEF platformVars
<1>5. QED
  BY <1>1, <1>2, <1>3, <1>4 DEF PlatformNext

\* A behaviour of all of it is one of each module, the others' steps aside: what
\* is proved of a module holds with the others at work.
THEOREM PlatformComposes ==
  PlatformSpec => LockSpec /\ CredSpec /\ MatrixSpec /\ SsoSpec /\ JobSpec /\ ReminderSpec
<1>1. PlatformInit =>
        LockInit /\ CredInit /\ MatrixInit /\ SsoInit /\ JobInit /\ ReminderInit
  BY DEF PlatformInit
<1>2. QED
  BY <1>1, StepOfEach, PTL
     DEF PlatformSpec, LockSpec, CredSpec, MatrixSpec, SsoSpec, JobSpec, ReminderSpec

\* Locks, passwords, rights, accounts, jobs and notifications are of their types,
\* whatever requests, tasks and scanners do.
THEOREM PlatformTypesHold == PlatformSpec => []TypesOK
<1>1. LockTypeOK /\ CredTypeOK /\ MatrixTypeOK /\ SsoTypeOK /\ JobTypeOK /\ ReminderTypeOK
      => TypesOK
  BY DEF TypesOK
<1>2. QED
  BY <1>1, PlatformComposes, LockTypesCorrect, CredTypesHold, MatrixTypesHold, SsoTypesHold,
     JobTypesHold, ReminderTypesHold, PTL

=============================================================================
