------------------------------ MODULE FileScans ------------------------------
(***************************************************************************)
(* Virus scanning of uploaded files: the upload and update handlers that   *)
(* store a file and dispatch scan_uploaded_file, the Celery task that      *)
(* streams the bytes to clamd and writes the verdict back, its retries and *)
(* redeliveries, and the gate the download endpoints put before a file.    *)
(*                                                                         *)
(* Saving a row, resetting its verdict and dispatching the scan are three  *)
(* commits; a task loads the row, scans what it loaded and writes the four *)
(* scan columns whatever file the row has by then; a PATCH writes every    *)
(* column of the copy it loaded.  spoiled is a history variable: the rows  *)
(* whose verdict need not be about their file any more, and why is said    *)
(* where a row is added.                                                   *)
(***************************************************************************)
EXTENDS Naturals, FiniteSets

CONSTANTS
  Rows,        \* rows that carry a file
  Kind,        \* [Rows -> "evidence", "document" or "paper"]
  Files,       \* uploads
  Infected,    \* uploads clamd reports FOUND for
  Oversize,    \* uploads above CLAMD_MAX_FILE_MB
  Workers,     \* web processes
  Celery,      \* Celery worker processes
  MaxRetries,  \* max_retries of the task
  Budget,      \* bounds on uploads, outages, broken scans and deaths
  Keep, Absent

Kinds == {"evidence", "document", "paper"}
Bounded == {"upload", "outage", "broken", "death"}

ASSUME ConstantsAssumption ==
  /\ Kind \in [Rows -> Kinds]
  /\ Infected \subseteq Files
  /\ Oversize \subseteq Files
  /\ MaxRetries \in Nat
  /\ Budget \in [Bounded -> Nat]
  /\ Keep \notin Files

ScanStatuses == {"pending", "clean", "infected", "error"}

FileRows == [file : Files, status : ScanStatuses, quarantined : BOOLEAN]

\* A message of the broker; id tells two dispatches for one row apart.
Messages == [row : Rows, tries : 0..MaxRetries, id : Nat]

VARIABLES
  row,      \* row[r]: the stored row, or Absent
  used,     \* primary keys ever used
  job,      \* job[w]: what web worker w still has to do
  queue,    \* messages nobody is working on
  task,     \* task[c]: the message c has taken and the file it has loaded
  sent,     \* messages dispatched so far
  spoiled,
  spent     \* spent[k]: how much of Budget[k] is used up

vars == <<row, used, job, queue, task, sent, spoiled, spent>>

Idle == [at |-> "idle"]
Jobs ==
  {Idle} \cup [at : {"save"}, row : Rows, copy : FileRows, file : Files \cup {Keep}]
         \cup [at : {"reset", "dispatch"}, row : Rows]
Tasks == {Idle} \cup [at : {"scan"}, msg : Messages, file : Files]

Init ==
  /\ row = [r \in Rows |-> Absent]
  /\ used = {}
  /\ job = [w \in Workers |-> Idle]
  /\ queue = {}
  /\ task = [c \in Celery |-> Idle]
  /\ sent = 0
  /\ spoiled = {}
  /\ spent = [k \in Bounded |-> 0]

Spend(k) ==
  /\ spent[k] < Budget[k]
  /\ spent' = [spent EXCEPT ![k] = @ + 1]

Spoil(r) == spoiled' = spoiled \cup {r}

-----------------------------------------------------------------------------
(* Web handlers. *)

New(f) == [file |-> f, status |-> "pending", quarantined |-> FALSE]

\* The row is stored before its scan is dispatched.
Upload(w, r, f) ==
  /\ job[w] = Idle
  /\ r \notin used
  /\ Spend("upload")
  /\ used' = used \cup {r}
  /\ row' = [row EXCEPT ![r] = New(f)]
  /\ job' = [job EXCEPT ![w] = [at |-> "dispatch", row |-> r]]
  /\ UNCHANGED <<queue, task, sent, spoiled>>

\* PATCH: get_object.  Evidence has no update endpoint.
Load(w, r, f) ==
  /\ job[w] = Idle
  /\ row[r] # Absent
  /\ Kind[r] # "evidence"
  /\ Spend("upload")
  /\ job' = [job EXCEPT ![w] = [at |-> "save", row |-> r, copy |-> row[r], file |-> f]]
  /\ UNCHANGED <<row, used, queue, task, sent, spoiled>>

\* serializer.save() writes the copy back, scan columns included.  Only a
\* document whose file changed is scanned again.
Save(w) ==
  LET j == job[w]
      rescan == j.file # Keep /\ Kind[j.row] = "document"
  IN
  /\ j.at = "save"
  /\ row' = [row EXCEPT ![j.row] = IF j.file = Keep THEN j.copy ELSE [j.copy EXCEPT !.file = j.file]]
  /\ job' = [job EXCEPT ![w] = IF rescan THEN [at |-> "reset", row |-> j.row] ELSE Idle]
  \* The old verdict is kept for a new file, or for the file of a stale copy.
  /\ IF ~rescan /\ row'[j.row] # row[j.row] THEN Spoil(j.row) ELSE UNCHANGED spoiled
  /\ UNCHANGED <<used, queue, task, sent, spent>>

\* The second save of ManagedDocumentViewSet.perform_update.
Reset(w) ==
  LET r == job[w].row IN
  /\ job[w].at = "reset"
  /\ IF row[r] = Absent
     THEN row' = row /\ job' = [job EXCEPT ![w] = Idle]
     ELSE /\ row' = [row EXCEPT ![r].status = "pending", ![r].quarantined = FALSE]
          /\ job' = [job EXCEPT ![w].at = "dispatch"]
  /\ UNCHANGED <<used, queue, task, sent, spoiled, spent>>

\* scan_uploaded_file.delay
Dispatch(w) ==
  /\ job[w].at = "dispatch"
  /\ queue' = queue \cup {[row |-> job[w].row, tries |-> 0, id |-> sent]}
  /\ sent' = sent + 1
  /\ job' = [job EXCEPT ![w] = Idle]
  /\ UNCHANGED <<row, used, task, spoiled, spent>>

\* The web worker dies: what follows its last commit never happens.
WebDies(w) ==
  /\ job[w] # Idle
  /\ Spend("death")
  /\ job' = [job EXCEPT ![w] = Idle]
  /\ IF job[w].at = "save" THEN UNCHANGED spoiled ELSE Spoil(job[w].row)
  /\ UNCHANGED <<row, used, queue, task, sent>>

Delete(r) ==
  /\ row[r] # Absent
  /\ row' = [row EXCEPT ![r] = Absent]
  /\ UNCHANGED <<used, job, queue, task, sent, spoiled, spent>>

-----------------------------------------------------------------------------
(* scan_uploaded_file *)

\* Faulty variant: the message of a row that is gone goes back to the broker.
BeginReturns(c, m) ==
  /\ task[c] = Idle
  /\ m \in queue
  /\ queue' = IF row[m.row] = Absent THEN queue ELSE queue \ {m}
  /\ task' = IF row[m.row] = Absent THEN task
             ELSE [task EXCEPT ![c] = [at |-> "scan", msg |-> m, file |-> row[m.row].file]]
  /\ UNCHANGED <<row, used, job, sent, spoiled, spent>>

\* The task loads its row; if that is gone there is nothing to do.
Begin(c, m) ==
  /\ task[c] = Idle
  /\ m \in queue
  /\ queue' = queue \ {m}
  /\ task' = IF row[m.row] = Absent THEN task
             ELSE [task EXCEPT ![c] = [at |-> "scan", msg |-> m, file |-> row[m.row].file]]
  /\ UNCHANGED <<row, used, job, sent, spoiled, spent>>

Verdict(f) ==
  IF f \in Oversize THEN "error" ELSE IF f \in Infected THEN "infected" ELSE "clean"

\* Faulty variant: only a reported infection is quarantined.
WriteInfectedOnly(c, st) ==
  LET r == task[c].msg.row IN
  IF row[r] = Absent THEN UNCHANGED <<row, spoiled>>
  ELSE /\ row' = [row EXCEPT ![r].status = st, ![r].quarantined = st = "infected"]
       /\ IF row[r].file = task[c].file THEN UNCHANGED spoiled ELSE Spoil(r)

\* The verdict is written to the row, which may have another file by now;
\* if the row is gone the UPDATE fails and with it the task.
Write(c, st) ==
  LET r == task[c].msg.row IN
  IF row[r] = Absent THEN UNCHANGED <<row, spoiled>>
  ELSE /\ row' = [row EXCEPT ![r].status = st, ![r].quarantined = st # "clean"]
       /\ IF row[r].file = task[c].file THEN UNCHANGED spoiled ELSE Spoil(r)

\* Faulty variant: one retry too many.
RequeuedOnceMore(c) ==
  LET m == task[c].msg IN
  IF m.tries <= MaxRetries THEN {[m EXCEPT !.tries = @ + 1]} ELSE {}

\* autoretry_for: the message comes back until its retries are used up.
Requeued(c) ==
  LET m == task[c].msg IN
  IF m.tries < MaxRetries THEN {[m EXCEPT !.tries = @ + 1]} ELSE {}

\* clamd answers, or the file is too large to ask.
Finish(c) ==
  /\ task[c].at = "scan"
  /\ Write(c, Verdict(task[c].file))
  /\ task' = [task EXCEPT ![c] = Idle]
  /\ UNCHANGED <<used, job, queue, sent, spent>>

\* clamd reports ERROR or the client raises anything but a connection error:
\* quarantined, not retried.
Broken(c) ==
  /\ task[c].at = "scan"
  /\ Spend("broken")
  /\ Write(c, "error")
  /\ task' = [task EXCEPT ![c] = Idle]
  /\ UNCHANGED <<used, job, queue, sent>>

\* Faulty variant: nothing is written while clamd cannot be reached.
OutageSilent(c) ==
  /\ task[c].at = "scan"
  /\ Spend("outage")
  /\ queue' = queue \cup Requeued(c)
  /\ task' = [task EXCEPT ![c] = Idle]
  /\ UNCHANGED <<row, used, job, sent, spoiled>>

\* clamd cannot be reached: quarantined, and tried again.
Outage(c) ==
  /\ task[c].at = "scan"
  /\ Spend("outage")
  /\ Write(c, "error")
  /\ queue' = IF row[task[c].msg.row] = Absent THEN queue ELSE queue \cup Requeued(c)
  /\ task' = [task EXCEPT ![c] = Idle]
  /\ UNCHANGED <<used, job, sent>>

\* The storage cannot be reached when the size is asked: tried again, and
\* left without a verdict when the retries are used up.
StorageDown(c) ==
  /\ task[c].at = "scan"
  /\ Spend("outage")
  /\ queue' = queue \cup Requeued(c)
  /\ IF Requeued(c) = {} THEN Spoil(task[c].msg.row) ELSE UNCHANGED spoiled
  /\ task' = [task EXCEPT ![c] = Idle]
  /\ UNCHANGED <<row, used, job, sent>>

\* The Celery worker dies, before or after its verdict is committed.  With
\* acks_late the broker delivers the message again, unless the parent process
\* survives and acknowledges it.
WorkerDies(c) ==
  /\ task[c].at = "scan"
  /\ Spend("death")
  /\ task' = [task EXCEPT ![c] = Idle]
  /\ \/ queue' = queue \cup {task[c].msg} /\ UNCHANGED <<row, spoiled>>
     \/ queue' = queue \cup {task[c].msg} /\ Write(c, Verdict(task[c].file))
     \/ UNCHANGED <<queue, row>> /\ Spoil(task[c].msg.row)
  /\ UNCHANGED <<used, job, sent>>

-----------------------------------------------------------------------------

Serve(w) == Save(w) \/ Reset(w) \/ Dispatch(w)

Run(c) ==
  \/ \E m \in queue : Begin(c, m)
  \/ Finish(c) \/ Broken(c) \/ Outage(c) \/ StorageDown(c) \/ WorkerDies(c)

Next ==
  \/ \E w \in Workers :
       \/ \E r \in Rows, f \in Files : Upload(w, r, f)
       \/ \E r \in Rows, f \in Files \cup {Keep} : Load(w, r, f)
       \/ Serve(w)
       \/ WebDies(w)
  \/ \E r \in Rows : Delete(r)
  \/ \E c \in Celery : Run(c)

\* A handler that has begun goes on, and Celery workers take what is queued
\* and end what they took (CELERY_TASK_TIME_LIMIT).
Fairness ==
  /\ \A w \in Workers : WF_vars(Serve(w))
  /\ \A c \in Celery : WF_vars(Run(c))

Spec == Init /\ [][Next]_vars
FairSpec == Spec /\ Fairness

-----------------------------------------------------------------------------
(* Properties. *)

\* Every variable has its type.
TypeOK ==
  /\ row \in [Rows -> FileRows \cup {Absent}]
  /\ used \subseteq Rows
  /\ job \in [Workers -> Jobs]
  /\ queue \subseteq Messages
  /\ task \in [Celery -> Tasks]
  /\ sent \in Nat
  /\ spoiled \subseteq Rows
  /\ spent \in [Bounded -> Nat]

Stored == {r \in Rows : row[r] # Absent}

\* The gates before a URL: the download endpoints of evidence and papers, and
\* get_downloadUrl, which does not ask whether a document's scan is over.
Served(r) == ~row[r].quarantined /\ (Kind[r] = "document" \/ row[r].status # "pending")

\* A message for r is queued or being worked on.
Awaited(r) ==
  \/ \E m \in queue : m.row = r
  \/ \E c \in Celery : task[c].at = "scan" /\ task[c].msg.row = r

\* A handler has still something to do to r before its scan is dispatched.
Handled(r) == \E w \in Workers : job[w].at \in {"reset", "dispatch"} /\ job[w].row = r

\* A file that passes its gate is one clamd lets pass, whatever retries,
\* duplicate deliveries and outages came between; the exception is a document
\* whose first scan is still to come, and then that scan is on its way.
ServedIsClean ==
  \A r \in Stored \ spoiled : Served(r) /\ ~Handled(r) =>
    \/ Verdict(row[r].file) = "clean"
    \/ Kind[r] = "document" /\ row[r].status = "pending" /\ Awaited(r)

\* When no message is left for a file its verdict is in: the true one, or
\* the fail-closed one of a scan that broke.
VerdictIsIn ==
  \A r \in Stored \ spoiled : ~Awaited(r) /\ ~Handled(r) =>
    \/ row[r].status = Verdict(row[r].file)
    \/ row[r].status = "error" /\ row[r].quarantined

\* Every dispatched scan comes to an end.
ScansEnd == \A r \in Rows : Awaited(r) ~> ~Awaited(r)

\* The claim of iams/tasks/scans.py: an infected file becomes unavailable;
\* it does not become available again while it is the file of its row.
InfectedStaysQuarantined ==
  [][\A r \in Stored :
       row[r].status = "infected" /\ row'[r] # Absent /\ row'[r].file = row[r].file
         => row'[r].quarantined]_vars
=============================================================================
