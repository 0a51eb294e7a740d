--------------------------- MODULE FileScans_proofs ---------------------------
(***************************************************************************)
(* Theorems about FileScans, for every set of rows, uploads, web and       *)
(* Celery workers, every max_retries and every number of faults.           *)
(***************************************************************************)
EXTENDS FileScans, TLAPS

-----------------------------------------------------------------------------
(* Rows, jobs and tasks. *)

LEMMA VerdictType == ASSUME NEW f PROVE Verdict(f) \in ScanStatuses \ {"pending"}
BY DEF Verdict, ScanStatuses

LEMMA StoredRow ==
  ASSUME TypeOK, NEW r \in Rows, row[r] # Absent
  PROVE  row[r] \in FileRows
BY DEF TypeOK

\* A worker that has something to do has it to do to a row.
LEMMA BusyJob ==
  ASSUME TypeOK, NEW w \in Workers, job[w].at # "idle"
  PROVE  /\ job[w].row \in Rows
         /\ job[w].at = "save" => job[w].copy \in FileRows /\ job[w].file \in Files \cup {Keep}
         /\ job[w].at \in {"save", "reset", "dispatch"}
<1>1. job[w] \in Jobs /\ job[w] # Idle
  BY DEF TypeOK, Idle
<1>2. QED
  BY <1>1 DEF Jobs

LEMMA BusyTask ==
  ASSUME TypeOK, NEW c \in Celery, task[c].at = "scan"
  PROVE  task[c].msg \in Messages /\ task[c].file \in Files /\ task[c].msg.row \in Rows
<1>1. task[c] \in Tasks /\ task[c] # Idle
  BY DEF TypeOK, Idle
<1>2. QED
  BY <1>1 DEF Tasks, Messages

LEMMA WriteType ==
  ASSUME TypeOK, NEW c \in Celery, task[c].at = "scan",
         NEW st \in ScanStatuses, Write(c, st)
  PROVE  row' \in [Rows -> FileRows \cup {Absent}] /\ spoiled' \subseteq Rows
<1> DEFINE r == task[c].msg.row
<1>1. r \in Rows
  BY BusyTask
<1>2. CASE row[r] = Absent
  BY <1>2 DEF Write, TypeOK
<1>3. CASE row[r] # Absent
  <2>1. row[r] \in FileRows
    BY <1>1, <1>3, StoredRow
  <2>2. (st # "clean") \in BOOLEAN
    OBVIOUS
  <2>3. [row[r] EXCEPT !.status = st, !.quarantined = st # "clean"] \in FileRows
    BY <2>1, <2>2 DEF FileRows
  <2>4. row' = [row EXCEPT ![r] = [row[r] EXCEPT !.status = st, !.quarantined = st # "clean"]]
    BY <1>1, <1>3 DEF Write, TypeOK
  <2>5. row' \in [Rows -> FileRows \cup {Absent}]
    BY <1>1, <2>3, <2>4 DEF TypeOK
  <2>6. spoiled' \subseteq Rows
    BY <1>1, <1>3 DEF Write, Spoil, TypeOK
  <2>7. QED
    BY <2>5, <2>6
<1>4. QED
  BY <1>2, <1>3

LEMMA RequeuedType ==
  ASSUME TypeOK, NEW c \in Celery, task[c].at = "scan"
  PROVE  /\ Requeued(c) \subseteq Messages
         /\ \A m \in Requeued(c) : m.row = task[c].msg.row
<1>1. task[c].msg \in Messages
  BY BusyTask
<1>2. QED
  BY <1>1, ConstantsAssumption DEF Requeued, Messages

LEMMA SpendType ==
  ASSUME TypeOK, NEW k \in Bounded, Spend(k) PROVE spent' \in [Bounded -> Nat]
BY DEF TypeOK, Spend

LEMMA IdleType == Idle \in Jobs /\ Idle \in Tasks
BY DEF Jobs, Tasks

\* A task that ends leaves the other variables' types to its writes.
LEMMA EndedType ==
  ASSUME TypeOK, NEW c \in Celery, task' = [task EXCEPT ![c] = Idle]
  PROVE  task' \in [Celery -> Tasks]
BY IdleType DEF TypeOK

-----------------------------------------------------------------------------
(* The type invariant. *)

LEMMA TypeInit == Init => TypeOK
BY IdleType DEF Init, TypeOK

LEMMA WebTypeStep ==
  ASSUME TypeOK, NEW w \in Workers,
         \/ \E r \in Rows, f \in Files : Upload(w, r, f)
         \/ \E r \in Rows, f \in Files \cup {Keep} : Load(w, r, f)
         \/ Serve(w)
         \/ WebDies(w)
  PROVE  TypeOK'
<1>1. ASSUME NEW r \in Rows, NEW f \in Files, Upload(w, r, f) PROVE TypeOK'
  <2>1. New(f) \in FileRows
    BY DEF New, FileRows, ScanStatuses
  <2>2. [at |-> "dispatch", row |-> r] \in Jobs
    BY DEF Jobs
  <2>3. spent' \in [Bounded -> Nat]
    BY <1>1, SpendType DEF Upload, Bounded
  <2>4. QED
    BY <1>1, <2>1, <2>2, <2>3 DEF Upload, TypeOK
<1>2. ASSUME NEW r \in Rows, NEW f \in Files \cup {Keep}, Load(w, r, f) PROVE TypeOK'
  <2>1. row[r] \in FileRows
    BY <1>2, StoredRow DEF Load
  <2>2. [at |-> "save", row |-> r, copy |-> row[r], file |-> f] \in Jobs
    BY <2>1 DEF Jobs
  <2>3. spent' \in [Bounded -> Nat]
    BY <1>2, SpendType DEF Load, Bounded
  <2>4. QED
    BY <1>2, <2>2, <2>3 DEF Load, TypeOK
<1>3. ASSUME Save(w) PROVE TypeOK'
  <2>1. job[w].row \in Rows /\ job[w].copy \in FileRows /\ job[w].file \in Files \cup {Keep}
    BY <1>3, BusyJob DEF Save
  <2>2. [at |-> "reset", row |-> job[w].row] \in Jobs
    BY <2>1 DEF Jobs
  <2>3. (IF job[w].file = Keep THEN job[w].copy ELSE [job[w].copy EXCEPT !.file = job[w].file])
          \in FileRows
    BY <2>1 DEF FileRows
  <2>4. row' \in [Rows -> FileRows \cup {Absent}]
    BY <1>3, <2>1, <2>3 DEF Save, TypeOK
  <2>5. job' \in [Workers -> Jobs]
    BY <1>3, <2>2, IdleType DEF Save, TypeOK
  <2>6. spoiled' \subseteq Rows
    BY <1>3, <2>1 DEF Save, Spoil, TypeOK
  <2>7. QED
    BY <1>3, <2>4, <2>5, <2>6 DEF Save, TypeOK
<1>4. ASSUME Reset(w) PROVE TypeOK'
  <2> DEFINE r == job[w].row
  <2>1. r \in Rows
    BY <1>4, BusyJob DEF Reset
  <2>2. CASE row[r] = Absent
    BY <1>4, <2>2, IdleType DEF Reset, TypeOK
  <2>3. CASE row[r] # Absent
    <3>1. [row[r] EXCEPT !.status = "pending", !.quarantined = FALSE] \in FileRows
      BY <2>1, <2>3, StoredRow DEF FileRows, ScanStatuses
    <3>2. row' = [row EXCEPT ![r] = [row[r] EXCEPT !.status = "pending", !.quarantined = FALSE]]
      BY <1>4, <2>1, <2>3 DEF Reset, TypeOK
    <3>3. row' \in [Rows -> FileRows \cup {Absent}]
      BY <2>1, <3>1, <3>2 DEF TypeOK
    <3>4. [job[w] EXCEPT !.at = "dispatch"] \in Jobs
      <4>1. job[w] \in Jobs /\ job[w].at = "reset"
        BY <1>4 DEF Reset, TypeOK
      <4>2. job[w] \in [at : {"reset", "dispatch"}, row : Rows]
        BY <4>1 DEF Jobs, Idle
      <4>3. QED
        BY <4>2 DEF Jobs
    <3>5. job' \in [Workers -> Jobs]
      BY <1>4, <2>3, <3>4 DEF Reset, TypeOK
    <3>6. QED
      BY <1>4, <3>3, <3>5 DEF Reset, TypeOK
  <2>4. QED
    BY <2>2, <2>3
<1>5. ASSUME Dispatch(w) PROVE TypeOK'
  <2>1. job[w].row \in Rows
    BY <1>5, BusyJob DEF Dispatch
  <2>2. [row |-> job[w].row, tries |-> 0, id |-> sent] \in Messages
    BY <2>1, ConstantsAssumption DEF Messages, TypeOK
  <2>3. QED
    BY <1>5, <2>2, IdleType DEF Dispatch, TypeOK
<1>6. ASSUME WebDies(w) PROVE TypeOK'
  <2>1. job[w].at # "idle"
    BY <1>6 DEF WebDies, TypeOK, Jobs, Idle
  <2>2. job[w].row \in Rows
    BY <2>1, BusyJob
  <2>3. spoiled' \subseteq Rows
    BY <1>6, <2>2 DEF WebDies, Spoil, TypeOK
  <2>4. spent' \in [Bounded -> Nat]
    BY <1>6, SpendType DEF WebDies, Bounded
  <2>5. QED
    BY <1>6, <2>3, <2>4, IdleType DEF WebDies, TypeOK
<1>7. QED
  BY <1>1, <1>2, <1>3, <1>4, <1>5, <1>6 DEF Serve

LEMMA TaskTypeStep ==
  ASSUME TypeOK, NEW c \in Celery, Run(c)
  PROVE  TypeOK'
<1>1. ASSUME NEW m \in queue, Begin(c, m) PROVE TypeOK'
  <2>1. m \in Messages /\ m.row \in Rows
    BY DEF TypeOK, Messages
  <2>2. row[m.row] # Absent => [at |-> "scan", msg |-> m, file |-> row[m.row].file] \in Tasks
    BY <2>1, StoredRow DEF Tasks, FileRows
  <2>3. task' \in [Celery -> Tasks]
    BY <1>1, <2>2 DEF Begin, TypeOK
  <2>4. QED
    BY <1>1, <2>3 DEF Begin, TypeOK
<1>2. ASSUME Finish(c) PROVE TypeOK'
  <2>1. Verdict(task[c].file) \in ScanStatuses
    BY VerdictType
  <2>2. row' \in [Rows -> FileRows \cup {Absent}] /\ spoiled' \subseteq Rows
    BY <1>2, <2>1, WriteType DEF Finish
  <2>3. QED
    BY <1>2, <2>2, EndedType DEF Finish, TypeOK
<1>3. ASSUME Broken(c) PROVE TypeOK'
  <2>1. row' \in [Rows -> FileRows \cup {Absent}] /\ spoiled' \subseteq Rows
    BY <1>3, WriteType DEF Broken, ScanStatuses
  <2>2. spent' \in [Bounded -> Nat]
    BY <1>3, SpendType DEF Broken, Bounded
  <2>3. QED
    BY <1>3, <2>1, <2>2, EndedType DEF Broken, TypeOK
<1>4. ASSUME Outage(c) PROVE TypeOK'
  <2>1. row' \in [Rows -> FileRows \cup {Absent}] /\ spoiled' \subseteq Rows
    BY <1>4, WriteType DEF Outage, ScanStatuses
  <2>2. spent' \in [Bounded -> Nat]
    BY <1>4, SpendType DEF Outage, Bounded
  <2>3. queue' \subseteq Messages
    BY <1>4, RequeuedType DEF Outage, TypeOK
  <2>4. QED
    BY <1>4, <2>1, <2>2, <2>3, EndedType DEF Outage, TypeOK
<1>5. ASSUME StorageDown(c) PROVE TypeOK'
  <2>1. spoiled' \subseteq Rows
    BY <1>5, BusyTask DEF StorageDown, Spoil, TypeOK
  <2>2. spent' \in [Bounded -> Nat]
    BY <1>5, SpendType DEF StorageDown, Bounded
  <2>3. queue' \subseteq Messages
    BY <1>5, RequeuedType DEF StorageDown, TypeOK
  <2>4. QED
    BY <1>5, <2>1, <2>2, <2>3, EndedType DEF StorageDown, TypeOK
<1>6. ASSUME WorkerDies(c) PROVE TypeOK'
  <2>1. task[c].at = "scan" /\ task[c].msg \in Messages /\ task[c].msg.row \in Rows
    BY <1>6, BusyTask DEF WorkerDies
  <2>2. Verdict(task[c].file) \in ScanStatuses
    BY VerdictType
  <2>3. row' \in [Rows -> FileRows \cup {Absent}] /\ spoiled' \subseteq Rows
    BY <1>6, <2>1, <2>2, WriteType DEF WorkerDies, Spoil, TypeOK
  <2>4. queue' \subseteq Messages
    BY <1>6, <2>1 DEF WorkerDies, TypeOK
  <2>5. spent' \in [Bounded -> Nat]
    BY <1>6, SpendType DEF WorkerDies, Bounded
  <2>6. QED
    BY <1>6, <2>3, <2>4, <2>5, EndedType DEF WorkerDies, TypeOK
<1>7. QED
  BY <1>1, <1>2, <1>3, <1>4, <1>5, <1>6 DEF Run

LEMMA DeleteTypeStep ==
  ASSUME TypeOK, NEW r \in Rows, Delete(r)
  PROVE  TypeOK'
BY DEF Delete, TypeOK

LEMMA TypeStep == TypeOK /\ [Next]_vars => TypeOK'
<1> SUFFICES ASSUME TypeOK, [Next]_vars PROVE TypeOK'
  OBVIOUS
<1>1. CASE UNCHANGED vars
  BY <1>1 DEF vars, TypeOK
<1>2. QED
  BY <1>1, WebTypeStep, TaskTypeStep, DeleteTypeStep DEF Next

\* Every variable of the scan model keeps its type.
THEOREM ScansTypeOK == Spec => []TypeOK
<1>1. QED
  BY TypeInit, TypeStep, PTL DEF Spec

-----------------------------------------------------------------------------
(* The inductive invariant. *)

\* A worker is about to reset r, or to dispatch its scan.
Due(r, at) == \E w \in Workers : job[w].at = at /\ job[w].row = r

\* The verdict of a file is in, or fail-closed.
Judged(x) ==
  \/ x.status = Verdict(x.file) /\ x.quarantined = (x.status # "clean")
  \/ x.status = "error" /\ x.quarantined

\* A row whose file has changed waits for its reset; one that is pending waits
\* for its scan; any other is judged.
Sound(r) ==
  \/ Due(r, "reset")
  \/ row[r].status = "pending" /\ (Awaited(r) \/ Due(r, "dispatch"))
  \/ Judged(row[r])

RowsSound == \A r \in Stored \ spoiled : Sound(r)

\* What is true of a row stays true while the row, its handlers and its
\* messages stay.
LEMMA SoundKept ==
  ASSUME NEW r \in Rows, Sound(r), row'[r] = row[r],
         Due(r, "reset") => Due(r, "reset")',
         Due(r, "dispatch") => Due(r, "dispatch")',
         Awaited(r) => Awaited(r)'
  PROVE  Sound(r)'
BY DEF Sound, Judged

\* Only the worker that ends a job for r takes what was due away from it.
LEMMA DueKept ==
  ASSUME TypeOK, NEW w \in Workers, NEW j, job' = [job EXCEPT ![w] = j],
         NEW r, NEW at, job[w].at # at \/ job[w].row # r
  PROVE  Due(r, at) => Due(r, at)'
<1> SUFFICES ASSUME NEW v \in Workers, job[v].at = at, job[v].row = r
             PROVE  Due(r, at)'
  BY DEF Due
<1>1. v # w
  OBVIOUS
<1>2. job'[v] = job[v]
  BY <1>1 DEF TypeOK
<1>3. QED
  BY <1>2 DEF Due

\* Only the task that ends a message for r takes one away from it.
LEMMA AwaitedKept ==
  ASSUME TypeOK, NEW c \in Celery, NEW t, task' = [task EXCEPT ![c] = t],
         queue \subseteq queue',
         NEW r, task[c].at # "scan" \/ task[c].msg.row # r
  PROVE  Awaited(r) => Awaited(r)'
<1>1. ASSUME NEW m \in queue, m.row = r PROVE Awaited(r)'
  <2>1. m \in queue'
    OBVIOUS
  <2>2. QED
    BY <1>1, <2>1 DEF Awaited
<1>2. ASSUME NEW d \in Celery, task[d].at = "scan", task[d].msg.row = r PROVE Awaited(r)'
  <2>1. task'[d] = task[d]
    BY <1>2 DEF TypeOK
  <2>2. QED
    BY <1>2, <2>1 DEF Awaited
<1>3. QED
  BY <1>1, <1>2 DEF Awaited

\* A message that is queued is awaited.
LEMMA QueuedAwaited ==
  ASSUME NEW m \in queue', NEW r, m.row = r PROVE Awaited(r)'
BY DEF Awaited

\* A verdict that is written is about the file of its row, or the row is spoiled.
LEMMA WriteJudges ==
  ASSUME TypeOK, NEW c \in Celery, task[c].at = "scan",
         NEW st, st \in {Verdict(task[c].file), "error"}, Write(c, st),
         NEW r \in Stored' \ spoiled'
  PROVE  /\ r = task[c].msg.row => Judged(row'[r])
         /\ r # task[c].msg.row => r \in Stored \ spoiled /\ row'[r] = row[r]
<1> DEFINE q == task[c].msg.row
<1>1. q \in Rows /\ r \in Rows
  BY BusyTask DEF Stored
<1>2. CASE row[q] = Absent
  <2>1. row' = row /\ spoiled' = spoiled
    BY <1>2 DEF Write
  <2>2. r # q
    BY <1>2, <2>1 DEF Stored
  <2>3. QED
    BY <2>1, <2>2 DEF Stored
<1>3. CASE row[q] # Absent
  <2>1. row[q] \in FileRows
    BY <1>1, <1>3, StoredRow
  <2> DEFINE new == [row[q] EXCEPT !.status = st, !.quarantined = st # "clean"]
  <2>2. row' = [row EXCEPT ![q] = new]
    BY <1>1, <1>3 DEF Write, TypeOK
  <2>3. spoiled \subseteq spoiled'
    BY <1>3 DEF Write, Spoil
  <2>4. ASSUME r = q PROVE Judged(row'[r])
    <3>1. row[q].file = task[c].file
      BY <1>3, <2>4 DEF Write, Spoil
    <3>2. row'[r] = new
      BY <1>1, <2>2, <2>4 DEF TypeOK
    <3>3. new.file = task[c].file /\ new.status = st /\ new.quarantined = (st # "clean")
      BY <2>1, <3>1 DEF FileRows
    <3>4. CASE st = Verdict(task[c].file)
      BY <3>2, <3>3, <3>4 DEF Judged
    <3>5. CASE st = "error"
      BY <3>2, <3>3, <3>5 DEF Judged
    <3>6. QED
      BY <3>4, <3>5
  <2>5. ASSUME r # q PROVE r \in Stored \ spoiled /\ row'[r] = row[r]
    BY <1>1, <2>2, <2>3, <2>5 DEF TypeOK, Stored
  <2>6. QED
    BY <2>4, <2>5
<1>4. QED
  BY <1>2, <1>3

\* A task that ends with a write leaves its row judged and the others alone.
LEMMA WriteStep ==
  ASSUME TypeOK, RowsSound, NEW c \in Celery, task[c].at = "scan",
         NEW st, st \in {Verdict(task[c].file), "error"}, Write(c, st),
         task' = [task EXCEPT ![c] = Idle], queue \subseteq queue', job' = job
  PROVE  RowsSound'
<1> SUFFICES ASSUME NEW r \in Stored' \ spoiled' PROVE Sound(r)'
  BY DEF RowsSound
<1>1. CASE r = task[c].msg.row
  <2>1. Judged(row'[r])
    BY <1>1, WriteJudges
  <2>2. QED
    BY <2>1 DEF Sound, Judged
<1>2. CASE r # task[c].msg.row
  <2>1. r \in Stored \ spoiled /\ row'[r] = row[r]
    BY <1>2, WriteJudges
  <2>2. Sound(r) /\ r \in Rows
    BY <2>1 DEF RowsSound, Stored
  <2>3. Awaited(r) => Awaited(r)'
    BY <1>2, AwaitedKept
  <2>4. \A at : Due(r, at) => Due(r, at)'
    BY DEF Due
  <2>5. QED
    BY <2>1, <2>2, <2>3, <2>4, SoundKept
<1>3. QED
  BY <1>1, <1>2

\* A task that ends without a write requeues its message, or spoils its row.
LEMMA NoWriteStep ==
  ASSUME TypeOK, RowsSound, NEW c \in Celery, task[c].at = "scan",
         task' = [task EXCEPT ![c] = Idle], queue \subseteq queue', job' = job, row' = row,
         spoiled \subseteq spoiled',
         \/ task[c].msg.row \in spoiled'
         \/ \E m \in queue' : m.row = task[c].msg.row
  PROVE  RowsSound'
<1> SUFFICES ASSUME NEW r \in Stored' \ spoiled' PROVE Sound(r)'
  BY DEF RowsSound
<1>1. Sound(r) /\ r \in Rows
  BY DEF RowsSound, Stored
<1>2. \A at : Due(r, at) => Due(r, at)'
  BY DEF Due
<1>3. Awaited(r) => Awaited(r)'
  <2>1. CASE r = task[c].msg.row
    BY <2>1, QueuedAwaited
  <2>2. CASE r # task[c].msg.row
    BY <2>2, AwaitedKept
  <2>3. QED
    BY <2>1, <2>2
<1>4. QED
  BY <1>1, <1>2, <1>3, SoundKept

LEMMA TaskSoundStep ==
  ASSUME TypeOK, RowsSound, NEW c \in Celery, Run(c)
  PROVE  RowsSound'
<1>1. ASSUME NEW m \in queue, Begin(c, m) PROVE RowsSound'
  <2> SUFFICES ASSUME NEW r \in Stored' \ spoiled' PROVE Sound(r)'
    BY DEF RowsSound
  <2>1. row' = row /\ job' = job /\ spoiled' = spoiled /\ queue' = queue \ {m} /\ task[c] = Idle
    BY <1>1 DEF Begin
  <2>2. Sound(r) /\ r \in Rows /\ row[r] # Absent
    BY <2>1 DEF RowsSound, Stored
  <2>3. \A at : Due(r, at) => Due(r, at)'
    BY <2>1 DEF Due
  <2>4. ASSUME m.row = r PROVE Awaited(r)'
    <3>1. task' = [task EXCEPT ![c] = [at |-> "scan", msg |-> m, file |-> row[m.row].file]]
      BY <1>1, <2>2, <2>4 DEF Begin
    <3>2. task'[c].at = "scan" /\ task'[c].msg.row = r
      BY <2>4, <3>1 DEF TypeOK
    <3>3. QED
      BY <3>2 DEF Awaited
  <2>5. ASSUME NEW n \in queue, n.row = r, m.row # r PROVE Awaited(r)'
    BY <2>1, <2>5, QueuedAwaited
  <2>6. ASSUME NEW d \in Celery, task[d].at = "scan", task[d].msg.row = r PROVE Awaited(r)'
    <3>1. d # c
      BY <2>1, <2>6 DEF Idle
    <3>2. task'[d] = task[d]
      BY <1>1, <3>1 DEF Begin, TypeOK
    <3>3. QED
      BY <2>6, <3>2 DEF Awaited
  <2>7. Awaited(r) => Awaited(r)'
    BY <2>4, <2>5, <2>6 DEF Awaited
  <2>8. QED
    BY <2>1, <2>2, <2>3, <2>7, SoundKept
<1>2. ASSUME Finish(c) PROVE RowsSound'
  BY <1>2, WriteStep DEF Finish
<1>3. ASSUME Broken(c) PROVE RowsSound'
  BY <1>3, WriteStep DEF Broken
<1>4. ASSUME Outage(c) PROVE RowsSound'
  <2>1. queue \subseteq queue'
    BY <1>4 DEF Outage
  <2>2. QED
    BY <1>4, <2>1, WriteStep DEF Outage
<1>5. ASSUME StorageDown(c) PROVE RowsSound'
  <2>1. task[c].at = "scan" /\ queue' = queue \cup Requeued(c)
    BY <1>5 DEF StorageDown
  <2>2. \/ task[c].msg.row \in spoiled'
        \/ \E m \in queue' : m.row = task[c].msg.row
    <3>1. CASE Requeued(c) = {}
      BY <1>5, <3>1 DEF StorageDown, Spoil
    <3>2. CASE Requeued(c) # {}
      BY <2>1, <3>2, RequeuedType
    <3>3. QED
      BY <3>1, <3>2
  <2>3. spoiled \subseteq spoiled' /\ row' = row /\ job' = job
    BY <1>5 DEF StorageDown, Spoil
  <2>4. task' = [task EXCEPT ![c] = Idle]
    BY <1>5 DEF StorageDown
  <2>5. QED
    BY <2>1, <2>2, <2>3, <2>4, NoWriteStep
<1>6. ASSUME WorkerDies(c) PROVE RowsSound'
  <2>1. task[c].at = "scan" /\ task' = [task EXCEPT ![c] = Idle] /\ job' = job
    BY <1>6 DEF WorkerDies
  <2>2. CASE queue' = queue \cup {task[c].msg} /\ UNCHANGED <<row, spoiled>>
    BY <2>1, <2>2, NoWriteStep
  <2>3. CASE queue' = queue \cup {task[c].msg} /\ Write(c, Verdict(task[c].file))
    BY <2>1, <2>3, WriteStep
  <2>4. CASE UNCHANGED <<queue, row>> /\ Spoil(task[c].msg.row)
    <3>1. spoiled \subseteq spoiled' /\ task[c].msg.row \in spoiled'
      BY <2>4 DEF Spoil
    <3>2. QED
      BY <2>1, <2>4, <3>1, NoWriteStep
  <2>5. QED
    BY <1>6, <2>2, <2>3, <2>4 DEF WorkerDies
<1>7. QED
  BY <1>1, <1>2, <1>3, <1>4, <1>5, <1>6 DEF Run

\* A step of web worker w that leaves r and its messages alone and w free of it.
LEMMA AsideStep ==
  ASSUME TypeOK, RowsSound, NEW w \in Workers, NEW j, job' = [job EXCEPT ![w] = j],
         NEW r \in Stored \ spoiled, row'[r] = row[r], UNCHANGED <<queue, task>>,
         job[w].at \in {"idle", "save"} \/ job[w].row # r
  PROVE  Sound(r)'
<1>1. Sound(r) /\ r \in Rows
  BY DEF RowsSound, Stored
<1>2. Due(r, "reset") => Due(r, "reset")'
  BY DueKept
<1>3. Due(r, "dispatch") => Due(r, "dispatch")'
  BY DueKept
<1>4. Awaited(r) => Awaited(r)'
  BY DEF Awaited
<1>5. QED
  BY <1>1, <1>2, <1>3, <1>4, SoundKept

LEMMA WebSoundStep ==
  ASSUME TypeOK, RowsSound, NEW w \in Workers,
         \/ \E r \in Rows, f \in Files : Upload(w, r, f)
         \/ \E r \in Rows, f \in Files \cup {Keep} : Load(w, r, f)
         \/ Serve(w)
         \/ WebDies(w)
  PROVE  RowsSound'
<1> SUFFICES ASSUME NEW r \in Stored' \ spoiled' PROVE Sound(r)'
  BY DEF RowsSound
<1>0. r \in Rows /\ row'[r] # Absent
  BY DEF Stored
<1>1. ASSUME NEW q \in Rows, NEW f \in Files, Upload(w, q, f) PROVE Sound(r)'
  <2>1. row' = [row EXCEPT ![q] = New(f)] /\ UNCHANGED <<queue, task, spoiled>>
    BY <1>1 DEF Upload
  <2>2. job[w].at = "idle" /\ job' = [job EXCEPT ![w] = [at |-> "dispatch", row |-> q]]
    BY <1>1 DEF Upload, Idle
  <2>3. CASE r = q
    <3>1. row'[r].status = "pending"
      BY <1>0, <2>1, <2>3 DEF TypeOK, New
    <3>2. job'[w].at = "dispatch" /\ job'[w].row = r
      BY <2>2, <2>3 DEF TypeOK
    <3>3. QED
      BY <3>1, <3>2 DEF Sound, Due
  <2>4. CASE r # q
    <3>1. row'[r] = row[r] /\ r \in Stored \ spoiled
      BY <1>0, <2>1, <2>4 DEF TypeOK, Stored
    <3>2. QED
      BY <2>1, <2>2, <3>1, AsideStep
  <2>5. QED
    BY <2>3, <2>4
<1>2. ASSUME NEW q \in Rows, NEW f \in Files \cup {Keep}, Load(w, q, f) PROVE Sound(r)'
  <2>1. UNCHANGED <<row, queue, task, spoiled>> /\ job[w].at = "idle"
    BY <1>2 DEF Load, Idle
  <2>2. PICK j : job' = [job EXCEPT ![w] = j]
    BY <1>2 DEF Load
  <2>3. QED
    BY <1>0, <2>1, <2>2, AsideStep DEF Stored
<1>3. ASSUME Save(w) PROVE Sound(r)'
  <2> DEFINE q == job[w].row
             rescan == job[w].file # Keep /\ Kind[q] = "document"
  <2>1. job[w].at = "save" /\ UNCHANGED <<queue, task>>
    BY <1>3 DEF Save
  <2>2. q \in Rows
    BY <2>1, BusyJob
  <2>3. CASE r # q
    <3>1. row'[r] = row[r] /\ spoiled \subseteq spoiled'
      BY <1>0, <1>3, <2>3 DEF Save, Spoil, TypeOK
    <3>2. r \in Stored \ spoiled
      BY <1>0, <3>1 DEF Stored
    <3>3. PICK j : job' = [job EXCEPT ![w] = j]
      BY <1>3 DEF Save
    <3>4. QED
      BY <2>1, <3>1, <3>2, <3>3, AsideStep
  <2>4. CASE r = q /\ rescan
    <3>1. job' = [job EXCEPT ![w] = [at |-> "reset", row |-> q]]
      BY <1>3, <2>4 DEF Save
    <3>2. job'[w].at = "reset" /\ job'[w].row = r
      BY <2>4, <3>1 DEF TypeOK
    <3>3. QED
      BY <3>2 DEF Sound, Due
  <2>5. CASE r = q /\ ~rescan
    <3>1. row'[r] = row[r] /\ spoiled' = spoiled
      BY <1>3, <2>5 DEF Save, Spoil
    <3>2. r \in Stored \ spoiled
      BY <1>0, <3>1 DEF Stored
    <3>3. job' = [job EXCEPT ![w] = Idle]
      BY <1>3, <2>5 DEF Save
    <3>4. QED
      BY <2>1, <3>1, <3>2, <3>3, AsideStep
  <2>6. QED
    BY <2>3, <2>4, <2>5
<1>4. ASSUME Reset(w) PROVE Sound(r)'
  <2> DEFINE q == job[w].row
  <2>1. q \in Rows /\ UNCHANGED <<queue, task, spoiled>> /\ job[w].at = "reset"
    BY <1>4, BusyJob DEF Reset
  <2>2. CASE r # q
    <3>1. row'[r] = row[r]
      BY <1>0, <1>4, <2>2 DEF Reset, TypeOK
    <3>2. r \in Stored \ spoiled
      BY <1>0, <2>1, <3>1 DEF Stored
    <3>3. PICK j : job' = [job EXCEPT ![w] = j]
      BY <1>4 DEF Reset
    <3>4. QED
      BY <2>1, <2>2, <3>1, <3>2, <3>3, AsideStep
  <2>3. CASE r = q
    <3>1. row[q] # Absent
      BY <1>0, <1>4, <2>3 DEF Reset
    <3>2. row[q] \in FileRows
      BY <2>1, <3>1, StoredRow
    <3>3. row'[r].status = "pending"
      BY <1>4, <2>1, <2>3, <3>1, <3>2 DEF Reset, TypeOK, FileRows
    <3>4. job[w] \in [at : {"reset", "dispatch"}, row : Rows]
      <4>1. job[w] \in Jobs
        BY DEF TypeOK
      <4>2. QED
        BY <2>1, <4>1 DEF Jobs, Idle
    <3>5. job' = [job EXCEPT ![w] = [job[w] EXCEPT !.at = "dispatch"]]
      BY <1>4, <3>1 DEF Reset, TypeOK
    <3>6. job'[w].at = "dispatch" /\ job'[w].row = r
      BY <2>3, <3>4, <3>5 DEF TypeOK
    <3>7. QED
      BY <3>3, <3>6 DEF Sound, Due
  <2>4. QED
    BY <2>2, <2>3
<1>5. ASSUME Dispatch(w) PROVE Sound(r)'
  <2> DEFINE q == job[w].row
             m == [row |-> q, tries |-> 0, id |-> sent]
  <2>1. job[w].at = "dispatch" /\ queue' = queue \cup {m} /\ UNCHANGED <<row, task, spoiled>>
    BY <1>5 DEF Dispatch
  <2>2. job' = [job EXCEPT ![w] = Idle]
    BY <1>5 DEF Dispatch
  <2>3. Sound(r)
    BY <1>0, <2>1 DEF RowsSound, Stored
  <2>4. Due(r, "reset") => Due(r, "reset")'
    BY <2>1, <2>2, DueKept
  <2>5. Awaited(r) => Awaited(r)'
    BY <2>1 DEF Awaited
  <2>6. CASE r = q
    <3>1. m \in queue' /\ m.row = r
      BY <2>1, <2>6
    <3>2. Awaited(r)'
      BY <3>1, QueuedAwaited
    <3>3. QED
      BY <2>1, <2>3, <2>4, <3>2 DEF Sound, Judged
  <2>7. CASE r # q
    <3>1. Due(r, "dispatch") => Due(r, "dispatch")'
      BY <2>2, <2>7, DueKept
    <3>2. QED
      BY <1>0, <2>1, <2>3, <2>4, <2>5, <3>1, SoundKept
  <2>8. QED
    BY <2>6, <2>7
<1>6. ASSUME WebDies(w) PROVE Sound(r)'
  <2>1. UNCHANGED <<row, queue, task>> /\ job' = [job EXCEPT ![w] = Idle] /\ spoiled \subseteq spoiled'
    BY <1>6 DEF WebDies, Spoil
  <2>2. job[w].at \in {"idle", "save"} \/ job[w].row # r
    BY <1>6 DEF WebDies, Spoil
  <2>3. QED
    BY <1>0, <2>1, <2>2, AsideStep DEF Stored
<1>7. QED
  BY <1>1, <1>2, <1>3, <1>4, <1>5, <1>6 DEF Serve

LEMMA DeleteSoundStep ==
  ASSUME TypeOK, RowsSound, NEW q \in Rows, Delete(q)
  PROVE  RowsSound'
<1> SUFFICES ASSUME NEW r \in Stored' \ spoiled' PROVE Sound(r)'
  BY DEF RowsSound
<1>1. row' = [row EXCEPT ![q] = Absent] /\ UNCHANGED <<job, queue, task, spoiled>>
  BY DEF Delete
<1>2. row'[r] = row[r] /\ r \in Rows /\ r \in Stored \ spoiled
  BY <1>1 DEF TypeOK, Stored
<1>3. (Awaited(r) => Awaited(r)') /\ \A at : Due(r, at) => Due(r, at)'
  BY <1>1 DEF Awaited, Due
<1>4. QED
  BY <1>2, <1>3, SoundKept DEF RowsSound

LEMMA SoundStep == TypeOK /\ RowsSound /\ [Next]_vars => RowsSound'
<1> SUFFICES ASSUME TypeOK, RowsSound, [Next]_vars PROVE RowsSound'
  OBVIOUS
<1>1. CASE UNCHANGED vars
  BY <1>1 DEF vars, RowsSound, Stored, Sound, Due, Awaited, Judged
<1>2. QED
  BY <1>1, WebSoundStep, TaskSoundStep, DeleteSoundStep DEF Next

\* At every moment the verdict of a row that was not spoiled is in, or what
\* will bring it is on its way: a reset, a dispatch, a message or a task.
THEOREM ScansSound == Spec => []RowsSound
<1>1. Init => RowsSound
  BY DEF Init, RowsSound, Stored
<1>2. QED
  BY <1>1, ScansTypeOK, SoundStep, PTL DEF Spec

-----------------------------------------------------------------------------
(* What the download endpoints and the reports rely on. *)

LEMMA JudgedServes ==
  ASSUME NEW x, Judged(x), ~x.quarantined PROVE Verdict(x.file) = "clean"
<1>1. x.status = Verdict(x.file) /\ x.quarantined = (x.status # "clean")
  BY DEF Judged
<1>2. QED
  BY <1>1

LEMMA DueHandled ==
  ASSUME NEW r, Due(r, "reset") \/ Due(r, "dispatch") PROVE Handled(r)
BY DEF Due, Handled

\* A file that passes its gate, with no handler in the middle of replacing it,
\* is one clamd lets pass, or a document whose scan is on its way.
THEOREM ScansServedIsClean == Spec => []ServedIsClean
<1>1. RowsSound => ServedIsClean
  <2> SUFFICES ASSUME RowsSound, NEW r \in Stored \ spoiled, Served(r), ~Handled(r)
               PROVE  \/ Verdict(row[r].file) = "clean"
                      \/ Kind[r] = "document" /\ row[r].status = "pending" /\ Awaited(r)
    BY DEF ServedIsClean
  <2>1. Judged(row[r]) \/ (row[r].status = "pending" /\ Awaited(r))
    BY DueHandled DEF RowsSound, Sound
  <2>2. CASE Judged(row[r])
    BY <2>2, JudgedServes DEF Served
  <2>3. CASE row[r].status = "pending" /\ Awaited(r)
    BY <2>3 DEF Served
  <2>4. QED
    BY <2>1, <2>2, <2>3
<1>2. QED
  BY <1>1, ScansSound, PTL

\* When nothing is on its way for a file any more, its verdict is in.
THEOREM ScansVerdictIsIn == Spec => []VerdictIsIn
<1>1. RowsSound => VerdictIsIn
  <2> SUFFICES ASSUME RowsSound, NEW r \in Stored \ spoiled, ~Awaited(r), ~Handled(r)
               PROVE  \/ row[r].status = Verdict(row[r].file)
                      \/ row[r].status = "error" /\ row[r].quarantined
    BY DEF VerdictIsIn
  <2>1. Judged(row[r])
    BY DueHandled DEF RowsSound, Sound
  <2>2. QED
    BY <2>1 DEF Judged
<1>2. QED
  BY <1>1, ScansSound, PTL
=============================================================================
