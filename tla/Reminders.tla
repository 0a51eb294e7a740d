---- MODULE Reminders ----
(***************************************************************************)
(* Notifications (iams/notifications.py, iams/tasks/notify.py): the        *)
(* nightly scan that reminds the owners of corrective actions, the in-app  *)
(* rows it writes and looks at, and the email each row is given by a task  *)
(* that retries and that a broker may deliver again.                       *)
(***************************************************************************)
EXTENDS Integers, Sequences, FiniteSets

CONSTANTS
  Scanner,    \* workers that may run the scan
  Cap,        \* corrective actions whose owner label names a user
  DueDay,     \* the due day of each
  MaxDay, MaxRowsKept, MaxAttempts

ASSUME ReminderAssumption ==
  /\ DueDay \in [Cap -> Int] /\ MaxDay \in Nat /\ MaxRowsKept \in Nat /\ MaxAttempts \in Nat

VARIABLES
  day,        \* nights since the start
  open,       \* corrective actions that are not Closed
  pref,       \* the owner's channels for these kinds
  notes,      \* the notification rows, oldest first
  mails,      \* email tasks on the broker or at a worker
  delivered,  \* history: rows whose email went out
  scans,      \* the scan each worker runs
  scanned,    \* history: what the scan that just ended had found, this night
  jumbled     \* history: two scans overlapped, a dispatch failed, or the
              \* preferences changed

reminderVars == <<day, open, pref, notes, mails, delivered, scans, scanned, jumbled>>

NoteKinds == {"cap_overdue", "cap_due_soon"}
NoScan == [stage |-> "none"]
Scanning(w) == scans[w] # NoScan

ReminderTypeOK ==
  /\ day \in 0..MaxDay /\ open \subseteq Cap
  /\ pref \in [inApp : BOOLEAN, email : BOOLEAN]
  /\ notes \in Seq([cap : Cap, kind : NoteKinds, day : 0..MaxDay, mailed : BOOLEAN])
  /\ mails \subseteq [note : 0..MaxRowsKept, attempts : 0..MaxAttempts, sent : BOOLEAN]
  /\ delivered \subseteq 1..MaxRowsKept
  /\ \A w \in Scanner : Scanning(w) => scans[w].todo \subseteq scans[w].found /\ scans[w].kind \in NoteKinds
  /\ scanned \subseteq Cap /\ jumbled \in BOOLEAN

ReminderInit ==
  /\ day = 0 /\ open = Cap /\ pref \in [inApp : BOOLEAN, email : BOOLEAN]
  /\ notes = <<>> /\ mails = {} /\ delivered = {}
  /\ scans = [w \in Scanner |-> NoScan] /\ scanned = {} /\ jumbled = FALSE

----
\* What a query of the scan returns.
Due(kind) ==
  {c \in open : IF kind = "cap_overdue" THEN DueDay[c] < day ELSE DueDay[c] - day \in 0..3}

ScanDone == UNCHANGED <<open, pref, mails, delivered>>
Scan(w, scan) == scans' = [scans EXCEPT ![w] = scan]

\* Started by the beat, or again after its worker died.
StartScan(w) ==
  /\ ~Scanning(w)
  /\ Scan(w, [stage |-> "next", kind |-> "cap_overdue", todo |-> Due("cap_overdue"),
             found |-> Due("cap_overdue"), cap |-> "none"])
  /\ scanned' = {}
  /\ jumbled' = (jumbled \/ \E x \in Scanner : Scanning(x))
  /\ UNCHANGED <<day, notes>> /\ ScanDone

\* Faulty variant: a reminder of anything silences the owner.
RecentOfOwner(c, kind, since) ==
  \E i \in DOMAIN notes : notes[i].kind = kind /\ notes[i].day >= since

\* One corrective action: skipped when a row of that kind is less than 24 hours
\* old.  Yesterday's row is, unless tonight's scan started later than it.
Recent(c, kind, since) ==
  \E i \in DOMAIN notes : notes[i].cap = c /\ notes[i].kind = kind /\ notes[i].day >= since
CheckCap(w, c, since) ==
  /\ Scanning(w) /\ scans[w].stage = "next" /\ c \in scans[w].todo
  /\ LET s == scans[w]
         rest == [s EXCEPT !.todo = @ \ {c}]
     IN Scan(w, IF Recent(c, s.kind, since) THEN rest ELSE [rest EXCEPT !.stage = "dispatch", !.cap = c])
  /\ UNCHANGED <<day, notes, scanned, jumbled>> /\ ScanDone

\* dispatch: the row and the email the owner's preferences ask for; without a
\* row nothing remembers the reminder.
Dispatch(w) ==
  /\ Scanning(w) /\ scans[w].stage = "dispatch" /\ Len(notes) < MaxRowsKept
  /\ LET s == scans[w]
         row == IF pref.inApp THEN Len(notes) + 1 ELSE 0
     IN /\ notes' = IF pref.inApp
                    THEN Append(notes, [cap |-> s.cap, kind |-> s.kind, day |-> day, mailed |-> FALSE])
                    ELSE notes
        /\ mails' = IF pref.email THEN mails \union {[note |-> row, attempts |-> 0, sent |-> FALSE]} ELSE mails
        /\ Scan(w, [s EXCEPT !.stage = "next"])
  /\ UNCHANGED <<day, open, pref, delivered, scanned, jumbled>>

\* An error, of the database or of the broker, is logged and swallowed: the row
\* may be there without its email.
DispatchFails(w) ==
  /\ Scanning(w) /\ scans[w].stage = "dispatch" /\ Len(notes) < MaxRowsKept
  /\ LET s == scans[w] IN
       /\ \/ UNCHANGED notes
          \/ pref.inApp /\ notes' = Append(notes, [cap |-> s.cap, kind |-> s.kind, day |-> day, mailed |-> FALSE])
       /\ Scan(w, [s EXCEPT !.stage = "next"])
  /\ jumbled' = TRUE
  /\ UNCHANGED <<day, scanned>> /\ ScanDone

\* The overdue list is done: the one of those due soon is queried, then the scan ends.
NextQuery(w) ==
  /\ Scanning(w) /\ scans[w].stage = "next" /\ scans[w].todo = {}
  /\ IF scans[w].kind = "cap_overdue"
     THEN LET soon == Due("cap_due_soon")
          IN /\ Scan(w, [scans[w] EXCEPT !.kind = "cap_due_soon", !.todo = soon, !.found = @ \union soon])
             /\ UNCHANGED scanned
     ELSE Scan(w, NoScan) /\ scanned' = scans[w].found
  /\ UNCHANGED <<day, notes, jumbled>> /\ ScanDone

ScanDies(w) ==
  /\ Scanning(w) /\ Scan(w, NoScan)
  /\ UNCHANGED <<day, notes, scanned, jumbled>> /\ ScanDone

----
\* deliver_email: sent, then marked on the row; a failure or a death between the
\* two sends it again, until the retries are used up or the owner has left.
MailDone == UNCHANGED <<day, open, pref, scans, scanned, jumbled>>
SendMail(m) ==
  /\ ~m.sent /\ mails' = (mails \ {m}) \union {[m EXCEPT !.sent = TRUE]}
  /\ delivered' = delivered \union ({m.note} \ {0})
  /\ UNCHANGED notes /\ MailDone
MarkMailed(m) ==
  /\ m.sent /\ mails' = mails \ {m}
  /\ notes' = IF m.note = 0 THEN notes ELSE [notes EXCEPT ![m.note].mailed = TRUE]
  /\ UNCHANGED delivered /\ MailDone
MailFails(m) ==
  /\ \/ mails' = mails \ {m}
     \/ /\ m.attempts < MaxAttempts
        /\ mails' = (mails \ {m}) \union {[m EXCEPT !.attempts = @ + 1, !.sent = FALSE]}
  /\ UNCHANGED <<notes, delivered>> /\ MailDone

----
\* Users: a corrective action is closed or reopened, a preference is saved.
CloseCap(c) ==
  /\ open' = (open \ {c}) \union ({c} \ open)
  /\ UNCHANGED <<day, pref, notes, mails, delivered, scans, scanned, jumbled>>
SetPreference(p) ==
  /\ pref' = p /\ p # pref /\ jumbled' = TRUE
  /\ UNCHANGED <<day, open, notes, mails, delivered, scans, scanned>>
NextNight ==
  /\ day < MaxDay /\ \A w \in Scanner : ~Scanning(w)
  /\ day' = day + 1 /\ scanned' = {}
  /\ UNCHANGED <<open, pref, notes, mails, delivered, scans, jumbled>>

ReminderNext ==
  \/ \E w \in Scanner :
       \/ StartScan(w) \/ Dispatch(w) \/ DispatchFails(w) \/ NextQuery(w) \/ ScanDies(w)
       \/ \E c \in Cap, since \in {day - 1, day} : CheckCap(w, c, since)
  \/ \E m \in mails : SendMail(m) \/ MarkMailed(m) \/ MailFails(m)
  \/ \E c \in Cap : CloseCap(c)
  \/ \E p \in [inApp : BOOLEAN, email : BOOLEAN] : SetPreference(p)
  \/ NextNight

ReminderSpec == ReminderInit /\ [][ReminderNext]_reminderVars

----
\* A scan that ran again after its worker died, or was delivered twice in turn,
\* reminds nobody twice the same night, and when it ends nobody it had to remind
\* has been left without a reminder for two nights; as long as scans do not
\* overlap and preferences stay.  An email is marked only after it went out.
RemindersHold ==
  /\ ~jumbled =>
       /\ \A i, j \in DOMAIN notes :
            notes[i].cap = notes[j].cap /\ notes[i].kind = notes[j].kind /\ notes[i].day = notes[j].day => i = j
       /\ pref.inApp => \A c \in scanned : \E i \in DOMAIN notes : notes[i].cap = c /\ notes[i].day >= day - 1
  /\ \A i \in DOMAIN notes : notes[i].mailed => i \in delivered
====
