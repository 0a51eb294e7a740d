---- MODULE Credentials ----
(***************************************************************************)
(* What one account proves itself with: its password and the history that  *)
(* bars reuse, the reset links it was mailed, and its authenticator        *)
(* (iams/security.py, iams/mfa.py, iams/serializers.py, views/auth.py).    *)
(* Requests of one user overlap; each step below is one commit.            *)
(***************************************************************************)
EXTENDS Integers, SequencesExt

CONSTANTS
  Worker,     \* web and task workers serving the user
  Password,   \* the passwords the user chooses among
  HistoryN,   \* IAMS_PASSWORD_HISTORY_N
  MaxSets,    \* bound on password changes
  MaxSignins, \* bound on sign-ins
  MaxKeys,    \* bound on TOTP enrolments
  MaxLinks    \* bound on the hashes a reset link is mailed for

ASSUME CredentialAssumption ==
  /\ HistoryN \in Nat \ {0} /\ MaxSets \in Nat /\ MaxSignins \in Nat /\ MaxKeys \in Nat

VARIABLES
  hash,      \* User.password: set_password salts a new hash each time
  salts,     \* hashes made so far
  history,   \* PasswordHistory, newest first
  signin,    \* User.last_login: the number of a sign-in
  signins,   \* sign-ins so far
  links,     \* reset links that were mailed: what their token was made from
  devices,   \* the TOTP rows of MFADevice, each with the number of its secret
  keys,      \* secrets handed out so far
  task,      \* what each worker is in the middle of
  astray     \* history: a stale save put the hash back, or its request never recorded it

credVars == <<hash, salts, history, signin, signins, links, devices, keys, task, astray>>
userRow == <<hash, signin>>
counters == <<salts, signins>>
factorRows == <<devices, keys>>

Hashes == [of : Password, salt : 0..MaxSets]

Nothing == [stage |-> "none"]
Tasks ==
  {Nothing}
    \union [stage : {"set"}, new : Password]
    \union [stage : {"record"}, hash : Hashes]
    \union [stage : {"edit"}, hash : Hashes, signin : 0..MaxSignins]
    \union [stage : {"trim", "unconfirmed", "create"}]
    \union [stage : {"confirm"}, key : 1..MaxKeys]

CredTypeOK ==
  /\ hash \in Hashes /\ salts \in 0..MaxSets
  /\ history \in Seq(Hashes)
  /\ signin \in 0..MaxSignins /\ signins \in 0..MaxSignins
  /\ links \subseteq [hash : Hashes, signin : 0..MaxSignins]
  /\ devices \subseteq [key : 1..MaxKeys, confirmed : BOOLEAN]
  /\ keys \in 0..MaxKeys
  /\ task \in [Worker -> Tasks]
  /\ astray \in BOOLEAN

CredInit ==
  /\ \E p \in Password : hash = [of |-> p, salt |-> 0]
  /\ history = <<>>   \* creating a user records nothing
  /\ salts = 0 /\ signin = 0 /\ signins = 0
  /\ links = {} /\ devices = {} /\ keys = 0
  /\ task = [w \in Worker |-> Nothing]
  /\ astray = FALSE

Free(w) == task[w] = Nothing
Becomes(w, t) == task' = [task EXCEPT ![w] = t]

----
\* Faulty variant: trimming keeps the other end.
NewestOldest(s) == SubSeq(s, IF Len(s) > HistoryN THEN Len(s) - HistoryN + 1 ELSE 1, Len(s))

Newest(s) == SubSeq(s, 1, IF Len(s) < HistoryN THEN Len(s) ELSE HistoryN)

\* PasswordHistoryValidator: none of the last N hashes matches.
NotReused(p) == \A h \in Range(Newest(history)) : h.of # p

\* A signed-in user changes the password, the current one being right.
ChangePassword(w, p) ==
  /\ Free(w) /\ NotReused(p)
  /\ Becomes(w, [stage |-> "set", new |-> p])
  /\ UNCHANGED <<userRow, counters, history, links, factorRows, astray>>

\* The mail task mints its link when it runs, from the hash and the last
\* sign-in it reads; delivered twice, it mints the same one.
MailLink ==
  /\ hash.salt < MaxLinks
  /\ links' = links \union {[hash |-> hash, signin |-> signin]}
  /\ UNCHANGED <<userRow, counters, history, factorRows, task, astray>>

\* A reset: the link must still be the one that would be minted now.
ResetPassword(w, p) ==
  /\ Free(w) /\ NotReused(p)
  /\ [hash |-> hash, signin |-> signin] \in links
  /\ Becomes(w, [stage |-> "set", new |-> p])
  /\ UNCHANGED <<userRow, counters, history, links, factorRows, astray>>

\* save() of both serializers: the password column alone,
SetPassword(w) ==
  /\ task[w].stage = "set" /\ salts < MaxSets
  /\ hash' = [of |-> task[w].new, salt |-> salts + 1] /\ salts' = salts + 1
  /\ Becomes(w, [stage |-> "record", hash |-> hash'])
  /\ astray' = FALSE
  /\ UNCHANGED <<signin, signins, history, links, factorRows>>

\* its row in the history,
RecordPassword(w) ==
  /\ task[w].stage = "record"
  /\ history' = <<task[w].hash>> \o history
  /\ Becomes(w, [stage |-> "trim"])
  /\ UNCHANGED <<userRow, counters, links, factorRows, astray>>

\* and the rows beyond the newest N deleted.
TrimHistory(w) ==
  /\ task[w].stage = "trim"
  /\ history' = Newest(history)
  /\ Becomes(w, Nothing)
  /\ UNCHANGED <<userRow, counters, links, factorRows, astray>>

\* Any sign-in stamps last_login (UPDATE_LAST_LOGIN), and that column alone.
SignIn ==
  /\ signins < MaxSignins
  /\ signins' = signins + 1 /\ signin' = signins + 1
  /\ UNCHANGED <<hash, salts, history, links, factorRows, task, astray>>

\* An administrator edits the user, or the user their own profile: the row is
\* loaded with the request,
LoadAccount(w) ==
  /\ Free(w)
  /\ Becomes(w, [stage |-> "edit", hash |-> hash, signin |-> signin])
  /\ UNCHANGED <<userRow, counters, history, links, factorRows, astray>>

\* and saved with every column: the hash and the last sign-in it was loaded with
\* replace what others have written since.
SaveAccount(w) ==
  /\ task[w].stage = "edit"
  /\ hash' = task[w].hash /\ signin' = task[w].signin
  /\ astray' = (astray \/ task[w].hash # hash)
  /\ Becomes(w, Nothing)
  /\ UNCHANGED <<counters, history, links, factorRows>>

\* The worker dies, or an error ends the request, between two of its commits: a
\* hash it has set but not recorded stays out of the history.
RequestDies(w) ==
  /\ ~Free(w)
  /\ astray' = (astray \/ task[w] = [stage |-> "record", hash |-> hash])
  /\ Becomes(w, Nothing)
  /\ UNCHANGED <<userRow, counters, history, links, factorRows>>

----
\* Enrolment is refused when a device is confirmed,
Enrolled == \E d \in devices : d.confirmed
Enrol(w) ==
  /\ Free(w) /\ ~Enrolled /\ keys < MaxKeys
  /\ Becomes(w, [stage |-> "unconfirmed"])
  /\ UNCHANGED <<userRow, counters, history, links, factorRows, astray>>

\* Faulty variant: enrolling anew drops every row.
DropEveryDevice(w) ==
  /\ task[w].stage = "unconfirmed"
  /\ devices' = {}
  /\ Becomes(w, [stage |-> "create"])
  /\ UNCHANGED <<userRow, counters, history, links, keys, astray>>

\* drops the unconfirmed rows,
DropUnconfirmed(w) ==
  /\ task[w].stage = "unconfirmed"
  /\ devices' = {d \in devices : d.confirmed}
  /\ Becomes(w, [stage |-> "create"])
  /\ UNCHANGED <<userRow, counters, history, links, keys, astray>>

\* and inserts a row with a fresh secret.
CreateDevice(w) ==
  /\ task[w].stage = "create" /\ keys < MaxKeys
  /\ keys' = keys + 1
  /\ devices' = devices \union {[key |-> keys + 1, confirmed |-> FALSE]}
  /\ Becomes(w, Nothing)
  /\ UNCHANGED <<userRow, counters, history, links, astray>>

\* Confirming takes the newest unconfirmed row and checks a token of its secret;
\* a wrong one changes nothing.
Confirm(w) ==
  /\ Free(w)
  /\ \E d \in devices :
       /\ ~d.confirmed
       /\ \A e \in devices : e.key > d.key => e.confirmed
       /\ Becomes(w, [stage |-> "confirm", key |-> d.key])
  /\ UNCHANGED <<userRow, counters, history, links, factorRows, astray>>

\* The row is marked confirmed, unless it is gone (the save updates no row) or
\* another one is (one confirmed TOTP row per user): both end in an error.
MarkConfirmed(w) ==
  /\ task[w].stage = "confirm"
  /\ devices' = IF Enrolled THEN devices
                ELSE {[d EXCEPT !.confirmed = d.key = task[w].key] : d \in devices}
  /\ Becomes(w, Nothing)
  /\ UNCHANGED <<userRow, counters, history, links, keys, astray>>

\* Disabling, with the password, deletes every TOTP row.
DisableFactor ==
  /\ devices # {} /\ devices' = {}
  /\ UNCHANGED <<userRow, counters, history, links, keys, task, astray>>

PasswordNext ==
  \/ \E w \in Worker :
       \/ \E p \in Password : ChangePassword(w, p) \/ ResetPassword(w, p)
       \/ SetPassword(w) \/ RecordPassword(w) \/ TrimHistory(w)
       \/ LoadAccount(w) \/ SaveAccount(w) \/ RequestDies(w)
  \/ MailLink \/ SignIn
FactorNext ==
  \/ \E w \in Worker : \/ Enrol(w) \/ DropUnconfirmed(w) \/ CreateDevice(w)
                        \/ Confirm(w) \/ MarkConfirmed(w) \/ RequestDies(w)
  \/ DisableFactor

CredNext == PasswordNext \/ FactorNext

CredSpec == CredInit /\ [][CredNext]_credVars

----
\* Once it was changed, the password in force is refused as the next one when
\* nobody is in the middle of changing it: two changes at once record in an order
\* of their own, and trimming must not drop the one that won.  Excepted are the
\* hash that a stale save of the whole row put back and the one whose request
\* ended before it was recorded; the next change makes good for both.
Settled == \A w \in Worker : task[w].stage \notin {"set", "record", "trim"}
CurrentIsRemembered ==
  Settled /\ hash.salt > 0 /\ ~astray => hash \in Range(Newest(history))

\* A confirmed authenticator goes away only when its owner disables it: an
\* enrolment that passed the check before another one was confirmed must not
\* take the confirmed row with it.
EnrolmentKept == [][Enrolled /\ ~Enrolled' => DisableFactor]_credVars
====
