---- MODULE Lockouts ----
(***************************************************************************)
(* Sign-in with a password: the ledger of attempts, the account lockout    *)
(* and the second-factor gate (iams/security.py, views/auth.py).           *)
(*                                                                         *)
(* One account: every query of this code is filtered by its user.  A login *)
(* request is in flight between the commits of its handler, so that        *)
(* several requests interleave.  Ticks are a fraction of the window; a     *)
(* request lasts milliseconds, so it sees the clock advance at most once.  *)
(***************************************************************************)
EXTENDS Integers, FiniteSets, Functions

CONSTANTS
  Login,        \* login requests that may be in flight together
  Threshold,    \* IAMS_LOGIN_FAIL_THRESHOLD
  Window,       \* IAMS_LOGIN_FAIL_WINDOW_MIN, in ticks
  LockFor,      \* IAMS_LOGIN_LOCKOUT_MINUTES, in ticks
  MaxTime,      \* bound on the clock
  MaxRows,      \* bound on the rows of the ledger
  MaxUnlocks,   \* bound on the unlocks
  NoLock

ASSUME LockoutAssumption ==
  /\ Threshold \in Nat \ {0} /\ Window \in Nat \ {0} /\ LockFor \in Nat \ {0}
  /\ MaxTime \in Nat /\ MaxRows \in Nat /\ MaxUnlocks \in Nat
  /\ NoLock \notin Nat

VARIABLES
  clock,     \* timezone.now()
  rows,      \* LoginAttempt rows of this user: time -> outcome -> how many
  lock,      \* locked_until of the uncleared AccountLockout row, or NoLock
  unlocks,   \* admin unlocks: time -> how many
  account,   \* what the gates of the handler read of the user, see Accounts
  login      \* what each request in flight is about to do

lockVars == <<clock, rows, lock, unlocks, account, login>>

Time == 0..MaxTime

\* The outcomes that count towards a lockout, every outcome but success: a wrong
\* password, and the rest (refused while locked or inactive, second factor
\* missing or wrong), which the code counts alike.
Outcomes == {"invalid_credentials", "other"}

\* No second factor asked for; asked for by the role or the grace period but not
\* enrolled (mfa_enforcement_required); a confirmed TOTP device; is_active off.
Accounts == {"plain", "enforced", "enrolled", "inactive"}

Stages == {"idle", "password", "failed", "locking"}
Idle == [stage |-> "idle", ticked |-> FALSE]

LockTypeOK ==
  /\ clock \in Time
  /\ rows \in [Time -> [Outcomes -> 0..MaxRows]]
  /\ lock \in (0..(MaxTime + LockFor)) \union {NoLock}
  /\ unlocks \in [Time -> 0..MaxUnlocks]
  /\ account \in Accounts
  /\ login \in [Login -> [stage : Stages, ticked : BOOLEAN]]

LockInit ==
  /\ clock = 0
  /\ rows = [t \in Time |-> [o \in Outcomes |-> 0]]
  /\ lock = NoLock
  /\ unlocks = [t \in Time |-> 0]
  /\ account = "plain"
  /\ login = [r \in Login |-> Idle]

\* The rows of some outcomes since a time.
Since(s) == {t \in Time : t >= s}
Count(outcomes, since) ==
  SumFunctionOnSet([t \in Time |-> SumFunctionOnSet(rows[t], outcomes)], Since(since))

\* record_login_attempt: n rows of one outcome, stamped now.
Record(o, n) ==
  /\ Count(Outcomes, 0) + n <= MaxRows
  /\ rows' = [rows EXCEPT ![clock][o] = @ + n]

\* get_active_lockout: a row that has run out counts as none, and is cleared by
\* whoever looks.
InForce == lock # NoLock /\ lock > clock
Looked == IF InForce THEN lock ELSE NoLock

Go(r, stage) == login' = [login EXCEPT ![r].stage = stage]
Done(r) == login' = [login EXCEPT ![r] = Idle]

----
\* The request arrives: lockout first, then the inactive flag.
LoginArrives(r) ==
  /\ login[r].stage = "idle"
  /\ lock' = Looked
  /\ IF InForce THEN Record("other", 1) /\ UNCHANGED login
     ELSE IF account = "inactive" THEN Record("other", 1) /\ UNCHANGED login
     ELSE Go(r, "password") /\ UNCHANGED rows
  /\ UNCHANGED <<clock, unlocks, account>>

\* A wrong password leaves its row; register_failure goes on in the steps below.
WrongPassword(r) ==
  /\ login[r].stage = "password"
  /\ Record("invalid_credentials", 1)
  /\ Go(r, "failed")
  /\ UNCHANGED <<clock, lock, unlocks, account>>

\* The right password meets the second-factor gate.  A wrong token leaves two
\* rows: the view's own and the one of register_failure.
RightPassword(r) ==
  /\ login[r].stage = "password"
  /\ \E otp \in {"none", "wrong", "right"} :
       CASE account = "enforced" \/ (account = "enrolled" /\ otp = "none") ->
              Record("other", 1) /\ Done(r)
         [] account = "enrolled" /\ otp = "wrong" ->
              Record("other", 2) /\ Go(r, "failed")
         [] OTHER ->   \* tokens are issued; the success row counts for nothing
              UNCHANGED rows /\ Done(r)
  /\ UNCHANGED <<clock, lock, unlocks, account>>

\* Faulty variant: the threshold must be exceeded before the account locks.
CountFailuresLate(r) ==
  /\ login[r].stage = "failed"
  /\ lock' = Looked
  /\ IF ~InForce /\ Count(Outcomes, clock - Window) > Threshold
     THEN Go(r, "locking") ELSE Done(r)
  /\ UNCHANGED <<clock, rows, unlocks, account>>

\* register_failure, after its row: is the account locked, and if not, how many
\* rows does the window hold?
CountFailures(r) ==
  /\ login[r].stage = "failed"
  /\ lock' = Looked
  /\ IF ~InForce /\ Count(Outcomes, clock - Window) >= Threshold
     THEN Go(r, "locking") ELSE Done(r)
  /\ UNCHANGED <<clock, rows, unlocks, account>>

\* The lockout is inserted.  The table takes one uncleared row per user: of two
\* requests that got here, the second fails with an IntegrityError.
OpenLockout(r) ==
  /\ login[r].stage = "locking"
  /\ lock' = IF lock = NoLock THEN clock + LockFor ELSE lock
  /\ Done(r)
  /\ UNCHANGED <<clock, rows, unlocks, account>>

\* AccountUnlockView: an administrator clears the lockout in force.
Unlock ==
  /\ lock # NoLock
  /\ lock' = NoLock
  /\ IF InForce THEN /\ SumFunction(unlocks) < MaxUnlocks
                     /\ unlocks' = [unlocks EXCEPT ![clock] = @ + 1]
                ELSE UNCHANGED unlocks
  /\ UNCHANGED <<clock, rows, account, login>>

\* An authenticator is confirmed or removed, the role or the grace period comes
\* to ask for one, the account is deactivated.
ChangeAccount ==
  /\ account' \in Accounts \ {account}
  /\ UNCHANGED <<clock, rows, lock, unlocks, login>>

Tick ==
  /\ clock < MaxTime
  /\ \A r \in Login : ~login[r].ticked
  /\ clock' = clock + 1
  /\ login' = [r \in Login |-> [login[r] EXCEPT !.ticked = login[r].stage # "idle"]]
  /\ UNCHANGED <<rows, lock, unlocks, account>>

LockNext ==
  \/ \E r \in Login : \/ LoginArrives(r) \/ WrongPassword(r) \/ RightPassword(r)
                      \/ CountFailures(r) \/ OpenLockout(r)
  \/ Unlock \/ ChangeAccount \/ Tick

LockSpec == LockInit /\ [][LockNext]_lockVars

----
\* Wrong guesses that were evaluated and recorded inside the last window, and
\* the unlocks that let more of them in.
Guesses == Count({"invalid_credentials"}, clock - Window + 1)
Unlocked == SumFunctionOnSet(unlocks, Since(clock - Window + 1))

\* However requests interleave, no window holds more wrong passwords than the
\* threshold allows, one more for every other request that was past the lockout
\* test when it opened, and again as many for each time an administrator
\* unlocked the account inside the window: the count of register_failure comes
\* after its own row, so of the requests past the test the last one to count
\* sees them all.  The guesses of those that ran on after a lockout opened may
\* still be in the window when it runs out; where they outnumber the threshold,
\* they take its place.
GuessesBounded ==
  \E n \in {Threshold, Cardinality(Login)} :
    Guesses <= n - 1 + Cardinality(Login) * (1 + Unlocked)
====
