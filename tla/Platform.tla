---- MODULE Platform ----
(***************************************************************************)
(* What the application stands on, all of it at once: sign-in,             *)
(* credentials, roles, accounts, the job queue and notifications.  The     *)
(* modules share no state; a step is a step of one of them.                *)
(***************************************************************************)
EXTENDS Lockouts, Credentials, AccessMatrix, SsoProfiles, BackgroundJobs, Reminders

signInVars == <<lockVars, credVars>>
accountVars == <<matrixVars, ssoVars>>
serviceVars == <<jobVars, reminderVars>>
platformVars == <<signInVars, accountVars, serviceVars>>

PlatformInit ==
  LockInit /\ CredInit /\ MatrixInit /\ SsoInit /\ JobInit /\ ReminderInit

SignInOnly == UNCHANGED <<accountVars, serviceVars>>
LockMoves == LockNext /\ UNCHANGED credVars /\ SignInOnly
PasswordMoves == PasswordNext /\ UNCHANGED lockVars /\ SignInOnly
FactorMoves == FactorNext /\ UNCHANGED lockVars /\ SignInOnly

AccountsOnly == UNCHANGED <<signInVars, serviceVars>>
MatrixMoves == MatrixNext /\ UNCHANGED ssoVars /\ AccountsOnly
SsoMoves == SsoNext /\ UNCHANGED matrixVars /\ AccountsOnly

ServicesOnly == UNCHANGED <<signInVars, accountVars>>
JobMoves == JobNext /\ UNCHANGED reminderVars /\ ServicesOnly
ReminderMoves == ReminderNext /\ UNCHANGED jobVars /\ ServicesOnly

PlatformNext ==
  \/ LockMoves \/ PasswordMoves \/ FactorMoves
  \/ MatrixMoves \/ SsoMoves
  \/ JobMoves \/ ReminderMoves

PlatformSpec == PlatformInit /\ [][PlatformNext]_platformVars

----
\* Every module's state is of the types the code keeps it in, with the others
\* at work.
TypesOK ==
  /\ LockTypeOK /\ CredTypeOK /\ MatrixTypeOK /\ SsoTypeOK /\ JobTypeOK /\ ReminderTypeOK
====
