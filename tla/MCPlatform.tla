---- MODULE MCPlatform ----
(***************************************************************************)
(* An instance of Platform for TLC.  Its modules share no state, so that   *)
(* their product would only multiply the states: a behaviour takes the     *)
(* steps of one of them, the area it starts in.                            *)
(***************************************************************************)
EXTENDS Platform, TLC

CONSTANTS w1, w2, x1, x2, p1, viewer

\* Files of every kind, in both modes.
MCUploads ==
  LET U(kind, strict, link, file) == [kind |-> kind, strict |-> strict, link |-> link, file |-> file]
  IN {U("entities", FALSE, FALSE, <<"keyed", "pinned">>), U("entities", TRUE, FALSE, <<"keyed", "named">>),
      U("entities", FALSE, FALSE, <<"named", "bad">>), U("entities", TRUE, FALSE, <<"pinned", "bad">>),
      U("workbook", FALSE, TRUE, <<"named", "bad">>), U("workbook", TRUE, TRUE, <<"named">>),
      U("workbook", TRUE, FALSE, <<"named", "bad">>),
      U("report", FALSE, FALSE, <<>>)}

\* Corrective actions due tomorrow.
MCDueDay == [c \in Cap |-> 1]

VARIABLE area

Init ==
  /\ area \in {"lockouts", "passwords", "factors", "matrix", "sso", "jobs", "reminders"}
  /\ PlatformInit
  /\ hash.of = p1
  /\ area # "reminders" => pref = [inApp |-> TRUE, email |-> TRUE]
  /\ area # "matrix" => super = [r \in Role |-> FALSE]

\* Nothing is claimed of reminders once their history says the premise is gone:
\* what follows is not explored.
Next ==
  /\ \/ area = "lockouts" /\ LockMoves
     \/ area = "passwords" /\ PasswordMoves
     \/ area = "factors" /\ FactorMoves
     \/ area = "matrix" /\ MatrixMoves
     \/ area = "sso" /\ SsoMoves
     \/ area = "jobs" /\ JobMoves
     \/ area = "reminders" /\ ~jumbled /\ ReminderMoves
  /\ UNCHANGED area

Spec == Init /\ [][Next]_<<area, platformVars>>

Symmetry == Permutations({w1, w2}) \union Permutations({x1, x2})
====
