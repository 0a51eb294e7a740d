---- MODULE MCFileScans ----
(***************************************************************************)
(* Instances of FileScans for TLC: a row of each kind, an upload clamd     *)
(* lets pass, one it does not and one it is not asked about.               *)
(***************************************************************************)
EXTENDS FileScans

CONSTANTS ev, doc, wp

MCKind == [r \in Rows |-> CASE r = ev -> "evidence" [] r = doc -> "document" [] OTHER -> "paper"]

Faults == [upload |-> 2, outage |-> 2, broken |-> 1, death |-> 2]
NoFault == [upload |-> 2, outage |-> 0, broken |-> 0, death |-> 0]

====
