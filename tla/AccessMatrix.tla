---- MODULE AccessMatrix ----
(***************************************************************************)
(* The Role Access Matrix (iams/rbac_matrix.py, iams/permissions.py,       *)
(* views/roles.py): a level for each role and module, the legacy           *)
(* permission keys derived from it, and the request that edits it cell by  *)
(* cell.                                                                   *)
(***************************************************************************)
EXTENDS Integers, SequencesExt

CONSTANTS
  Role, Module,  \* roles, and the modules of the matrix a run looks at
  Offered,       \* the levels a request may ask for
  Unknown,       \* a module key no row of Module has
  NoRow

VARIABLES
  super,  \* Role.is_super_admin
  cells,  \* RoleModuleAccess: level, or NoRow
  edit    \* the PUT in flight: the role and what is left to write, or <<>>

matrixVars == <<super, cells, edit>>

\* ACCESS_RANK; approve outranks edit.
AccessRank == [full |-> 5, approve |-> 4, edit |-> 3, read |-> 2, none |-> 1]
Levels == DOMAIN AccessRank

ASSUME MatrixAssumption == Unknown \notin Module /\ Offered \subseteq Levels

\* LEGACY_PERMISSION_MAP: key -> module and least level.
LegacyMap == [
  view_audits        |-> <<"engagements", "read">>,
  create_audits      |-> <<"engagements", "edit">>,
  edit_audits        |-> <<"engagements", "edit">>,
  delete_audits      |-> <<"engagements", "full">>,
  manage_findings    |-> <<"findings", "edit">>,
  manage_caps        |-> <<"follow_up", "edit">>,
  view_reports       |-> <<"reports", "read">>,
  export_reports     |-> <<"reports", "edit">>,
  manage_users       |-> <<"users_roles", "full">>,
  manage_roles       |-> <<"users_roles", "full">>,
  manage_permissions |-> <<"users_roles", "full">>,
  manage_settings    |-> <<"users_roles", "full">>]

MatrixTypeOK ==
  /\ super \in [Role -> BOOLEAN]
  /\ cells \in [Role -> [Module -> Levels \union {NoRow}]]
  /\ \/ edit = <<>>
     \/ edit.role \in Role /\ edit.left \in Seq((Module \union {Unknown}) \X Offered)

MatrixInit ==
  /\ super \in [Role -> BOOLEAN]
  /\ cells = [r \in Role |-> [m \in Module |-> NoRow]]
  /\ edit = <<>>

AccessFor(r, m) == IF m \in Module THEN cells[r][m] ELSE NoRow

\* Faulty variant: the least level itself is not enough.
HasAccessAbove(r, m, min) ==
  \/ super[r]
  \/ AccessFor(r, m) # NoRow /\ AccessRank[AccessFor(r, m)] > AccessRank[min]

\* Role.has_access.
HasAccess(r, m, min) ==
  \/ super[r]
  \/ /\ AccessFor(r, m) # NoRow
     /\ AccessRank[AccessFor(r, m)] >= AccessRank[min]

\* HasPermission.has_permission, the gate of a request.
HasPermission(r, key) ==
  \/ super[r]
  \/ key \in DOMAIN LegacyMap /\ HasAccess(r, LegacyMap[key][1], LegacyMap[key][2])

\* Role.full_access_map: no row reads as the level none.
FullAccessMap(r) ==
  [m \in Module |-> IF super[r] THEN "full"
                    ELSE IF cells[r][m] = NoRow THEN "none" ELSE cells[r][m]]

\* derived_permission_keys, what the front end is told.
DerivedPermissionKeys(r) ==
  IF super[r] THEN DOMAIN LegacyMap
  ELSE LET access == FullAccessMap(r) IN
       {k \in DOMAIN LegacyMap :
          LET m == LegacyMap[k][1]
              level == IF m \in Module THEN access[m] ELSE "none"
          IN AccessRank[level] >= AccessRank[LegacyMap[k][2]]}

----
\* PUT /roles/<id>/access/: refused for a super admin role, judged by the role
\* as it was loaded.
PutAccess(r) ==
  /\ edit = <<>> /\ ~super[r]
  /\ \E first \in (Module \union {Unknown}) \X Offered :
       \E rest \in {<<>>} \union {<<c>> : c \in (Module \union {Unknown}) \X Offered} :
         edit' = [role |-> r, left |-> <<first>> \o rest]
  /\ UNCHANGED <<super, cells>>

\* Each cell is an upsert of its own; an unknown module ends the request with
\* 400 and leaves the cells before it written.
PutCell ==
  /\ edit # <<>>
  /\ LET cell == Head(edit.left) IN
       IF cell[1] = Unknown THEN edit' = <<>> /\ UNCHANGED cells
       ELSE /\ cells' = [cells EXCEPT ![edit.role][cell[1]] = cell[2]]
            /\ edit' = IF Len(edit.left) = 1 THEN <<>>
                       ELSE [edit EXCEPT !.left = Tail(@)]
  /\ UNCHANGED super

\* PATCH of a role may change the super admin flag.
PatchRole(r) ==
  /\ super' = [super EXCEPT ![r] = ~@]
  /\ UNCHANGED <<cells, edit>>

MatrixNext == PutCell \/ \E r \in Role : PutAccess(r) \/ PatchRole(r)

MatrixSpec == MatrixInit /\ [][MatrixNext]_matrixVars

----
\* The keys the front end is shown are exactly the ones the gates let through,
\* whatever the matrix holds and while it is being edited: two computations, one
\* over the map with defaults and one over the rows.
KeysAgree ==
  \A r \in Role : DerivedPermissionKeys(r) = {k \in DOMAIN LegacyMap : HasPermission(r, k)}
====
