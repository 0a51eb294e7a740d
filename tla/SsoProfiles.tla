---- MODULE SsoProfiles ----
(***************************************************************************)
(* Accounts and their roles: sign-in through the identity provider         *)
(* (iams/sso.py, iams/views/auth.py) provisions a user, re-maps its role   *)
(* and mints a token, while administrators add and edit users, roles and   *)
(* the mapping table.  Each step is one commit, or the reads before it.    *)
(***************************************************************************)
EXTENDS Integers, FiniteSets

CONSTANTS
  Requests,     \* requests served at once
  Person,       \* people of the identity provider
  Group,        \* its groups
  Roles,        \* roles that may exist
  Default,      \* IAMS_SSO_DEFAULT_ROLE, one of them
  NoRole, NoProfile, NoUser, NoMap

ASSUME SsoAssumption ==
  /\ Default \in Roles
  /\ Roles \intersect {NoRole, NoProfile, NoUser} = {}
  /\ NoRole \notin {NoProfile, NoUser}

VARIABLES
  roles,    \* the Role rows that exist
  mapping,  \* KeycloakGroupRoleMap: role and precedence, or NoMap
  profile,  \* per person: NoUser, a user without a profile, or the profile's role
  tokens,   \* people holding a token minted by an SSO sign-in
  serving,  \* what each request is in the middle of
  stripped  \* history: people whose role a save of the whole profile took away

ssoVars == <<roles, mapping, profile, tokens, serving, stripped>>

Holders == Roles \union {NoRole}
Quiet == [verb |-> "none"]
SsoJobs ==
  {Quiet}
    \union [verb : {"provision", "profile", "sync"}, who : Person, groups : SUBSET Group]
    \union [verb : {"save"}, who : Person, role : Holders, read : Holders]
    \union [verb : {"mint"}, who : Person]
    \union [verb : {"add", "added"}, who : Person, role : Roles]
    \union [verb : {"edit"}, who : Person, role : Holders, read : Holders \union {NoProfile}]

SsoTypeOK ==
  /\ roles \subseteq Roles
  /\ mapping \in [Group -> [role : Roles, rank : 1..2] \union {NoMap}]
  /\ profile \in [Person -> Holders \union {NoProfile, NoUser}]
  /\ tokens \subseteq Person
  /\ serving \in [Requests -> SsoJobs]
  /\ stripped \subseteq Person

SsoInit ==
  /\ roles = Roles \ {Default}
  /\ mapping = [g \in Group |-> NoMap]
  /\ profile = [p \in Person |-> NoUser]
  /\ tokens = {}
  /\ serving = [q \in Requests |-> Quiet]
  /\ stripped = {}

HasProfile(p) == profile[p] \notin {NoUser, NoProfile}
Serve(q, s) == serving' = [serving EXCEPT ![q] = s]

\* resolve_role_from_groups: the best-ranked active mapping of the claim's
\* groups, ties going to the name; an inactive mapping counts as NoMap.
Matching(groups) == {g \in groups : mapping[g] # NoMap}
Resolved(groups) ==
  IF Matching(groups) = {} THEN {NoRole}
  ELSE {mapping[g].role : g \in {g \in Matching(groups) :
          \A h \in Matching(groups) : mapping[g].rank <= mapping[h].rank}}

----
\* The callback finds the user of the claims, or none.
SsoArrives(q, p, groups) ==
  /\ serving[q] = Quiet
  /\ Serve(q, [verb |-> IF profile[p] = NoUser THEN "provision" ELSE "sync",
               who |-> p, groups |-> groups])
  /\ UNCHANGED <<roles, mapping, profile, tokens, stripped>>

\* create_user: the user row; the loser of a race fails on the unique username.
Provision(q) ==
  /\ serving[q].verb = "provision"
  /\ LET p == serving[q].who IN
       IF profile[p] = NoUser
       THEN /\ profile' = [profile EXCEPT ![p] = NoProfile]
            /\ Serve(q, [serving[q] EXCEPT !.verb = "profile"])
       ELSE Serve(q, Quiet) /\ UNCHANGED profile
  /\ UNCHANGED <<roles, mapping, tokens, stripped>>

\* ... and its profile, with the mapped role or the default one, which is created
\* when it is missing; it fails when somebody else has made the profile.
ProvisionProfile(q) ==
  /\ serving[q].verb = "profile"
  /\ LET p == serving[q].who IN
       \E r \in Resolved(serving[q].groups) :
         LET role == IF r = NoRole THEN Default ELSE r IN
         /\ roles' = roles \union {role}
         /\ IF HasProfile(p) THEN Serve(q, Quiet) /\ UNCHANGED profile
            ELSE profile' = [profile EXCEPT ![p] = role] /\ Serve(q, [verb |-> "mint", who |-> p])
  /\ UNCHANGED <<mapping, tokens, stripped>>

\* update_user: the role is resolved and the profile fetched, or created bare.
Sync(q) ==
  /\ serving[q].verb = "sync"
  /\ LET p == serving[q].who IN
       /\ profile' = IF HasProfile(p) THEN profile ELSE [profile EXCEPT ![p] = NoRole]
       /\ \E r \in Resolved(serving[q].groups) :
            Serve(q, [verb |-> "save", who |-> p, role |-> r,
                      read |-> IF HasProfile(p) THEN profile[p] ELSE NoRole])
  /\ UNCHANGED <<roles, mapping, tokens, stripped>>

\* Faulty variant: only a mapped role is written, never the default one.
SaveMappedRole(q) ==
  /\ serving[q].verb = "save"
  /\ LET s == serving[q] IN
       /\ profile' = IF s.role \in roles THEN [profile EXCEPT ![s.who] = s.role] ELSE profile
       /\ stripped' = IF s.role \in roles THEN stripped \ {s.who} ELSE stripped
       /\ Serve(q, [verb |-> "mint", who |-> s.who])
  /\ UNCHANGED <<roles, mapping, tokens>>

\* ... then the role written, when it differs from the one read or when there was
\* none, and nothing else of the profile.  A role deleted meanwhile fails the
\* foreign key, and the sign-in with it.
SaveRole(q) ==
  /\ serving[q].verb = "save"
  /\ LET s == serving[q]
         role == IF s.role # NoRole /\ s.role # s.read THEN s.role
                 ELSE IF s.read = NoRole THEN Default ELSE NoRole
     IN IF role # NoRole /\ role = s.role /\ role \notin roles
        THEN Serve(q, Quiet) /\ UNCHANGED <<roles, profile, stripped>>
        ELSE /\ Serve(q, [verb |-> "mint", who |-> s.who])
             /\ IF role = NoRole THEN UNCHANGED <<roles, profile, stripped>>
                ELSE /\ roles' = roles \union {role}
                     /\ profile' = [profile EXCEPT ![s.who] = role]
                     /\ stripped' = stripped \ {s.who}
  /\ UNCHANGED <<mapping, tokens>>

\* The callback mints the token for the user it was given, and looks at nothing.
MintToken(q) ==
  /\ serving[q].verb = "mint"
  /\ tokens' = tokens \union {serving[q].who}
  /\ Serve(q, Quiet)
  /\ UNCHANGED <<roles, mapping, profile, stripped>>

\* An administrator edits a user: the profile is loaded,
EditUser(q, p, role) ==
  /\ serving[q] = Quiet /\ profile[p] # NoUser
  /\ role \in roles \union {NoRole}   \* NoRole: the body names no role
  /\ Serve(q, [verb |-> "edit", who |-> p, role |-> role,
               read |-> IF HasProfile(p) THEN profile[p] ELSE NoProfile])
  /\ UNCHANGED <<roles, mapping, profile, tokens, stripped>>

\* and saved with every column, the role it read included.  A role deleted
\* between the validation and the look-up leaves none; a second profile fails.
\* A body that names no role keeps the one that was read.
SaveUser(q) ==
  /\ serving[q].verb = "edit"
  /\ LET s == serving[q]
         role == IF s.role # NoRole THEN (IF s.role \in roles THEN s.role ELSE NoRole)
                 ELSE IF s.read = NoProfile THEN NoRole ELSE s.read
     IN IF (s.read = NoProfile /\ HasProfile(s.who)) \/ role \notin roles \union {NoRole}
        THEN UNCHANGED <<profile, stripped>>
        ELSE /\ profile' = [profile EXCEPT ![s.who] = role]
             /\ stripped' = IF role # NoRole THEN stripped \ {s.who}
                            ELSE IF profile[s.who] \in roles THEN stripped \union {s.who} ELSE stripped
  /\ Serve(q, Quiet)
  /\ UNCHANGED <<roles, mapping, tokens>>

\* POST /users/: the role is validated,
CreateUser(q, p, role) ==
  /\ serving[q] = Quiet /\ role \in roles
  /\ Serve(q, [verb |-> "add", who |-> p, role |-> role])
  /\ UNCHANGED <<roles, mapping, profile, tokens, stripped>>

\* the user row created, unless the name is taken,
AddUser(q) ==
  /\ serving[q].verb = "add"
  /\ IF profile[serving[q].who] = NoUser
     THEN /\ profile' = [profile EXCEPT ![serving[q].who] = NoProfile]
          /\ Serve(q, [serving[q] EXCEPT !.verb = "added"])
     ELSE Serve(q, Quiet) /\ UNCHANGED profile
  /\ UNCHANGED <<roles, mapping, tokens, stripped>>

\* and the profile, with the role as it is found by then: one deleted meanwhile is
\* none.  It fails when a sign-in has made the profile.
AddProfile(q) ==
  /\ serving[q].verb = "added"
  /\ LET s == serving[q] IN
       profile' = IF HasProfile(s.who) THEN profile
                  ELSE [profile EXCEPT ![s.who] = IF s.role \in roles THEN s.role ELSE NoRole]
  /\ Serve(q, Quiet)
  /\ UNCHANGED <<roles, mapping, tokens, stripped>>

\* The process dies, or an error ends the request: what it committed stays.
RequestEnds(q) ==
  /\ serving[q] # Quiet
  /\ Serve(q, Quiet)
  /\ UNCHANGED <<roles, mapping, profile, tokens, stripped>>

\* Roles come and go; a role somebody has, or a mapping names, is protected.
CreateRole(r) ==
  /\ r \notin roles /\ roles' = roles \union {r}
  /\ UNCHANGED <<mapping, profile, tokens, serving, stripped>>
DeleteRole(r) ==
  /\ r \in roles
  /\ \A p \in Person : profile[p] # r
  /\ \A g \in Group : mapping[g] # NoMap => mapping[g].role # r
  /\ roles' = roles \ {r}
  /\ UNCHANGED <<mapping, profile, tokens, serving, stripped>>

\* The mapping table, edited or (de)activated.
EditMapping(g) ==
  /\ mapping' \in [Group -> [role : roles, rank : 1..2] \union {NoMap}]
  /\ \A h \in Group \ {g} : mapping'[h] = mapping[h]
  /\ UNCHANGED <<roles, profile, tokens, serving, stripped>>

SsoNext ==
  \/ \E q \in Requests :
       \/ \E p \in Person : \/ \E groups \in SUBSET Group : SsoArrives(q, p, groups)
                            \/ \E r \in Holders : EditUser(q, p, r)
                            \/ \E r \in Roles : CreateUser(q, p, r)
       \/ Provision(q) \/ ProvisionProfile(q) \/ Sync(q) \/ SaveRole(q) \/ MintToken(q)
       \/ SaveUser(q) \/ AddUser(q) \/ AddProfile(q) \/ RequestEnds(q)
  \/ \E r \in Roles : CreateRole(r) \/ DeleteRole(r)
  \/ \E g \in Group : EditMapping(g)

SsoSpec == SsoInit /\ [][SsoNext]_ssoVars

----
\* Whoever an SSO sign-in gave a token has a role that exists, however first
\* sign-ins, new users and edits overlap, although the role is written long before
\* the token is minted and a bare profile may be made in between.  The exception is
\* who lost the role to a save of a profile loaded before it was given, or to a
\* role deleted under an edit; the next sign-in gives them one.
SignInGivesRole == \A p \in tokens \ stripped : profile[p] \in roles
====
