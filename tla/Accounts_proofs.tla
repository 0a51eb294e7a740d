---------------------------- MODULE Accounts_proofs ----------------------------
(***************************************************************************)
(* Theorems about accounts: SsoProfiles, Credentials, AccessMatrix and     *)
(* Lockouts, for every number of people, roles, groups, passwords and      *)
(* requests.                                                               *)
(***************************************************************************)
EXTENDS SsoProfiles, Credentials, AccessMatrix, Lockouts, SequenceTheorems, SumFacts

-----------------------------------------------------------------------------
(* SsoProfiles. *)

\* What a request holds at each stage.
LEMMA ServingTypes ==
  ASSUME SsoTypeOK, NEW q \in Requests
  PROVE  /\ serving[q] \in SsoJobs
         /\ serving[q].verb \in {"provision", "profile", "sync"} =>
              serving[q] \in [verb : {"provision", "profile", "sync"}, who : Person, groups : SUBSET Group]
         /\ serving[q].verb = "save" =>
              serving[q] \in [verb : {"save"}, who : Person, role : Holders, read : Holders]
         /\ serving[q].verb = "mint" => serving[q] \in [verb : {"mint"}, who : Person]
         /\ serving[q].verb \in {"add", "added"} =>
              serving[q] \in [verb : {"add", "added"}, who : Person, role : Roles]
         /\ serving[q].verb = "edit" =>
              serving[q] \in [verb : {"edit"}, who : Person, role : Holders, read : Holders \union {NoProfile}]
BY DEF SsoTypeOK, SsoJobs, Quiet

\* A claim is mapped to a role, or to none.
LEMMA ResolvedRole ==
  ASSUME SsoTypeOK, NEW groups \in SUBSET Group
  PROVE  Resolved(groups) \subseteq Holders
<1>1. \A g \in Matching(groups) : mapping[g].role \in Roles
  BY DEF Matching, SsoTypeOK
<1>2. QED
  BY <1>1 DEF Resolved, Holders

\* A profile that is there names a role or none.
LEMMA ReadRole ==
  ASSUME SsoTypeOK, NEW p \in Person, HasProfile(p)
  PROVE  profile[p] \in Holders
BY DEF SsoTypeOK, HasProfile

\* A request goes on, and is typed if the rows are.
LEMMA ServeTypes ==
  ASSUME SsoTypeOK, NEW q \in Requests, NEW job \in SsoJobs, Serve(q, job),
         roles' \subseteq Roles, mapping' = mapping, tokens' \subseteq Person, stripped' \subseteq Person,
         profile' \in [Person -> Holders \union {NoProfile, NoUser}]
  PROVE  SsoTypeOK'
BY DEF SsoTypeOK, Serve

-----------------------------------------------------------------------------
(* Types. *)

\* Roles, mapping, profiles and requests have the declared types.
THEOREM SsoTypesHold == SsoSpec => []SsoTypeOK
<1>1. SsoInit => SsoTypeOK
  BY DEF SsoInit, SsoTypeOK, SsoJobs
<1>2. ASSUME SsoTypeOK, [SsoNext]_ssoVars PROVE SsoTypeOK'
  <2>1. /\ Quiet \in SsoJobs
        /\ roles \subseteq Roles /\ tokens \subseteq Person /\ stripped \subseteq Person
        /\ profile \in [Person -> Holders \union {NoProfile, NoUser}]
        /\ Default \in Holders /\ NoRole \in Holders /\ Roles \subseteq Holders
    BY <1>2, SsoAssumption DEF SsoTypeOK, SsoJobs, Holders
  <2>2. ASSUME NEW q \in Requests, NEW p \in Person, NEW groups \in SUBSET Group, SsoArrives(q, p, groups)
        PROVE  SsoTypeOK'
    <3>1. PICK v \in {"provision", "sync"} : Serve(q, [verb |-> v, who |-> p, groups |-> groups])
      BY <2>2 DEF SsoArrives
    <3>2. [verb |-> v, who |-> p, groups |-> groups] \in SsoJobs
      BY DEF SsoJobs
    <3>3. QED
      BY <1>2, <2>1, <2>2, <3>1, <3>2, ServeTypes DEF SsoArrives
  <2>3. ASSUME NEW q \in Requests, NEW p \in Person, NEW r \in Holders, EditUser(q, p, r)
        PROVE  SsoTypeOK'
    <3>1. (IF HasProfile(p) THEN profile[p] ELSE NoProfile) \in Holders \union {NoProfile}
      BY <1>2, ReadRole
    <3>2. [verb |-> "edit", who |-> p, role |-> r,
           read |-> IF HasProfile(p) THEN profile[p] ELSE NoProfile] \in SsoJobs
      BY <3>1 DEF SsoJobs
    <3>3. QED
      BY <1>2, <2>1, <2>3, <3>2, ServeTypes DEF EditUser
  <2>4. ASSUME NEW q \in Requests, Provision(q) PROVE SsoTypeOK'
    <3>1. serving[q] \in [verb : {"provision", "profile", "sync"}, who : Person, groups : SUBSET Group]
      BY <1>2, <2>4, ServingTypes DEF Provision
    <3>2. [serving[q] EXCEPT !.verb = "profile"] \in SsoJobs
      BY <3>1 DEF SsoJobs
    <3>3. CASE profile[serving[q].who] = NoUser
      <4>1. /\ Serve(q, [serving[q] EXCEPT !.verb = "profile"])
            /\ profile' = [profile EXCEPT ![serving[q].who] = NoProfile]
            /\ UNCHANGED <<roles, mapping, tokens, stripped>>
        BY <2>4, <3>3 DEF Provision
      <4>2. profile' \in [Person -> Holders \union {NoProfile, NoUser}]
        BY <2>1, <3>1, <4>1
      <4>3. QED
        BY <1>2, <2>1, <3>2, <4>1, <4>2, ServeTypes
    <3>4. CASE profile[serving[q].who] # NoUser
      BY <1>2, <2>1, <2>4, <3>4, ServeTypes DEF Provision
    <3>5. QED
      BY <3>3, <3>4
  <2>5. ASSUME NEW q \in Requests, ProvisionProfile(q) PROVE SsoTypeOK'
    <3>1. serving[q] \in [verb : {"provision", "profile", "sync"}, who : Person, groups : SUBSET Group]
      BY <1>2, <2>5, ServingTypes DEF ProvisionProfile
    <3>2. PICK r \in Resolved(serving[q].groups) :
            LET role == IF r = NoRole THEN Default ELSE r IN
            /\ roles' = roles \union {role}
            /\ IF HasProfile(serving[q].who) THEN Serve(q, Quiet) /\ UNCHANGED profile
               ELSE /\ profile' = [profile EXCEPT ![serving[q].who] = role]
                    /\ Serve(q, [verb |-> "mint", who |-> serving[q].who])
      BY <2>5 DEF ProvisionProfile
    <3>3. (IF r = NoRole THEN Default ELSE r) \in Roles
      BY <1>2, <3>1, <3>2, ResolvedRole, SsoAssumption DEF Holders
    <3>4. /\ roles' \subseteq Roles /\ UNCHANGED <<mapping, tokens, stripped>>
          /\ profile' \in [Person -> Holders \union {NoProfile, NoUser}]
      BY <2>1, <2>5, <3>1, <3>2, <3>3 DEF ProvisionProfile
    <3>5. [verb |-> "mint", who |-> serving[q].who] \in SsoJobs
      BY <3>1 DEF SsoJobs
    <3>6. PICK job \in SsoJobs : Serve(q, job)
      BY <2>1, <3>2, <3>5
    <3>7. QED
      BY <1>2, <2>1, <3>4, <3>6, ServeTypes
  <2>6. ASSUME NEW q \in Requests, Sync(q) PROVE SsoTypeOK'
    <3>1. serving[q] \in [verb : {"provision", "profile", "sync"}, who : Person, groups : SUBSET Group]
      BY <1>2, <2>6, ServingTypes DEF Sync
    <3>2. DEFINE read == IF HasProfile(serving[q].who) THEN profile[serving[q].who] ELSE NoRole
    <3>3. read \in Holders
      BY <1>2, <2>1, <3>1, ReadRole
    <3>4. PICK r \in Resolved(serving[q].groups) :
            Serve(q, [verb |-> "save", who |-> serving[q].who, role |-> r, read |-> read])
      BY <2>6 DEF Sync
    <3>5. r \in Holders
      BY <1>2, <3>1, <3>4, ResolvedRole
    <3>6. [verb |-> "save", who |-> serving[q].who, role |-> r, read |-> read] \in SsoJobs
      BY <3>1, <3>3, <3>5 DEF SsoJobs
    <3>7. /\ profile' \in [Person -> Holders \union {NoProfile, NoUser}]
          /\ UNCHANGED <<roles, mapping, tokens, stripped>>
      BY <2>1, <2>6, <3>1 DEF Sync
    <3>8. QED
      BY <1>2, <2>1, <3>4, <3>6, <3>7, ServeTypes
  <2>7. ASSUME NEW q \in Requests, SaveRole(q) PROVE SsoTypeOK'
    <3>1. serving[q] \in [verb : {"save"}, who : Person, role : Holders, read : Holders]
      BY <1>2, <2>7, ServingTypes DEF SaveRole
    <3>2. serving[q].who \in Person /\ serving[q].role \in Holders
      BY <3>1
    <3>3. /\ roles' \subseteq Roles /\ stripped' \subseteq Person /\ UNCHANGED <<mapping, tokens>>
          /\ profile' \in [Person -> Holders \union {NoProfile, NoUser}]
      BY <2>1, <2>7, <3>2, SsoAssumption DEF SaveRole, Holders
    <3>4. [verb |-> "mint", who |-> serving[q].who] \in SsoJobs
      BY <3>1 DEF SsoJobs
    <3>5. PICK job \in SsoJobs : Serve(q, job)
      BY <2>1, <2>7, <3>4 DEF SaveRole
    <3>6. QED
      BY <1>2, <2>1, <3>3, <3>5, ServeTypes
  <2>8. ASSUME NEW q \in Requests, SaveUser(q) PROVE SsoTypeOK'
    <3>1. serving[q] \in [verb : {"edit"}, who : Person, role : Holders, read : Holders \union {NoProfile}]
      BY <1>2, <2>8, ServingTypes DEF SaveUser
    <3>2. /\ serving[q].who \in Person /\ serving[q].role \in Holders
          /\ serving[q].read \in Holders \union {NoProfile}
      BY <3>1
    <3>3. profile' \in [Person -> Holders \union {NoProfile, NoUser}] /\ stripped' \subseteq Person
      BY <2>1, <2>8, <3>2 DEF SaveUser, Holders
    <3>4. QED
      BY <1>2, <2>1, <2>8, <3>3, ServeTypes DEF SaveUser
  <2>9. ASSUME NEW q \in Requests, NEW p \in Person, NEW r \in Roles, CreateUser(q, p, r)
        PROVE  SsoTypeOK'
    <3>1. [verb |-> "add", who |-> p, role |-> r] \in SsoJobs
      BY DEF SsoJobs
    <3>2. QED
      BY <1>2, <2>1, <2>9, <3>1, ServeTypes DEF CreateUser
  <2>14. ASSUME NEW q \in Requests, AddUser(q) \/ AddProfile(q) PROVE SsoTypeOK'
    <3>1. serving[q] \in [verb : {"add", "added"}, who : Person, role : Roles]
      BY <1>2, <2>14, ServingTypes DEF AddUser, AddProfile
    <3>2. [serving[q] EXCEPT !.verb = "added"] \in SsoJobs
      BY <3>1 DEF SsoJobs
    <3>3. PICK job \in SsoJobs : Serve(q, job)
      BY <2>1, <2>14, <3>2 DEF AddUser, AddProfile
    <3>4. serving[q].who \in Person /\ serving[q].role \in Holders
      BY <2>1, <3>1
    <3>5. /\ profile' \in [Person -> Holders \union {NoProfile, NoUser}]
          /\ UNCHANGED <<roles, mapping, tokens, stripped>>
      BY <2>1, <2>14, <3>4 DEF AddUser, AddProfile
    <3>6. QED
      BY <1>2, <2>1, <3>3, <3>5, ServeTypes
  <2>15. ASSUME NEW q \in Requests, MintToken(q) PROVE SsoTypeOK'
    <3>1. serving[q] \in [verb : {"mint"}, who : Person]
      BY <1>2, <2>15, ServingTypes DEF MintToken
    <3>2. tokens' \subseteq Person
      BY <2>1, <2>15, <3>1 DEF MintToken
    <3>3. QED
      BY <1>2, <2>1, <2>15, <3>2, ServeTypes DEF MintToken
  <2>16. ASSUME NEW q \in Requests, RequestEnds(q) PROVE SsoTypeOK'
    BY <1>2, <2>1, <2>16, ServeTypes DEF RequestEnds
  <2>10. ASSUME NEW r \in Roles, CreateRole(r) \/ DeleteRole(r) PROVE SsoTypeOK'
    BY <1>2, <2>10 DEF CreateRole, DeleteRole, SsoTypeOK
  <2>11. ASSUME NEW g \in Group, EditMapping(g) PROVE SsoTypeOK'
    BY <1>2, <2>1, <2>11 DEF EditMapping, SsoTypeOK
  <2>12. CASE UNCHANGED ssoVars
    BY <1>2, <2>12 DEF ssoVars, SsoTypeOK
  <2>13. QED
    BY <1>2, <2>2, <2>3, <2>4, <2>5, <2>6, <2>7, <2>8, <2>9, <2>10, <2>11, <2>12, <2>14, <2>15, <2>16
       DEF SsoNext
<1>3. QED
  BY <1>1, <1>2, PTL DEF SsoSpec

-----------------------------------------------------------------------------
(* The role of who signs in. *)

\* A request that will mint a token has given the role, or found one.
Gives(job) == job.verb = "mint" \/ (job.verb = "save" /\ job.read # NoRole)
Provided(p) == profile[p] \in roles \/ p \in stripped
RolesGiven ==
  /\ \A p \in tokens : Provided(p)
  /\ \A q \in Requests : Gives(serving[q]) => Provided(serving[q].who)
  /\ \A p \in Person : profile[p] \in Roles => profile[p] \in roles

\* What a step leaves to everybody: who had a role has one, or was stripped of it.
KeepsRoles ==
  \A p \in Person : /\ Provided(p) => Provided(p)'
                    /\ profile'[p] \in Roles => profile'[p] \in roles'

\* A step that mints no token.
LEMMA ServedOn ==
  ASSUME SsoTypeOK, RolesGiven, KeepsRoles, tokens' = tokens,
         NEW q \in Requests, NEW job \in SsoJobs, Serve(q, job),
         Gives(job) => Provided(job.who)'
  PROVE  RolesGiven'
<1>1. serving'[q] = job /\ \A r \in Requests : r # q => serving'[r] = serving[r]
  BY DEF Serve, SsoTypeOK
<1>2. \A p \in tokens : Provided(p)'
  BY DEF RolesGiven, KeepsRoles, SsoTypeOK
<1>3. ASSUME NEW r \in Requests, Gives(serving'[r]) PROVE (Provided(serving[r].who))'
  <2>1. CASE r = q
    BY <1>1, <1>3, <2>1 DEF Provided
  <2>2. CASE r # q
    <3>1. serving'[r] = serving[r] /\ Gives(serving[r])
      BY <1>1, <1>3, <2>2
    <3>2. serving[r].who \in Person
      BY <3>1, ServingTypes DEF Gives
    <3>3. Provided(serving[r].who)
      BY <3>1 DEF RolesGiven
    <3>4. QED
      BY <3>1, <3>2, <3>3 DEF KeepsRoles, Provided
  <2>3. QED
    BY <2>1, <2>2
<1>4. QED
  BY <1>2, <1>3 DEF RolesGiven, KeepsRoles, Gives

\* A step that leaves roles and profiles alone keeps them.
LEMMA RowsStay ==
  ASSUME RolesGiven, UNCHANGED <<roles, profile, stripped>> PROVE KeepsRoles
BY DEF RolesGiven, KeepsRoles, Provided

\* A profile is written, with a role that exists or none.
LEMMA RowWritten ==
  ASSUME SsoTypeOK, RolesGiven, NEW p \in Person, NEW x \in roles' \union {NoRole, NoProfile},
         profile' = [profile EXCEPT ![p] = x], roles \subseteq roles', stripped \ {p} \subseteq stripped',
         Provided(p) => x \in roles' \/ p \in stripped'
  PROVE  KeepsRoles
<1>1. profile'[p] = x /\ \A o \in Person : o # p => profile'[o] = profile[o]
  BY DEF SsoTypeOK
<1>2. x \in Roles => x \in roles'
  BY SsoAssumption
<1>3. QED
  BY <1>1, <1>2 DEF RolesGiven, KeepsRoles, Provided

\* Nobody has a role without a profile.
LEMMA BareHasNone ==
  ASSUME SsoTypeOK, NEW p \in Person, ~HasProfile(p) PROVE profile[p] \notin roles
BY SsoAssumption DEF SsoTypeOK, HasProfile

LEMMA RolesGivenStep == SsoTypeOK /\ RolesGiven /\ [SsoNext]_ssoVars => RolesGiven'
<1> SUFFICES ASSUME SsoTypeOK, RolesGiven, [SsoNext]_ssoVars PROVE RolesGiven'
  OBVIOUS
<1>0. Quiet \in SsoJobs /\ ~Gives(Quiet)
  BY DEF SsoJobs, Quiet, Gives
<1>1. ASSUME NEW q \in Requests, NEW p \in Person, NEW groups \in SUBSET Group, SsoArrives(q, p, groups)
      PROVE  RolesGiven'
  <2>1. PICK v \in {"provision", "sync"} : Serve(q, [verb |-> v, who |-> p, groups |-> groups])
    BY <1>1 DEF SsoArrives
  <2>2. /\ [verb |-> v, who |-> p, groups |-> groups] \in SsoJobs
        /\ ~Gives([verb |-> v, who |-> p, groups |-> groups])
    BY DEF SsoJobs, Gives
  <2>3. QED
    BY <1>1, <2>1, <2>2, RowsStay, ServedOn DEF SsoArrives
<1>2. ASSUME NEW q \in Requests, NEW p \in Person, NEW r \in Holders, EditUser(q, p, r) PROVE RolesGiven'
  <2> DEFINE job == [verb |-> "edit", who |-> p, role |-> r,
                     read |-> IF HasProfile(p) THEN profile[p] ELSE NoProfile]
  <2>1. job \in SsoJobs /\ ~Gives(job)
    <3>1. (IF HasProfile(p) THEN profile[p] ELSE NoProfile) \in Holders \union {NoProfile}
      BY ReadRole
    <3>2. QED
      BY <3>1 DEF SsoJobs, Gives
  <2> HIDE DEF job
  <2>2. Serve(q, job)
    BY <1>2 DEF EditUser, job
  <2>3. QED
    BY <1>2, <2>1, <2>2, RowsStay, ServedOn DEF EditUser
<1>3. ASSUME NEW q \in Requests, NEW p \in Person, NEW r \in Roles, CreateUser(q, p, r) PROVE RolesGiven'
  <2>1. /\ [verb |-> "add", who |-> p, role |-> r] \in SsoJobs
        /\ ~Gives([verb |-> "add", who |-> p, role |-> r])
    BY DEF SsoJobs, Gives
  <2>2. QED
    BY <1>3, <2>1, RowsStay, ServedOn DEF CreateUser
<1>4. ASSUME NEW q \in Requests, RequestEnds(q) PROVE RolesGiven'
  BY <1>0, <1>4, RowsStay, ServedOn DEF RequestEnds
<1>5. ASSUME NEW q \in Requests, Provision(q) \/ AddUser(q) PROVE RolesGiven'
  <2>1. /\ serving[q] \in SsoJobs /\ serving[q].who \in Person
        /\ serving[q].verb \in {"provision", "add"}
    BY <1>5, ServingTypes DEF Provision, AddUser
  <2>2. CASE profile[serving[q].who] = NoUser
    <3>1. PICK v \in {"profile", "added"} : Serve(q, [serving[q] EXCEPT !.verb = v])
      BY <1>5, <2>2 DEF Provision, AddUser
    <3>2. PICK job \in SsoJobs : Serve(q, job) /\ ~Gives(job)
      <4>1. CASE Provision(q)
        <5>1. serving[q] \in [verb : {"provision", "profile", "sync"}, who : Person, groups : SUBSET Group]
          BY <4>1, ServingTypes DEF Provision
        <5>2. /\ [serving[q] EXCEPT !.verb = "profile"] \in SsoJobs
              /\ ~Gives([serving[q] EXCEPT !.verb = "profile"])
          BY <5>1 DEF SsoJobs, Gives
        <5>3. QED
          BY <2>2, <4>1, <5>2 DEF Provision
      <4>2. CASE AddUser(q)
        <5>1. serving[q] \in [verb : {"add", "added"}, who : Person, role : Roles]
          BY <4>2, ServingTypes DEF AddUser
        <5>2. /\ [serving[q] EXCEPT !.verb = "added"] \in SsoJobs
              /\ ~Gives([serving[q] EXCEPT !.verb = "added"])
          BY <5>1 DEF SsoJobs, Gives
        <5>3. QED
          BY <2>2, <4>2, <5>2 DEF AddUser
      <4>3. QED
        BY <1>5, <4>1, <4>2
    <3>3. profile' = [profile EXCEPT ![serving[q].who] = NoProfile] /\ UNCHANGED <<roles, tokens, stripped>>
      BY <1>5, <2>2 DEF Provision, AddUser
    <3>4. profile[serving[q].who] \notin roles
      BY <2>1, <2>2, BareHasNone DEF HasProfile
    <3>5. KeepsRoles
      BY <2>1, <3>3, <3>4, RowWritten DEF Provided
    <3>6. QED
      BY <3>2, <3>3, <3>5, ServedOn
  <2>3. CASE profile[serving[q].who] # NoUser
    BY <1>0, <1>5, <2>3, RowsStay, ServedOn DEF Provision, AddUser
  <2>4. QED
    BY <2>2, <2>3
<1>6. ASSUME NEW q \in Requests, ProvisionProfile(q) PROVE RolesGiven'
  <2>1. PICK p \in Person : p = serving[q].who
    BY <1>6, ServingTypes DEF ProvisionProfile
  <2>2. PICK role :
          /\ roles' = roles \union {role} /\ UNCHANGED <<tokens, stripped>>
          /\ IF HasProfile(p) THEN Serve(q, Quiet) /\ UNCHANGED profile
             ELSE profile' = [profile EXCEPT ![p] = role] /\ Serve(q, [verb |-> "mint", who |-> p])
    BY <1>6, <2>1 DEF ProvisionProfile
  <2>3. CASE HasProfile(p)
    <3>1. KeepsRoles
      BY <2>2, <2>3 DEF RolesGiven, KeepsRoles, Provided
    <3>2. QED
      BY <1>0, <2>2, <2>3, <3>1, ServedOn
  <2>4. CASE ~HasProfile(p)
    <3>1. [verb |-> "mint", who |-> p] \in SsoJobs
      BY <2>1 DEF SsoJobs
    <3>2. KeepsRoles
      BY <2>1, <2>2, <2>4, RowWritten
    <3>3. profile'[p] \in roles'
      BY <2>1, <2>2, <2>4 DEF SsoTypeOK
    <3>4. QED
      BY <2>2, <2>4, <3>1, <3>2, <3>3, ServedOn DEF Provided
  <2>5. QED
    BY <2>3, <2>4
<1>7. ASSUME NEW q \in Requests, Sync(q) PROVE RolesGiven'
  <2>0. serving[q] \in [verb : {"provision", "profile", "sync"}, who : Person, groups : SUBSET Group]
    BY <1>7, ServingTypes DEF Sync
  <2>1. PICK p \in Person : p = serving[q].who
    BY <2>0
  <2> DEFINE read == IF HasProfile(p) THEN profile[p] ELSE NoRole
  <2>2. PICK r \in Resolved(serving[q].groups) :
          Serve(q, [verb |-> "save", who |-> p, role |-> r, read |-> read])
    BY <1>7, <2>1 DEF Sync
  <2>3. read \in Holders /\ r \in Holders
    BY <2>0, <2>1, <2>2, ReadRole, ResolvedRole DEF Holders
  <2>4. [verb |-> "save", who |-> p, role |-> r, read |-> read] \in SsoJobs
    BY <2>1, <2>3 DEF SsoJobs
  <2>5. /\ profile' = (IF HasProfile(p) THEN profile ELSE [profile EXCEPT ![p] = NoRole])
        /\ UNCHANGED <<roles, tokens, stripped>>
    BY <1>7, <2>1 DEF Sync
  <2>6. KeepsRoles
    <3>1. CASE HasProfile(p)
      BY <2>5, <3>1, RowsStay
    <3>2. CASE ~HasProfile(p)
      BY <2>1, <2>5, <3>2, BareHasNone, RowWritten DEF Provided
    <3>3. QED
      BY <3>1, <3>2
  <2>7. read # NoRole => Provided(p)'
    <3> SUFFICES ASSUME read # NoRole PROVE profile'[p] \in roles'
      BY DEF Provided
    <3>1. HasProfile(p) /\ profile[p] \in Roles
      BY <2>3 DEF Holders
    <3>2. QED
      BY <2>5, <3>1 DEF RolesGiven
  <2> DEFINE job == [verb |-> "save", who |-> p, role |-> r, read |-> read]
  <2>8. job.who = p /\ (Gives(job) => read # NoRole)
    BY DEF Gives
  <2> HIDE DEF job
  <2>9. Gives(job) => Provided(job.who)'
    BY <2>7, <2>8 DEF Provided, job
  <2>10. QED
    BY <2>2, <2>4, <2>5, <2>6, <2>9, ServedOn DEF job
<1>8. ASSUME NEW q \in Requests, SaveRole(q) PROVE RolesGiven'
  <2>1. serving[q] \in [verb : {"save"}, who : Person, role : Holders, read : Holders]
    BY <1>8, ServingTypes DEF SaveRole
  <2> DEFINE role == IF serving[q].role # NoRole /\ serving[q].role # serving[q].read THEN serving[q].role
                     ELSE IF serving[q].read = NoRole THEN Default ELSE NoRole
  <2>2. PICK p \in Person : p = serving[q].who /\ [verb |-> "mint", who |-> p] \in SsoJobs
    BY <2>1 DEF SsoJobs
  <2>3. CASE role # NoRole /\ role = serving[q].role /\ role \notin roles
    BY <1>0, <1>8, <2>3, RowsStay, ServedOn DEF SaveRole
  <2>4. CASE ~(role # NoRole /\ role = serving[q].role /\ role \notin roles) /\ role = NoRole
    <3>1. serving[q].read # NoRole
      BY <2>4, SsoAssumption
    <3>2. Provided(p) /\ KeepsRoles
      BY <1>8, <2>2, <2>4, <3>1, RowsStay DEF SaveRole, RolesGiven, Gives
    <3>3. UNCHANGED tokens /\ Serve(q, [verb |-> "mint", who |-> p])
      BY <1>8, <2>2, <2>4 DEF SaveRole
    <3>4. Provided(p)'
      BY <2>2, <3>2 DEF KeepsRoles
    <3>5. QED
      BY <2>2, <3>2, <3>3, <3>4, ServedOn DEF Provided
  <2>5. CASE ~(role # NoRole /\ role = serving[q].role /\ role \notin roles) /\ role # NoRole
    <3>1. /\ roles' = roles \union {role} /\ profile' = [profile EXCEPT ![p] = role]
          /\ stripped' = stripped \ {p} /\ UNCHANGED tokens /\ Serve(q, [verb |-> "mint", who |-> p])
      BY <1>8, <2>2, <2>5 DEF SaveRole
    <3> HIDE DEF role
    <3>2. KeepsRoles
      BY <2>2, <3>1, RowWritten
    <3>3. profile'[p] \in roles'
      BY <2>2, <3>1 DEF SsoTypeOK
    <3>4. QED
      BY <2>2, <3>1, <3>2, <3>3, ServedOn DEF Provided
  <2>6. QED
    BY <2>3, <2>4, <2>5
<1>9. ASSUME NEW q \in Requests, MintToken(q) PROVE RolesGiven'
  <2>1. serving[q] \in [verb : {"mint"}, who : Person]
    BY <1>9, ServingTypes DEF MintToken
  <2>2. Provided(serving[q].who)
    BY <1>9 DEF MintToken, RolesGiven, Gives
  <2>3. /\ UNCHANGED <<roles, profile, stripped>> /\ tokens' = tokens \union {serving[q].who}
        /\ serving'[q] = Quiet /\ \A r \in Requests : r # q => serving'[r] = serving[r]
    BY <1>9 DEF MintToken, Serve, SsoTypeOK
  <2>4. QED
    BY <1>0, <2>2, <2>3 DEF RolesGiven, Provided
<1>10. ASSUME NEW q \in Requests, SaveUser(q) PROVE RolesGiven'
  <2>1. serving[q] \in [verb : {"edit"}, who : Person, role : Holders, read : Holders \union {NoProfile}]
    BY <1>10, ServingTypes DEF SaveUser
  <2> DEFINE role == IF serving[q].role # NoRole
                     THEN (IF serving[q].role \in roles THEN serving[q].role ELSE NoRole)
                     ELSE IF serving[q].read = NoProfile THEN NoRole ELSE serving[q].read
  <2>2. PICK p \in Person : p = serving[q].who /\ UNCHANGED <<roles, tokens>> /\ Serve(q, Quiet)
    BY <1>10, <2>1 DEF SaveUser
  <2>3. CASE (serving[q].read = NoProfile /\ HasProfile(p)) \/ role \notin roles \union {NoRole}
    <3>1. UNCHANGED <<profile, stripped>>
      BY <1>10, <2>2, <2>3 DEF SaveUser
    <3>2. QED
      BY <1>0, <2>2, <3>1, RowsStay, ServedOn
  <2>4. CASE ~((serving[q].read = NoProfile /\ HasProfile(p)) \/ role \notin roles \union {NoRole})
    <3>1. /\ profile' = [profile EXCEPT ![p] = role]
          /\ stripped' = IF role # NoRole THEN stripped \ {p}
                         ELSE IF profile[p] \in roles THEN stripped \union {p} ELSE stripped
      BY <1>10, <2>2, <2>4 DEF SaveUser
    <3>2. role \in roles \union {NoRole}
      BY <2>4
    <3> HIDE DEF role
    <3>3. KeepsRoles
      BY <2>2, <3>1, <3>2, RowWritten DEF Provided
    <3>4. QED
      BY <1>0, <2>2, <3>3, ServedOn
  <2>5. QED
    BY <2>3, <2>4
<1>11. ASSUME NEW q \in Requests, AddProfile(q) PROVE RolesGiven'
  <2>1. serving[q].who \in Person
    BY <1>11, ServingTypes DEF AddProfile
  <2>2. UNCHANGED <<roles, tokens, stripped>> /\ Serve(q, Quiet)
    BY <1>11 DEF AddProfile
  <2>3. CASE HasProfile(serving[q].who)
    BY <1>0, <1>11, <2>2, <2>3, RowsStay, ServedOn DEF AddProfile
  <2>4. CASE ~HasProfile(serving[q].who)
    <3>1. PICK x \in roles \union {NoRole} : profile' = [profile EXCEPT ![serving[q].who] = x]
      BY <1>11, <2>4 DEF AddProfile
    <3>2. KeepsRoles
      BY <2>1, <2>2, <2>4, <3>1, BareHasNone, RowWritten DEF Provided
    <3>3. QED
      BY <1>0, <2>2, <3>2, ServedOn
  <2>5. QED
    BY <2>3, <2>4
<1>12. ASSUME NEW r \in Roles, CreateRole(r) \/ DeleteRole(r) PROVE RolesGiven'
  <2>1. UNCHANGED <<profile, tokens, serving, stripped>>
    BY <1>12 DEF CreateRole, DeleteRole
  <2>2. \A p \in Person : profile[p] \in roles => profile[p] \in roles'
    BY <1>12 DEF CreateRole, DeleteRole
  <2>3. \A p \in Person : Provided(p) => Provided(p)'
    BY <2>1, <2>2 DEF Provided
  <2>4. ASSUME NEW p \in Person, profile'[p] \in Roles PROVE profile'[p] \in roles'
    BY <2>1, <2>2, <2>4 DEF RolesGiven
  <2>5. ASSUME NEW q \in Requests, Gives(serving[q]) PROVE Provided(serving[q].who)'
    <3>1. PICK p \in Person : p = serving[q].who /\ Provided(p)
      BY <2>5, ServingTypes DEF RolesGiven, Gives
    <3>2. Provided(p)'
      BY <2>3, <3>1
    <3>3. QED
      BY <2>1, <3>1, <3>2 DEF Provided
  <2>6. QED
    <3>1. \A p \in tokens' : Provided(p)'
      BY <2>1, <2>3 DEF RolesGiven, SsoTypeOK
    <3>2. \A q \in Requests : Gives(serving[q])' => Provided(serving[q].who)'
      BY <2>1, <2>5 DEF Gives
    <3>3. QED
      BY <2>4, <3>1, <3>2 DEF RolesGiven
<1>13. CASE (\E g \in Group : EditMapping(g)) \/ UNCHANGED ssoVars
  BY <1>13 DEF EditMapping, ssoVars, RolesGiven, Provided
<1>14. QED
  BY <1>1, <1>2, <1>3, <1>4, <1>5, <1>6, <1>7, <1>8, <1>9, <1>10, <1>11, <1>12, <1>13 DEF SsoNext

\* However first sign-ins, new users and edits overlap, whoever was given a token
\* has a role, unless a save of the whole profile took it away.
THEOREM RoleGiven == SsoSpec => []SignInGivesRole
<1>1. SsoInit => RolesGiven
  BY SsoAssumption DEF SsoInit, RolesGiven, Gives, Quiet
<1>2. RolesGiven => SignInGivesRole
  BY DEF RolesGiven, SignInGivesRole, Provided
<1>3. QED
  BY <1>1, <1>2, RolesGivenStep, SsoTypesHold, PTL DEF SsoSpec

-----------------------------------------------------------------------------
(* Credentials. *)

\* What a worker holds at each stage.
LEMMA CredTaskTypes ==
  ASSUME CredTypeOK, NEW w \in Worker
  PROVE  /\ task[w].stage = "set" => task[w].new \in Password
         /\ task[w].stage = "record" => task[w].hash \in Hashes
         /\ task[w].stage = "edit" => task[w].hash \in Hashes /\ task[w].signin \in 0..MaxSignins
         /\ task[w].stage = "confirm" => task[w].key \in 1..MaxKeys
BY DEF CredTypeOK, Tasks, Nothing

\* The newest rows of a history are a history, and one that has N of them or
\* fewer loses none.
LEMMA NewestRows ==
  ASSUME NEW s \in Seq(Hashes)
  PROVE  /\ Newest(s) \in Seq(Hashes)
         /\ \A i \in DOMAIN s : i <= HistoryN => i \in DOMAIN Newest(s) /\ Newest(s)[i] = s[i]
<1> DEFINE n == IF Len(s) < HistoryN THEN Len(s) ELSE HistoryN
<1>1. n \in 0..Len(s) /\ Len(s) \in Nat /\ DOMAIN s = 1..Len(s)
  BY CredentialAssumption
<1>2. Newest(s) = SubSeq(s, 1, n)
  BY DEF Newest
<1>3. SubSeq(s, 1, n) \in Seq(Hashes) /\ Len(SubSeq(s, 1, n)) = n
      /\ \A i \in 1..n : SubSeq(s, 1, n)[i] = s[i]
  <2> HIDE DEF n
  <2> QED
    BY <1>1, SubSeqProperties
<1>4. \A i \in DOMAIN s : i <= HistoryN => i \in 1..n
  BY <1>1, CredentialAssumption
<1>5. QED
  <2> HIDE DEF n
  <2> QED
    BY <1>2, <1>3, <1>4

LEMMA BecomesType ==
  ASSUME CredTypeOK, NEW w \in Worker, NEW t \in Tasks, Becomes(w, t)
  PROVE  task' \in [Worker -> Tasks]
BY DEF CredTypeOK, Becomes

LEMMA CredTypeStep == CredTypeOK /\ [CredNext]_credVars => CredTypeOK'
<1> SUFFICES ASSUME CredTypeOK, [CredNext]_credVars PROVE CredTypeOK'
  OBVIOUS
<1> USE DEF userRow, counters, factorRows
<1>1. ASSUME NEW w \in Worker, NEW p \in Password, ChangePassword(w, p) \/ ResetPassword(w, p)
      PROVE  CredTypeOK'
  <2>1. [stage |-> "set", new |-> p] \in Tasks
    BY DEF Tasks
  <2>2. task' \in [Worker -> Tasks]
    BY <1>1, <2>1, BecomesType DEF ChangePassword, ResetPassword
  <2>3. QED
    BY <1>1, <2>2 DEF ChangePassword, ResetPassword, CredTypeOK
<1>2. ASSUME NEW w \in Worker, SetPassword(w) PROVE CredTypeOK'
  <2>1. task[w].new \in Password
    BY <1>2, CredTaskTypes DEF SetPassword
  <2>2. salts' \in 0..MaxSets /\ hash' \in Hashes
    BY <1>2, <2>1, CredentialAssumption DEF SetPassword, CredTypeOK, Hashes
  <2>3. [stage |-> "record", hash |-> hash'] \in Tasks
    BY <2>2 DEF Tasks
  <2>4. task' \in [Worker -> Tasks]
    BY <1>2, <2>3, BecomesType DEF SetPassword
  <2>5. QED
    BY <1>2, <2>2, <2>4 DEF SetPassword, CredTypeOK
<1>3. ASSUME NEW w \in Worker, RecordPassword(w) PROVE CredTypeOK'
  <2>1. task[w].hash \in Hashes
    BY <1>3, CredTaskTypes DEF RecordPassword
  <2>2. history' \in Seq(Hashes)
    <3>1. history \in Seq(Hashes) /\ <<task[w].hash>> \in Seq(Hashes)
      BY <2>1 DEF CredTypeOK
    <3>2. QED
      BY <1>3, <3>1, ConcatProperties DEF RecordPassword
  <2>3. task' \in [Worker -> Tasks]
    BY <1>3, BecomesType DEF RecordPassword, Tasks
  <2>4. QED
    BY <1>3, <2>2, <2>3 DEF RecordPassword, CredTypeOK
<1>4. ASSUME NEW w \in Worker, TrimHistory(w) PROVE CredTypeOK'
  <2>1. history' \in Seq(Hashes)
    BY <1>4, NewestRows DEF TrimHistory, CredTypeOK
  <2>2. task' \in [Worker -> Tasks]
    BY <1>4, BecomesType DEF TrimHistory, Tasks
  <2>3. QED
    BY <1>4, <2>1, <2>2 DEF TrimHistory, CredTypeOK
<1>5. ASSUME MailLink PROVE CredTypeOK'
  BY <1>5 DEF MailLink, CredTypeOK
<1>6. ASSUME SignIn PROVE CredTypeOK'
  BY <1>6, CredentialAssumption DEF SignIn, CredTypeOK
<1>7. ASSUME NEW w \in Worker, LoadAccount(w) PROVE CredTypeOK'
  <2>1. [stage |-> "edit", hash |-> hash, signin |-> signin] \in Tasks
    BY DEF CredTypeOK, Tasks
  <2>2. task' \in [Worker -> Tasks]
    BY <1>7, <2>1, BecomesType DEF LoadAccount
  <2>3. QED
    BY <1>7, <2>2 DEF LoadAccount, CredTypeOK
<1>8. ASSUME NEW w \in Worker, SaveAccount(w) PROVE CredTypeOK'
  <2>1. task[w].hash \in Hashes /\ task[w].signin \in 0..MaxSignins
    BY <1>8, CredTaskTypes DEF SaveAccount
  <2>2. task' \in [Worker -> Tasks]
    BY <1>8, BecomesType DEF SaveAccount, Tasks
  <2>3. astray' \in BOOLEAN
    BY <1>8 DEF SaveAccount
  <2>4. QED
    BY <1>8, <2>1, <2>2, <2>3 DEF SaveAccount, CredTypeOK
<1>9. ASSUME NEW w \in Worker, RequestDies(w) PROVE CredTypeOK'
  <2>1. task' \in [Worker -> Tasks]
    BY <1>9, BecomesType DEF RequestDies, Tasks
  <2>2. astray' \in BOOLEAN
    BY <1>9 DEF RequestDies
  <2>3. QED
    BY <1>9, <2>1, <2>2 DEF RequestDies, CredTypeOK
<1>10. ASSUME NEW w \in Worker, Enrol(w) PROVE CredTypeOK'
  <2>1. task' \in [Worker -> Tasks]
    BY <1>10, BecomesType DEF Enrol, Tasks
  <2>2. QED
    BY <1>10, <2>1 DEF Enrol, CredTypeOK
<1>11. ASSUME NEW w \in Worker, DropUnconfirmed(w) PROVE CredTypeOK'
  <2>1. task' \in [Worker -> Tasks]
    BY <1>11, BecomesType DEF DropUnconfirmed, Tasks
  <2>2. QED
    BY <1>11, <2>1 DEF DropUnconfirmed, CredTypeOK
<1>12. ASSUME NEW w \in Worker, CreateDevice(w) PROVE CredTypeOK'
  <2>1. task' \in [Worker -> Tasks]
    BY <1>12, BecomesType DEF CreateDevice, Tasks
  <2>2. keys' \in 0..MaxKeys /\ keys + 1 \in 1..MaxKeys
    BY <1>12, CredentialAssumption DEF CreateDevice, CredTypeOK
  <2>3. [key |-> keys + 1, confirmed |-> FALSE] \in [key : 1..MaxKeys, confirmed : BOOLEAN]
    BY <2>2
  <2>4. devices' \subseteq [key : 1..MaxKeys, confirmed : BOOLEAN]
    BY <1>12, <2>3 DEF CreateDevice, CredTypeOK
  <2>5. QED
    BY <1>12, <2>1, <2>2, <2>4 DEF CreateDevice, CredTypeOK
<1>13. ASSUME NEW w \in Worker, Confirm(w) PROVE CredTypeOK'
  <2>1. PICK d \in devices : Becomes(w, [stage |-> "confirm", key |-> d.key])
    BY <1>13 DEF Confirm
  <2>2. [stage |-> "confirm", key |-> d.key] \in Tasks
    BY DEF CredTypeOK, Tasks
  <2>3. task' \in [Worker -> Tasks]
    BY <2>1, <2>2, BecomesType
  <2>4. QED
    BY <1>13, <2>3 DEF Confirm, CredTypeOK
<1>14. ASSUME NEW w \in Worker, MarkConfirmed(w) PROVE CredTypeOK'
  <2>1. task' \in [Worker -> Tasks]
    BY <1>14, BecomesType DEF MarkConfirmed, Tasks
  <2>2. ASSUME NEW d \in devices
        PROVE  [d EXCEPT !.confirmed = d.key = task[w].key] \in [key : 1..MaxKeys, confirmed : BOOLEAN]
    <3>1. (d.key = task[w].key) \in BOOLEAN /\ d \in [key : 1..MaxKeys, confirmed : BOOLEAN]
      BY DEF CredTypeOK
    <3>2. QED
      BY <3>1
  <2>3. devices' \subseteq [key : 1..MaxKeys, confirmed : BOOLEAN]
    BY <1>14, <2>2 DEF MarkConfirmed, CredTypeOK
  <2>4. QED
    BY <1>14, <2>1, <2>3 DEF MarkConfirmed, CredTypeOK
<1>15. ASSUME DisableFactor PROVE CredTypeOK'
  BY <1>15 DEF DisableFactor, CredTypeOK
<1>16. CASE UNCHANGED credVars
  BY <1>16 DEF credVars, CredTypeOK
<1>17. QED
  BY <1>1, <1>2, <1>3, <1>4, <1>5, <1>6, <1>7, <1>8, <1>9, <1>10, <1>11, <1>12, <1>13,
     <1>14, <1>15, <1>16
     DEF CredNext, PasswordNext, FactorNext

\* Password, history, links, factors and tasks have the declared types.
THEOREM CredTypesHold == CredSpec => []CredTypeOK
<1>1. CredInit => CredTypeOK
  <2> SUFFICES ASSUME CredInit PROVE CredTypeOK
    OBVIOUS
  <2>1. hash \in Hashes /\ history \in Seq(Hashes)
    BY CredentialAssumption, EmptySeq DEF CredInit, Hashes
  <2>2. task \in [Worker -> Tasks]
    BY DEF CredInit, Tasks
  <2>3. QED
    <3>1. astray = FALSE /\ links = {} /\ devices = {} /\ salts = 0 /\ signin = 0 /\ signins = 0 /\ keys = 0
      BY DEF CredInit
    <3>2. salts \in 0..MaxSets /\ signin \in 0..MaxSignins /\ signins \in 0..MaxSignins /\ keys \in 0..MaxKeys
      BY <3>1, CredentialAssumption
    <3>3. astray \in BOOLEAN
      BY <3>1
    <3>4. QED
      BY <2>1, <2>2, <3>1, <3>2, <3>3 DEF CredTypeOK
<1>2. QED
  BY <1>1, CredTypeStep, PTL DEF CredSpec

\* No more requests of one user are under way at once than rows are kept.
FewChanges == IsFiniteSet(Worker) /\ Cardinality(Worker) <= HistoryN

NotRecording == {w \in Worker : task[w].stage # "record"}

\* The hash in force is about to be recorded, or it is in the history with no
\* more newer rows than there are workers that are not about to record one.
Recording(w) == task[w] = [stage |-> "record", hash |-> hash]
RecordedAt(i) == history[i] = hash /\ i <= Cardinality(NotRecording)
Remembered ==
  hash.salt > 0 /\ ~astray =>
    (\E w \in Worker : Recording(w)) \/ \E i \in DOMAIN history : RecordedAt(i)

\* There are no more of them than the history keeps rows.
LEMMA FewRecorders ==
  ASSUME FewChanges
  PROVE  /\ IsFiniteSet(NotRecording)
         /\ Cardinality(NotRecording) \in Nat /\ Cardinality(NotRecording) <= HistoryN
BY FS_Subset, FS_CardinalityType, CredentialAssumption DEF FewChanges, NotRecording

\* A worker that neither starts nor ends recording leaves what is remembered alone.
LEMMA RememberedKept ==
  ASSUME CredTypeOK, Remembered, NEW w \in Worker, NEW t, Becomes(w, t),
         task[w].stage # "record", t.stage # "record",
         UNCHANGED history, ~astray' => ~astray /\ hash' = hash
  PROVE  Remembered'
<1> SUFFICES ASSUME hash'.salt > 0, ~astray'
             PROVE  (\E v \in Worker : Recording(v)') \/ \E i \in DOMAIN history' : RecordedAt(i)'
  BY DEF Remembered
<1>1. \A v \in Worker : v # w => task'[v] = task[v]
  BY DEF Becomes, CredTypeOK
<1>2. task'[w] = t
  BY DEF Becomes, CredTypeOK
<1>3. NotRecording' = NotRecording
  BY <1>1, <1>2 DEF NotRecording
<1>4. CASE \E v \in Worker : Recording(v)
  BY <1>1, <1>4 DEF Recording
<1>5. CASE \E i \in DOMAIN history : RecordedAt(i)
  BY <1>3, <1>5 DEF RecordedAt
<1>6. QED
  BY <1>4, <1>5 DEF Remembered

LEMMA RecordStep ==
  ASSUME CredTypeOK, Remembered, FewChanges, NEW w \in Worker, RecordPassword(w)
  PROVE  Remembered'
<1> SUFFICES ASSUME hash'.salt > 0, ~astray'
             PROVE  (\E v \in Worker : Recording(v)') \/ \E i \in DOMAIN history' : RecordedAt(i)'
  BY DEF Remembered
<1>1. \A v \in Worker : v # w => task'[v] = task[v]
  BY DEF RecordPassword, Becomes, CredTypeOK
<1>2. task'[w].stage = "trim"
  BY DEF RecordPassword, Becomes, CredTypeOK
<1>3. task[w].stage = "record" /\ task[w].hash \in Hashes
  BY CredTaskTypes DEF RecordPassword
<1>4. NotRecording' = NotRecording \union {w} /\ w \notin NotRecording
  BY <1>1, <1>2, <1>3 DEF NotRecording
<1>5. Cardinality(NotRecording)' = Cardinality(NotRecording) + 1 /\ Cardinality(NotRecording) \in Nat
  BY <1>4, FewRecorders, FS_AddElement
<1>6. history \in Seq(Hashes) /\ <<task[w].hash>> \in Seq(Hashes)
  BY <1>3 DEF CredTypeOK
<1>7. /\ history' = <<task[w].hash>> \o history
      /\ Len(history') = Len(history) + 1
      /\ history'[1] = task[w].hash
      /\ \A i \in 1..Len(history) : history'[i + 1] = history[i]
  BY <1>6, ConcatProperties DEF RecordPassword
<1>8. DOMAIN history = 1..Len(history) /\ DOMAIN history' = 1..Len(history') /\ Len(history) \in Nat
  BY <1>6, <1>7
<1>9. hash' = hash /\ astray' = astray
  BY DEF RecordPassword, userRow
<1>10. ASSUME NEW v \in Worker, Recording(v)
       PROVE  (\E u \in Worker : Recording(u)') \/ \E i \in DOMAIN history' : RecordedAt(i)'
  <2>1. CASE v = w
    <3>1. 1 \in DOMAIN history' /\ history'[1] = hash' /\ 1 <= Cardinality(NotRecording)'
      BY <1>5, <1>7, <1>8, <1>9, <1>10, <2>1 DEF Recording
    <3>2. QED
      BY <3>1 DEF RecordedAt
  <2>2. CASE v # w
    BY <1>1, <1>9, <1>10, <2>2 DEF Recording
  <2>3. QED
    BY <2>1, <2>2
<1>11. ASSUME NEW i \in DOMAIN history, RecordedAt(i)
       PROVE  \E k \in DOMAIN history' : RecordedAt(k)'
  <2>1. i + 1 \in DOMAIN history' /\ history'[i + 1] = hash' /\ i + 1 <= Cardinality(NotRecording)'
    BY <1>5, <1>7, <1>8, <1>9, <1>11 DEF RecordedAt
  <2>2. QED
    BY <2>1 DEF RecordedAt
<1>12. QED
  BY <1>9, <1>10, <1>11 DEF Remembered

LEMMA TrimStep ==
  ASSUME CredTypeOK, Remembered, FewChanges, NEW w \in Worker, TrimHistory(w)
  PROVE  Remembered'
<1> SUFFICES ASSUME hash'.salt > 0, ~astray'
             PROVE  (\E v \in Worker : Recording(v)') \/ \E i \in DOMAIN history' : RecordedAt(i)'
  BY DEF Remembered
<1>1. \A v \in Worker : v # w => task'[v] = task[v]
  BY DEF TrimHistory, Becomes, CredTypeOK
<1>2. task'[w].stage # "record" /\ task[w].stage # "record"
  BY DEF TrimHistory, Becomes, CredTypeOK, Nothing
<1>3. NotRecording' = NotRecording
  BY <1>1, <1>2 DEF NotRecording
<1>4. hash' = hash /\ astray' = astray /\ history' = Newest(history) /\ history \in Seq(Hashes)
  BY DEF TrimHistory, CredTypeOK, userRow
<1>5. ASSUME NEW v \in Worker, Recording(v) PROVE Recording(v)'
  BY <1>1, <1>2, <1>4, <1>5 DEF Recording
<1>6. ASSUME NEW i \in DOMAIN history, RecordedAt(i) PROVE i \in DOMAIN history' /\ RecordedAt(i)'
  <2>1. i <= HistoryN
    BY <1>4, <1>6, FewRecorders, CredentialAssumption DEF RecordedAt
  <2>2. i \in DOMAIN history' /\ history'[i] = history[i]
    BY <1>4, <1>6, <2>1, NewestRows
  <2>3. QED
    BY <1>3, <1>4, <1>6, <2>2 DEF RecordedAt
<1>7. QED
  BY <1>4, <1>5, <1>6 DEF Remembered

\* A request that ends between two commits recorded another hash, or that one
\* is astray.
LEMMA DyingStep ==
  ASSUME CredTypeOK, Remembered, FewChanges, NEW w \in Worker, RequestDies(w)
  PROVE  Remembered'
<1> SUFFICES ASSUME hash'.salt > 0, ~astray'
             PROVE  (\E v \in Worker : Recording(v)') \/ \E i \in DOMAIN history' : RecordedAt(i)'
  BY DEF Remembered
<1>1. (\A v \in Worker : v # w => task'[v] = task[v]) /\ task'[w] = Nothing
  BY DEF RequestDies, Becomes, CredTypeOK
<1>2. hash' = hash /\ history' = history /\ ~astray /\ ~Recording(w)
  BY DEF RequestDies, userRow, Recording
<1>3. NotRecording' = NotRecording \union {w} /\ NotRecording \subseteq NotRecording'
  BY <1>1 DEF NotRecording, Nothing
<1>4. Cardinality(NotRecording)' \in Nat /\ Cardinality(NotRecording) <= Cardinality(NotRecording)'
  BY <1>3, FewRecorders, FS_AddElement
<1>5. ASSUME NEW v \in Worker, Recording(v) PROVE Recording(v)'
  BY <1>1, <1>2, <1>5 DEF Recording
<1>6. ASSUME NEW i \in DOMAIN history, RecordedAt(i) PROVE i \in DOMAIN history' /\ RecordedAt(i)'
  <2>1. i \in Nat
    BY <1>6 DEF CredTypeOK
  <2>2. QED
    BY <1>2, <1>4, <1>6, <2>1, FewRecorders DEF RecordedAt
<1>7. QED
  BY <1>2, <1>5, <1>6 DEF Remembered

LEMMA RememberedStep ==
  ASSUME CredTypeOK, Remembered, FewChanges, [CredNext]_credVars
  PROVE  Remembered'
<1> USE DEF userRow
<1>1. ASSUME NEW w \in Worker, NEW p \in Password, ChangePassword(w, p) \/ ResetPassword(w, p)
      PROVE  Remembered'
  BY <1>1, RememberedKept DEF ChangePassword, ResetPassword, Free, Nothing
<1>2. ASSUME NEW w \in Worker, SetPassword(w) PROVE Remembered'
  <2>1. Recording(w)'
    BY <1>2 DEF SetPassword, Becomes, CredTypeOK, Recording
  <2>2. QED
    BY <2>1 DEF Remembered
<1>3. ASSUME NEW w \in Worker, LoadAccount(w) PROVE Remembered'
  BY <1>3, RememberedKept DEF LoadAccount, Free, Nothing
<1>4. ASSUME NEW w \in Worker, SaveAccount(w) PROVE Remembered'
  <2>1. Becomes(w, Nothing) /\ task[w].stage = "edit" /\ history' = history
    BY <1>4 DEF SaveAccount
  <2>2. ~astray' => ~astray /\ hash' = hash
    BY <1>4 DEF SaveAccount
  <2>3. QED
    BY <2>1, <2>2, RememberedKept DEF Nothing
<1>5. ASSUME NEW w \in Worker, Enrol(w) PROVE Remembered'
  BY <1>5, RememberedKept DEF Enrol, Free, Nothing
<1>6. ASSUME NEW w \in Worker, DropUnconfirmed(w) PROVE Remembered'
  BY <1>6, RememberedKept DEF DropUnconfirmed
<1>7. ASSUME NEW w \in Worker, CreateDevice(w) PROVE Remembered'
  BY <1>7, RememberedKept DEF CreateDevice, Nothing
<1>8. ASSUME NEW w \in Worker, Confirm(w) PROVE Remembered'
  <2>1. PICK d \in devices : Becomes(w, [stage |-> "confirm", key |-> d.key])
    BY <1>8 DEF Confirm
  <2>2. QED
    BY <1>8, <2>1, RememberedKept DEF Confirm, Free, Nothing
<1>9. ASSUME NEW w \in Worker, MarkConfirmed(w) PROVE Remembered'
  BY <1>9, RememberedKept DEF MarkConfirmed, Nothing
<1>10. CASE MailLink \/ SignIn \/ DisableFactor \/ UNCHANGED credVars
  BY <1>10 DEF MailLink, SignIn, DisableFactor, credVars, Remembered, Recording, RecordedAt,
       NotRecording
<1>11. QED
  BY <1>1, <1>2, <1>3, <1>4, <1>5, <1>6, <1>7, <1>8, <1>9, <1>10, RecordStep, TrimStep, DyingStep
     DEF CredNext, PasswordNext, FactorNext

\* A hash that is in force, not astray, and of which no request is left to write
\* the history, is among the newest N rows.
LEMMA RememberedShows == CredTypeOK /\ FewChanges /\ Remembered => CurrentIsRemembered
<1> SUFFICES ASSUME CredTypeOK, FewChanges, Remembered, Settled, hash.salt > 0, ~astray
             PROVE  hash \in Range(Newest(history))
  BY DEF CurrentIsRemembered
<1>1. \A w \in Worker : ~Recording(w)
  BY DEF Settled, Recording
<1>2. PICK i \in DOMAIN history : RecordedAt(i)
  BY <1>1 DEF Remembered
<1>3. i <= HistoryN /\ history \in Seq(Hashes)
  BY <1>2, FewRecorders, CredentialAssumption DEF RecordedAt, CredTypeOK
<1>4. i \in DOMAIN Newest(history) /\ Newest(history)[i] = hash
  BY <1>2, <1>3, NewestRows DEF RecordedAt
<1>5. QED
  BY <1>4 DEF Range

\* When nobody is changing it, the password in force is refused as the next one,
\* however the changes before overlapped, if no more of them did than the
\* history keeps rows; save the hash that a stale save put back, or whose request
\* ended before it was recorded, until the next change.
THEOREM PasswordRemembered == FewChanges /\ CredSpec => []CurrentIsRemembered
<1> SUFFICES ASSUME FewChanges PROVE CredSpec => []CurrentIsRemembered
  OBVIOUS
<1>1. CredInit => Remembered
  <2> SUFFICES ASSUME CredInit PROVE hash.salt = 0
    BY DEF Remembered
  <2> QED
    BY DEF CredInit
<1>2. CredTypeOK /\ Remembered /\ [CredNext]_credVars => Remembered'
  BY RememberedStep
<1>3. CredTypeOK /\ Remembered => CurrentIsRemembered
  BY RememberedShows
<1>4. QED
  BY <1>1, <1>2, <1>3, CredTypesHold, PTL DEF CredSpec

\* A step takes the confirmed authenticator away only as its owner's disabling.
LEMMA FactorStep ==
  ASSUME CredTypeOK, CredNext, Enrolled, ~Enrolled' PROVE DisableFactor
<1>1. ASSUME NEW w \in Worker, DropUnconfirmed(w) PROVE Enrolled'
  BY <1>1 DEF DropUnconfirmed, Enrolled
<1>2. ASSUME NEW w \in Worker, CreateDevice(w) PROVE Enrolled'
  BY <1>2 DEF CreateDevice, Enrolled
<1>3. ASSUME NEW w \in Worker, MarkConfirmed(w) PROVE Enrolled'
  BY <1>3 DEF MarkConfirmed, Enrolled
<1>4. ASSUME devices' = devices PROVE FALSE
  BY <1>4 DEF Enrolled
<1>5. QED
  BY <1>1, <1>2, <1>3, <1>4
     DEF CredNext, PasswordNext, FactorNext, ChangePassword, ResetPassword, SetPassword,
         RecordPassword, TrimHistory, LoadAccount, SaveAccount, RequestDies, MailLink, SignIn,
         Enrol, Confirm, factorRows

\* However enrolments race, none of them takes a confirmed authenticator away.
THEOREM FactorKept == CredSpec => EnrolmentKept
<1>1. CredTypeOK /\ [CredNext]_credVars => [Enrolled /\ ~Enrolled' => DisableFactor]_credVars
  BY FactorStep
<1>2. QED
  BY <1>1, CredTypesHold, PTL DEF CredSpec, EnrolmentKept

-----------------------------------------------------------------------------
(* AccessMatrix. *)

Cells == (Module \union {Unknown}) \X Offered

\* The matrix is typed, and a request in flight has something left to write.
MatrixInv ==
  /\ super \in [Role -> BOOLEAN]
  /\ cells \in [Role -> [Module -> Levels \union {NoRow}]]
  /\ edit = <<>> \/ edit \in [role : Role, left : Seq(Cells) \ {<<>>}]

LEMMA MatrixStep == MatrixInv /\ [MatrixNext]_matrixVars => MatrixInv'
<1> SUFFICES ASSUME MatrixInv, [MatrixNext]_matrixVars PROVE MatrixInv'
  OBVIOUS
<1>1. ASSUME NEW r \in Role, PutAccess(r) PROVE MatrixInv'
  <2>1. PICK first \in Cells, rest \in {<<>>} \union {<<c>> : c \in Cells} :
          edit' = [role |-> r, left |-> <<first>> \o rest]
    BY <1>1 DEF PutAccess, Cells
  <2>2. rest \in Seq(Cells) /\ <<first>> \in Seq(Cells) /\ <<first>> # <<>>
    <3>1. <<first>> \in Seq(Cells) /\ Len(<<first>>) = 1
      OBVIOUS
    <3>2. \A c \in Cells : <<c>> \in Seq(Cells)
      OBVIOUS
    <3>3. rest \in Seq(Cells)
      BY <3>2, EmptySeq
    <3>4. QED
      BY <3>1, <3>3, EmptySeq
  <2>3. <<first>> \o rest \in Seq(Cells) /\ <<first>> \o rest # <<>>
    BY <2>2, ConcatProperties, ConcatEqualIffEmpty
  <2>4. QED
    BY <1>1, <2>1, <2>3 DEF PutAccess, MatrixInv
<1>2. ASSUME PutCell PROVE MatrixInv'
  <2> DEFINE cell == Head(edit.left)
  <2>1. edit \in [role : Role, left : Seq(Cells) \ {<<>>}]
    BY <1>2 DEF PutCell, MatrixInv
  <2>2. cell \in Cells /\ Tail(edit.left) \in Seq(Cells) /\ Len(edit.left) \in Nat \ {0}
        /\ Len(Tail(edit.left)) = Len(edit.left) - 1
    BY <2>1, HeadTailProperties, EmptySeq
  <2>3. CASE cell[1] = Unknown
    BY <1>2, <2>3 DEF PutCell, MatrixInv
  <2>4. CASE cell[1] # Unknown
    <3>1. cell[1] \in Module /\ cell[2] \in Levels /\ edit.role \in Role
      BY <2>1, <2>2, <2>4, MatrixAssumption DEF Cells
    <3>2. cells' = [cells EXCEPT ![edit.role][cell[1]] = cell[2]] /\ super' = super
      BY <1>2, <2>4 DEF PutCell
    <3>3. cells' \in [Role -> [Module -> Levels \union {NoRow}]]
      BY <3>1, <3>2 DEF MatrixInv
    <3>4. CASE Len(edit.left) = 1
      BY <1>2, <2>4, <3>2, <3>3, <3>4 DEF PutCell, MatrixInv
    <3>5. CASE Len(edit.left) # 1
      <4>1. edit' = [edit EXCEPT !.left = Tail(edit.left)]
        BY <1>2, <2>1, <2>4, <3>5 DEF PutCell
      <4>2. Tail(edit.left) # <<>>
        <5>1. Len(Tail(edit.left)) # 0
          BY <2>2, <3>5
        <5>2. Len(<<>>) = 0
          BY EmptySeq
        <5>3. QED
          BY <5>1, <5>2
      <4>3. edit' \in [role : Role, left : Seq(Cells) \ {<<>>}]
        BY <2>1, <2>2, <4>1, <4>2
      <4>4. QED
        BY <3>2, <3>3, <4>3 DEF MatrixInv
    <3>6. QED
      BY <3>4, <3>5
  <2>5. QED
    BY <2>3, <2>4
<1>3. ASSUME NEW r \in Role, PatchRole(r) PROVE MatrixInv'
  BY <1>3 DEF PatchRole, MatrixInv
<1>4. CASE UNCHANGED matrixVars
  BY <1>4 DEF matrixVars, MatrixInv
<1>5. QED
  BY <1>1, <1>2, <1>3, <1>4 DEF MatrixNext

\* The inductive invariant of the matrix: its types, and that an edit in flight
\* has cells left to write.
THEOREM MatrixInvariant == MatrixSpec => []MatrixInv
<1>1. MatrixInit => MatrixInv
  BY DEF MatrixInit, MatrixInv
<1>2. QED
  BY <1>1, MatrixStep, PTL DEF MatrixSpec

\* Flags, cells and the request in flight have the declared types.
THEOREM MatrixTypesHold == MatrixSpec => []MatrixTypeOK
<1>1. MatrixInv => MatrixTypeOK
  BY DEF MatrixInv, MatrixTypeOK, Cells
<1>2. QED
  BY <1>1, MatrixInvariant, PTL

\* Every legacy key asks for more than the level none.
LEMMA LegacyLevels ==
  \A k \in DOMAIN LegacyMap : LegacyMap[k][2] \in {"read", "edit", "full"}
BY DEF LegacyMap

LEMMA NoneIsLeast ==
  \A min \in {"read", "edit", "full"} : ~(AccessRank["none"] >= AccessRank[min])
BY DEF AccessRank

LEMMA NoneIsRanked == "none" \in Levels
BY DEF Levels, AccessRank

LEMMA KeyAgrees ==
  ASSUME MatrixInv, NEW r \in Role, ~super[r], NEW k \in DOMAIN LegacyMap
  PROVE  k \in DerivedPermissionKeys(r) <=> HasPermission(r, k)
<1> DEFINE m == LegacyMap[k][1]
           min == LegacyMap[k][2]
           level == IF m \in Module THEN FullAccessMap(r)[m] ELSE "none"
<1>1. k \in DerivedPermissionKeys(r) <=> AccessRank[level] >= AccessRank[min]
  BY DEF DerivedPermissionKeys
<1>2. HasPermission(r, k) <=>
        AccessFor(r, m) # NoRow /\ AccessRank[AccessFor(r, m)] >= AccessRank[min]
  BY DEF HasPermission, HasAccess
<1>3. ~(AccessRank["none"] >= AccessRank[min])
  BY LegacyLevels, NoneIsLeast
<1>4. CASE m \notin Module
  BY <1>1, <1>2, <1>3, <1>4 DEF AccessFor
<1>5. CASE m \in Module
  <2>1. level = IF cells[r][m] = NoRow THEN "none" ELSE cells[r][m]
    BY <1>5 DEF FullAccessMap
  <2>2. AccessFor(r, m) = cells[r][m]
    BY <1>5 DEF AccessFor
  <2>3. QED
    <3> HIDE DEF m, min, level
    <3> QED
      BY <1>1, <1>2, <1>3, <2>1, <2>2
<1>6. QED
  BY <1>4, <1>5

\* Whatever the matrix holds, and at every point of a request that edits it cell
\* by cell, the keys shown are the keys the gates let through.
THEOREM KeysAlwaysAgree == MatrixSpec => []KeysAgree
<1>1. MatrixInv => KeysAgree
  <2> SUFFICES ASSUME MatrixInv, NEW r \in Role
               PROVE  DerivedPermissionKeys(r) = {k \in DOMAIN LegacyMap : HasPermission(r, k)}
    BY DEF KeysAgree
  <2>1. CASE super[r]
    BY <2>1 DEF DerivedPermissionKeys, HasPermission
  <2>2. CASE ~super[r]
    <3>1. DerivedPermissionKeys(r) \subseteq DOMAIN LegacyMap
      BY DEF DerivedPermissionKeys
    <3>2. QED
      BY <2>2, <3>1, KeyAgrees
  <2>3. QED
    BY <2>1, <2>2
<1>2. QED
  BY <1>1, MatrixInvariant, PTL

-----------------------------------------------------------------------------
(***************************************************************************)
(* Lockouts.                                                               *)
(***************************************************************************)

\* The rows of wrong passwords, how many there are since a time, and the
\* unlocks since a time.
Wrong == [t \in Time |-> rows[t]["invalid_credentials"]]
Tries(s) == SumOf(Wrong, Since(s))
Pardons(s) == SumOf(unlocks, Since(s))

Requested == [stage : Stages, ticked : BOOLEAN]
LockTypes ==
  /\ clock \in Time
  /\ rows \in [Time -> [Outcomes -> 0..MaxRows]]
  /\ lock \in (0..(MaxTime + LockFor)) \union {NoLock}
  /\ unlocks \in [Time -> 0..MaxUnlocks]
  /\ account \in Accounts
  /\ login \in [Login -> Requested]

LEMMA TimeFacts ==
  /\ IsFiniteSet(Time) /\ Time \subseteq Nat /\ 0 \in Time
  /\ \A s : Since(s) \in SUBSET Time /\ IsFiniteSet(Since(s))
  /\ Since(0) = Time
<1>1. MaxTime \in Nat
  BY LockoutAssumption
<1>2. IsFiniteSet(Time) /\ Time \subseteq Nat /\ 0 \in Time
  BY <1>1, FS_Interval DEF Time
<1>3. \A s : Since(s) \in SUBSET Time
  BY DEF Since
<1>4. \A s : IsFiniteSet(Since(s))
  BY <1>2, <1>3, FS_Subset
<1>5. Since(0) = Time
  <2>1. \A t \in Time : t >= 0
    BY <1>2
  <2>2. QED
    BY <2>1 DEF Since
<1>6. QED
  BY <1>2, <1>3, <1>4, <1>5

LEMMA WrongFacts ==
  ASSUME LockTypes
  PROVE  /\ Wrong \in [Time -> Nat] /\ Wrong \in [Time -> Int]
         /\ unlocks \in [Time -> Nat] /\ unlocks \in [Time -> Int]
         /\ \A t \in Time : rows[t] \in [Outcomes -> Nat]
         /\ \A s : Tries(s) \in Nat /\ Pardons(s) \in Nat
<1>1. MaxRows \in Nat /\ MaxUnlocks \in Nat
  BY LockoutAssumption
<1>2. \A t \in Time : rows[t] \in [Outcomes -> Nat]
  BY <1>1 DEF LockTypes
<1>3. Wrong \in [Time -> Nat] /\ unlocks \in [Time -> Nat]
  BY <1>1, <1>2 DEF LockTypes, Wrong, Outcomes
<1>4. Wrong \in [Time -> Int] /\ unlocks \in [Time -> Int]
  BY <1>3
<1>5. ASSUME NEW s PROVE Tries(s) \in Nat /\ Pardons(s) \in Nat
  <2>1. \A t \in Since(s) : Wrong[t] \in Nat /\ unlocks[t] \in Nat
    BY <1>3 DEF Since
  <2>2. QED
    BY <2>1, TimeFacts, SumNat DEF Tries, Pardons
<1>6. QED
  BY <1>2, <1>3, <1>4, <1>5

\* What Count counts: the wrong passwords, or all of them and more.
LEMMA CountWrong ==
  ASSUME LockTypes, NEW s
  PROVE  Count({"invalid_credentials"}, s) = Tries(s)
<1>1. DEFINE f == [t \in Time |-> SumFunctionOnSet(rows[t], {"invalid_credentials"})]
<1>2. ASSUME NEW t \in Since(s) PROVE f[t] = Wrong[t]
  <2>1. t \in Time /\ rows[t]["invalid_credentials"] \in Int
    BY WrongFacts DEF Since, Outcomes
  <2>2. SumFunctionOnSet(rows[t], {"invalid_credentials"}) = rows[t]["invalid_credentials"]
    BY <2>1, SumIsSumOf, SumSingle
  <2>3. QED
    BY <2>1, <2>2 DEF Wrong
<1>3. SumFunctionOnSet(f, Since(s)) = SumOf(f, Since(s))
  BY SumIsSumOf
<1>4. Count({"invalid_credentials"}, s) = SumFunctionOnSet(f, Since(s))
  BY DEF Count
<1>5. HIDE DEF f
<1>6. SumOf(f, Since(s)) = SumOf(Wrong, Since(s))
  BY <1>2, TimeFacts, SumCongruence
<1>7. QED
  BY <1>3, <1>4, <1>6 DEF Tries

LEMMA CountAll ==
  ASSUME LockTypes, NEW s \in Int
  PROVE  /\ Count(Outcomes, s) \in Nat
         /\ \A s2 \in Int : s <= s2 => Tries(s2) <= Count(Outcomes, s)
         /\ \A t \in Since(s), o \in Outcomes : rows[t][o] <= Count(Outcomes, s)
<1>1. DEFINE f == [t \in Time |-> SumFunctionOnSet(rows[t], Outcomes)]
<1>2. IsFiniteSet(Outcomes) /\ "invalid_credentials" \in Outcomes
  <2>1. IsFiniteSet({"invalid_credentials"})
    BY FS_Singleton
  <2>2. IsFiniteSet({"invalid_credentials"} \union {"other"})
    BY <2>1, FS_AddElement
  <2>3. Outcomes = {"invalid_credentials"} \union {"other"}
    BY DEF Outcomes
  <2>4. QED
    BY <2>2, <2>3
<1>3. ASSUME NEW t \in Time
      PROVE  f[t] \in Nat /\ Wrong[t] \in Nat /\ Wrong[t] <= f[t] /\ \A o \in Outcomes : rows[t][o] <= f[t]
  <2>1. rows[t] \in [Outcomes -> Nat]
    BY WrongFacts
  <2>2. \A o \in Outcomes : rows[t][o] \in Nat
    BY <2>1
  <2>3. SumOf(rows[t], Outcomes) \in Nat /\ \A o \in Outcomes : rows[t][o] <= SumOf(rows[t], Outcomes)
    BY <1>2, <2>2, SumNat
  <2>4. f[t] = SumOf(rows[t], Outcomes)
    BY SumIsSumOf
  <2>5. Wrong[t] = rows[t]["invalid_credentials"]
    BY DEF Wrong
  <2>6. HIDE DEF f
  <2>7. QED
    BY <1>2, <2>2, <2>3, <2>4, <2>5
<1>4. Count(Outcomes, s) = SumOf(f, Since(s))
  BY SumIsSumOf DEF Count
<1>5. HIDE DEF f
<1>6. \A t \in Since(s) : t \in Time
  BY DEF Since
<1>7. SumOf(f, Since(s)) \in Nat /\ \A t \in Since(s) : f[t] <= SumOf(f, Since(s))
  BY <1>3, <1>6, TimeFacts, SumNat
<1>8. ASSUME NEW s2 \in Int, s <= s2 PROVE Tries(s2) <= SumOf(f, Since(s))
  <2>1. Since(s2) \in SUBSET Since(s)
    <3>1. \A t \in Time : t \in Int
      BY TimeFacts
    <3>2. QED
      BY <1>8, <3>1 DEF Since
  <2>2. \A t \in Since(s2) : Wrong[t] \in Nat /\ Wrong[t] <= f[t]
    BY <1>3 DEF Since
  <2>3. QED
    BY <1>3, <1>6, <2>1, <2>2, TimeFacts, SumMonotone DEF Tries
<1>9. ASSUME NEW t \in Since(s), NEW o \in Outcomes PROVE rows[t][o] <= SumOf(f, Since(s))
  <2>1. f[t] <= SumOf(f, Since(s)) /\ rows[t][o] <= f[t] /\ rows[t][o] \in Nat /\ f[t] \in Nat
    BY <1>3, <1>6, <1>7, WrongFacts
  <2>2. QED
    BY <1>7, <2>1
<1>10. QED
  BY <1>4, <1>7, <1>8, <1>9

\* What a recorded row does to the counts.
LEMMA Recorded ==
  ASSUME LockTypes, NEW o \in Outcomes, NEW n \in Nat, Record(o, n)
  PROVE  /\ rows' \in [Time -> [Outcomes -> 0..MaxRows]]
         /\ o = "other" => Wrong' = Wrong
         /\ o = "invalid_credentials" => Wrong' = [Wrong EXCEPT ![clock] = Wrong[clock] + n]
<1>1. clock \in Time /\ clock \in Since(0)
  BY TimeFacts DEF LockTypes
<1>2. rows[clock][o] \in Nat /\ rows[clock][o] + n <= MaxRows
  <2>1. rows[clock][o] <= Count(Outcomes, 0) /\ Count(Outcomes, 0) \in Nat
    BY <1>1, CountAll
  <2>2. Count(Outcomes, 0) + n <= MaxRows /\ MaxRows \in Nat
    BY LockoutAssumption DEF Record
  <2>3. rows[clock][o] \in Nat
    BY <1>1, WrongFacts
  <2>4. QED
    BY <2>1, <2>2, <2>3
<1>3. DEFINE row == [rows[clock] EXCEPT ![o] = rows[clock][o] + n]
<1>4. rows' = [rows EXCEPT ![clock] = row]
  BY DEF Record
<1>5. rows[clock] \in [Outcomes -> 0..MaxRows]
  BY <1>1 DEF LockTypes
<1>6. row \in [Outcomes -> 0..MaxRows]
  <2>1. rows[clock][o] + n \in 0..MaxRows
    BY <1>2, LockoutAssumption
  <2>2. QED
    BY <1>5, <2>1
<1>7. /\ o = "other" => row["invalid_credentials"] = rows[clock]["invalid_credentials"]
      /\ o = "invalid_credentials" => row["invalid_credentials"] = rows[clock]["invalid_credentials"] + n
  BY <1>5 DEF Outcomes
<1>8. HIDE DEF row
<1>9. rows' \in [Time -> [Outcomes -> 0..MaxRows]]
  BY <1>4, <1>6 DEF LockTypes
<1>10. /\ rows'[clock] = row
       /\ \A t \in Time \ {clock} : rows'[t] = rows[t]
  BY <1>1, <1>4 DEF LockTypes
<1>11. o = "other" => Wrong' = Wrong
  BY <1>1, <1>7, <1>10 DEF Wrong
<1>12. o = "invalid_credentials" => Wrong' = [Wrong EXCEPT ![clock] = Wrong[clock] + n]
  <2>1. SUFFICES ASSUME o = "invalid_credentials"
                 PROVE  Wrong' = [Wrong EXCEPT ![clock] = Wrong[clock] + n]
    OBVIOUS
  <2>2. Wrong'[clock] = Wrong[clock] + n
    BY <1>1, <1>7, <1>10, <2>1 DEF Wrong
  <2>3. \A t \in Time \ {clock} : Wrong'[t] = Wrong[t]
    BY <1>10 DEF Wrong
  <2>4. Wrong' = [t \in Time |-> Wrong'[t]] /\ Wrong = [t \in Time |-> Wrong[t]]
    BY DEF Wrong
  <2>5. QED
    BY <1>1, <2>2, <2>3, <2>4
<1>13. QED
  BY <1>9, <1>11, <1>12

LEMMA WrongCounted ==
  ASSUME LockTypes, Wrong' = [Wrong EXCEPT ![clock] = Wrong[clock] + 1], NEW s \in Int
  PROVE  Tries(s)' = IF s <= clock THEN Tries(s) + 1 ELSE Tries(s)
<1>1. clock \in Time /\ (clock \in Since(s) <=> s <= clock)
  BY TimeFacts DEF LockTypes, Since
<1>2. Wrong \in [Time -> Int]
  BY WrongFacts
<1>3. /\ IsFiniteSet(Since(s)) /\ \A t \in Since(s) : t \in Time
      /\ Wrong'[clock] = Wrong[clock] + 1 /\ \A t \in Time \ {clock} : Wrong'[t] = Wrong[t]
      /\ \A t \in Time : Wrong[t] \in Int
  BY <1>1, <1>2, TimeFacts
<1>4. CASE clock \in Since(s)
  <2>1. SumOf(Wrong', Since(s)) = SumOf(Wrong, Since(s)) + (Wrong'[clock] - Wrong[clock])
    <3>1. DEFINE S == Since(s)
    <3>2. /\ IsFiniteSet(S) /\ clock \in S /\ Wrong'[clock] \in Int
          /\ \A t \in S : Wrong[t] \in Int
          /\ \A t \in S \ {clock} : Wrong'[t] = Wrong[t]
      BY <1>1, <1>3, <1>4
    <3>3. HIDE DEF S
    <3>4. SumOf(Wrong', S) = SumOf(Wrong, S) + (Wrong'[clock] - Wrong[clock])
      <4>1. DEFINE T == S \ {clock}
      <4>2. IsFiniteSet(T) /\ \A t \in T : Wrong'[t] = Wrong[t]
        BY <3>2, FS_Subset
      <4>3. \A t \in S : Wrong'[t] \in Int
        BY <3>2
      <4>4. SumOf(Wrong, S) = Wrong[clock] + SumOf(Wrong, T) /\ SumOf(Wrong, S) \in Int
        BY <3>2, SumRemove
      <4>5. SumOf(Wrong', S) = Wrong'[clock] + SumOf(Wrong', T)
        BY <3>2, <4>3, SumRemove
      <4>6. T \subseteq S
        OBVIOUS
      <4>7. \A t \in T : Wrong[t] \in Int
        BY <3>2, <4>6
      <4>8. HIDE DEF T
      <4>9. SumOf(Wrong', T) = SumOf(Wrong, T) /\ SumOf(Wrong, T) \in Int
        BY <4>2, <4>7, SumCongruence, SumRemove
      <4>10. Wrong[clock] \in Int
        BY <3>2
      <4>11. QED
        BY <3>2, <4>4, <4>5, <4>9, <4>10
    <3>5. QED
      BY <3>4 DEF S
  <2>2. SumOf(Wrong, Since(s)) \in Nat
    BY WrongFacts DEF Tries
  <2>3. SumOf(Wrong', Since(s)) = SumOf(Wrong, Since(s)) + 1
    BY <1>1, <1>3, <2>1, <2>2
  <2>4. QED
    BY <1>1, <1>4, <2>3 DEF Tries, Since
<1>5. CASE clock \notin Since(s)
  <2>1. \A t \in Since(s) : Wrong[t] = Wrong'[t]
    BY <1>3, <1>5
  <2>2. SumOf(Wrong, Since(s)) = SumOf(Wrong', Since(s))
    BY <1>3, <2>1, SumCongruence
  <2>3. QED
    BY <1>1, <1>5, <2>2 DEF Tries, Since
<1>6. QED
  BY <1>4, <1>5

LEMMA UnlockCounted ==
  ASSUME LockTypes, unlocks' = [unlocks EXCEPT ![clock] = unlocks[clock] + 1], NEW s \in Int
  PROVE  Pardons(s)' = IF s <= clock THEN Pardons(s) + 1 ELSE Pardons(s)
<1>1. clock \in Time /\ (clock \in Since(s) <=> s <= clock)
  BY TimeFacts DEF LockTypes, Since
<1>2. unlocks \in [Time -> Int]
  BY WrongFacts
<1>3. /\ IsFiniteSet(Since(s)) /\ \A t \in Since(s) : t \in Time
      /\ unlocks'[clock] = unlocks[clock] + 1 /\ \A t \in Time \ {clock} : unlocks'[t] = unlocks[t]
      /\ \A t \in Time : unlocks[t] \in Int
  BY <1>1, <1>2, TimeFacts
<1>4. CASE clock \in Since(s)
  <2>1. SumOf(unlocks', Since(s)) = SumOf(unlocks, Since(s)) + (unlocks'[clock] - unlocks[clock])
    <3>1. DEFINE S == Since(s)
    <3>2. /\ IsFiniteSet(S) /\ clock \in S /\ unlocks'[clock] \in Int
          /\ \A t \in S : unlocks[t] \in Int
          /\ \A t \in S \ {clock} : unlocks'[t] = unlocks[t]
      BY <1>1, <1>3, <1>4
    <3>3. HIDE DEF S
    <3>4. SumOf(unlocks', S) = SumOf(unlocks, S) + (unlocks'[clock] - unlocks[clock])
      <4>1. DEFINE T == S \ {clock}
      <4>2. IsFiniteSet(T) /\ \A t \in T : unlocks'[t] = unlocks[t]
        BY <3>2, FS_Subset
      <4>3. \A t \in S : unlocks'[t] \in Int
        BY <3>2
      <4>4. SumOf(unlocks, S) = unlocks[clock] + SumOf(unlocks, T) /\ SumOf(unlocks, S) \in Int
        BY <3>2, SumRemove
      <4>5. SumOf(unlocks', S) = unlocks'[clock] + SumOf(unlocks', T)
        BY <3>2, <4>3, SumRemove
      <4>6. T \subseteq S
        OBVIOUS
      <4>7. \A t \in T : unlocks[t] \in Int
        BY <3>2, <4>6
      <4>8. HIDE DEF T
      <4>9. SumOf(unlocks', T) = SumOf(unlocks, T) /\ SumOf(unlocks, T) \in Int
        BY <4>2, <4>7, SumCongruence, SumRemove
      <4>10. unlocks[clock] \in Int
        BY <3>2
      <4>11. QED
        BY <3>2, <4>4, <4>5, <4>9, <4>10
    <3>5. QED
      BY <3>4 DEF S
  <2>2. SumOf(unlocks, Since(s)) \in Nat
    BY WrongFacts DEF Pardons
  <2>3. SumOf(unlocks', Since(s)) = SumOf(unlocks, Since(s)) + 1
    BY <1>1, <1>3, <2>1, <2>2
  <2>4. QED
    BY <1>1, <1>4, <2>3 DEF Pardons, Since
<1>5. CASE clock \notin Since(s)
  <2>1. \A t \in Since(s) : unlocks[t] = unlocks'[t]
    BY <1>3, <1>5
  <2>2. SumOf(unlocks, Since(s)) = SumOf(unlocks', Since(s))
    BY <1>3, <2>1, SumCongruence
  <2>3. QED
    BY <1>1, <1>5, <2>2 DEF Pardons, Since
<1>6. QED
  BY <1>4, <1>5

-----------------------------------------------------------------------------
(* Types. *)

LEMMA LockTypesHold == LockSpec => []LockTypes
<1>1. LockInit => LockTypes
  <2>1. 0 \in 0..MaxRows /\ 0 \in 0..MaxUnlocks /\ 0 \in Time
    BY LockoutAssumption, TimeFacts
  <2>2. QED
    BY <2>1 DEF LockInit, LockTypes, Idle, Requested, Stages, Accounts
<1>2. ASSUME LockTypes, [LockNext]_lockVars PROVE LockTypes'
  <2>1. ASSUME NEW r \in Login, NEW stage \in Stages, Go(r, stage) PROVE login' \in [Login -> Requested]
    BY <1>2, <2>1 DEF Go, LockTypes, Requested
  <2>2. ASSUME NEW r \in Login, Done(r) PROVE login' \in [Login -> Requested]
    BY <1>2, <2>2 DEF Done, LockTypes, Requested, Idle, Stages
  <2>3. Looked \in (0..(MaxTime + LockFor)) \union {NoLock}
    BY <1>2 DEF Looked, LockTypes
  <2>4. ASSUME NEW o \in Outcomes, NEW n \in Nat, Record(o, n)
        PROVE  rows' \in [Time -> [Outcomes -> 0..MaxRows]]
    BY <1>2, <2>4, Recorded
  <2>5. ASSUME NEW r \in Login, LoginArrives(r) PROVE LockTypes'
    BY <1>2, <2>1, <2>3, <2>4, <2>5 DEF LoginArrives, LockTypes, Stages, Outcomes
  <2>6. ASSUME NEW r \in Login, WrongPassword(r) PROVE LockTypes'
    BY <1>2, <2>1, <2>4, <2>6 DEF WrongPassword, LockTypes, Stages, Outcomes
  <2>7. ASSUME NEW r \in Login, RightPassword(r) PROVE LockTypes'
    BY <1>2, <2>1, <2>2, <2>4, <2>7 DEF RightPassword, LockTypes, Stages, Outcomes
  <2>8. ASSUME NEW r \in Login, CountFailures(r) PROVE LockTypes'
    BY <1>2, <2>1, <2>2, <2>3, <2>8 DEF CountFailures, LockTypes, Stages
  <2>9. ASSUME NEW r \in Login, OpenLockout(r) PROVE LockTypes'
    <3>1. clock + LockFor \in 0..(MaxTime + LockFor)
      BY <1>2, LockoutAssumption DEF LockTypes, Time
    <3>2. QED
      BY <1>2, <2>2, <2>9, <3>1 DEF OpenLockout, LockTypes
  <2>10. CASE Unlock
    <3>1. unlocks' \in [Time -> 0..MaxUnlocks]
      <4>1. CASE InForce
        <5>1. clock \in Time /\ \A t \in Time : unlocks[t] \in Nat
          BY <1>2, WrongFacts DEF LockTypes
        <5>2. DOMAIN unlocks = Time
          BY <1>2 DEF LockTypes
        <5>3. SumFunction(unlocks) = SumOf(unlocks, Time)
          BY <5>2, SumIsSumOf DEF SumFunction
        <5>4. SumOf(unlocks, Time) \in Nat /\ unlocks[clock] <= SumOf(unlocks, Time)
          BY <5>1, TimeFacts, SumNat
        <5>5. SumOf(unlocks, Time) < MaxUnlocks /\ unlocks' = [unlocks EXCEPT ![clock] = unlocks[clock] + 1]
          BY <2>10, <4>1, <5>3 DEF Unlock
        <5>6. unlocks[clock] + 1 \in 0..MaxUnlocks
          BY <5>1, <5>4, <5>5, LockoutAssumption
        <5>7. QED
          BY <1>2, <5>5, <5>6 DEF LockTypes
      <4>2. CASE ~InForce
        BY <1>2, <2>10, <4>2 DEF Unlock, LockTypes
      <4>3. QED
        BY <4>1, <4>2
    <3>2. QED
      BY <1>2, <2>10, <3>1 DEF Unlock, LockTypes
  <2>11. CASE ChangeAccount
    BY <1>2, <2>11 DEF ChangeAccount, LockTypes
  <2>12. CASE Tick
    <3>1. clock' \in Time
      BY <1>2, <2>12, LockoutAssumption DEF Tick, LockTypes, Time
    <3>2. ASSUME NEW r \in Login PROVE login'[r] \in Requested
      <4>1. login'[r] = [login[r] EXCEPT !.ticked = login[r].stage # "idle"]
        BY <2>12 DEF Tick
      <4>2. (login[r].stage # "idle") \in BOOLEAN /\ login[r] \in Requested
        BY <1>2 DEF LockTypes
      <4>3. QED
        BY <4>1, <4>2 DEF Requested
    <3>3. login' \in [Login -> Requested]
      BY <2>12, <3>2 DEF Tick
    <3>4. QED
      BY <1>2, <2>12, <3>1, <3>3 DEF Tick, LockTypes
  <2>13. CASE UNCHANGED lockVars
    BY <1>2, <2>13 DEF lockVars, LockTypes
  <2>14. QED
    BY <1>2, <2>5, <2>6, <2>7, <2>8, <2>9, <2>10, <2>11, <2>12, <2>13 DEF LockNext
<1>3. QED
  BY <1>1, <1>2, PTL DEF LockSpec

\* The clock, the ledger of attempts, the lockout and the requests in flight
\* have the declared types, its rows and unlocks within their bounds.
THEOREM LockTypesCorrect == LockSpec => []LockTypeOK
<1>1. LockTypes => LockTypeOK
  BY DEF LockTypes, LockTypeOK, Requested
<1>2. QED
  BY <1>1, LockTypesHold, PTL
-----------------------------------------------------------------------------
(***************************************************************************)
(* How many guesses a window holds.  While no lockout is in force, every   *)
(* wrong password beyond the threshold belongs to a request that has not   *)
(* counted yet; while one is, to a request that was past the lockout test  *)
(* when it opened, and those are over within a tick: by the time it runs   *)
(* out, only what they left since it opened is still in the window.        *)
(***************************************************************************)
LongLock == Window <= LockFor /\ LockFor > 1 /\ IsFiniteSet(Login)

Passing == {r \in Login : login[r].stage = "password"}
Counting == {r \in Login : login[r].stage \in {"failed", "locking"}}
Starts == (clock - Window + 1)..clock
AllLogins == Cardinality(Login)
Most == IF Threshold > AllLogins THEN Threshold ELSE AllLogins

\* When the lockout on the row opened, and whether a request was past the test
\* by then: it has seen the clock advance at most once.
Opened == lock - LockFor
WasThere(r) == clock <= Opened + 1 /\ (~login[r].ticked => clock <= Opened)

NothingAhead == \A t \in Time : t > clock => Wrong[t] = 0 /\ unlocks[t] = 0

WhileLocked ==
  InForce =>
    /\ \A s \in Starts : Tries(s) + Cardinality(Passing) <= Most - 1 + AllLogins + AllLogins * Pardons(s)
    /\ Tries(Opened + 1) + Cardinality(Passing) <= AllLogins - 1
    /\ Tries(Opened + 2) = 0
    /\ \A r \in Login : login[r].stage = "password" => WasThere(r)

WhileOpen ==
  ~InForce =>
    \A s \in Starts : Tries(s) <= Most - 1 + Cardinality(Counting) + AllLogins * Pardons(s)

Openings ==
  lock # NoLock => /\ Opened \in 0..clock
                   /\ \A r \in Login : login[r].stage = "locking" => WasThere(r)

LockInv == NothingAhead /\ WhileLocked /\ WhileOpen /\ Openings

LEMMA Numbers ==
  ASSUME LongLock
  PROVE  /\ AllLogins \in Nat /\ Most \in Nat /\ Most >= 1
         /\ Threshold <= Most /\ AllLogins <= Most
         /\ Most \in {Threshold, AllLogins}
         /\ Window \in Nat /\ Window >= 1 /\ LockFor \in Nat /\ LockFor >= 2 /\ Window <= LockFor
<1>1. AllLogins \in Nat
  BY FS_CardinalityType DEF LongLock, AllLogins
<1>2. QED
  BY <1>1, LockoutAssumption DEF LongLock, Most

LEMMA Groups ==
  ASSUME LongLock, NEW A \in SUBSET Login, NEW B \in SUBSET Login
  PROVE  /\ IsFiniteSet(A) /\ Cardinality(A) \in Nat
         /\ A \subseteq B => Cardinality(A) <= Cardinality(B)
         /\ A \intersect B = {} => Cardinality(A) + Cardinality(B) <= AllLogins
         /\ \A r \in A : Cardinality(A \ {r}) = Cardinality(A) - 1
         /\ \A r \in Login \ A : Cardinality(A \union {r}) = Cardinality(A) + 1
<1>1. IsFiniteSet(Login) /\ IsFiniteSet(A) /\ IsFiniteSet(B)
  BY FS_Subset DEF LongLock
<1>2. Cardinality(A) \in Nat /\ Cardinality(B) \in Nat
  BY <1>1, FS_CardinalityType
<1>3. A \subseteq B => Cardinality(A) <= Cardinality(B)
  BY <1>1, FS_Subset
<1>4. ASSUME A \intersect B = {} PROVE Cardinality(A) + Cardinality(B) <= AllLogins
  <2>1. Cardinality(A \union B) = Cardinality(A) + Cardinality(B) - Cardinality(A \intersect B)
    BY <1>1, FS_Union
  <2>2. Cardinality(A \intersect B) = 0
    BY <1>4, FS_EmptySet
  <2>3. Cardinality(A \union B) <= Cardinality(Login)
    BY <1>1, FS_Subset
  <2>4. QED
    BY <1>2, <2>1, <2>2, <2>3 DEF AllLogins
<1>5. \A r \in A : Cardinality(A \ {r}) = Cardinality(A) - 1
  BY <1>1, FS_RemoveElement
<1>6. \A r \in Login \ A : Cardinality(A \union {r}) = Cardinality(A) + 1
  BY <1>1, FS_AddElement
<1>7. QED
  BY <1>1, <1>2, <1>3, <1>4, <1>5, <1>6

LEMMA InFlight ==
  ASSUME LongLock
  PROVE  /\ Passing \in SUBSET Login /\ Counting \in SUBSET Login
         /\ Cardinality(Passing) \in Nat /\ Cardinality(Counting) \in Nat
         /\ Cardinality(Passing) + Cardinality(Counting) <= AllLogins
<1>1. Passing \in SUBSET Login /\ Counting \in SUBSET Login /\ Passing \intersect Counting = {}
  BY DEF Passing, Counting
<1>2. QED
  BY <1>1, Groups

\* A later window holds no more, and one that has not begun holds nothing.
LEMMA TriesFewer ==
  ASSUME LockTypes, NothingAhead, NEW s \in Int
  PROVE  /\ \A s2 \in Int : s <= s2 => Tries(s2) <= Tries(s)
         /\ s > clock => Tries(s) = 0
<1>1. \A t \in Time : Wrong[t] \in Nat /\ t \in Int
  BY WrongFacts, TimeFacts
<1>2. ASSUME NEW s2 \in Int, s <= s2 PROVE Tries(s2) <= Tries(s)
  <2>1. Since(s2) \in SUBSET Since(s) /\ \A t \in Since(s) : Wrong[t] \in Nat
    BY <1>1, <1>2 DEF Since
  <2>2. \A t \in Since(s2) : Wrong[t] \in Nat /\ Wrong[t] <= Wrong[t]
    BY <1>1 DEF Since
  <2>3. IsFiniteSet(Since(s))
    BY TimeFacts
  <2>4. SumOf(Wrong, Since(s2)) <= SumOf(Wrong, Since(s))
    BY <2>1, <2>2, <2>3, SumMonotone
  <2>5. QED
    BY <2>4 DEF Tries
<1>3. ASSUME s > clock PROVE Tries(s) = 0
  <2>1. \A t \in Since(s) : Wrong[t] \in 0..0
    <3>1. clock \in Int
      BY TimeFacts DEF LockTypes
    <3>2. QED
      BY <1>1, <1>3, <3>1 DEF Since, NothingAhead
  <2>2. IsFiniteSet(Since(s)) /\ 0 \in Nat
    BY TimeFacts
  <2>3. SumOf(Wrong, Since(s)) \in Nat /\ SumOf(Wrong, Since(s)) <= 0 * Cardinality(Since(s))
    BY <2>1, <2>2, SumBound
  <2>4. 0 * Cardinality(Since(s)) = 0
    <3>1. Cardinality(Since(s)) \in Nat
      BY <2>2, FS_CardinalityType
    <3>2. QED
      BY <3>1
  <2>5. QED
    BY <2>3, <2>4 DEF Tries
<1>4. QED
  BY <1>2, <1>3

\* Nothing that a lockout in force is judged by has grown.
LEMMA KeepLocked ==
  ASSUME LongLock, LockTypes, LockInv, InForce,
         UNCHANGED <<clock, lock, unlocks>>, Wrong' = Wrong,
         \A r \in Login : /\ login'[r].stage \in {"password", "locking"} => login'[r] = login[r]
  PROVE  LockInv'
<1>1. Tries(Opened + 1)' = Tries(Opened + 1) /\ Tries(Opened + 2)' = Tries(Opened + 2)
  BY DEF Tries, Opened, Since, Time
<1>2. ASSUME NEW s PROVE Tries(s)' = Tries(s) /\ Pardons(s)' = Pardons(s)
  BY DEF Tries, Pardons, Since, Time
<1>3. Passing' \subseteq Passing /\ Passing' \in SUBSET Login /\ Passing \in SUBSET Login
  BY DEF Passing
<1>4. Cardinality(Passing') <= Cardinality(Passing) /\ Cardinality(Passing') \in Nat /\ Cardinality(Passing) \in Nat
  BY <1>3, Groups
<1>5. Starts' = Starts /\ Opened' = Opened /\ InForce'
  BY DEF Starts, Opened, InForce
<1>6. NothingAhead'
  BY DEF LockInv, NothingAhead, Time
<1>7. WhileLocked'
  <2>1. ASSUME NEW s \in Starts
        PROVE  Tries(s)' + Cardinality(Passing') <= Most - 1 + AllLogins + AllLogins * Pardons(s)'
    <3>1. Tries(s) + Cardinality(Passing) <= Most - 1 + AllLogins + AllLogins * Pardons(s)
      BY DEF LockInv, WhileLocked
    <3>2. Tries(s) \in Nat /\ Pardons(s) \in Nat /\ AllLogins \in Nat /\ Most \in Nat
      BY WrongFacts, Numbers
    <3>3. AllLogins * Pardons(s) \in Int
      BY <3>2
    <3>4. QED
      BY <1>2, <1>4, <3>1, <3>2, <3>3
  <2>2. Tries(Opened + 1)' + Cardinality(Passing') <= AllLogins - 1 /\ Tries(Opened + 2)' = 0
    <3>1. Tries(Opened + 1) + Cardinality(Passing) <= AllLogins - 1 /\ Tries(Opened + 2) = 0
      BY DEF LockInv, WhileLocked
    <3>2. Tries(Opened + 1) \in Nat /\ AllLogins \in Nat
      BY WrongFacts, Numbers
    <3>3. QED
      BY <1>1, <1>4, <3>1, <3>2
  <2>3. ASSUME NEW r \in Login, login'[r].stage = "password" PROVE WasThere(r)'
    <3>1. login'[r] = login[r] /\ WasThere(r)
      BY <2>3 DEF LockInv, WhileLocked
    <3>2. QED
      BY <1>5, <3>1 DEF WasThere
  <2>4. QED
    BY <1>5, <2>1, <2>2, <2>3 DEF WhileLocked, AllLogins, Most
<1>8. WhileOpen'
  BY <1>5 DEF WhileOpen
<1>9. Openings'
  <2>1. lock # NoLock
    BY DEF InForce
  <2>2. Opened' \in 0..clock'
    BY <1>5, <2>1 DEF LockInv, Openings
  <2>3. ASSUME NEW r \in Login, login'[r].stage = "locking" PROVE WasThere(r)'
    <3>1. login'[r] = login[r] /\ WasThere(r)
      BY <2>1, <2>3 DEF LockInv, Openings
    <3>2. QED
      BY <1>5, <3>1 DEF WasThere
  <2>4. QED
    BY <2>2, <2>3 DEF Openings
<1>10. QED
  BY <1>6, <1>7, <1>8, <1>9 DEF LockInv

\* Nor has anything while none is in force.
LEMMA KeepOpen ==
  ASSUME LongLock, LockTypes, LockInv, ~InForce, lock' \in {lock, NoLock},
         UNCHANGED <<clock, unlocks>>,
         \A t \in Time : t > clock => Wrong'[t] = Wrong[t],
         \A s \in Starts : Tries(s)' \in Nat /\ Tries(s)' <= Most - 1 + Cardinality(Counting') + AllLogins * Pardons(s),
         \A r \in Login : login'[r].stage = "locking" => login'[r] = login[r] \/ lock' = NoLock
  PROVE  LockInv'
<1>1. ~InForce'
  BY DEF InForce
<1>2. ASSUME NEW s PROVE Pardons(s)' = Pardons(s)
  BY DEF Pardons, Since, Time
<1>3. NothingAhead'
  BY DEF LockInv, NothingAhead, Time
<1>4. WhileLocked'
  BY <1>1 DEF WhileLocked
<1>5. WhileOpen'
  <2>1. Starts' = Starts
    BY DEF Starts
  <2>2. ASSUME NEW s \in Starts
        PROVE  Tries(s)' <= Most - 1 + Cardinality(Counting') + AllLogins * Pardons(s)'
    BY <1>2, <2>2
  <2>3. QED
    BY <2>1, <2>2 DEF WhileOpen, Most, AllLogins
<1>6. Openings'
  <2>1. SUFFICES ASSUME lock' # NoLock PROVE Openings'
    BY DEF Openings
  <2>2. lock' = lock /\ Opened' = Opened
    BY <2>1 DEF Opened
  <2>3. Opened' \in 0..clock'
    BY <2>1, <2>2 DEF LockInv, Openings
  <2>4. ASSUME NEW r \in Login, login'[r].stage = "locking" PROVE WasThere(r)'
    <3>1. login'[r] = login[r] /\ WasThere(r)
      BY <2>1, <2>2, <2>4 DEF LockInv, Openings
    <3>2. QED
      BY <2>2, <3>1 DEF WasThere
  <2>5. QED
    BY <2>3, <2>4 DEF Openings
<1>7. QED
  BY <1>3, <1>4, <1>5, <1>6 DEF LockInv

\* Where no wrong password is recorded and no request stops counting, the
\* bound of the open state stands.
LEMMA StillOpen ==
  ASSUME LongLock, LockTypes, LockInv, ~InForce, Wrong' = Wrong, Counting \subseteq Counting',
         Counting' \in SUBSET Login, NEW s \in Starts
  PROVE  Tries(s)' \in Nat /\ Tries(s)' <= Most - 1 + Cardinality(Counting') + AllLogins * Pardons(s)
<1>1. Tries(s)' = Tries(s) /\ Tries(s) \in Nat /\ Pardons(s) \in Nat
  BY WrongFacts DEF Tries, Since, Time
<1>2. Tries(s) <= Most - 1 + Cardinality(Counting) + AllLogins * Pardons(s)
  BY DEF LockInv, WhileOpen
<1>3. Cardinality(Counting) <= Cardinality(Counting') /\ Cardinality(Counting) \in Nat /\ Cardinality(Counting') \in Nat
  BY InFlight, Groups
<1>4. AllLogins * Pardons(s) \in Int /\ Most \in Nat
  BY <1>1, Numbers
<1>5. QED
  BY <1>1, <1>2, <1>3, <1>4

LEMMA ArrivesKeeps ==
  ASSUME LongLock, LockTypes, LockInv, NEW r \in Login, LoginArrives(r)
  PROVE  LockInv'
<1>1. Wrong' = Wrong
  <2>1. CASE Record("other", 1)
    BY <2>1, Recorded DEF Outcomes
  <2>2. CASE rows' = rows
    BY <2>2 DEF Wrong, Time
  <2>3. QED
    BY <2>1, <2>2 DEF LoginArrives
<1>2. UNCHANGED <<clock, unlocks>>
  BY DEF LoginArrives
<1>3. CASE InForce
  <2>1. lock' = lock /\ login' = login
    BY <1>3 DEF LoginArrives, Looked
  <2>2. QED
    BY <1>1, <1>2, <1>3, <2>1, KeepLocked
<1>4. CASE ~InForce
  <2>1. lock' = NoLock
    BY <1>4 DEF LoginArrives, Looked
  <2>2. login[r].stage = "idle" /\ (login' = login \/ Go(r, "password"))
    BY <1>4 DEF LoginArrives
  <2>3. Counting' = Counting /\ Counting \in SUBSET Login
    BY <2>2 DEF Counting, Go, LockTypes, Requested
  <2>4. \A s \in Starts : Tries(s)' \in Nat /\ Tries(s)' <= Most - 1 + Cardinality(Counting') + AllLogins * Pardons(s)
    BY <1>1, <1>4, <2>3, StillOpen
  <2>5. QED
    BY <1>1, <1>2, <1>4, <2>1, <2>4, KeepOpen
<1>5. QED
  BY <1>3, <1>4

LEMMA RightKeeps ==
  ASSUME LongLock, LockTypes, LockInv, NEW r \in Login, RightPassword(r)
  PROVE  LockInv'
<1>1. Wrong' = Wrong
  <2>1. CASE Record("other", 1) \/ Record("other", 2)
    BY <2>1, Recorded DEF Outcomes
  <2>2. CASE rows' = rows
    BY <2>2 DEF Wrong, Time
  <2>3. QED
    BY <2>1, <2>2 DEF RightPassword
<1>2. UNCHANGED <<clock, unlocks, lock>> /\ login[r].stage = "password" /\ (Done(r) \/ Go(r, "failed"))
  BY DEF RightPassword
<1>3. \A q \in Login : login'[q].stage \in {"password", "locking"} => login'[q] = login[q]
  BY <1>2 DEF Done, Go, Idle, LockTypes, Requested
<1>4. CASE InForce
  BY <1>1, <1>2, <1>3, <1>4, KeepLocked
<1>5. CASE ~InForce
  <2>1. Counting \subseteq Counting' /\ Counting' \in SUBSET Login
    BY <1>2 DEF Counting, Done, Go, Idle, LockTypes, Requested
  <2>2. \A s \in Starts : Tries(s)' \in Nat /\ Tries(s)' <= Most - 1 + Cardinality(Counting') + AllLogins * Pardons(s)
    BY <1>1, <1>5, <2>1, StillOpen
  <2>3. QED
    BY <1>1, <1>2, <1>3, <1>5, <2>2, KeepOpen
<1>6. QED
  BY <1>4, <1>5

LEMMA CountKeeps ==
  ASSUME LongLock, LockTypes, LockInv, NEW r \in Login, CountFailures(r)
  PROVE  LockInv'
<1>1. UNCHANGED <<clock, unlocks>> /\ Wrong' = Wrong /\ login[r].stage = "failed"
  BY DEF CountFailures, Wrong, Time
<1>2. CASE InForce
  <2>1. Done(r) /\ lock' = lock
    BY <1>2 DEF CountFailures, Looked
  <2>2. \A q \in Login : login'[q].stage \in {"password", "locking"} => login'[q] = login[q]
    BY <2>1 DEF Done, Idle, LockTypes
  <2>3. QED
    BY <1>1, <1>2, <2>1, <2>2, KeepLocked
<1>3. CASE ~InForce
  <2>1. lock' = NoLock
    BY <1>3 DEF CountFailures, Looked
  <2>2. CASE Go(r, "locking")
    <3>1. Counting' = Counting /\ Counting \in SUBSET Login
      BY <1>1, <2>2 DEF Counting, Go, LockTypes, Requested
    <3>2. \A s \in Starts : Tries(s)' \in Nat /\ Tries(s)' <= Most - 1 + Cardinality(Counting') + AllLogins * Pardons(s)
      BY <1>1, <1>3, <3>1, StillOpen
    <3>3. QED
      BY <1>1, <1>3, <2>1, <3>2, KeepOpen
  <2>3. CASE ~(Count(Outcomes, clock - Window) >= Threshold) /\ Done(r)
    <3>1. ASSUME NEW s \in Starts
          PROVE  Tries(s)' \in Nat /\ Tries(s)' <= Most - 1 + Cardinality(Counting') + AllLogins * Pardons(s)
      <4>1. clock \in Nat /\ s \in Int /\ clock - Window \in Int /\ clock - Window <= s
        BY Numbers, TimeFacts DEF Starts, LockTypes
      <4>2. Tries(s) <= Count(Outcomes, clock - Window) /\ Count(Outcomes, clock - Window) \in Nat
        BY <4>1, CountAll
      <4>3. Tries(s)' = Tries(s) /\ Tries(s) \in Nat /\ Pardons(s) \in Nat
        BY <1>1, WrongFacts DEF Tries, Since, Time
      <4>4. Counting' \in SUBSET Login
        BY DEF Counting
      <4>5. Cardinality(Counting') \in Nat
        BY <4>4, Groups
      <4>6. AllLogins * Pardons(s) \in Nat /\ Threshold \in Nat /\ Threshold <= Most /\ Most \in Nat
        BY <4>3, Numbers, LockoutAssumption
      <4>7. QED
        BY <2>3, <4>2, <4>3, <4>5, <4>6
    <3>2. QED
      BY <1>1, <1>3, <2>1, <3>1, KeepOpen
  <2>4. QED
    BY <1>3, <2>2, <2>3 DEF CountFailures
<1>4. QED
  BY <1>2, <1>3

LEMMA WrongKeeps ==
  ASSUME LongLock, LockTypes, LockInv, NEW r \in Login, WrongPassword(r)
  PROVE  LockInv'
<1>1. UNCHANGED <<clock, lock, unlocks>> /\ login[r].stage = "password" /\ Go(r, "failed")
  BY DEF WrongPassword
<1>2. clock \in Time /\ clock \in Nat /\ Record("invalid_credentials", 1)
  BY TimeFacts DEF WrongPassword, LockTypes
<1>3. Wrong' = [Wrong EXCEPT ![clock] = Wrong[clock] + 1]
  BY <1>2, Recorded DEF Outcomes
<1>4. \A t \in Time : t > clock => Wrong'[t] = Wrong[t]
  <2>1. ASSUME NEW t \in Time, t > clock PROVE Wrong'[t] = Wrong[t]
    <3>1. t # clock /\ Wrong \in [Time -> Nat]
      BY <1>2, <2>1, WrongFacts
    <3>2. QED
      BY <1>3, <2>1, <3>1
  <2>2. QED
    BY <2>1
<1>5. \A q \in Login : login'[q].stage \in {"password", "locking"} => login'[q] = login[q]
  BY <1>1 DEF Go, LockTypes, Requested
<1>6. Passing' = Passing \ {r} /\ Counting' = Counting \union {r} /\ r \in Passing /\ r \in Login \ Counting
  BY <1>1 DEF Passing, Counting, Go, LockTypes, Requested
<1>7. /\ Cardinality(Passing') = Cardinality(Passing) - 1 /\ Cardinality(Counting') = Cardinality(Counting) + 1
      /\ Cardinality(Passing) \in Nat /\ Cardinality(Counting) \in Nat
  BY <1>6, InFlight, Groups
<1>8. ASSUME NEW s \in Int
      PROVE  /\ s <= clock => Tries(s)' = Tries(s) + 1
             /\ ~(s <= clock) => Tries(s)' = Tries(s)
             /\ Tries(s) \in Nat /\ Pardons(s) \in Nat /\ Pardons(s)' = Pardons(s)
             /\ AllLogins * Pardons(s) \in Nat /\ Most \in Nat /\ AllLogins \in Nat
  <2>1. Tries(s) \in Nat /\ Pardons(s) \in Nat /\ Pardons(s)' = Pardons(s)
    BY <1>1, WrongFacts DEF Pardons, Since, Time
  <2>2. Tries(s)' = IF s <= clock THEN Tries(s) + 1 ELSE Tries(s)
    BY <1>3, WrongCounted
  <2>3. QED
    BY <2>1, <2>2, Numbers
<1>9. \A s \in Starts : s \in Int /\ s <= clock
  BY <1>2, Numbers DEF Starts
<1>10. CASE ~InForce
  <2>1. ASSUME NEW s \in Starts
        PROVE  Tries(s)' \in Nat /\ Tries(s)' <= Most - 1 + Cardinality(Counting') + AllLogins * Pardons(s)
    <3>1. Tries(s) <= Most - 1 + Cardinality(Counting) + AllLogins * Pardons(s)
      BY <1>10 DEF LockInv, WhileOpen
    <3>2. Tries(s)' = Tries(s) + 1 /\ Tries(s) \in Nat
      BY <1>8, <1>9
    <3>3. AllLogins * Pardons(s) \in Nat /\ Most \in Nat
      BY <1>8, <1>9
    <3>4. QED
      BY <1>7, <3>1, <3>2, <3>3
  <2>2. QED
    BY <1>1, <1>4, <1>5, <1>10, <2>1, KeepOpen
<1>11. CASE InForce
  <2>1. lock # NoLock /\ Opened \in Nat /\ Opened <= clock /\ WasThere(r)
    BY <1>1, <1>2, <1>11 DEF LockInv, Openings, WhileLocked, InForce
  <2>2. Opened' = Opened /\ InForce' /\ Starts' = Starts
    BY <1>1, <1>11 DEF Opened, InForce, Starts
  <2>3. NothingAhead'
    BY <1>1, <1>4 DEF LockInv, NothingAhead, Time
  <2>4. ASSUME NEW s \in Starts
        PROVE  Tries(s)' + Cardinality(Passing') <= Most - 1 + AllLogins + AllLogins * Pardons(s)'
    <3>1. Tries(s) + Cardinality(Passing) <= Most - 1 + AllLogins + AllLogins * Pardons(s)
      BY <1>11 DEF LockInv, WhileLocked
    <3>2. Tries(s)' = Tries(s) + 1 /\ Tries(s) \in Nat /\ Pardons(s)' = Pardons(s)
      BY <1>8, <1>9
    <3>3. AllLogins * Pardons(s) \in Nat /\ Most \in Nat /\ AllLogins \in Nat
      BY <1>8, <1>9
    <3>4. QED
      BY <1>7, <3>1, <3>2, <3>3
  <2>5. ASSUME NEW s \in Int, s = Opened + 1
        PROVE  Tries(s)' + Cardinality(Passing') <= AllLogins - 1
    <3>1. Tries(s) + Cardinality(Passing) <= AllLogins - 1
      BY <1>11, <2>5 DEF LockInv, WhileLocked
    <3>2. Tries(s) \in Nat /\ (Tries(s)' = Tries(s) + 1 \/ Tries(s)' = Tries(s)) /\ AllLogins \in Nat
      BY <1>8
    <3>3. QED
      BY <1>7, <3>1, <3>2
  <2>6. ASSUME NEW s \in Int, s = Opened + 2
        PROVE  Tries(s)' = 0
    <3>1. Tries(s) = 0
      BY <1>11, <2>6 DEF LockInv, WhileLocked
    <3>2. ~(s <= clock)
      BY <1>2, <2>1, <2>6 DEF WasThere
    <3>3. QED
      BY <1>8, <3>1, <3>2
  <2>7. ASSUME NEW q \in Login, login'[q].stage \in {"password", "locking"} PROVE WasThere(q)'
    <3>1. login'[q] = login[q] /\ WasThere(q)
      BY <1>5, <1>11, <2>1, <2>7 DEF LockInv, WhileLocked, Openings
    <3>2. QED
      BY <1>1, <2>2, <3>1 DEF WasThere
  <2>8. Tries(Opened + 1)' + Cardinality(Passing') <= AllLogins - 1 /\ Tries(Opened + 2)' = 0
    <3>1. Opened + 1 \in Int /\ Opened + 2 \in Int
      BY <2>1
    <3>2. \A s : s = Opened + 1 => Tries(s)' = SumOf(Wrong', Since(s))
      BY DEF Tries, Since, Time
    <3>3. SumOf(Wrong', Since(Opened + 1)) + Cardinality(Passing') <= AllLogins - 1
      BY <2>5, <3>1 DEF Tries, Since, Time
    <3>4. SumOf(Wrong', Since(Opened + 2)) = 0
      BY <2>6, <3>1 DEF Tries, Since, Time
    <3>5. QED
      BY <2>2, <3>3, <3>4 DEF Tries, Since, Time
  <2>9. WhileLocked'
    BY <2>2, <2>4, <2>7, <2>8 DEF WhileLocked, Most, AllLogins
  <2>10. WhileOpen'
    BY <2>2 DEF WhileOpen
  <2>11. Openings'
    BY <1>1, <1>2, <2>1, <2>2, <2>7 DEF Openings
  <2>12. QED
    BY <2>3, <2>9, <2>10, <2>11 DEF LockInv
<1>12. QED
  BY <1>10, <1>11

LEMMA OpeningKeeps ==
  ASSUME LongLock, LockTypes, LockInv, NEW r \in Login, OpenLockout(r)
  PROVE  LockInv'
<1>1. UNCHANGED <<clock, unlocks>> /\ Wrong' = Wrong /\ login[r].stage = "locking" /\ Done(r)
  BY DEF OpenLockout, Wrong, Time
<1>2. \A q \in Login : login'[q].stage \in {"password", "locking"} => login'[q] = login[q]
  BY <1>1 DEF Done, Idle, LockTypes
<1>3. clock \in Nat
  BY TimeFacts DEF LockTypes
<1>4. CASE lock # NoLock
  <2>1. WasThere(r) /\ Opened \in 0..clock /\ lock \in Int
    BY <1>1, <1>4, LockoutAssumption DEF LockInv, Openings, LockTypes
  <2>2. InForce /\ lock' = lock
    BY <1>3, <1>4, <2>1, Numbers DEF WasThere, Opened, InForce, OpenLockout
  <2>3. QED
    BY <1>1, <1>2, <2>2, KeepLocked
<1>5. CASE lock = NoLock
  <2>1. lock' = clock + LockFor /\ ~InForce /\ lock' # NoLock /\ LockFor \in Nat /\ LockFor >= 2
    BY <1>3, <1>5, LockoutAssumption, Numbers DEF OpenLockout, InForce
  <2>2. Opened' = clock /\ InForce' /\ Starts' = Starts
    BY <1>1, <1>3, <2>1 DEF Opened, InForce, Starts
  <2>3. NothingAhead'
    BY <1>1 DEF LockInv, NothingAhead, Time
  <2>4. \A s : Tries(s)' = Tries(s) /\ Pardons(s)' = Pardons(s)
    BY <1>1 DEF Tries, Pardons, Since, Time
  <2>5. Passing' = Passing /\ Passing \in SUBSET Login /\ Passing \in SUBSET (Login \ {r})
    BY <1>1, <1>2 DEF Passing, Done, Idle, LockTypes, Requested
  <2>6. Cardinality(Passing) \in Nat /\ Cardinality(Passing) <= AllLogins - 1
    <3>1. Login \in SUBSET Login /\ Login \ {r} \in SUBSET Login
      OBVIOUS
    <3>2. Cardinality(Passing) <= Cardinality(Login \ {r}) /\ Cardinality(Passing) \in Nat
      BY <2>5, <3>1, Groups
    <3>3. Cardinality(Login \ {r}) = Cardinality(Login) - 1
      BY <3>1, Groups
    <3>4. QED
      BY <3>2, <3>3 DEF AllLogins
  <2>7. ASSUME NEW s \in Starts
        PROVE  Tries(s)' + Cardinality(Passing') <= Most - 1 + AllLogins + AllLogins * Pardons(s)'
    <3>1. Tries(s) <= Most - 1 + Cardinality(Counting) + AllLogins * Pardons(s)
      BY <2>1 DEF LockInv, WhileOpen
    <3>2. Tries(s) \in Nat /\ AllLogins * Pardons(s) \in Nat /\ Most \in Nat /\ AllLogins \in Nat
      BY WrongFacts, Numbers
    <3>3. Cardinality(Passing) + Cardinality(Counting) <= AllLogins /\ Cardinality(Counting) \in Nat
      BY InFlight
    <3>4. QED
      BY <2>4, <2>5, <2>6, <3>1, <3>2, <3>3
  <2>8. ASSUME NEW s \in Int, s > clock PROVE SumOf(Wrong', Since(s)) = 0
    BY <1>1, <2>8, TriesFewer DEF LockInv, Tries
  <2>9. Tries(Opened + 1)' + Cardinality(Passing') <= AllLogins - 1 /\ Tries(Opened + 2)' = 0
    <3>1. clock + 1 \in Int /\ clock + 2 \in Int /\ clock + 1 > clock /\ clock + 2 > clock
      BY <1>3
    <3>2. SumOf(Wrong', Since(clock + 1)) = 0 /\ SumOf(Wrong', Since(clock + 2)) = 0
      BY <2>8, <3>1
    <3>3. QED
      BY <2>2, <2>5, <2>6, <3>2 DEF Tries, Since, Time
  <2>10. \A q \in Login : WasThere(q)'
    BY <1>1, <1>3, <2>2 DEF WasThere
  <2>11. WhileLocked'
    BY <2>2, <2>7, <2>9, <2>10 DEF WhileLocked, Most, AllLogins
  <2>12. WhileOpen'
    BY <2>2 DEF WhileOpen
  <2>13. Openings'
    BY <1>1, <1>3, <2>2, <2>10 DEF Openings
  <2>14. QED
    BY <2>3, <2>11, <2>12, <2>13 DEF LockInv
<1>6. QED
  BY <1>4, <1>5

LEMMA UnlockKeeps ==
  ASSUME LongLock, LockTypes, LockInv, Unlock
  PROVE  LockInv'
<1>1. UNCHANGED <<clock, login>> /\ Wrong' = Wrong /\ lock' = NoLock /\ Counting' = Counting /\ Starts' = Starts
  BY DEF Unlock, Wrong, Time, Counting, Starts
<1>2. CASE ~InForce
  <2>1. UNCHANGED unlocks
    BY <1>2 DEF Unlock
  <2>2. \A s \in Starts : Tries(s)' \in Nat /\ Tries(s)' <= Most - 1 + Cardinality(Counting') + AllLogins * Pardons(s)
    BY <1>1, <1>2, InFlight, StillOpen
  <2>3. QED
    BY <1>1, <1>2, <2>1, <2>2, KeepOpen
<1>3. CASE InForce
  <2>1. clock \in Time /\ clock \in Nat
    BY TimeFacts DEF LockTypes
  <2>2. unlocks' = [unlocks EXCEPT ![clock] = unlocks[clock] + 1]
    BY <1>3 DEF Unlock
  <2>3. NothingAhead'
    <3>1. ASSUME NEW t \in Time, t > clock PROVE Wrong'[t] = 0 /\ unlocks'[t] = 0
      <4>1. Wrong[t] = 0 /\ unlocks[t] = 0
        BY <3>1 DEF LockInv, NothingAhead
      <4>2. t # clock /\ unlocks \in [Time -> Nat]
        BY <2>1, <3>1, WrongFacts
      <4>3. QED
        BY <1>1, <2>2, <3>1, <4>1, <4>2
    <3>2. QED
      BY <1>1, <3>1 DEF NothingAhead, Time
  <2>4. ~InForce'
    BY <1>1 DEF InForce
  <2>5. ASSUME NEW s \in Starts
        PROVE  Tries(s)' <= Most - 1 + Cardinality(Counting') + AllLogins * Pardons(s)'
    <3>1. Tries(s) + Cardinality(Passing) <= Most - 1 + AllLogins + AllLogins * Pardons(s)
      BY <1>3 DEF LockInv, WhileLocked
    <3>2. s \in Int /\ s <= clock
      BY <2>1, Numbers DEF Starts
    <3>3. Pardons(s)' = Pardons(s) + 1
      BY <2>2, <3>2, UnlockCounted
    <3>4. Tries(s)' = Tries(s)
      BY <1>1 DEF Tries, Since, Time
    <3>5. Tries(s) \in Nat /\ Pardons(s) \in Nat /\ Most \in Nat /\ AllLogins \in Nat
      BY WrongFacts, Numbers
    <3>6. \A p, n \in Nat : n * (p + 1) = n + n * p /\ n * p \in Nat
      OBVIOUS
    <3>7. AllLogins * (Pardons(s) + 1) = AllLogins + AllLogins * Pardons(s) /\ AllLogins * Pardons(s) \in Nat
      BY <3>5, <3>6
    <3>8. Cardinality(Passing) \in Nat /\ Cardinality(Counting) \in Nat
      BY InFlight
    <3>9. QED
      BY <1>1, <3>1, <3>3, <3>4, <3>5, <3>7, <3>8
  <2>6. WhileLocked' /\ Openings'
    BY <1>1, <2>4 DEF WhileLocked, Openings
  <2>7. WhileOpen'
    BY <1>1, <2>5 DEF WhileOpen, Most, AllLogins
  <2>8. QED
    BY <2>3, <2>6, <2>7 DEF LockInv
<1>4. QED
  BY <1>2, <1>3

LEMMA TickKeeps ==
  ASSUME LongLock, LockTypes, LockInv, Tick
  PROVE  LockInv'
<1>1. UNCHANGED <<lock, unlocks>> /\ Wrong' = Wrong /\ clock' = clock + 1 /\ clock \in Nat
  BY TimeFacts DEF Tick, Wrong, Time, LockTypes
<1>2. ASSUME NEW r \in Login
      PROVE  /\ login'[r].stage = login[r].stage /\ ~login[r].ticked
             /\ login[r].stage # "idle" => login'[r].ticked
  <2>1. login'[r] = [login[r] EXCEPT !.ticked = login[r].stage # "idle"] /\ ~login[r].ticked
    BY DEF Tick
  <2>2. login[r] \in Requested
    BY DEF LockTypes
  <2>3. QED
    BY <2>1, <2>2 DEF Requested
<1>3. Passing' = Passing /\ Counting' = Counting
  BY <1>2 DEF Passing, Counting
<1>4. \A s : Tries(s)' = Tries(s) /\ Pardons(s)' = Pardons(s)
  BY <1>1 DEF Tries, Pardons, Since, Time
<1>5. NothingAhead'
  <2>1. ASSUME NEW t \in Time, t > clock' PROVE Wrong'[t] = 0 /\ unlocks'[t] = 0
    <3>1. t > clock
      BY <1>1, <2>1, TimeFacts
    <3>2. QED
      BY <1>1, <2>1, <3>1 DEF LockInv, NothingAhead
  <2>2. QED
    BY <2>1 DEF NothingAhead, Time
<1>6. ASSUME NEW s \in Starts'
      PROVE  /\ s \in Int /\ (s \in Starts \/ (s = clock + 1 /\ Tries(s) = 0))
             /\ clock + 2 - Window <= s
             /\ Tries(s) \in Nat /\ Pardons(s) \in Nat /\ AllLogins * Pardons(s) \in Nat
  <2>1. s \in Int /\ (s \in Starts \/ s = clock + 1) /\ clock + 2 - Window <= s
    BY <1>1, <1>6, Numbers DEF Starts
  <2>2. s = clock + 1 => Tries(s) = 0
    BY <1>1, <2>1, TriesFewer DEF LockInv
  <2>3. Tries(s) \in Nat /\ Pardons(s) \in Nat /\ AllLogins \in Nat
    BY WrongFacts, Numbers
  <2>4. QED
    BY <2>1, <2>2, <2>3
<1>7. /\ Most \in Nat /\ Most >= 1 /\ AllLogins \in Nat /\ AllLogins <= Most
      /\ Cardinality(Passing) \in Nat /\ Cardinality(Counting) \in Nat
      /\ Cardinality(Passing) + Cardinality(Counting) <= AllLogins
  BY Numbers, InFlight
<1>8. Opened' = Opened
  BY <1>1 DEF Opened
<1>9. ASSUME NEW r \in Login, login[r].stage # "idle", lock # NoLock, WasThere(r) PROVE WasThere(r)'
  <2>1. clock <= Opened /\ login'[r].ticked
    BY <1>2, <1>9 DEF WasThere
  <2>2. Opened \in Int
    BY <1>9, LockoutAssumption DEF LockTypes, Opened
  <2>3. clock' <= Opened' + 1
    BY <1>1, <1>8, <2>1, <2>2
  <2>4. QED
    BY <2>1, <2>3 DEF WasThere
<1>10. ASSUME ~InForce PROVE WhileLocked' /\ WhileOpen'
  <2>1. ~InForce'
    BY <1>1, <1>10, LockoutAssumption DEF InForce, LockTypes
  <2>2. ASSUME NEW s \in Starts'
        PROVE  Tries(s)' <= Most - 1 + Cardinality(Counting') + AllLogins * Pardons(s)'
    <3>1. CASE s \in Starts
      BY <1>3, <1>4, <1>10, <3>1 DEF LockInv, WhileOpen
    <3>2. CASE Tries(s) = 0
      BY <1>3, <1>4, <1>6, <1>7, <2>2, <3>2
    <3>3. QED
      BY <1>6, <2>2, <3>1, <3>2
  <2>3. WhileLocked' /\ WhileOpen'
    BY <2>1, <2>2 DEF WhileLocked, WhileOpen, Most, AllLogins
  <2>4. QED
    BY <2>3
<1>11. ASSUME InForce /\ InForce' PROVE WhileLocked' /\ WhileOpen'
  <2>1. ASSUME NEW s \in Starts'
        PROVE  Tries(s)' + Cardinality(Passing') <= Most - 1 + AllLogins + AllLogins * Pardons(s)'
    <3>1. CASE s \in Starts
      BY <1>3, <1>4, <1>11, <3>1 DEF LockInv, WhileLocked
    <3>2. CASE Tries(s) = 0
      BY <1>3, <1>4, <1>6, <1>7, <2>1, <3>2
    <3>3. QED
      BY <1>6, <2>1, <3>1, <3>2
  <2>2. Tries(Opened + 1)' + Cardinality(Passing') <= AllLogins - 1 /\ Tries(Opened + 2)' = 0
    BY <1>1, <1>3, <1>11 DEF LockInv, WhileLocked, Tries, Opened, Since, Time
  <2>3. ASSUME NEW r \in Login, login'[r].stage = "password" PROVE WasThere(r)'
    BY <1>2, <1>9, <1>11, <2>3 DEF LockInv, WhileLocked, InForce
  <2>4. WhileLocked' /\ WhileOpen'
    BY <1>11, <2>1, <2>2, <2>3 DEF WhileLocked, WhileOpen, Most, AllLogins
  <2>5. QED
    BY <2>4
<1>12. ASSUME InForce /\ ~InForce' PROVE WhileLocked' /\ WhileOpen'
  <2>1. lock \in Int /\ lock = clock + 1 /\ lock # NoLock
    BY <1>1, <1>12, LockoutAssumption DEF InForce, LockTypes
  <2>2. ASSUME NEW s \in Starts'
        PROVE  Tries(s)' <= Most - 1 + Cardinality(Counting') + AllLogins * Pardons(s)'
    <3>1. Opened \in Int /\ Opened + 1 \in Int /\ Opened + 1 <= s
      BY <1>1, <1>6, <2>1, <2>2, Numbers DEF Opened
    <3>2. Tries(s) <= Tries(Opened + 1) /\ Tries(Opened + 1) \in Nat
      BY <1>6, <2>2, <3>1, TriesFewer, WrongFacts DEF LockInv
    <3>3. Tries(Opened + 1) + Cardinality(Passing) <= AllLogins - 1
      BY <1>12 DEF LockInv, WhileLocked
    <3>4. QED
      BY <1>3, <1>4, <1>6, <1>7, <2>2, <3>2, <3>3
  <2>3. WhileLocked' /\ WhileOpen'
    BY <1>12, <2>2 DEF WhileLocked, WhileOpen, Most, AllLogins
  <2>4. QED
    BY <2>3
<1>13. Openings'
  <2>1. SUFFICES ASSUME lock # NoLock PROVE Openings'
    BY <1>1 DEF Openings
  <2>2. Opened' \in 0..clock'
    BY <1>1, <1>8, <2>1 DEF LockInv, Openings
  <2>3. ASSUME NEW r \in Login, login'[r].stage = "locking" PROVE WasThere(r)'
    BY <1>2, <1>9, <2>1, <2>3 DEF LockInv, Openings
  <2>4. QED
    BY <2>2, <2>3 DEF Openings
<1>14. WhileLocked' /\ WhileOpen'
  BY <1>10, <1>11, <1>12
<1>15. QED
  BY <1>5, <1>13, <1>14 DEF LockInv

LEMMA LockInvHolds == LongLock /\ LockSpec => []LockInv
<1>1. SUFFICES ASSUME LongLock PROVE LockSpec => []LockInv
  OBVIOUS
<1>2. LockInit => LockInv
  <2>1. SUFFICES ASSUME LockInit PROVE LockInv
    OBVIOUS
  <2>2. LockTypes
    <3>1. 0 \in 0..MaxRows /\ 0 \in 0..MaxUnlocks /\ 0 \in Time
      BY LockoutAssumption, TimeFacts
    <3>2. QED
      BY <2>1, <3>1 DEF LockInit, LockTypes, Idle, Requested, Stages, Accounts
  <2>3. \A t \in Time : Wrong[t] = 0 /\ unlocks[t] = 0
    BY <2>1 DEF LockInit, Wrong, Outcomes
  <2>4. ~InForce /\ lock = NoLock
    BY <2>1 DEF LockInit, InForce
  <2>5. ASSUME NEW s \in Starts
        PROVE  Tries(s) <= Most - 1 + Cardinality(Counting) + AllLogins * Pardons(s)
    <3>1. IsFiniteSet(Since(s)) /\ \A t \in Since(s) : Wrong[t] \in 0..0
      BY <2>3, TimeFacts DEF Since
    <3>2. SumOf(Wrong, Since(s)) <= 0 * Cardinality(Since(s)) /\ Cardinality(Since(s)) \in Nat
      BY <3>1, SumBound, FS_CardinalityType
    <3>3. Tries(s) <= 0
      BY <3>2 DEF Tries
    <3>4. Tries(s) \in Nat /\ Pardons(s) \in Nat /\ AllLogins \in Nat /\ Most \in Nat /\ Most >= 1
      BY <1>1, <2>2, WrongFacts, Numbers
    <3>5. Cardinality(Counting) \in Nat /\ AllLogins * Pardons(s) \in Nat
      BY <1>1, <3>4, InFlight
    <3>6. QED
      BY <3>3, <3>4, <3>5
  <2>6. QED
    BY <2>3, <2>4, <2>5 DEF LockInv, NothingAhead, WhileLocked, WhileOpen, Openings
<1>3. ASSUME LockTypes, LockInv, [LockNext]_lockVars PROVE LockInv'
  <2>1. ASSUME UNCHANGED <<clock, rows, lock, unlocks, login>> PROVE LockInv'
    BY <1>3, <2>1 DEF LockInv, NothingAhead, WhileLocked, WhileOpen, Openings, InForce, Starts, Tries,
      Pardons, Wrong, Passing, Counting, Opened, WasThere, Since, Time, Most, AllLogins
  <2>2. CASE ChangeAccount \/ UNCHANGED lockVars
    BY <2>1, <2>2 DEF ChangeAccount, lockVars
  <2>3. QED
    BY <1>1, <1>3, <2>2, ArrivesKeeps, WrongKeeps, RightKeeps, CountKeeps, OpeningKeeps, UnlockKeeps, TickKeeps DEF LockNext
<1>4. QED
  BY <1>2, <1>3, LockTypesHold, PTL DEF LockSpec

\* However many requests are in flight and however they interleave, where a
\* lockout lasts longer than a request and at least as long as the window in
\* which failures are counted, as the defaults of the settings have it, no
\* window ever holds more wrong passwords than the threshold and the requests
\* past the test of get_active_lockout allow.
THEOREM GuessesAreBounded == LongLock /\ LockSpec => []GuessesBounded
<1>1. SUFFICES ASSUME LongLock PROVE LockSpec => []GuessesBounded
  OBVIOUS
<1>2. LockTypes /\ LockInv => GuessesBounded
  <2>1. SUFFICES ASSUME LockTypes, LockInv PROVE GuessesBounded
    OBVIOUS
  <2>2. DEFINE s == clock - Window + 1
  <2>3. s \in Starts
    BY <1>1, <2>1, TimeFacts, Numbers DEF Starts, LockTypes
  <2>4. Guesses = Tries(s) /\ Unlocked = Pardons(s)
    BY <2>1, CountWrong, SumIsSumOf DEF Guesses, Unlocked, Pardons
  <2>5. HIDE DEF s
  <2>6. Tries(s) \in Nat /\ Pardons(s) \in Nat /\ Most \in Nat /\ AllLogins \in Nat
    BY <1>1, <2>1, WrongFacts, Numbers
  <2>7. /\ Cardinality(Passing) \in Nat /\ Cardinality(Counting) \in Nat
        /\ Cardinality(Passing) + Cardinality(Counting) <= AllLogins
    BY <1>1, InFlight
  <2>8. AllLogins * Pardons(s) \in Nat
    BY <2>6
  <2>9. Tries(s) <= Most - 1 + AllLogins + AllLogins * Pardons(s)
    <3>1. CASE InForce
      <4>1. Tries(s) + Cardinality(Passing) <= Most - 1 + AllLogins + AllLogins * Pardons(s)
        BY <2>1, <2>3, <3>1 DEF LockInv, WhileLocked
      <4>2. QED
        BY <2>6, <2>7, <2>8, <4>1
    <3>2. CASE ~InForce
      <4>1. Tries(s) <= Most - 1 + Cardinality(Counting) + AllLogins * Pardons(s)
        BY <2>1, <2>3, <3>2 DEF LockInv, WhileOpen
      <4>2. QED
        BY <2>6, <2>7, <2>8, <4>1
    <3>3. QED
      BY <3>1, <3>2
  <2>10. \A p, n \in Nat : n * (1 + p) = n + n * p
    OBVIOUS
  <2>11. AllLogins * (1 + Pardons(s)) = AllLogins + AllLogins * Pardons(s)
    BY <2>6, <2>10
  <2>12. Guesses <= Most - 1 + AllLogins * (1 + Unlocked)
    BY <2>4, <2>6, <2>8, <2>9, <2>11
  <2>13. Most \in {Threshold, Cardinality(Login)}
    BY <1>1, Numbers DEF AllLogins
  <2>14. QED
    BY <2>12, <2>13 DEF GuessesBounded, AllLogins
<1>3. QED
  BY <1>2, <1>1, LockTypesHold, LockInvHolds, PTL
=============================================================================
