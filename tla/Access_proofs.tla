----------------------------- MODULE Access_proofs -----------------------------
(***************************************************************************)
(* Proofs about Access: types, one admin per setup token, a way in for an  *)
(* installation without an admin, and true claims in signed tokens, for    *)
(* any numbers of users, groups, roles, requests and starts.               *)
(***************************************************************************)
EXTENDS Access, FiniteSetTheorems, TLAPS

UserRow == [email : Emails, role : Roles \cup validRoles]

-----------------------------------------------------------------------------
(* Types.                                                                  *)

\* What TypeOK says of users and groups, without the quantified domain.
LEMMA Domains ==
    ASSUME TypeOK
    PROVE  /\ DOMAIN users \subseteq given
           /\ users \in [DOMAIN users -> UserRow]
           /\ DOMAIN groups \subseteq GroupIds
           /\ groups \in [DOMAIN groups -> GroupNames]
  BY DEF TypeOK, UserRow

\* And back.
LEMMA FromDomains ==
    ASSUME DOMAIN users' \subseteq given', users' \in [DOMAIN users' -> UserRow]
    PROVE  \E D \in SUBSET given' :
             users' \in [D -> [email : Emails, role : Roles \cup validRoles]]
  BY DEF UserRow

LEMMA FromGroups ==
    ASSUME DOMAIN groups' \subseteq GroupIds, groups' \in [DOMAIN groups' -> GroupNames]
    PROVE  \E D \in SUBSET GroupIds : groups' \in [D -> GroupNames]
  OBVIOUS

\* Group names signed into a token are group names.
LEMMA NamesType ==
    ASSUME TypeOK, NEW u
    PROVE  userGroupNames(u) \subseteq GroupNames
<1>1. \A m \in members : groups[m[2]] \in GroupNames
  BY Domains DEF TypeOK
<1> QED BY <1>1 DEF userGroupNames

LEMMA TypeInit == Init => TypeOK
<1> SUFFICES ASSUME Init PROVE TypeOK
  OBVIOUS
<1>1. users \in [{} -> UserRow] /\ groups \in [{} -> GroupNames]
  BY DEF Init
<1>2. setup \in Setup /\ made \in [1..MaxStarts -> Nat] /\ starts \in 1..MaxStarts
  BY AccessAssumption DEF Init, Setup, GenerateToken
<1>3. req \in [Procs -> Request]
  BY DEF Init, Request
<1>4. logins \in 0..MaxLogins /\ edits \in 0..MaxEdits
  BY AccessAssumption DEF Init
<1> QED BY <1>1, <1>2, <1>3, <1>4 DEF Init, TypeOK, UserRow

\* A request that ends, or one that goes on, keeps the requests typed.
LEMMA GoType ==
    ASSUME TypeOK, NEW p \in Procs, NEW r \in Request, Go(p, r)
    PROVE  req' \in [Procs -> Request]
  BY DEF TypeOK, Go

LEMMA IdleType == Idle \in Request
  BY DEF Request

\* The INSERT of a user.
LEMMA InsertType ==
    ASSUME TypeOK, NEW u \in UserIds, NEW email \in Emails,
           NEW role \in Roles \cup validRoles, insertUser(u, email, role)
    PROVE  /\ \E D \in SUBSET given' :
                users' \in [D -> [email : Emails, role : Roles \cup validRoles]]
           /\ given' \subseteq UserIds
           /\ members \subseteq (DOMAIN users') \X (DOMAIN groups)
<1>1. DOMAIN users' = DOMAIN users \cup {u}
  BY DEF insertUser
<1>2. \A v \in DOMAIN users \cup {u} : users'[v] \in UserRow
  BY Domains DEF insertUser, UserRow
<1>3. users' \in [DOMAIN users' -> UserRow]
  BY <1>1, <1>2 DEF insertUser
<1>4. DOMAIN users' \subseteq given'
  BY <1>1, Domains DEF insertUser
<1>5. given' \subseteq UserIds
  BY DEF TypeOK, insertUser
<1>6. members \subseteq (DOMAIN users') \X (DOMAIN groups)
  BY <1>1 DEF TypeOK
<1> QED BY <1>3, <1>4, <1>5, <1>6, FromDomains

\* A signed token.
LEMMA IssueType ==
    ASSUME TypeOK, NEW p \in Procs, req[p].at \in {"groups", "issue"},
           NEW names \in SUBSET GroupNames, IssueToken(req[p], names)
    PROVE  tokens' \subseteq Token
<1>1. /\ req[p].user \in UserIds
      /\ req[p].role \in Roles \cup validRoles
      /\ req[p].current \in BOOLEAN
  BY DEF TypeOK, Request, Idle
<1>2. [user |-> req[p].user, role |-> req[p].role,
       groups |-> names, current |-> req[p].current] \in Token
  BY <1>1 DEF Token
<1> QED BY <1>2 DEF TypeOK, IssueToken

\* What an administrator's change marks stays typed.
LEMMA ChangedType ==
    ASSUME TypeOK, NEW U, Changed(U)
    PROVE  tokens' \subseteq Token /\ req' \in [Procs -> Request]
<1>1. \A t \in tokens : (IF t.user \in U THEN [t EXCEPT !.current = FALSE] ELSE t) \in Token
  BY DEF TypeOK, Token
<1>2. tokens' \subseteq Token
  BY <1>1 DEF Changed
<1>3. ASSUME NEW p \in Procs, req[p].at \in {"groups", "issue"}
      PROVE  [req[p] EXCEPT !.current = FALSE] \in Request
  <2> DEFINE Signing == [at : {"groups", "issue"}, user : UserIds,
                         role : Roles \cup validRoles, current : BOOLEAN]
  <2>1. req[p] \in Signing
    BY <1>3 DEF TypeOK, Request, Idle
  <2>2. [req[p] EXCEPT !.current = FALSE] \in Signing
    BY <2>1
  <2> QED BY <2>2 DEF Request
<1>4. \A p \in Procs :
        (IF req[p].at \in {"groups", "issue"}
         THEN IF req[p].user \in U THEN [req[p] EXCEPT !.current = FALSE] ELSE req[p]
         ELSE req[p]) \in Request
  BY <1>3 DEF TypeOK
<1>5. req' \in [Procs -> Request]
  BY <1>4 DEF Changed
<1> QED BY <1>2, <1>5

LEMMA EditType ==
    ASSUME TypeOK, Edit
    PROVE  edits' \in 0..MaxEdits
  BY AccessAssumption DEF TypeOK, Edit

\* Every step keeps the types.
LEMMA TypeStep == TypeOK /\ [Next]_vars => TypeOK'
<1> SUFFICES ASSUME TypeOK, [Next]_vars PROVE TypeOK'
  OBVIOUS
<1> USE DEF TypeOK
<1>1. ASSUME NEW u \in UserIds, NEW email \in Emails, NEW role \in Roles,
             Register(u, email, role)
      PROVE  TypeOK'
  <2>1. role \in Roles \cup validRoles
    OBVIOUS
  <2>2. insertUser(u, email, role)
    BY <1>1 DEF Register
  <2> QED BY <1>1, <2>1, <2>2, InsertType DEF Register
<1>2. ASSUME NEW p \in Procs, Serve(p) PROVE TypeOK'
  <2>1. CASE Login(p)
    <3>1. PICK u \in DOMAIN users :
            Go(p, [at |-> "groups", user |-> u, role |-> users[u].role, current |-> TRUE])
      BY <2>1 DEF Login
    <3>2. [at |-> "groups", user |-> u, role |-> users[u].role, current |-> TRUE] \in Request
      BY Domains DEF Request, UserRow
    <3>3. req' \in [Procs -> Request]
      BY <3>1, <3>2, GoType
    <3>4. logins' \in 0..MaxLogins
      BY <2>1, AccessAssumption DEF Login
    <3> QED BY <2>1, <3>3, <3>4 DEF Login
  <2>2. CASE loadGroups(p)
    <3>1. tokens' \subseteq Token
      BY <2>2, NamesType, IssueType DEF loadGroups, At
    <3>2. req' \in [Procs -> Request]
      BY <2>2, GoType, IdleType DEF loadGroups
    <3> QED BY <2>2, <3>1, <3>2 DEF loadGroups
  <2>3. ASSUME NEW n \in 1..MaxStarts, Consume(p, n) PROVE TypeOK'
    <3>1. [at |-> "register", token |-> n] \in Request
      BY DEF Request
    <3>2. req' \in [Procs -> Request]
      BY <2>3, <3>1, GoType DEF Consume
    <3>3. setup' \in Setup
      BY <2>3 DEF Consume, Setup
    <3> QED BY <2>3, <3>2, <3>3 DEF Consume
  <2>4. CASE registerAdmin(p)
    <3>1. PICK u \in UserIds, email \in Emails :
            /\ insertUser(u, email, "admin")
            /\ Go(p, [at |-> "issue", user |-> u, role |-> "admin", current |-> TRUE])
      BY <2>4 DEF registerAdmin
    <3>2. "admin" \in Roles \cup validRoles
      BY DEF validRoles
    <3>3. [at |-> "issue", user |-> u, role |-> "admin", current |-> TRUE] \in Request
      BY <3>2 DEF Request
    <3>4. req' \in [Procs -> Request]
      BY <3>1, <3>3, GoType
    <3>5. made' \in [1..MaxStarts -> Nat]
      <4>1. req[p].token \in 1..MaxStarts
        BY <2>4 DEF registerAdmin, At, Request, Idle
      <4> QED BY <2>4, <4>1 DEF registerAdmin
    <3> QED BY <2>4, <3>1, <3>2, <3>4, <3>5, InsertType DEF registerAdmin
  <2>5. CASE registerFails(p)
    <3>1. req' \in [Procs -> Request]
      BY <2>5, GoType, IdleType DEF registerFails
    <3> QED BY <2>5, <3>1 DEF registerFails
  <2>6. CASE issueAdmin(p)
    <3>1. tokens' \subseteq Token
      BY <2>6, IssueType DEF issueAdmin, At
    <3>2. req' \in [Procs -> Request]
      BY <2>6, GoType, IdleType DEF issueAdmin
    <3> QED BY <2>6, <3>1, <3>2 DEF issueAdmin
  <2> QED BY <1>2, <2>1, <2>2, <2>3, <2>4, <2>5, <2>6 DEF Serve
<1>3. CASE Administration
  <2> USE <1>3
  <2>1. ASSUME NEW u \in UserIds, DeleteUser(u) PROVE TypeOK'
    <3>1. users' \in [DOMAIN users' -> UserRow] /\ DOMAIN users' \subseteq given'
      BY <2>1, Domains DEF DeleteUser
    <3>2. members' \subseteq (DOMAIN users') \X (DOMAIN groups')
      BY <2>1 DEF DeleteUser
    <3>3. tokens' \subseteq Token /\ req' \in [Procs -> Request]
      BY <2>1, ChangedType DEF DeleteUser
    <3>4. edits' \in 0..MaxEdits
      BY <2>1, EditType DEF DeleteUser
    <3> QED BY <2>1, <3>1, <3>2, <3>3, <3>4, FromDomains DEF DeleteUser
  <2>2. ASSUME NEW u \in UserIds, NEW role \in Roles, UpdateUserRole(u, role) PROVE TypeOK'
    <3>1. users' \in [DOMAIN users' -> UserRow] /\ DOMAIN users' = DOMAIN users
      BY <2>2, Domains DEF UpdateUserRole, UserRow
    <3>2. tokens' \subseteq Token /\ req' \in [Procs -> Request]
      BY <2>2, ChangedType DEF UpdateUserRole
    <3>3. edits' \in 0..MaxEdits
      BY <2>2, EditType DEF UpdateUserRole
    <3>4. DOMAIN users' \subseteq given'
      BY <2>2, <3>1, Domains DEF UpdateUserRole
    <3>5. members' \subseteq (DOMAIN users') \X (DOMAIN groups')
      BY <2>2, <3>1 DEF UpdateUserRole
    <3> QED BY <2>2, <3>1, <3>2, <3>3, <3>4, <3>5, FromDomains DEF UpdateUserRole
  <2>3. ASSUME NEW g \in GroupIds, NEW name \in GroupNames, CreateGroup(g, name) PROVE TypeOK'
    <3>1. DOMAIN groups' = DOMAIN groups \cup {g}
      BY <2>3 DEF CreateGroup
    <3>2. groups' \in [DOMAIN groups' -> GroupNames] /\ DOMAIN groups' \subseteq GroupIds
      BY <2>3, Domains DEF CreateGroup
    <3>3. edits' \in 0..MaxEdits
      BY <2>3, EditType DEF CreateGroup
    <3>4. members' \subseteq (DOMAIN users') \X (DOMAIN groups')
      BY <2>3, <3>1 DEF CreateGroup
    <3> QED BY <2>3, <3>2, <3>3, <3>4, FromGroups DEF CreateGroup
  <2>4. ASSUME NEW g \in GroupIds, DeleteGroup(g) PROVE TypeOK'
    <3>1. groups' \in [DOMAIN groups' -> GroupNames] /\ DOMAIN groups' \subseteq GroupIds
      BY <2>4, Domains DEF DeleteGroup
    <3>2. members' \subseteq (DOMAIN users') \X (DOMAIN groups')
      BY <2>4 DEF DeleteGroup, cascade
    <3>3. tokens' \subseteq Token /\ req' \in [Procs -> Request]
      BY <2>4, ChangedType DEF DeleteGroup
    <3>4. edits' \in 0..MaxEdits
      BY <2>4, EditType DEF DeleteGroup
    <3> QED BY <2>4, <3>1, <3>2, <3>3, <3>4, FromGroups DEF DeleteGroup
  <2>5. ASSUME NEW u \in UserIds, NEW g \in GroupIds, AddUserToGroup(u, g) PROVE TypeOK'
    <3>1. tokens' \subseteq Token /\ req' \in [Procs -> Request]
      BY <2>5, ChangedType DEF AddUserToGroup
    <3>2. edits' \in 0..MaxEdits
      BY <2>5, EditType DEF AddUserToGroup
    <3> QED BY <2>5, <3>1, <3>2 DEF AddUserToGroup
  <2>6. ASSUME NEW u \in UserIds, NEW g \in GroupIds, RemoveUserFromGroup(u, g) PROVE TypeOK'
    <3>1. tokens' \subseteq Token /\ req' \in [Procs -> Request]
      BY <2>6, ChangedType DEF RemoveUserFromGroup
    <3>2. edits' \in 0..MaxEdits
      BY <2>6, EditType DEF RemoveUserFromGroup
    <3> QED BY <2>6, <3>1, <3>2 DEF RemoveUserFromGroup
  <2> QED BY <2>1, <2>2, <2>3, <2>4, <2>5, <2>6 DEF Administration
<1>4. ASSUME NEW n \in tokens, TokenExpires(n) PROVE TypeOK'
  BY <1>4 DEF TokenExpires
<1>5. CASE SetupExpires
  BY <1>5 DEF SetupExpires, Setup
<1>6. CASE Restart
  <2>1. starts' \in 1..MaxStarts
    BY <1>6, AccessAssumption DEF Restart
  <2>2. setup' \in Setup
    <3>1. starts + 1 \in 0..MaxStarts /\ 0 \in 0..MaxStarts
      BY <1>6, AccessAssumption DEF Restart
    <3>2. GenerateToken(starts + 1) \in Setup /\ NewSetupManager \in Setup
      BY <3>1 DEF GenerateToken, NewSetupManager, Setup
    <3> QED BY <1>6, <3>2 DEF Restart
  <2>3. req' \in [Procs -> Request]
    BY <1>6, IdleType DEF Restart
  <2> QED BY <1>6, <2>1, <2>2, <2>3 DEF Restart
<1>7. CASE UNCHANGED vars
  BY <1>7 DEF vars
<1> QED BY <1>1, <1>2, <1>3, <1>4, <1>5, <1>6, <1>7 DEF Next

\* State is well-typed, and every membership joins a user and a group there
\* are: internal/iam/service.go and the cascades of user_groups.
THEOREM TypeCorrect == Spec => []TypeOK
  BY TypeInit, TypeStep, PTL DEF Spec

-----------------------------------------------------------------------------
(* One admin per setup token.                                              *)

Registering(p, n) == At(p, "register") /\ req[p].token = n

\* A setup token that a start has yet to generate, or that can still be
\* consumed, has made nobody; a request past Consume is the only one with its
\* token, which is this start's and has made nobody so far.
OneInv ==
    /\ \A n \in 1..MaxStarts : made[n] <= 1
    /\ \A n \in 1..MaxStarts : n > starts => made[n] = 0
    /\ setup.token \in {0, starts}
    /\ setup.token # 0 /\ ~setup.consumed =>
          made[setup.token] = 0 /\ \A p \in Procs : ~At(p, "register")
    /\ \A p \in Procs : At(p, "register") =>
          /\ req[p].token = setup.token /\ setup.token # 0
          /\ made[req[p].token] = 0
          /\ \A q \in Procs : At(q, "register") => q = p

\* Nothing OneInv speaks of changes.
LEMMA OneSame ==
    ASSUME TypeOK, OneInv, made' = made, starts' = starts, setup' = setup,
           \A p \in Procs : At(p, "register")' =>
              At(p, "register") /\ req'[p] = req[p]
    PROVE  OneInv'
  BY DEF OneInv, At

\* One request that was not registering goes on, and does not register.
LEMMA OneGo ==
    ASSUME TypeOK, OneInv, made' = made, starts' = starts, setup' = setup,
           NEW p \in Procs, NEW r, Go(p, r), r.at # "register"
    PROVE  OneInv'
<1>1. \A q \in Procs : At(q, "register")' => At(q, "register") /\ req'[q] = req[q]
  BY DEF TypeOK, At, Go
<1> QED BY <1>1, OneSame

LEMMA OneChanged ==
    ASSUME TypeOK, OneInv, made' = made, starts' = starts, setup' = setup,
           NEW U, Changed(U)
    PROVE  OneInv'
<1>1. ASSUME NEW q \in Procs, At(q, "register")'
      PROVE  At(q, "register") /\ req'[q] = req[q]
  <2>1. CASE req[q].at \in {"groups", "issue"}
    <3>1. req[q] \in [at : {"groups", "issue"}, user : UserIds,
                      role : Roles \cup validRoles, current : BOOLEAN]
      BY <2>1, <1>1 DEF TypeOK, Request, Idle
    <3>2. req'[q].at = req[q].at
      BY <2>1, <1>1, <3>1 DEF Changed
    <3> QED BY <1>1, <2>1, <3>2 DEF At
  <2>2. CASE req[q].at \notin {"groups", "issue"}
    BY <1>1, <2>2 DEF Changed, At
  <2> QED BY <2>1, <2>2
<1> QED BY <1>1, OneSame

LEMMA OneStep == TypeOK /\ OneInv /\ [Next]_vars => OneInv'
<1> SUFFICES ASSUME TypeOK, OneInv, [Next]_vars PROVE OneInv'
  OBVIOUS
<1>1. ASSUME NEW u, NEW email, NEW role, Register(u, email, role) PROVE OneInv'
  BY <1>1, OneSame DEF Register, At
<1>2. ASSUME NEW p \in Procs, Serve(p) PROVE OneInv'
  <2>1. CASE Login(p)
    <3>1. PICK u : Go(p, [at |-> "groups", user |-> u, role |-> users[u].role, current |-> TRUE])
      BY <2>1 DEF Login
    <3> QED BY <2>1, <3>1, OneGo DEF Login
  <2>2. CASE loadGroups(p)
    BY <2>2, OneGo DEF loadGroups, Idle
  <2>3. ASSUME NEW n \in 1..MaxStarts, Consume(p, n) PROVE OneInv'
    <3>1. setup.token = n /\ ~setup.consumed /\ n # 0
      BY <2>3 DEF Consume, Consumable
    <3>2. setup'.token = n /\ setup'.consumed
      BY <2>3, <3>1 DEF Consume, TypeOK, Setup
    <3>3. req'[p] = [at |-> "register", token |-> n]
      BY <2>3 DEF Consume, Go, TypeOK
    <3>4. \A q \in Procs : At(q, "register")' => q = p
      BY <2>3, <3>1 DEF Consume, Go, TypeOK, At, OneInv
    <3> QED BY <2>3, <3>1, <3>2, <3>3, <3>4 DEF OneInv, Consume, At
  <2>4. CASE registerAdmin(p)
    <3>1. PICK u : Go(p, [at |-> "issue", user |-> u, role |-> "admin", current |-> TRUE])
      BY <2>4 DEF registerAdmin
    <3>2. req[p].token \in 1..MaxStarts /\ made[req[p].token] = 0
      BY <2>4 DEF registerAdmin, At, TypeOK, Request, Idle, OneInv
    <3>3. \A q \in Procs : ~At(q, "register")'
      BY <2>4, <3>1 DEF registerAdmin, OneInv, At, Go, TypeOK
    <3>4. made' = [made EXCEPT ![req[p].token] = 1]
      BY <2>4, <3>2 DEF registerAdmin, TypeOK
    <3>5. starts' = starts /\ setup' = setup
      BY <2>4 DEF registerAdmin
    <3>6. req[p].token = setup.token /\ setup.consumed
      BY <2>4 DEF registerAdmin, OneInv, TypeOK, Setup
    <3>7. \A n \in 1..MaxStarts : n # req[p].token => made'[n] = made[n]
      BY <3>2, <3>4 DEF TypeOK
    <3>8. made'[req[p].token] = 1
      BY <3>2, <3>4 DEF TypeOK
    <3>9. req[p].token <= starts
      BY <3>2, <3>6 DEF OneInv, TypeOK
    <3> QED BY <3>2, <3>3, <3>5, <3>6, <3>7, <3>8, <3>9 DEF OneInv, TypeOK
  <2>5. CASE registerFails(p)
    BY <2>5, OneGo DEF registerFails, Idle
  <2>6. CASE issueAdmin(p)
    BY <2>6, OneGo DEF issueAdmin, Idle
  <2> QED BY <1>2, <2>1, <2>2, <2>3, <2>4, <2>5, <2>6 DEF Serve
<1>3. CASE Administration
  <2>1. ASSUME NEW u, DeleteUser(u) PROVE OneInv'
    BY <2>1, OneChanged DEF DeleteUser
  <2>2. ASSUME NEW u, NEW role, UpdateUserRole(u, role) PROVE OneInv'
    BY <2>2, OneChanged DEF UpdateUserRole
  <2>3. ASSUME NEW g, NEW name, CreateGroup(g, name) PROVE OneInv'
    BY <2>3, OneSame DEF CreateGroup, At
  <2>4. ASSUME NEW g, DeleteGroup(g) PROVE OneInv'
    BY <2>4, OneChanged DEF DeleteGroup
  <2>5. ASSUME NEW u, NEW g, AddUserToGroup(u, g) PROVE OneInv'
    BY <2>5, OneChanged DEF AddUserToGroup
  <2>6. ASSUME NEW u, NEW g, RemoveUserFromGroup(u, g) PROVE OneInv'
    BY <2>6, OneChanged DEF RemoveUserFromGroup
  <2> QED BY <1>3, <2>1, <2>2, <2>3, <2>4, <2>5, <2>6 DEF Administration
<1>4. ASSUME NEW n \in tokens, TokenExpires(n) PROVE OneInv'
  BY <1>4, OneSame DEF TokenExpires, At
<1>5. CASE SetupExpires
  <2>1. setup'.token = setup.token /\ setup'.consumed = setup.consumed
    BY <1>5 DEF SetupExpires, TypeOK, Setup
  <2> QED BY <1>5, <2>1 DEF SetupExpires, OneInv, At
<1>6. CASE Restart
  <2>1. starts' = starts + 1 /\ starts + 1 \in 1..MaxStarts /\ made' = made
    BY <1>6, AccessAssumption DEF Restart, TypeOK
  <2>2. /\ setup'.token \in {0, starts + 1}
        /\ setup'.token # 0 => setup'.token = starts + 1
    BY <1>6 DEF Restart, GenerateToken, NewSetupManager
  <2>3. \A p \in Procs : ~At(p, "register")'
    BY <1>6 DEF Restart, At, Idle
  <2> QED BY <2>1, <2>2, <2>3 DEF OneInv, TypeOK
<1>7. CASE UNCHANGED vars
  BY <1>7, OneSame DEF vars, At
<1> QED BY <1>1, <1>2, <1>3, <1>4, <1>5, <1>6, <1>7 DEF Next

LEMMA OneInit == Init => OneInv
<1> SUFFICES ASSUME Init PROVE OneInv
  OBVIOUS
<1>1. \A p \in Procs : ~At(p, "register")
  BY DEF Init, At, Idle
<1>2. setup.token = 1 /\ starts = 1 /\ 1 \in 1..MaxStarts
  BY AccessAssumption DEF Init, GenerateToken
<1> QED BY <1>1, <1>2 DEF Init, OneInv

\* A setup token creates one admin at most, however many requests complete
\* setup with it at once: Consume of internal/admin/setup.go marks it first.
THEOREM SetupOnce == Spec => []OneAdminPerToken
<1>1. OneInv => OneAdminPerToken
  BY DEF OneInv, OneAdminPerToken
<1> QED BY <1>1, OneInit, OneStep, TypeInit, TypeStep, PTL DEF Spec

-----------------------------------------------------------------------------
(* The way in.                                                             *)

\* Users change by insertion only.
LEMMA AdminsGrow ==
    ASSUME TypeOK, NEW u, NEW email, NEW role, insertUser(u, email, role)
    PROVE  Admins \subseteq Admins' /\ (role = "admin" => u \in Admins')
<1>1. u \notin DOMAIN users
  BY Domains DEF insertUser
<1> QED BY <1>1 DEF insertUser, Admins

\* Nothing SetupWayIn speaks of is lost.
LEMMA WaySame ==
    ASSUME TypeOK, SetupWayIn, setup' = setup, shut' = shut,
           Admins \subseteq Admins',
           \A p \in Procs : At(p, "register") => At(p, "register")'
    PROVE  SetupWayIn'
  BY DEF SetupWayIn, IsActive, Consumable

LEMMA WayChanged ==
    ASSUME TypeOK, NEW U, Changed(U), NEW p \in Procs, At(p, "register")
    PROVE  At(p, "register")'
  BY DEF TypeOK, Changed, At

LEMMA WayGo ==
    ASSUME TypeOK, NEW p \in Procs, ~At(p, "register"), NEW r, Go(p, r),
           NEW q \in Procs, At(q, "register")
    PROVE  At(q, "register")'
  BY DEF TypeOK, Go, At

LEMMA WayStep == TypeOK /\ SetupWayIn /\ [Next]_vars => SetupWayIn'
<1> SUFFICES ASSUME TypeOK, SetupWayIn, [Next]_vars PROVE SetupWayIn'
  OBVIOUS
<1>1. ASSUME NEW u, NEW email, NEW role, Register(u, email, role) PROVE SetupWayIn'
  BY <1>1, AdminsGrow, WaySame DEF Register, At
<1>2. ASSUME NEW p \in Procs, Serve(p) PROVE SetupWayIn'
  <2>1. CASE Login(p)
    <3>1. PICK u : Go(p, [at |-> "groups", user |-> u, role |-> users[u].role, current |-> TRUE])
      BY <2>1 DEF Login
    <3>2. ~At(p, "register")
      BY <2>1 DEF Login, At
    <3> QED BY <2>1, <3>1, <3>2, WayGo, WaySame DEF Login, Admins
  <2>2. CASE loadGroups(p)
    <3>1. ~At(p, "register")
      BY <2>2 DEF loadGroups, At
    <3> QED BY <2>2, <3>1, WayGo, WaySame DEF loadGroups, Admins
  <2>3. ASSUME NEW n \in 1..MaxStarts, Consume(p, n) PROVE SetupWayIn'
    BY <2>3 DEF Consume, Go, At, TypeOK, SetupWayIn
  <2>4. CASE registerAdmin(p)
    <3>1. PICK u, email : insertUser(u, email, "admin")
      BY <2>4 DEF registerAdmin
    <3>2. Admins' # {}
      BY <3>1, AdminsGrow
    <3> QED BY <3>2 DEF SetupWayIn
  <2>5. CASE registerFails(p)
    BY <2>5 DEF registerFails, SetupWayIn
  <2>6. CASE issueAdmin(p)
    <3>1. ~At(p, "register")
      BY <2>6 DEF issueAdmin, At
    <3> QED BY <2>6, <3>1, WayGo, WaySame DEF issueAdmin, Admins
  <2> QED BY <1>2, <2>1, <2>2, <2>3, <2>4, <2>5, <2>6 DEF Serve
<1>3. CASE Administration
  <2>1. ASSUME NEW u, DeleteUser(u) PROVE SetupWayIn'
    <3>1. CASE u \in Admins
      BY <2>1, <3>1 DEF DeleteUser, SetupWayIn
    <3>2. CASE u \notin Admins
      <4>1. Admins \subseteq Admins' /\ shut' = shut
        BY <2>1, <3>2 DEF DeleteUser, Admins, TypeOK
      <4> QED BY <2>1, <4>1, WayChanged, WaySame DEF DeleteUser
    <3> QED BY <3>1, <3>2
  <2>2. ASSUME NEW u, NEW role, UpdateUserRole(u, role) PROVE SetupWayIn'
    <3>1. CASE u \in Admins
      BY <2>2, <3>1 DEF UpdateUserRole, SetupWayIn
    <3>2. CASE u \notin Admins
      <4>1. Admins \subseteq Admins'
        BY <2>2, <3>2, Domains DEF UpdateUserRole, Admins
      <4>2. shut' = shut
        BY <2>2, <3>2 DEF UpdateUserRole, TypeOK
      <4> QED BY <2>2, <4>1, <4>2, WayChanged, WaySame DEF UpdateUserRole
    <3> QED BY <3>1, <3>2
  <2>3. ASSUME NEW g, NEW name, CreateGroup(g, name) PROVE SetupWayIn'
    BY <2>3, WaySame DEF CreateGroup, Admins, At
  <2>4. ASSUME NEW g, DeleteGroup(g) PROVE SetupWayIn'
    BY <2>4, WayChanged, WaySame DEF DeleteGroup, Admins
  <2>5. ASSUME NEW u, NEW g, AddUserToGroup(u, g) PROVE SetupWayIn'
    BY <2>5, WayChanged, WaySame DEF AddUserToGroup, Admins
  <2>6. ASSUME NEW u, NEW g, RemoveUserFromGroup(u, g) PROVE SetupWayIn'
    BY <2>6, WayChanged, WaySame DEF RemoveUserFromGroup, Admins
  <2> QED BY <1>3, <2>1, <2>2, <2>3, <2>4, <2>5, <2>6 DEF Administration
<1>4. ASSUME NEW n \in tokens, TokenExpires(n) PROVE SetupWayIn'
  BY <1>4, WaySame DEF TokenExpires, Admins, At
<1>5. CASE SetupExpires
  BY <1>5 DEF SetupExpires, SetupWayIn, IsActive, Consumable, Admins, At
<1>6. CASE Restart
  <2>1. CASE Admins = {}
    <3>1. CountAdmins = 0
      BY <2>1, FS_EmptySet DEF CountAdmins
    <3>2. setup' = [token |-> starts + 1, consumed |-> FALSE, expired |-> FALSE]
      BY <1>6, <3>1 DEF Restart, GenerateToken
    <3>3. starts + 1 # 0
      BY AccessAssumption DEF TypeOK
    <3> QED BY <3>2, <3>3 DEF SetupWayIn, IsActive, Consumable
  <2>2. CASE Admins # {}
    BY <1>6, <2>2 DEF Restart, SetupWayIn, Admins
  <2> QED BY <2>1, <2>2
<1>7. CASE UNCHANGED vars
  BY <1>7, WaySame DEF vars, Admins, At
<1> QED BY <1>1, <1>2, <1>3, <1>4, <1>5, <1>6, <1>7 DEF Next

LEMMA WayInit == Init => SetupWayIn
  BY DEF Init, SetupWayIn, IsActive, Consumable, GenerateToken

\* Whatever requests overlap, an installation without an admin has setup open
\* or under way, unless its time passed, its registration failed or an admin
\* was removed since the last start: GenerateToken runs at every such start.
THEOREM WayIn == Spec => []SetupWayIn
  BY WayInit, WayStep, TypeInit, TypeStep, PTL DEF Spec

-----------------------------------------------------------------------------
(* The claims.                                                             *)

\* What a Login has read, or a setup is about to sign, is true as well.
ClaimsInv ==
    /\ ClaimsTrueUntilChanged
    /\ \A p \in Procs :
         req[p].at \in {"groups", "issue"} /\ req[p].current =>
            /\ req[p].user \in DOMAIN users
            /\ users[req[p].user].role = req[p].role
            /\ At(p, "issue") => userGroupNames(req[p].user) = {}

\* A user about whom nothing changes: the row, and the names of the groups.
Same(u) == /\ u \in DOMAIN users'
           /\ users'[u].role = users[u].role
           /\ userGroupNames(u)' = userGroupNames(u)

\* Nothing changes about anyone, and no token or request is new.
LEMMA ClaimsSame ==
    ASSUME TypeOK, ClaimsInv, \A u \in DOMAIN users : Same(u),
           tokens' \subseteq tokens,
           \A p \in Procs : req'[p] = req[p] \/ req'[p].at \notin {"groups", "issue"}
    PROVE  ClaimsInv'
  BY DEF ClaimsInv, ClaimsTrueUntilChanged, Same, At

\* Something changes about the users of U, whose claims are marked.
LEMMA ClaimsChanged ==
    ASSUME TypeOK, ClaimsInv, NEW U, Changed(U),
           \A u \in DOMAIN users \ U : Same(u)
    PROVE  ClaimsInv'
<1>1. ASSUME NEW t \in tokens', t.current
      PROVE  t \in tokens /\ t.user \notin U
  <2>1. PICK x \in tokens : t = IF x.user \in U THEN [x EXCEPT !.current = FALSE] ELSE x
    BY DEF Changed
  <2>2. CASE x.user \in U
    <3>1. [x EXCEPT !.current = FALSE].current = FALSE
      BY DEF TypeOK, Token
    <3> QED BY <1>1, <2>1, <2>2, <3>1
  <2> QED BY <2>1, <2>2
<1>2. ClaimsTrueUntilChanged'
  BY <1>1 DEF ClaimsInv, ClaimsTrueUntilChanged, Same
<1>3. ASSUME NEW p \in Procs, req'[p].at \in {"groups", "issue"}, req'[p].current
      PROVE  req'[p] = req[p] /\ req[p].user \notin U
  <2>1. CASE req[p].at \in {"groups", "issue"} /\ req[p].user \in U
    <3>1. req[p] \in [at : {"groups", "issue"}, user : UserIds,
                      role : Roles \cup validRoles, current : BOOLEAN]
      BY <2>1 DEF TypeOK, Request, Idle
    <3>2. [req[p] EXCEPT !.current = FALSE].current = FALSE
      BY <3>1
    <3> QED BY <1>3, <2>1, <3>2 DEF Changed
  <2>2. CASE ~(req[p].at \in {"groups", "issue"} /\ req[p].user \in U)
    BY <1>3, <2>2 DEF Changed
  <2> QED BY <2>1, <2>2
<1> QED BY <1>2, <1>3 DEF ClaimsInv, Same, At

\* The names of a user's groups depend on the memberships of that user only.
LEMMA NamesSame ==
    ASSUME TypeOK, TypeOK', NEW u,
           \A g : <<u, g>> \in members' <=> <<u, g>> \in members,
           \A g : <<u, g>> \in members => groups'[g] = groups[g]
    PROVE  userGroupNames(u)' = userGroupNames(u)
<1>1. {m \in members : m[1] = u} = {m \in members' : m[1] = u}
  <2>1. \A m \in members : m = <<m[1], m[2]>>
    BY DEF TypeOK
  <2>2. \A m \in members' : m = <<m[1], m[2]>>
    BY DEF TypeOK
  <2> QED BY <2>1, <2>2
<1>2. \A m \in {x \in members : x[1] = u} : groups'[m[2]] = groups[m[2]]
  BY DEF TypeOK
<1> QED BY <1>1, <1>2 DEF userGroupNames

\* A new user takes nothing from the others, and has no groups.
LEMMA InsertSame ==
    ASSUME TypeOK, NEW u, NEW email, NEW role, insertUser(u, email, role),
           members' = members, groups' = groups
    PROVE  /\ \A v \in DOMAIN users : Same(v)
           /\ u \in DOMAIN users' /\ users'[u].role = role
           /\ userGroupNames(u)' = {}
<1>1. u \notin DOMAIN users
  BY Domains DEF insertUser
<1>2. \A v \in DOMAIN users : Same(v)
  BY <1>1 DEF insertUser, Same, userGroupNames
<1>3. \A m \in members : m[1] # u
  BY <1>1 DEF TypeOK
<1> QED BY <1>1, <1>2, <1>3 DEF insertUser, userGroupNames

\* A token signed from what was read.
LEMMA ClaimsIssue ==
    ASSUME TypeOK, ClaimsInv, NEW p \in Procs, req[p].at \in {"groups", "issue"},
           NEW names, IssueToken(req[p], names), Go(p, Idle),
           req[p].current => names = userGroupNames(req[p].user),
           users' = users, groups' = groups, members' = members
    PROVE  ClaimsInv'
<1>1. ClaimsTrueUntilChanged'
  BY DEF ClaimsInv, ClaimsTrueUntilChanged, IssueToken, userGroupNames
<1>2. \A q \in Procs : req'[q] = req[q] \/ req'[q].at \notin {"groups", "issue"}
  BY DEF Go, Idle, TypeOK
<1> QED BY <1>1, <1>2 DEF ClaimsInv, At, userGroupNames

\* Nothing about users, groups and memberships changes.
LEMMA TablesSame ==
    ASSUME users' = users, groups' = groups, members' = members
    PROVE  \A u \in DOMAIN users : Same(u)
  BY DEF Same, userGroupNames

LEMMA ClaimsStep == TypeOK /\ ClaimsInv /\ [Next]_vars => ClaimsInv'
<1> SUFFICES ASSUME TypeOK, TypeOK', ClaimsInv, [Next]_vars PROVE ClaimsInv'
  BY TypeStep
<1>1. ASSUME NEW u, NEW email, NEW role, Register(u, email, role) PROVE ClaimsInv'
  BY <1>1, InsertSame, ClaimsSame DEF Register
<1>2. ASSUME NEW p \in Procs, Serve(p) PROVE ClaimsInv'
  <2>1. CASE Login(p)
    <3>1. PICK u \in DOMAIN users :
            Go(p, [at |-> "groups", user |-> u, role |-> users[u].role, current |-> TRUE])
      BY <2>1 DEF Login
    <3>2. req'[p] = [at |-> "groups", user |-> u, role |-> users[u].role, current |-> TRUE]
      BY <3>1 DEF Go, TypeOK
    <3>3. \A q \in Procs : q # p => req'[q] = req[q]
      BY <3>1 DEF Go, TypeOK
    <3>4. \A v : userGroupNames(v)' = userGroupNames(v)
      BY <2>1 DEF Login, userGroupNames
    <3>5. ClaimsTrueUntilChanged'
      BY <2>1, <3>4 DEF Login, ClaimsInv, ClaimsTrueUntilChanged
    <3> QED BY <2>1, <3>2, <3>3, <3>4, <3>5 DEF Login, ClaimsInv, At
  <2>2. CASE loadGroups(p)
    BY <2>2, ClaimsIssue DEF loadGroups, At
  <2>3. ASSUME NEW n \in 1..MaxStarts, Consume(p, n) PROVE ClaimsInv'
    BY <2>3, TablesSame, ClaimsSame DEF Consume, Go, TypeOK
  <2>4. CASE registerAdmin(p)
    <3>1. PICK u \in UserIds, email \in Emails :
            /\ insertUser(u, email, "admin")
            /\ Go(p, [at |-> "issue", user |-> u, role |-> "admin", current |-> TRUE])
      BY <2>4 DEF registerAdmin
    <3>2. /\ \A v \in DOMAIN users : Same(v)
          /\ u \in DOMAIN users' /\ users'[u].role = "admin"
          /\ userGroupNames(u)' = {}
      BY <2>4, <3>1, InsertSame DEF registerAdmin
    <3>3. req'[p] = [at |-> "issue", user |-> u, role |-> "admin", current |-> TRUE]
      BY <3>1 DEF Go, TypeOK
    <3>4. \A q \in Procs : q # p => req'[q] = req[q]
      BY <3>1 DEF Go, TypeOK
    <3>5. ClaimsTrueUntilChanged'
      BY <2>4, <3>2 DEF registerAdmin, ClaimsInv, ClaimsTrueUntilChanged, Same
    <3>6. ASSUME NEW q \in Procs, req'[q].at \in {"groups", "issue"}, req'[q].current
          PROVE  /\ req'[q].user \in DOMAIN users'
                 /\ users'[req'[q].user].role = req'[q].role
                 /\ At(q, "issue")' => userGroupNames(req[q].user)' = {}
      <4>1. CASE q = p
        BY <4>1, <3>2, <3>3
      <4>2. CASE q # p
        BY <4>2, <3>2, <3>4, <3>6 DEF ClaimsInv, Same, At
      <4> QED BY <4>1, <4>2
    <3> QED BY <3>5, <3>6 DEF ClaimsInv
  <2>5. CASE registerFails(p)
    BY <2>5, TablesSame, ClaimsSame DEF registerFails, Go, Idle, TypeOK
  <2>6. CASE issueAdmin(p)
    BY <2>6, ClaimsIssue DEF issueAdmin, At, ClaimsInv
  <2> QED BY <1>2, <2>1, <2>2, <2>3, <2>4, <2>5, <2>6 DEF Serve
<1>3. CASE Administration
  <2>1. ASSUME NEW u, DeleteUser(u) PROVE ClaimsInv'
    <3>1. ASSUME NEW v \in DOMAIN users \ {u} PROVE Same(v)
      <4>1. userGroupNames(v)' = userGroupNames(v)
        BY <2>1, NamesSame DEF DeleteUser
      <4> QED BY <2>1, <4>1 DEF DeleteUser, Same
    <3> QED BY <2>1, <3>1, ClaimsChanged DEF DeleteUser
  <2>2. ASSUME NEW u, NEW role, UpdateUserRole(u, role) PROVE ClaimsInv'
    <3>1. \A v \in DOMAIN users \ {u} : Same(v)
      BY <2>2, Domains DEF UpdateUserRole, Same, userGroupNames
    <3> QED BY <2>2, <3>1, ClaimsChanged DEF UpdateUserRole
  <2>3. ASSUME NEW g, NEW name, CreateGroup(g, name) PROVE ClaimsInv'
    <3>1. ASSUME NEW v \in DOMAIN users PROVE Same(v)
      <4>1. \A h : <<v, h>> \in members => groups'[h] = groups[h]
        BY <2>3 DEF CreateGroup, TypeOK
      <4>2. userGroupNames(v)' = userGroupNames(v)
        BY <2>3, <4>1, NamesSame DEF CreateGroup
      <4> QED BY <2>3, <4>2 DEF CreateGroup, Same
    <3> QED BY <2>3, <3>1, ClaimsSame DEF CreateGroup
  <2>4. ASSUME NEW g, DeleteGroup(g) PROVE ClaimsInv'
    <3> DEFINE U == {m[1] : m \in {x \in members : x[2] = g}}
    <3>1. ASSUME NEW v \in DOMAIN users \ U PROVE Same(v)
      <4>1. <<v, g>> \notin members
        <5>1. SUFFICES ASSUME <<v, g>> \in members PROVE FALSE
          OBVIOUS
        <5>2. <<v, g>>[1] \in U
          BY <5>1
        <5> QED BY <5>2
      <4>2. \A h : <<v, h>> \in members' <=> <<v, h>> \in members
        BY <2>4, <4>1 DEF DeleteGroup, cascade
      <4>3. \A h : <<v, h>> \in members => groups'[h] = groups[h]
        BY <2>4, <4>1 DEF DeleteGroup, TypeOK
      <4>4. userGroupNames(v)' = userGroupNames(v)
        BY <4>2, <4>3, NamesSame
      <4> QED BY <2>4, <4>4 DEF DeleteGroup, Same
    <3> QED BY <2>4, <3>1, ClaimsChanged DEF DeleteGroup
  <2>5. ASSUME NEW u, NEW g, AddUserToGroup(u, g) PROVE ClaimsInv'
    <3>1. ASSUME NEW v \in DOMAIN users \ {u} PROVE Same(v)
      <4>1. userGroupNames(v)' = userGroupNames(v)
        BY <2>5, NamesSame DEF AddUserToGroup
      <4> QED BY <2>5, <4>1 DEF AddUserToGroup, Same
    <3> QED BY <2>5, <3>1, ClaimsChanged DEF AddUserToGroup
  <2>6. ASSUME NEW u, NEW g, RemoveUserFromGroup(u, g) PROVE ClaimsInv'
    <3>1. ASSUME NEW v \in DOMAIN users \ {u} PROVE Same(v)
      <4>1. userGroupNames(v)' = userGroupNames(v)
        BY <2>6, NamesSame DEF RemoveUserFromGroup
      <4> QED BY <2>6, <4>1 DEF RemoveUserFromGroup, Same
    <3> QED BY <2>6, <3>1, ClaimsChanged DEF RemoveUserFromGroup
  <2> QED BY <1>3, <2>1, <2>2, <2>3, <2>4, <2>5, <2>6 DEF Administration
<1>4. ASSUME NEW n \in tokens, TokenExpires(n) PROVE ClaimsInv'
  BY <1>4, TablesSame, ClaimsSame DEF TokenExpires
<1>5. CASE SetupExpires
  BY <1>5, TablesSame, ClaimsSame DEF SetupExpires
<1>6. CASE Restart
  BY <1>6, TablesSame, ClaimsSame DEF Restart, Idle
<1>7. CASE UNCHANGED vars
  BY <1>7, TablesSame, ClaimsSame DEF vars
<1> QED BY <1>1, <1>2, <1>3, <1>4, <1>5, <1>6, <1>7 DEF Next

LEMMA ClaimsInit == Init => ClaimsInv
  BY DEF Init, ClaimsInv, ClaimsTrueUntilChanged, Idle

\* However logins, setups and administration overlap, a signed token is true of
\* its user, role and groups, until somebody changes that user: Login of
\* internal/iam/service.go reads them in two statements.
THEOREM ClaimsTrue == Spec => []ClaimsTrueUntilChanged
<1>1. ClaimsInv => ClaimsTrueUntilChanged
  BY DEF ClaimsInv
<1> QED BY <1>1, ClaimsInit, ClaimsStep, TypeInit, TypeStep, PTL DEF Spec
=============================================================================
