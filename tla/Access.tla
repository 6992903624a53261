-------------------------------- MODULE Access --------------------------------
(***************************************************************************)
(* Identity and first-time setup: users, groups and memberships in the     *)
(* database, the one-time setup token in memory, and the signed tokens that*)
(* clients hold.  A signed token carries the role and the groups its user  *)
(* had at login and is not looked up again until it expires.               *)
(*                                                                         *)
(* A service call is one statement, except Login, which reads the user and *)
(* then the groups, and CompleteSetup, which consumes the setup token,     *)
(* inserts the admin and signs.  Passwords are left out: a Login or a setup*)
(* with a wrong one changes nothing.                                       *)
(***************************************************************************)
EXTENDS Naturals, FiniteSets

CONSTANTS
    UserIds, GroupIds,     \* what newID may return, each value once
    Emails, GroupNames,
    Roles,                 \* role strings a request may carry
    Procs,                 \* concurrent Login and CompleteSetup requests
    MaxStarts,             \* bound on the starts of the process
    MaxLogins,             \* bound on the Login requests
    MaxEdits               \* bound on the requests of administrators

\* The roles UpdateUserRole accepts.
validRoles == {"admin", "developer", "user"}

ASSUME AccessAssumption ==
    /\ MaxStarts \in Nat \ {0}
    /\ {MaxLogins, MaxEdits} \subseteq Nat
    /\ "admin" \in Roles

VARIABLES
    users,      \* table users: id |-> email and role
    groups,     \* table groups: id |-> name
    members,    \* table user_groups: <<user, group>>
    setup,      \* SetupManager: its token (0 is ""), consumed, expired
    req,        \* the Login or CompleteSetup each process serves
    tokens,     \* signed tokens that have not expired
    starts,     \* starts of the process, each generating at most one token
    logins,     \* Login requests
    edits,      \* requests of administrators
    given,      \* history: user ids given out
    made,       \* history: admins that each setup token created
    shut        \* history: setup was missed or undone since the last start

vars == <<users, groups, members, setup, req, tokens,
          starts, logins, edits, given, made, shut>>

Idle == [at |-> "idle"]
Setup == [token : 0..MaxStarts, consumed : BOOLEAN, expired : BOOLEAN]

\* "current" is history: nothing about the user changed since the login began.
Token == [user : UserIds, role : Roles \cup validRoles,
          groups : SUBSET GroupNames, current : BOOLEAN]
Request ==
    {Idle}
    \cup [at : {"register"}, token : 1..MaxStarts]
    \cup [at : {"groups", "issue"}, user : UserIds, role : Roles \cup validRoles,
          current : BOOLEAN]

At(p, step) == req[p].at = step
Go(p, r) == req' = [req EXCEPT ![p] = r]
Admins == {u \in DOMAIN users : users[u].role = "admin"}

\* Mutant of CountAdmins: every user counts.
CountAdmins_Users == Cardinality(DOMAIN users)

CountAdmins == Cardinality(Admins)

\* A token is generated when the process starts with no admin.
GenerateToken(n) == [token |-> n, consumed |-> FALSE, expired |-> FALSE]
NewSetupManager == [token |-> 0, consumed |-> FALSE, expired |-> FALSE]

Init ==
    /\ users = [u \in {} |-> Idle]
    /\ groups = [g \in {} |-> Idle]
    /\ members = {}
    /\ setup = GenerateToken(1)
    /\ req = [p \in Procs |-> Idle]
    /\ tokens = {}
    /\ starts = 1 /\ logins = 0 /\ edits = 0
    /\ given = {}
    /\ made = [t \in 1..MaxStarts |-> 0]
    /\ shut = FALSE

-----------------------------------------------------------------------------
(* Accounts.                                                               *)

\* INSERT INTO users: the email must be free.
Free(email) == \A v \in DOMAIN users : users[v].email # email

insertUser(u, email, role) ==
    /\ u \notin given
    /\ Free(email)
    /\ given' = given \cup {u}
    /\ users' = [v \in DOMAIN users \cup {u} |->
                   IF v = u THEN [email |-> email, role |-> role] ELSE users[v]]

Register(u, email, role) ==
    /\ insertUser(u, email, role)
    /\ UNCHANGED <<groups, members, setup, req, tokens,
                   starts, logins, edits, made, shut>>

\* Mutant of userGroupNames: the join without its WHERE.
userGroupNames_All(u) == {groups[m[2]] : m \in members}

\* The groups Login signs into the token.
userGroupNames(u) == {groups[m[2]] : m \in {x \in members : x[1] = u}}

Login(p) ==
    /\ At(p, "idle")
    /\ logins < MaxLogins
    /\ logins' = logins + 1
    /\ \E u \in DOMAIN users :
         Go(p, [at |-> "groups", user |-> u, role |-> users[u].role,
                current |-> TRUE])
    /\ UNCHANGED <<users, groups, members, setup, tokens,
                   starts, edits, given, made, shut>>

IssueToken(r, names) ==
    tokens' = tokens \cup {[user |-> r.user, role |-> r.role,
                            groups |-> names, current |-> r.current]}

loadGroups(p) ==
    /\ At(p, "groups")
    /\ IssueToken(req[p], userGroupNames(req[p].user))
    /\ Go(p, Idle)
    /\ UNCHANGED <<users, groups, members, setup,
                   starts, logins, edits, given, made, shut>>

TokenExpires(t) ==
    /\ t \in tokens
    /\ tokens' = tokens \ {t}
    /\ UNCHANGED <<users, groups, members, setup, req,
                   starts, logins, edits, given, made, shut>>

-----------------------------------------------------------------------------
(* First-time setup.                                                       *)

\* Mutant of Consumable: a consumed token will do.
Consumable_Again(t) == /\ setup.token # 0 /\ ~setup.expired
                       /\ setup.token = t

Consumable(t) == /\ ~setup.consumed
                 /\ setup.token # 0 /\ ~setup.expired
                 /\ setup.token = t
IsActive == Consumable(setup.token)

\* The mutex makes the check and the mark one step; the account comes later.
Consume(p, t) ==
    /\ At(p, "idle")
    /\ Consumable(t)
    /\ setup' = [setup EXCEPT !.consumed = TRUE]
    /\ Go(p, [at |-> "register", token |-> t])
    /\ UNCHANGED <<users, groups, members, tokens,
                   starts, logins, edits, given, made, shut>>

registerAdmin(p) ==
    /\ At(p, "register")
    /\ \E u \in UserIds, email \in Emails :
         /\ insertUser(u, email, "admin")
         /\ Go(p, [at |-> "issue", user |-> u, role |-> "admin",
                   current |-> TRUE])
    /\ made' = [made EXCEPT ![req[p].token] = @ + 1]
    /\ UNCHANGED <<groups, members, setup, tokens, starts, logins, edits, shut>>

\* The email is taken or the statement fails: the setup token stays consumed.
registerFails(p) ==
    /\ At(p, "register")
    /\ shut' = TRUE
    /\ Go(p, Idle)
    /\ UNCHANGED <<users, groups, members, setup, tokens,
                   starts, logins, edits, given, made>>

\* The admin is signed in without a look at the groups.
issueAdmin(p) ==
    /\ At(p, "issue")
    /\ IssueToken(req[p], {})
    /\ Go(p, Idle)
    /\ UNCHANGED <<users, groups, members, setup,
                   starts, logins, edits, given, made, shut>>

\* Fifteen minutes pass.
SetupExpires ==
    /\ setup.token # 0 /\ ~setup.expired
    /\ setup' = [setup EXCEPT !.expired = TRUE]
    /\ shut' = (shut \/ ~setup.consumed)
    /\ UNCHANGED <<users, groups, members, req, tokens,
                   starts, logins, edits, given, made>>

\* Stop and start: the setup token is in memory only, signed tokens and the
\* tables survive, and a new setup token is printed when there is no admin.
Restart ==
    /\ starts < MaxStarts
    /\ starts' = starts + 1
    /\ setup' = IF CountAdmins = 0 THEN GenerateToken(starts + 1)
                                   ELSE NewSetupManager
    /\ req' = [p \in Procs |-> Idle]
    /\ shut' = FALSE
    /\ UNCHANGED <<users, groups, members, tokens, logins, edits, given, made>>

-----------------------------------------------------------------------------
(* Administration.  Every request is one statement; a missing row makes it *)
(* a refusal that changes nothing.  The router lets a request pass on the  *)
(* role its token carries, whatever the users table says by then.          *)

RequireRole(t, role) == t.role = role \/ t.role = "admin"

Edit == /\ \E t \in tokens : RequireRole(t, "admin")
        /\ edits < MaxEdits
        /\ edits' = edits + 1

\* What was read about the users of U is no longer current.
Changed(U) ==
    /\ tokens' = {IF t.user \in U THEN [t EXCEPT !.current = FALSE] ELSE t :
                    t \in tokens}
    /\ req' = [p \in Procs |->
                 IF req[p].at \in {"groups", "issue"}
                 THEN IF req[p].user \in U THEN [req[p] EXCEPT !.current = FALSE]
                                           ELSE req[p]
                 ELSE req[p]]

\* user_groups rows go with their user or group (ON DELETE CASCADE).
DeleteUser(u) ==
    /\ Edit
    /\ u \in DOMAIN users
    /\ users' = [v \in DOMAIN users \ {u} |-> users[v]]
    /\ members' = {m \in members : m[1] # u}
    /\ Changed({u})
    /\ shut' = (shut \/ u \in Admins)
    /\ UNCHANGED <<groups, setup, starts, logins, given, made>>

UpdateUserRole(u, role) ==
    /\ Edit
    /\ role \in validRoles
    /\ u \in DOMAIN users
    /\ users' = [users EXCEPT ![u].role = role]
    /\ Changed({u})
    /\ shut' = (shut \/ u \in Admins)
    /\ UNCHANGED <<groups, members, setup, starts, logins, given, made>>

CreateGroup(g, name) ==
    /\ Edit
    /\ g \notin DOMAIN groups
    /\ \A h \in DOMAIN groups : groups[h] # name
    /\ groups' = [h \in DOMAIN groups \cup {g} |->
                    IF h = g THEN name ELSE groups[h]]
    /\ UNCHANGED <<users, members, setup, req, tokens,
                   starts, logins, given, made, shut>>

\* Mutant of cascade: memberships outlive their group.
cascade_Keep(g) == members

cascade(g) == {m \in members : m[2] # g}

DeleteGroup(g) ==
    /\ Edit
    /\ g \in DOMAIN groups
    /\ groups' = [h \in DOMAIN groups \ {g} |-> groups[h]]
    /\ members' = cascade(g)
    /\ Changed({m[1] : m \in {x \in members : x[2] = g}})
    /\ UNCHANGED <<users, setup, starts, logins, given, made, shut>>

\* INSERT OR IGNORE under two foreign keys.
AddUserToGroup(u, g) ==
    /\ Edit
    /\ u \in DOMAIN users /\ g \in DOMAIN groups
    /\ members' = members \cup {<<u, g>>}
    /\ Changed({u})
    /\ UNCHANGED <<users, groups, setup, starts, logins, given, made, shut>>

RemoveUserFromGroup(u, g) ==
    /\ Edit
    /\ members' = members \ {<<u, g>>}
    /\ Changed({u})
    /\ UNCHANGED <<users, groups, setup, starts, logins, given, made, shut>>

Serve(p) ==
    \/ Login(p) \/ loadGroups(p)
    \/ \E t \in 1..MaxStarts : Consume(p, t)
    \/ registerAdmin(p) \/ registerFails(p) \/ issueAdmin(p)

Administration ==
    \/ \E u \in UserIds : DeleteUser(u)
    \/ \E u \in UserIds, role \in Roles : UpdateUserRole(u, role)
    \/ \E g \in GroupIds, name \in GroupNames : CreateGroup(g, name)
    \/ \E g \in GroupIds : DeleteGroup(g)
    \/ \E u \in UserIds, g \in GroupIds : \/ AddUserToGroup(u, g)
                                          \/ RemoveUserFromGroup(u, g)

Next ==
    \/ \E u \in UserIds, email \in Emails, role \in Roles : Register(u, email, role)
    \/ \E p \in Procs : Serve(p)
    \/ Administration
    \/ \E t \in tokens : TokenExpires(t)
    \/ SetupExpires
    \/ Restart

Spec == Init /\ [][Next]_vars

-----------------------------------------------------------------------------
(* Properties.                                                             *)

\* State is well-typed, and a membership joins a user and a group that exist.
TypeOK ==
    /\ \E D \in SUBSET given :
         users \in [D -> [email : Emails, role : Roles \cup validRoles]]
    /\ \E D \in SUBSET GroupIds : groups \in [D -> GroupNames]
    /\ members \subseteq (DOMAIN users) \X (DOMAIN groups)
    /\ setup \in Setup
    /\ req \in [Procs -> Request]
    /\ tokens \subseteq Token
    /\ starts \in 1..MaxStarts
    /\ logins \in 0..MaxLogins /\ edits \in 0..MaxEdits
    /\ given \subseteq UserIds
    /\ made \in [1..MaxStarts -> Nat]
    /\ shut \in BOOLEAN

\* A signed token says of its user what the tables say, role and groups, until
\* an administrator changes something about that user, even if the change
\* comes between the two reads of the Login that signs it.
ClaimsTrueUntilChanged ==
    \A t \in tokens :
      t.current => /\ t.user \in DOMAIN users
                   /\ users[t.user].role = t.role
                   /\ userGroupNames(t.user) = t.groups

\* Concurrent calls of CompleteSetup with one setup token create one admin.
OneAdminPerToken == \A t \in 1..MaxStarts : made[t] <= 1

\* To an installation without an admin setup is open or being completed, unless
\* since the last start its time passed, its registration failed, or an admin
\* was deleted or demoted.  (Register, which is public, takes the role admin too.)
SetupWayIn ==
    Admins = {} /\ ~shut => IsActive \/ \E p \in Procs : At(p, "register")
=============================================================================
