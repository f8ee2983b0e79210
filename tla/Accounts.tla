------------------------------ MODULE Accounts ------------------------------
(***************************************************************************)
(* User accounts, the tokens they log in with, and what hangs on an        *)
(* account: the manager of a property and the portal access of a tenant    *)
(* (UserService, get_current_user, AuthService.login past its throttles,   *)
(* PropertyService.assign_manager, TenantService.link_user).               *)
(*                                                                         *)
(* A request authenticates and keeps its own row as it was read then.  It  *)
(* checks its preconditions and loads the row it is about, and commits     *)
(* later; every check is made again by no one but the constraints of the   *)
(* database.  A request that a check or a constraint refuses is simply not *)
(* enabled.  A name is the email or the username of a user, which are      *)
(* handled alike.                                                          *)
(***************************************************************************)
EXTENDS Naturals, FiniteSets

CONSTANTS
    Clients,       \* requests that can be open at the same time
    Users,         \* user ids (a bound on the users ever created)
    NoUser,
    Tenants,       \* tenants, without contracts: any manager may link them
    Properties,
    Spellings,     \* names as callers write them
    Normalize,     \* the name each of them is stored as
    Passwords,
    Unset,         \* a field that a request leaves out
    Admin,         \* the admin account the system starts with
    MaxStamp       \* a bound on the password changes and new users

Role == {"admin", "manager", "user"}
Names == {Normalize[s] : s \in Spellings}

ASSUME AccountAssumption ==
    /\ NoUser \notin Users /\ Admin \in Users
    /\ Users \cap Tenants = {} /\ Users \cap Properties = {} /\ Tenants \cap Properties = {}
    /\ Normalize \in [Spellings -> Spellings]
    /\ \A s \in Spellings : Normalize[Normalize[s]] = Normalize[s]
    /\ Spellings # {} /\ Passwords # {}
    /\ Unset \notin Spellings \cup Passwords \cup Role \cup {"yes", "no"}
    /\ MaxStamp \in Nat
    /\ IsFiniteSet(Clients) /\ Clients # {}

VARIABLES
    users,     \* the users table
    link,      \* tenants.user_id
    manager,   \* properties.manager_id
    tokens,    \* the tokens handed out
    tx,        \* the request of each client
    clock,     \* the last timestamp taken
    late       \* history: writes of a user since its row last revoked requests

vars == <<users, link, manager, tokens, tx, clock, late>>

-----------------------------------------------------------------------------
(* Rows, tokens and requests *)

\* password_changed_at identifies one setting of a password.
Row ==
    [status: {"NONE", "LIVE", "DELETED"}, name: Spellings, password: Passwords,
     password_changed_at: 0..MaxStamp, role: Role, is_active: {"yes", "no"}]

NewRow(status, name, password, stamp, role, is_active) ==
    [status |-> status, name |-> name, password |-> password, password_changed_at |-> stamp,
     role |-> role, is_active |-> is_active]

SomePassword == CHOOSE p \in Passwords : TRUE
SomeName == CHOOSE n \in Names : TRUE
NoRow == NewRow("NONE", SomeName, SomePassword, 0, "user", "yes")
Deleted == [NoRow EXCEPT !.status = "DELETED"]

Live(u) == u \in Users /\ users[u].status = "LIVE"

\* pwd_v is what the token carries.  password is history: what it was issued for.
Token == [sub: Users, pwd_v: 0..MaxStamp, password: Passwords]

Values == Row \cup Users \cup {NoUser}

\* before and after: the row the request is about (for a link or an assignment, the
\* column) as loaded and as it is to be.
Request ==
    [op: {"none", "create", "update", "delete", "link", "unlink", "assign"},
     target: Users \cup Tenants \cup Properties \cup {NoUser}, before: Values, after: Values]

NoRequest == [op |-> "none", target |-> NoUser, before |-> NoUser, after |-> NoUser]

\* user and seen: whose request it is, and that user's row as authenticated.  pwd_v:
\* what its token says.
Session ==
    [step: {"idle", "login", "authenticated", "checked"}, user: Users \cup {NoUser},
     seen: Row, pwd_v: 0..MaxStamp, request: Request]
Idle == [step |-> "idle", user |-> NoUser, seen |-> NoRow, pwd_v |-> 0, request |-> NoRequest]

End(c) == tx' = [tx EXCEPT ![c] = Idle]

Checked(c, op, target, before, after) ==
    /\ tx[c].step = "authenticated"
    /\ tx' = [tx EXCEPT ![c].step = "checked",
                        ![c].request = [op |-> op, target |-> target, before |-> before, after |-> after]]

\* The unit of work writes a column only if it differs from what was loaded.  The hash of
\* a password that is set has a new salt: its column differs even if the password does not.
Written(current, before, after) == IF after # before THEN after ELSE current
Flush(current, before, after) ==
    [f \in DOMAIN current |->
        IF f = "password" /\ after.password_changed_at # before.password_changed_at
        THEN after.password
        ELSE Written(current[f], before[f], after[f])]

-----------------------------------------------------------------------------
(* Login and authentication *)

\* get_by_identifier and verify_password, on the row as one SELECT reads it.
LoginReads(c, spelling, password) ==
    /\ tx[c].step = "idle"
    /\ \E u \in Users :
        /\ Live(u)
        /\ users[u].name = Normalize[spelling]
        /\ users[u].password = password
        /\ users[u].is_active = "yes"
        /\ tx' = [tx EXCEPT ![c] = [Idle EXCEPT !.step = "login", !.user = u, !.seen = users[u]]]
    /\ UNCHANGED <<users, link, manager, tokens, clock, late>>

\* Bug: the password version is read again when the token is built.
IssueTokenReread(c) ==
    /\ tx[c].step = "login"
    /\ Live(tx[c].user)
    /\ tokens' = tokens \cup
         {[sub |-> tx[c].user, pwd_v |-> users[tx[c].user].password_changed_at,
           password |-> tx[c].seen.password]}
    /\ End(c)
    /\ UNCHANGED <<users, link, manager, clock, late>>

\* _issue_token, after the Redis commands of _record_success.
IssueToken(c) ==
    /\ tx[c].step = "login"
    /\ tokens' = tokens \cup
         {[sub |-> tx[c].user, pwd_v |-> tx[c].seen.password_changed_at,
           password |-> tx[c].seen.password]}
    /\ End(c)
    /\ UNCHANGED <<users, link, manager, clock, late>>

\* The checks of get_current_user on the row behind a token.
Admits(row, pwd_v) ==
    /\ row.status = "LIVE"
    /\ row.is_active = "yes"
    /\ pwd_v = row.password_changed_at

\* The request goes on with the user as it is now.
Enter(c, token) ==
    tx' = [tx EXCEPT ![c] = [Idle EXCEPT !.step = "authenticated", !.user = token.sub,
                                         !.seen = users[token.sub], !.pwd_v = token.pwd_v]]

\* Bug: a token is trusted for what it says; the account behind it only has to exist.
AuthenticateTrusting(c) ==
    /\ tx[c].step = "idle"
    /\ \E token \in tokens : Live(token.sub) /\ Enter(c, token)
    /\ UNCHANGED <<users, link, manager, tokens, clock, late>>

\* get_current_user.
Authenticate(c) ==
    /\ tx[c].step = "idle"
    /\ \E token \in tokens : Admits(users[token.sub], token.pwd_v) /\ Enter(c, token)
    /\ UNCHANGED <<users, link, manager, tokens, clock, late>>

\* A request that is refused, fails or dies before its commit leaves nothing.
GiveUp(c) ==
    /\ tx[c].step # "idle"
    /\ End(c)
    /\ UNCHANGED <<users, link, manager, tokens, clock, late>>

IsAdmin(c) == tx[c].seen.role = "admin"
IsManagerOrAbove(c) == tx[c].seen.role \in {"admin", "manager"}

-----------------------------------------------------------------------------
(* Preconditions *)

NameTaken(name, u) == \E v \in Users \ {u} : Live(v) /\ users[v].name = name

Tick == clock < MaxStamp /\ clock' = clock + 1
CheckFrame == UNCHANGED <<users, link, manager, tokens, late>>

\* UserRepository.create and update normalise what they store.
Stored(spelling) == Normalize[spelling]

\* create_user: a name nobody has.
CheckCreate(c, u, spelling, password, role, is_active) ==
    /\ IsAdmin(c)
    /\ users[u] = NoRow
    /\ \A d \in Clients : tx[d].request.target # u
    /\ ~NameTaken(Normalize[spelling], u)
    /\ Tick
    /\ Checked(c, "create", u, NoRow,
               NewRow("LIVE", Stored(spelling), password, clock', role, is_active))
    /\ CheckFrame

\* The row an update of user u starts from: a request about its own account still has
\* the row it authenticated with.
Loaded(c, u) == IF u = tx[c].user THEN tx[c].seen ELSE users[u]

\* UserUpdate: every field may be left out.
Patch(names, passwords, roles, flags) ==
    [name: names \cup {Unset}, password: passwords \cup {Unset}, role: roles \cup {Unset},
     is_active: flags \cup {Unset}]

Set(value, old) == IF value = Unset THEN old ELSE value

\* UserRepository.update: the hash and the version of the password change together.
Patched(row, patch, stamp) ==
    NewRow(row.status, IF patch.name = Unset THEN row.name ELSE Stored(patch.name),
           Set(patch.password, row.password),
           IF patch.password = Unset THEN row.password_changed_at ELSE stamp,
           Set(patch.role, row.role), Set(patch.is_active, row.is_active))

\* update_user.  Only an admin sets a role; its own password is changed by a user who
\* knows the present one; a name that somebody else has is refused.
CheckUpdate(c, u, patch, current_password) ==
    /\ Live(u)
    /\ IsAdmin(c) \/ u = tx[c].user
    /\ patch.role # Unset => IsAdmin(c)
    /\ patch.password # Unset /\ u = tx[c].user => current_password = tx[c].seen.password
    /\ patch.name # Unset => ~NameTaken(Normalize[patch.name], u)
    /\ IF patch.password = Unset THEN UNCHANGED clock ELSE Tick
    /\ Checked(c, "update", u, Loaded(c, u), Patched(Loaded(c, u), patch, clock'))
    /\ CheckFrame

\* delete_user: not the own account.
CheckDelete(c, u) ==
    /\ Live(u)
    /\ IsAdmin(c) /\ u # tx[c].user
    /\ Checked(c, "delete", u, NoUser, NoUser)
    /\ CheckFrame /\ UNCHANGED clock

\* Bug: the link of the tenant is not looked at.
CheckLinkAnyway(c, t, u) ==
    /\ IsManagerOrAbove(c)
    /\ Live(u)
    /\ \A s \in Tenants \ {t} : link[s] # u
    /\ Checked(c, "link", t, link[t], u)
    /\ CheckFrame /\ UNCHANGED clock

\* link_user.
CheckLink(c, t, u) ==
    /\ IsManagerOrAbove(c)
    /\ Live(u)
    /\ link[t] \in {NoUser, u}
    /\ \A s \in Tenants \ {t} : link[s] # u
    /\ Checked(c, "link", t, link[t], u)
    /\ CheckFrame /\ UNCHANGED clock

\* unlink_user.
CheckUnlink(c, t) ==
    /\ IsManagerOrAbove(c)
    /\ Checked(c, "unlink", t, link[t], NoUser)
    /\ CheckFrame /\ UNCHANGED clock

\* assign_manager.
CheckAssign(c, p, u) ==
    /\ IsAdmin(c)
    /\ Live(u) /\ users[u].role = "manager"
    /\ Checked(c, "assign", p, manager[p], u)
    /\ CheckFrame /\ UNCHANGED clock

-----------------------------------------------------------------------------
(* Commits *)

\* Bug: the audit row does not name its actor.
AuditedAnonymously(c) == tx[c].step = "checked"

\* write_audit_log: a row of the same transaction whose actor_id refers to a user.
Audited(c) == tx[c].step = "checked" /\ Live(tx[c].user)

\* A change of a user's row that takes something away from its open requests.
Revokes(old, new) ==
    \E f \in {"status", "password_changed_at", "role", "is_active"} : new[f] # old[f]

\* The request would not be let in, or not with that role, if it came now.
Late(c) ==
    LET row == users[tx[c].user] IN ~Admits(row, tx[c].pwd_v) \/ row.role # tx[c].seen.role

Count(c) ==
    late' = [u \in Users |->
        IF Revokes(users[u], users'[u]) THEN 0
        ELSE IF u = tx[c].user /\ Late(c) THEN late[u] + 1
        ELSE late[u]]

Committing(c, ops) == tx[c].request.op \in ops /\ Audited(c)
Committed(c) == End(c) /\ Count(c) /\ UNCHANGED <<tokens, clock>>

\* Bug: names are compared before the write only.
UniqueNameUnchecked(u, name) == TRUE

\* users.email and users.username are unique.
UniqueName(u, name) == ~NameTaken(name, u)

CommitUser(c) ==
    LET r == tx[c].request  row == Flush(users[r.target], r.before, r.after) IN
    /\ Committing(c, {"create", "update"})
    /\ r.op = "update" => Live(r.target)
    /\ UniqueName(r.target, row.name)
    /\ users' = [users EXCEPT ![r.target] = row]
    /\ UNCHANGED <<link, manager>>
    /\ Committed(c)

\* Bug: properties are not looked at.
UnmanagedAnyway(u) == TRUE

\* The foreign key of properties.manager_id.
Unmanaged(u) == \A p \in Properties : manager[p] # u

\* The links of the user are set to NULL; its audit rows keep no actor.
CommitDelete(c) ==
    LET u == tx[c].request.target IN
    /\ Committing(c, {"delete"})
    /\ Live(u) /\ Unmanaged(u)
    /\ users' = [users EXCEPT ![u] = Deleted]
    /\ link' = [t \in Tenants |-> IF link[t] = u THEN NoUser ELSE link[t]]
    /\ UNCHANGED manager
    /\ Committed(c)

\* tenants.user_id is unique.
UniqueLink(t, u) == u = NoUser \/ \A s \in Tenants \ {t} : link[s] # u

\* The column is written if it differs from the one loaded.
CommitLink(c) ==
    LET r == tx[c].request  u == Written(link[r.target], r.before, r.after) IN
    /\ Committing(c, {"link", "unlink"})
    /\ u = NoUser \/ Live(u)
    /\ UniqueLink(r.target, u)
    /\ link' = [link EXCEPT ![r.target] = u]
    /\ UNCHANGED <<users, manager>>
    /\ Committed(c)

CommitAssign(c) ==
    LET r == tx[c].request  u == Written(manager[r.target], r.before, r.after) IN
    /\ Committing(c, {"assign"})
    /\ Live(u)
    /\ manager' = [manager EXCEPT ![r.target] = u]
    /\ UNCHANGED <<users, link>>
    /\ Committed(c)

-----------------------------------------------------------------------------

\* scripts/seed_admin.py: one admin, and nobody logged in.
Init ==
    /\ \E n \in Names, p \in Passwords :
        users = [u \in Users |-> IF u = Admin THEN NewRow("LIVE", n, p, 0, "admin", "yes") ELSE NoRow]
    /\ link = [t \in Tenants |-> NoUser]
    /\ manager = [p \in Properties |-> NoUser]
    /\ tokens = {}
    /\ tx = [c \in Clients |-> Idle]
    /\ clock = 0
    /\ late = [u \in Users |-> 0]

LogIn(c) ==
    \/ \E s \in Spellings, p \in Passwords : LoginReads(c, s, p)
    \/ IssueToken(c) \/ Authenticate(c) \/ GiveUp(c)

\* What callers ask for.
Everything ==
    [names |-> Spellings, passwords |-> Passwords, roles |-> Role, flags |-> {"yes", "no"},
     patches |-> Patch(Spellings, Passwords, Role, {"yes", "no"}), removed |-> Users, tenants |-> Tenants, properties |-> Properties]

Account(c, w) ==
    \/ \E u \in Users, s \in w.names, p \in w.passwords, r \in w.roles, a \in w.flags :
           CheckCreate(c, u, s, p, r, a)
    \/ \E u \in Users, patch \in w.patches, q \in Passwords : CheckUpdate(c, u, patch, q)
    \/ CommitUser(c)

Removal(c, w) == (\E u \in w.removed : CheckDelete(c, u)) \/ CommitDelete(c)

Linking(c, w) ==
    \/ \E t \in w.tenants, u \in Users : CheckLink(c, t, u)
    \/ \E t \in w.tenants : CheckUnlink(c, t)
    \/ CommitLink(c)

Assignment(c, w) ==
    (\E p \in w.properties, u \in Users : CheckAssign(c, p, u)) \/ CommitAssign(c)

Work(w) ==
    \E c \in Clients :
        LogIn(c) \/ Account(c, w) \/ Removal(c, w) \/ Linking(c, w) \/ Assignment(c, w)

Next == Work(Everything)

Spec == Init /\ [][Next]_vars

-----------------------------------------------------------------------------
(* Properties *)

\* Tables, tokens and requests hold values of their types.
TypeOK ==
    /\ users \in [Users -> Row]
    /\ link \in [Tenants -> Users \cup {NoUser}]
    /\ manager \in [Properties -> Users \cup {NoUser}]
    /\ tokens \subseteq Token
    /\ tx \in [Clients -> Session]
    /\ clock \in 0..MaxStamp
    /\ late \in [Users -> Nat]

\* A token that get_current_user accepts was issued for the password that is in force
\* now, however a login, a change and a reset of the password overlap.
TokenForPassword ==
    \A token \in tokens :
        Admits(users[token.sub], token.pwd_v) => token.password = users[token.sub].password

\* After an account is deactivated, demoted, deleted or given a new password, only the
\* requests that were authenticated before can still commit in its name: one for each
\* other client at most.
RevocationBites == \A u \in Users : late[u] <= Cardinality(Clients) - 1

\* The tables are well typed; every account is stored under the normalised name that
\* lookups ask for, and no two accounts under the same, whatever spellings raced past the
\* pre-checks of create_user and update_user: get_by_identifier is unambiguous.
NamesUnique ==
    /\ TypeOK
    /\ \A u \in Users : users[u].name \in Names
    /\ \A u, v \in Users : Live(u) /\ Live(v) /\ users[u].name = users[v].name => u = v

\* Portal access: no user is linked to two tenants, and neither a tenant nor a property
\* refers to an account that is gone.
ReferencesLive ==
    /\ \A s, t \in Tenants : link[s] = link[t] /\ link[s] # NoUser => s = t
    /\ \A t \in Tenants : link[t] = NoUser \/ Live(link[t])
    /\ \A p \in Properties : manager[p] = NoUser \/ Live(manager[p])

\* A tenant that is linked to a user is moved to another user only by a link_user that
\* looked at the tenant before that link was made.
LinkMovesOnlyBlindly ==
    [][\A t \in Tenants :
         link[t] # NoUser /\ link'[t] \notin {NoUser, link[t]} =>
           \E c \in Clients :
             tx[c].request.op = "link" /\ tx[c].request.target = t /\ tx[c].request.before = NoUser]_vars

\* Deletions never empty the users table: the account a deletion is made from is still
\* there when it commits, even when two admins delete each other at the same time.
SomeAccountRemains == \E u \in Users : Live(u)

-----------------------------------------------------------------------------
(* What the documentation says and overlapping requests do not keep *)

\* link_user refuses a tenant that "is already linked to a different user" and says that
\* "the DB constraint remains the final backstop against concurrent-request races".  The
\* unique constraint guards the user's side only: of two requests that link one tenant to
\* two users, the second moves the tenant to its own user.
LinkNeverMoved ==
    [][\A t \in Tenants : link[t] # NoUser => link'[t] \in {NoUser, link[t]}]_vars
=============================================================================
