---------------------------- MODULE Accounts_proofs ----------------------------
(***************************************************************************)
(* What Accounts promises for any number of clients, users, tenants and    *)
(* properties.                                                             *)
(*                                                                         *)
(* The invariant has three parts.  Sessions: what an open request carries  *)
(* fits its operation, whatever has changed since its checks.  Stamps: the *)
(* version a request is about to give to a password is known to nobody     *)
(* else, and whoever knows the present version of a password knows that    *)
(* password.  Revocations: every commit counted against a revoked account  *)
(* uses up a request that was open when the account was revoked.           *)
(***************************************************************************)
EXTENDS Accounts, FiniteSetTheorems, TLAPS

Columns == {"status", "name", "password", "password_changed_at", "role", "is_active"}

\* The request gives a user a new password version.
Setting(r) ==
    r.op \in {"create", "update"} /\ r.after.password_changed_at # r.before.password_changed_at

\* What was checked of a request, and stays true of it until it commits.
Plan(r, user) ==
    /\ r.op \in {"create", "update"} =>
        /\ r.target \in Users /\ r.before \in Row /\ r.after \in Row
        /\ r.after.name \in Names
        /\ ~Setting(r) => r.after.password = r.before.password
    /\ r.op = "create" => r.before.status = "NONE" /\ r.after.status = "LIVE" /\ Setting(r)
    /\ r.op = "update" => r.before.status = r.after.status
    /\ r.op = "delete" => r.target \in Users \ {user}
    /\ r.op \in {"link", "unlink"} => r.target \in Tenants /\ {r.before, r.after} \subseteq Users \cup {NoUser}
    /\ r.op = "link" => r.before \in {NoUser, r.after}
    /\ r.op = "unlink" => r.after = NoUser
    /\ r.op = "assign" => r.target \in Properties /\ r.before \in Users \cup {NoUser} /\ r.after \in Users

SessionSound(s) ==
    /\ s.step # "idle" => s.user \in Users
    /\ s.request.op # "none" => s.step = "checked"
    /\ s.seen.name \in Names
    /\ Plan(s.request, s.user)

Stamp(r) == r.after.password_changed_at

\* A new password version is a timestamp that nobody else has or knows.
StampsFresh ==
    /\ \A u \in Users : users[u].password_changed_at <= clock
    /\ \A token \in tokens : token.pwd_v <= clock
    /\ \A c \in Clients : tx[c].seen.password_changed_at <= clock
    /\ \A c \in Clients : Setting(tx[c].request) =>
        /\ Stamp(tx[c].request) \in 1..clock
        /\ \A u \in Users : users[u].password_changed_at # Stamp(tx[c].request)
        /\ \A token \in tokens : token.pwd_v # Stamp(tx[c].request)
        /\ \A d \in Clients : tx[d].seen.password_changed_at # Stamp(tx[c].request)
        /\ \A d \in Clients \ {c} : Setting(tx[d].request) => Stamp(tx[d].request) # Stamp(tx[c].request)

\* Who knows the present version of a user's password knows the password.
Knows(u, stamp, password) ==
    users[u].status = "LIVE" /\ users[u].password_changed_at = stamp => users[u].password = password

PasswordsKnown ==
    /\ \A token \in tokens : Knows(token.sub, token.pwd_v, token.password)
    /\ \A c \in Clients : tx[c].step # "idle" =>
        Knows(tx[c].user, tx[c].seen.password_changed_at, tx[c].seen.password)

\* The open requests of a user that a revocation overtook.
Overtaken(u) ==
    {c \in Clients : tx[c].step \in {"authenticated", "checked"} /\ tx[c].user = u /\ Late(c)}

RevocationsCounted ==
    \A u \in Users : late[u] + Cardinality(Overtaken(u)) <= Cardinality(Clients) - 1

IInv ==
    /\ NamesUnique
    /\ ReferencesLive
    /\ SomeAccountRemains
    /\ \A c \in Clients : SessionSound(tx[c])
    /\ StampsFresh
    /\ PasswordsKnown
    /\ RevocationsCounted

-----------------------------------------------------------------------------
(* Rows *)

LEMMA FlushRow ==
    ASSUME NEW cur \in Row, NEW bef \in Row, NEW aft \in Row
    PROVE  /\ Flush(cur, bef, aft) \in Row
           /\ \A f \in Columns :
                f # "password" \/ aft.password_changed_at = bef.password_changed_at =>
                  Flush(cur, bef, aft)[f] = IF aft[f] # bef[f] THEN aft[f] ELSE cur[f]
<1>1. DOMAIN cur = Columns
    BY DEF Row, Columns
<1>2. \A f \in DOMAIN cur :
        f # "password" \/ aft.password_changed_at = bef.password_changed_at =>
          Flush(cur, bef, aft)[f] = IF aft[f] # bef[f] THEN aft[f] ELSE cur[f]
    BY DEF Flush, Written
<1>3. Flush(cur, bef, aft) \in Row
    BY <1>1 DEF Flush, Written, Row, Columns
<1>. QED
    BY <1>1, <1>2, <1>3

LEMMA NamesTyped == Names \subseteq Spellings /\ SomeName \in Names /\ SomePassword \in Passwords
<1>1. Names \subseteq Spellings /\ Names # {}
    BY AccountAssumption DEF Names
<1>. QED
    BY <1>1, AccountAssumption DEF SomeName, SomePassword

LEMMA RowsTyped ==
    /\ NoRow \in Row /\ NoRow.name \in Names /\ NoRow.status = "NONE" /\ NoRow.password_changed_at = 0
    /\ Deleted \in Row /\ Deleted.name \in Names /\ Deleted.status = "DELETED"
    /\ Deleted.password_changed_at = 0
<1>1. 0 \in 0..MaxStamp
    BY AccountAssumption
<1>. QED
    BY <1>1, NamesTyped DEF NoRow, Deleted, NewRow, Row, Role

LEMMA IdleSound ==
    /\ Idle \in Session /\ SessionSound(Idle)
    /\ Idle.step = "idle" /\ Idle.seen = NoRow /\ Idle.request.op = "none"
<1>1. 0 \in 0..MaxStamp
    BY AccountAssumption
<1>2. NoRequest \in Request
    BY DEF NoRequest, Request, Values
<1>. QED
    BY <1>1, <1>2, RowsTyped DEF Idle, Session, SessionSound, Plan, NoRequest

-----------------------------------------------------------------------------
(* Steps of one session that write no table *)

\* c goes on as s; what it newly knows of a user is what the users table says now, and
\* a token it hands out says what it knew.
LEMMA SessionKeeps ==
    ASSUME IInv, NEW c \in Clients, NEW s \in Session, tx' = [tx EXCEPT ![c] = s],
           UNCHANGED <<users, link, manager, late>>, tokens' \subseteq Token,
           \A token \in tokens' \ tokens :
             /\ tx[c].step # "idle" /\ token.sub = tx[c].user
             /\ token.pwd_v = tx[c].seen.password_changed_at /\ token.password = tx[c].seen.password,
           clock' \in 0..MaxStamp, clock <= clock', SessionSound(s),
           \/ s.seen.password_changed_at = 0
           \/ s.seen.password_changed_at = tx[c].seen.password_changed_at
           \/ \E u \in Users : s.seen.password_changed_at = users[u].password_changed_at,
           s.step # "idle" => Knows(s.user, s.seen.password_changed_at, s.seen.password),
           Setting(s.request) => clock' = clock + 1 /\ Stamp(s.request) = clock',
           s.step \in {"authenticated", "checked"} =>
             \/ /\ tx[c].step \in {"authenticated", "checked"} /\ tx[c].user = s.user
                /\ tx[c].pwd_v = s.pwd_v /\ tx[c].seen = s.seen
             \/ Admits(users[s.user], s.pwd_v) /\ users[s.user].role = s.seen.role
    PROVE  IInv'
<1>1. TypeOK /\ tx'[c] = s /\ \A d \in Clients \ {c} : tx'[d] = tx[d]
    BY DEF IInv, NamesUnique, TypeOK
<1>2. NamesUnique' /\ ReferencesLive' /\ SomeAccountRemains'
    <2>1. TypeOK'
        BY <1>1 DEF TypeOK
    <2>. QED
        BY <2>1 DEF IInv, NamesUnique, ReferencesLive, SomeAccountRemains, Live
<1>3. \A d \in Clients : SessionSound(tx'[d])
    BY <1>1 DEF IInv
<1>4. /\ clock \in Nat /\ clock' \in Nat
      /\ \A u \in Users : users[u].password_changed_at \in Nat
      /\ \A token \in tokens' : token.pwd_v \in Nat
      /\ \A d \in Clients : tx[d].seen.password_changed_at \in Nat
    BY <1>1, AccountAssumption DEF TypeOK, Row, Token, Session
<1>5. StampsFresh'
    <2>1. /\ \A u \in Users : users'[u].password_changed_at <= clock'
          /\ \A token \in tokens' : token.pwd_v <= clock /\ token.pwd_v <= clock'
        BY <1>4 DEF IInv, StampsFresh
    <2>2. s.seen.password_changed_at <= clock /\ s.seen.password_changed_at \in Nat
        BY <1>4 DEF IInv, StampsFresh
    <2>3. \A d \in Clients : tx'[d].seen.password_changed_at <= clock'
        BY <1>1, <1>4, <2>2 DEF IInv, StampsFresh
    <2>4. ASSUME NEW d \in Clients, Setting(tx'[d].request)
          PROVE  /\ Stamp(tx'[d].request) \in 1..clock'
                 /\ \A u \in Users : users'[u].password_changed_at # Stamp(tx'[d].request)
                 /\ \A token \in tokens' : token.pwd_v # Stamp(tx'[d].request)
                 /\ \A e \in Clients : tx'[e].seen.password_changed_at # Stamp(tx'[d].request)
                 /\ \A e \in Clients \ {d} : Setting(tx'[e].request) => Stamp(tx'[e].request) # Stamp(tx'[d].request)
        <3>0. \A e \in Clients : Setting(tx[e].request) => Stamp(tx[e].request) \in 1..clock
            BY DEF IInv, StampsFresh
        <3>1. CASE d = c
            <4>1. Stamp(tx'[d].request) = clock + 1 /\ clock' = clock + 1
                BY <1>1, <2>4, <3>1
            <4>2. \A e \in Clients : tx'[e].seen.password_changed_at <= clock /\ tx'[e].seen.password_changed_at \in Nat
                BY <1>1, <1>4, <2>2 DEF IInv, StampsFresh
            <4>3. \A e \in Clients \ {d} : Setting(tx'[e].request) => Stamp(tx'[e].request) \in 1..clock
                BY <1>1, <3>0, <3>1
            <4>4. /\ \A u \in Users : users'[u].password_changed_at <= clock
                  /\ \A token \in tokens' : token.pwd_v <= clock
                BY <2>1 DEF IInv, StampsFresh
            <4>. QED
                BY <1>4, <4>1, <4>2, <4>3, <4>4
        <3>2. CASE d # c
            <4>. DEFINE n == Stamp(tx[d].request)
            <4>1. tx'[d].request = tx[d].request /\ Setting(tx[d].request)
                BY <1>1, <2>4, <3>2
            <4>2. /\ n \in 1..clock
                  /\ \A u \in Users : users[u].password_changed_at # n
                  /\ \A token \in tokens' : token.pwd_v # n
                  /\ \A e \in Clients : tx[e].seen.password_changed_at # n
                  /\ \A e \in Clients \ {d} : Setting(tx[e].request) => Stamp(tx[e].request) # n
                BY <4>1 DEF IInv, StampsFresh
            <4>. HIDE DEF n
            <4>3. s.seen.password_changed_at # n
                BY <1>4, <4>2
            <4>4. Setting(s.request) => Stamp(s.request) # n
                BY <1>4, <4>2
            <4>5. /\ n \in 1..clock'
                  /\ \A e \in Clients : tx'[e].seen.password_changed_at # n
                  /\ \A e \in Clients \ {d} : Setting(tx'[e].request) => Stamp(tx'[e].request) # n
                BY <1>1, <1>4, <4>2, <4>3, <4>4
            <4>6. Stamp(tx'[d].request) = n
                BY <4>1 DEF n
            <4>. QED
                BY <4>2, <4>5, <4>6
        <3>. QED
            BY <3>1, <3>2
    <2>. QED
        BY <2>1, <2>3, <2>4 DEF StampsFresh, Stamp
<1>6. PasswordsKnown'
    BY <1>1 DEF IInv, PasswordsKnown, Knows
<1>7. RevocationsCounted'
    <2>. SUFFICES ASSUME NEW u \in Users
                  PROVE  late'[u] + Cardinality(Overtaken(u)') <= Cardinality(Clients) - 1
        BY DEF RevocationsCounted
    <2>1. Overtaken(u)' \subseteq Overtaken(u)
        BY <1>1 DEF Overtaken, Late, Admits
    <2>2. IsFiniteSet(Overtaken(u)) /\ IsFiniteSet(Clients)
        BY FS_Subset, AccountAssumption DEF Overtaken
    <2>3. /\ Cardinality(Overtaken(u)') <= Cardinality(Overtaken(u))
          /\ Cardinality(Overtaken(u)') \in Nat /\ Cardinality(Overtaken(u)) \in Nat
          /\ Cardinality(Clients) \in Nat
        BY <2>1, <2>2, FS_Subset, FS_CardinalityType
    <2>4. late[u] \in Nat /\ late'[u] = late[u]
        BY <1>1 DEF TypeOK
    <2>5. late[u] + Cardinality(Overtaken(u)) <= Cardinality(Clients) - 1
        BY DEF IInv, RevocationsCounted
    <2>. QED
        BY <2>3, <2>4, <2>5
<1>. QED
    BY <1>2, <1>3, <1>5, <1>6, <1>7 DEF IInv

LEMMA LogInKeeps ==
    ASSUME IInv, NEW c \in Clients, LogIn(c)
    PROVE  IInv'
<1>1. TypeOK /\ tx[c] \in Session /\ clock \in 0..MaxStamp /\ SessionSound(tx[c])
    BY DEF IInv, NamesUnique, TypeOK
<1>2. \A u \in Users : users[u] \in Row /\ users[u].name \in Names
    BY <1>1 DEF IInv, NamesUnique, TypeOK
<1>3. CASE \E n \in Spellings, p \in Passwords : LoginReads(c, n, p)
    <2>1. PICK u \in Users :
            /\ tx' = [tx EXCEPT ![c] = [Idle EXCEPT !.step = "login", !.user = u, !.seen = users[u]]]
            /\ UNCHANGED <<users, link, manager, tokens, clock, late>>
        BY <1>3 DEF LoginReads
    <2>. DEFINE s == [Idle EXCEPT !.step = "login", !.user = u, !.seen = users[u]]
    <2>2. s \in Session /\ s.step = "login" /\ s.user = u /\ s.seen = users[u] /\ s.request = Idle.request
        BY <1>2, IdleSound DEF Session
    <2>3. SessionSound(s) /\ ~Setting(s.request)
        BY <1>2, <2>2, IdleSound DEF SessionSound, Plan, Setting
    <2>. HIDE DEF s
    <2>4. tx' = [tx EXCEPT ![c] = s]
        BY <2>1 DEF s
    <2>5. Knows(s.user, s.seen.password_changed_at, s.seen.password)
        BY <2>2 DEF Knows
    <2>6. clock <= clock' /\ clock' \in 0..MaxStamp /\ tokens' \subseteq Token
        BY <1>1, <2>1, AccountAssumption DEF TypeOK
    <2>. QED
        BY <2>1, <2>2, <2>3, <2>4, <2>5, <2>6, SessionKeeps
<1>4. CASE IssueToken(c)
    <2>1. /\ tx' = [tx EXCEPT ![c] = Idle] /\ tx[c].step # "idle"
          /\ UNCHANGED <<users, link, manager, clock, late>>
          /\ tokens' = tokens \cup
               {[sub |-> tx[c].user, pwd_v |-> tx[c].seen.password_changed_at, password |-> tx[c].seen.password]}
        BY <1>4 DEF IssueToken, End
    <2>2. tokens' \subseteq Token
        <3>1. tx[c].user \in Users /\ tx[c].seen.password_changed_at \in 0..MaxStamp /\ tx[c].seen.password \in Passwords
            BY <1>1, <2>1 DEF SessionSound, Session, Row
        <3>. QED
            BY <1>1, <2>1, <3>1 DEF TypeOK, Token
    <2>3. \A token \in tokens' \ tokens :
             /\ tx[c].step # "idle" /\ token.sub = tx[c].user
             /\ token.pwd_v = tx[c].seen.password_changed_at /\ token.password = tx[c].seen.password
        BY <2>1
    <2>4. clock <= clock' /\ clock' \in 0..MaxStamp
        BY <1>1, <2>1, AccountAssumption
    <2>. QED
        BY <2>1, <2>2, <2>3, <2>4, SessionKeeps, IdleSound, RowsTyped DEF Setting
<1>5. CASE Authenticate(c)
    <2>1. PICK token \in tokens : Admits(users[token.sub], token.pwd_v) /\ Enter(c, token)
        BY <1>5 DEF Authenticate
    <2>2. token.sub \in Users /\ token.pwd_v \in 0..MaxStamp
        BY <1>1 DEF TypeOK, Token
    <2>. DEFINE s == [Idle EXCEPT !.step = "authenticated", !.user = token.sub,
                                  !.seen = users[token.sub], !.pwd_v = token.pwd_v]
    <2>3. /\ s \in Session /\ s.step = "authenticated" /\ s.user = token.sub /\ s.seen = users[token.sub]
          /\ s.pwd_v = token.pwd_v /\ s.request = Idle.request
        BY <1>2, <2>2, IdleSound DEF Session
    <2>4. SessionSound(s) /\ ~Setting(s.request)
        BY <1>2, <2>2, <2>3, IdleSound DEF SessionSound, Plan, Setting
    <2>. HIDE DEF s
    <2>5. tx' = [tx EXCEPT ![c] = s]
        BY <2>1 DEF s, Enter
    <2>6. Knows(s.user, s.seen.password_changed_at, s.seen.password)
        BY <2>3 DEF Knows
    <2>7. /\ clock <= clock' /\ clock' \in 0..MaxStamp /\ tokens' \subseteq Token /\ tokens' = tokens
          /\ UNCHANGED <<users, link, manager, late>>
        BY <1>1, <1>5, AccountAssumption DEF TypeOK, Authenticate
    <2>8. Admits(users[s.user], s.pwd_v) /\ users[s.user].role = s.seen.role
        BY <2>1, <2>3
    <2>. QED
        BY <2>2, <2>3, <2>4, <2>5, <2>6, <2>7, <2>8, SessionKeeps
<1>6. CASE GiveUp(c)
    <2>1. /\ tx' = [tx EXCEPT ![c] = Idle] /\ UNCHANGED <<users, link, manager, tokens, clock, late>>
          /\ clock <= clock' /\ clock' \in 0..MaxStamp /\ tokens' \subseteq Token
        BY <1>1, <1>6, AccountAssumption DEF GiveUp, End, TypeOK
    <2>. QED
        BY <2>1, SessionKeeps, IdleSound, RowsTyped DEF Setting
<1>. QED
    BY <1>3, <1>4, <1>5, <1>6 DEF LogIn

\* A check that passes: the request is fixed, the session otherwise stays as it was.
LEMMA CheckedKeeps ==
    ASSUME IInv, NEW c \in Clients, NEW op, NEW target, NEW before, NEW after,
           Checked(c, op, target, before, after), CheckFrame,
           NEW r, r = [op |-> op, target |-> target, before |-> before, after |-> after],
           r \in Request, Plan(r, tx[c].user),
           clock' \in 0..MaxStamp, clock <= clock',
           Setting(r) => clock' = clock + 1 /\ Stamp(r) = clock'
    PROVE  IInv'
<1>1. TypeOK /\ tx[c] \in Session /\ SessionSound(tx[c]) /\ tx[c].step = "authenticated"
    BY DEF IInv, NamesUnique, TypeOK, Checked
<1>. DEFINE s == [tx[c] EXCEPT !.step = "checked", !.request = r]
<1>2. /\ s \in Session /\ s.step = "checked" /\ s.user = tx[c].user /\ s.seen = tx[c].seen
      /\ s.pwd_v = tx[c].pwd_v /\ s.request = r
    BY <1>1 DEF Session
<1>3. tx' = [tx EXCEPT ![c] = s]
    BY <1>1 DEF Checked, TypeOK
<1>4. SessionSound(s)
    BY <1>1, <1>2 DEF SessionSound
<1>5. Knows(s.user, s.seen.password_changed_at, s.seen.password)
    BY <1>1, <1>2 DEF IInv, PasswordsKnown
<1>6. UNCHANGED <<users, link, manager, late>> /\ tokens' \subseteq Token /\ tokens' = tokens
    BY <1>1 DEF CheckFrame, TypeOK
<1>. HIDE DEF s
<1>. QED
    BY <1>1, <1>2, <1>3, <1>4, <1>5, <1>6, SessionKeeps

LEMMA LoadedRow ==
    ASSUME IInv, NEW c \in Clients, NEW u \in Users
    PROVE  /\ Loaded(c, u) \in Row /\ Loaded(c, u).name \in Names
           /\ Loaded(c, u).password_changed_at <= clock
<1>1. /\ users[u] \in Row /\ users[u].name \in Names /\ users[u].password_changed_at <= clock
      /\ tx[c].seen \in Row /\ tx[c].seen.name \in Names /\ tx[c].seen.password_changed_at <= clock
    BY DEF IInv, NamesUnique, TypeOK, StampsFresh, Session, SessionSound
<1>. QED
    BY <1>1 DEF Loaded

\* An update of a user either gives the password a new version or leaves it alone.
LEMMA UpdateChecked ==
    ASSUME IInv, NEW c \in Clients, NEW u \in Users, NEW after \in Row,
           Checked(c, "update", u, Loaded(c, u), after), CheckFrame,
           after.name \in Names, after.status = Loaded(c, u).status,
           \/ Tick /\ after.password_changed_at = clock'
           \/ /\ clock' = clock /\ after.password = Loaded(c, u).password
              /\ after.password_changed_at = Loaded(c, u).password_changed_at
    PROVE  IInv'
<1>. DEFINE r == [op |-> "update", target |-> u, before |-> Loaded(c, u), after |-> after]
<1>1. clock \in 0..MaxStamp
    BY DEF IInv, NamesUnique, TypeOK
<1>2. r \in Request
    BY LoadedRow DEF Request, Values
<1>3. /\ clock' \in 0..MaxStamp /\ clock <= clock'
      /\ Setting(r) => clock' = clock + 1 /\ Stamp(r) = clock'
      /\ ~Setting(r) => after.password = Loaded(c, u).password
    <2>1. Loaded(c, u).password_changed_at \in Nat /\ Loaded(c, u).password_changed_at <= clock
        BY LoadedRow, AccountAssumption DEF Row
    <2>. QED
        BY <1>1, <2>1, AccountAssumption DEF Tick, Setting, Stamp
<1>4. Plan(r, tx[c].user)
    BY <1>3, LoadedRow DEF Plan
<1>. HIDE DEF r
<1>. QED
    BY <1>2, <1>3, <1>4, CheckedKeeps DEF r

LEMMA AccountChecksKeep ==
    ASSUME IInv, NEW c \in Clients, NEW u \in Users
    PROVE  /\ \A s \in Spellings, p \in Passwords, role \in Role, a \in {"yes", "no"} :
                CheckCreate(c, u, s, p, role, a) => IInv'
           /\ \A patch \in Everything.patches, q \in Passwords : CheckUpdate(c, u, patch, q) => IInv'
           /\ CheckDelete(c, u) => IInv'
<1>1. clock \in 0..MaxStamp /\ MaxStamp \in Nat
    BY AccountAssumption DEF IInv, NamesUnique, TypeOK
<1>2. \A s \in Spellings : Stored(s) \in Names /\ Stored(s) \in Spellings
    BY AccountAssumption DEF Stored, Names
<1>3. ASSUME NEW s \in Spellings, NEW p \in Passwords, NEW role \in Role, NEW a \in {"yes", "no"},
             CheckCreate(c, u, s, p, role, a)
      PROVE  IInv'
    <2>1. clock' = clock + 1 /\ clock' \in 0..MaxStamp /\ clock <= clock' /\ clock' # 0
        BY <1>1, <1>3 DEF CheckCreate, Tick
    <2>. DEFINE row == NewRow("LIVE", Stored(s), p, clock', role, a)
                r == [op |-> "create", target |-> u, before |-> NoRow, after |-> row]
    <2>2. /\ row \in Row /\ row.name \in Names /\ row.status = "LIVE" /\ row.password_changed_at = clock'
        BY <1>2, <2>1 DEF NewRow, Row
    <2>. HIDE DEF row
    <2>3. r \in Request /\ Setting(r) /\ Stamp(r) = clock' /\ Plan(r, tx[c].user)
        BY <2>1, <2>2, RowsTyped DEF Request, Values, Setting, Stamp, Plan
    <2>4. Checked(c, "create", u, NoRow, row) /\ CheckFrame
        BY <1>3 DEF CheckCreate, row
    <2>. QED
        BY <2>1, <2>3, <2>4, CheckedKeeps
<1>4. ASSUME NEW patch \in Everything.patches, NEW q \in Passwords, CheckUpdate(c, u, patch, q)
      PROVE  IInv'
    <2>. DEFINE old == Loaded(c, u)  row == Patched(old, patch, clock')
    <2>1. old \in Row /\ old.name \in Names
        BY LoadedRow
    <2>2. /\ patch.name \in Spellings \cup {Unset} /\ patch.password \in Passwords \cup {Unset}
          /\ patch.role \in Role \cup {Unset} /\ patch.is_active \in {"yes", "no"} \cup {Unset}
        BY DEF Everything, Patch
    <2>3. /\ patch.password # Unset => Tick
          /\ patch.password = Unset => clock' = clock
        BY <1>4 DEF CheckUpdate
    <2>4. clock' \in 0..MaxStamp
        BY <1>1, <2>3 DEF Tick
    <2>. HIDE DEF old
    <2>5. /\ row.status = old.status
          /\ row.name = IF patch.name = Unset THEN old.name ELSE Stored(patch.name)
          /\ row.password = IF patch.password = Unset THEN old.password ELSE patch.password
          /\ row.password_changed_at = IF patch.password = Unset THEN old.password_changed_at ELSE clock'
          /\ row.role = IF patch.role = Unset THEN old.role ELSE patch.role
          /\ row.is_active = IF patch.is_active = Unset THEN old.is_active ELSE patch.is_active
        BY DEF Patched, NewRow, Set
    <2>6. row \in Row
        <3>1. /\ old.status \in {"NONE", "LIVE", "DELETED"} /\ row.name \in Spellings /\ row.password \in Passwords
              /\ row.password_changed_at \in 0..MaxStamp /\ row.role \in Role /\ row.is_active \in {"yes", "no"}
            BY <1>2, <2>1, <2>2, <2>4, <2>5 DEF Row
        <3>2. row = NewRow(row.status, row.name, row.password, row.password_changed_at, row.role, row.is_active)
            BY DEF Patched, NewRow
        <3>. QED
            BY <2>5, <3>1, <3>2 DEF NewRow, Row
    <2>7. row.name \in Names
        BY <1>2, <2>1, <2>2, <2>5
    <2>8. \/ Tick /\ row.password_changed_at = clock'
          \/ /\ clock' = clock /\ row.password = old.password
             /\ row.password_changed_at = old.password_changed_at
        BY <2>3, <2>5
    <2>9. Checked(c, "update", u, old, row) /\ CheckFrame
        BY <1>4 DEF CheckUpdate, old
    <2>. HIDE DEF row
    <2>. QED
        BY <2>5, <2>6, <2>7, <2>8, <2>9, UpdateChecked DEF old
<1>5. ASSUME CheckDelete(c, u) PROVE IInv'
    <2>. DEFINE r == [op |-> "delete", target |-> u, before |-> NoUser, after |-> NoUser]
    <2>1. r \in Request /\ Plan(r, tx[c].user) /\ ~Setting(r)
        BY <1>5 DEF CheckDelete, Request, Values, Plan, Setting
    <2>2. Checked(c, "delete", u, NoUser, NoUser) /\ CheckFrame /\ clock' = clock
        BY <1>5 DEF CheckDelete
    <2>. QED
        BY <1>1, <2>1, <2>2, CheckedKeeps
<1>. QED
    BY <1>3, <1>4, <1>5

LEMMA ReferenceChecksKeep ==
    ASSUME IInv, NEW c \in Clients
    PROVE  /\ \A t \in Tenants, u \in Users : CheckLink(c, t, u) => IInv'
           /\ \A t \in Tenants : CheckUnlink(c, t) => IInv'
           /\ \A p \in Properties, u \in Users : CheckAssign(c, p, u) => IInv'
<1>1. /\ clock \in 0..MaxStamp /\ MaxStamp \in Nat
      /\ \A t \in Tenants : link[t] \in Users \cup {NoUser}
      /\ \A p \in Properties : manager[p] \in Users \cup {NoUser}
    BY AccountAssumption DEF IInv, NamesUnique, TypeOK
<1>2. ASSUME NEW op \in {"link", "unlink", "assign"}, NEW x \in Tenants \cup Properties,
             NEW before \in Users \cup {NoUser}, NEW after \in Users \cup {NoUser},
             Checked(c, op, x, before, after), CheckFrame, UNCHANGED clock,
             op = "link" => x \in Tenants /\ before \in {NoUser, after},
             op = "unlink" => x \in Tenants /\ after = NoUser,
             op = "assign" => x \in Properties /\ after \in Users
      PROVE  IInv'
    <2>. DEFINE r == [op |-> op, target |-> x, before |-> before, after |-> after]
    <2>1. r \in Request /\ ~Setting(r)
        BY DEF Request, Values, Setting
    <2>2. Plan(r, tx[c].user)
        BY <1>2 DEF Plan
    <2>. QED
        BY <1>1, <1>2, <2>1, <2>2, CheckedKeeps
<1>3. ASSUME NEW t \in Tenants, NEW u \in Users, CheckLink(c, t, u) PROVE IInv'
    BY <1>1, <1>2, <1>3 DEF CheckLink
<1>4. ASSUME NEW t \in Tenants, CheckUnlink(c, t) PROVE IInv'
    BY <1>1, <1>2, <1>4 DEF CheckUnlink
<1>5. ASSUME NEW p \in Properties, NEW u \in Users, CheckAssign(c, p, u) PROVE IInv'
    BY <1>1, <1>2, <1>5 DEF CheckAssign
<1>. QED
    BY <1>3, <1>4, <1>5

-----------------------------------------------------------------------------
(* Commits *)

\* What a commit may do to the password of a user: nothing, take it away with the account,
\* or give it the version that the request fixed when it was checked.
PasswordStep(c, u) ==
    \/ /\ users'[u].password_changed_at = users[u].password_changed_at
       /\ users'[u].password = users[u].password
       /\ users'[u].status = "LIVE" => users[u].status = "LIVE"
    \/ users'[u] = Deleted
    \/ Setting(tx[c].request) /\ users'[u].password_changed_at = Stamp(tx[c].request)

LEMMA StampsKeep ==
    ASSUME IInv, NEW c \in Clients, tx' = [tx EXCEPT ![c] = Idle], UNCHANGED <<tokens, clock>>,
           users' \in [Users -> Row], \A u \in Users : PasswordStep(c, u)
    PROVE  StampsFresh' /\ PasswordsKnown'
<1>1. /\ TypeOK /\ tx'[c] = Idle /\ \A d \in Clients \ {c} : tx'[d] = tx[d]
      /\ clock \in Nat
    BY AccountAssumption DEF IInv, NamesUnique, TypeOK
<1>2. /\ Idle.seen.password_changed_at = 0 /\ ~Setting(Idle.request) /\ Idle.step = "idle"
      /\ Deleted.password_changed_at = 0 /\ Deleted.status # "LIVE"
    BY IdleSound, RowsTyped DEF Setting
<1>3. ASSUME NEW d \in Clients, Setting(tx[d].request)
      PROVE  /\ Stamp(tx[d].request) \in 1..clock
             /\ \A u \in Users : users[u].password_changed_at # Stamp(tx[d].request)
             /\ \A token \in tokens : token.pwd_v # Stamp(tx[d].request)
             /\ \A e \in Clients : tx[e].seen.password_changed_at # Stamp(tx[d].request)
             /\ \A e \in Clients \ {d} : Setting(tx[e].request) => Stamp(tx[e].request) # Stamp(tx[d].request)
    BY <1>3 DEF IInv, StampsFresh
<1>4. StampsFresh'
    <2>1. ASSUME NEW u \in Users PROVE users'[u].password_changed_at <= clock
        <3>1. users[u].password_changed_at <= clock
            BY DEF IInv, StampsFresh
        <3>. QED
            BY <1>1, <1>2, <1>3, <3>1 DEF PasswordStep
    <2>2. /\ \A token \in tokens : token.pwd_v <= clock
          /\ \A d \in Clients : tx'[d].seen.password_changed_at <= clock
        BY <1>1, <1>2 DEF IInv, StampsFresh
    <2>3. ASSUME NEW d \in Clients, Setting(tx'[d].request)
          PROVE  /\ Stamp(tx'[d].request) \in 1..clock
                 /\ \A u \in Users : users'[u].password_changed_at # Stamp(tx'[d].request)
                 /\ \A token \in tokens : token.pwd_v # Stamp(tx'[d].request)
                 /\ \A e \in Clients : tx'[e].seen.password_changed_at # Stamp(tx'[d].request)
                 /\ \A e \in Clients \ {d} : Setting(tx'[e].request) => Stamp(tx'[e].request) # Stamp(tx'[d].request)
        <3>. DEFINE n == Stamp(tx[d].request)
        <3>1. d # c /\ tx'[d] = tx[d] /\ Setting(tx[d].request)
            BY <1>1, <1>2, <2>3
        <3>2. n \in 1..clock /\ n # 0
            BY <1>1, <1>3, <3>1
        <3>3. \A u \in Users : users'[u].password_changed_at # n
            <4>. SUFFICES ASSUME NEW u \in Users PROVE users'[u].password_changed_at # n
                OBVIOUS
            <4>1. users[u].password_changed_at # n
                BY <1>3, <3>1
            <4>2. Setting(tx[c].request) => Stamp(tx[c].request) # n
                BY <1>3, <3>1
            <4>. QED
                BY <1>2, <3>2, <4>1, <4>2 DEF PasswordStep
        <3>4. \A e \in Clients : tx'[e].seen.password_changed_at # n
            BY <1>1, <1>2, <1>3, <3>1, <3>2
        <3>5. \A e \in Clients \ {d} : Setting(tx'[e].request) => Stamp(tx'[e].request) # n
            BY <1>1, <1>2, <1>3, <3>1
        <3>6. \A token \in tokens : token.pwd_v # n
            BY <1>3, <3>1
        <3>7. Stamp(tx'[d].request) = n
            BY <3>1
        <3>. HIDE DEF n
        <3>. QED
            BY <3>2, <3>3, <3>4, <3>5, <3>6, <3>7
    <2>. QED
        BY <2>1, <2>2, <2>3 DEF StampsFresh, Stamp
<1>5. PasswordsKnown'
    <2>1. ASSUME NEW u \in Users, NEW n, NEW p, Knows(u, n, p),
                 Setting(tx[c].request) => Stamp(tx[c].request) # n
          PROVE  users'[u].status = "LIVE" /\ users'[u].password_changed_at = n => users'[u].password = p
        BY <1>2, <2>1 DEF PasswordStep, Knows
    <2>2. ASSUME NEW token \in tokens'
          PROVE  users'[token.sub].status = "LIVE" /\ users'[token.sub].password_changed_at = token.pwd_v =>
                    users'[token.sub].password = token.password
        <3>1. token \in tokens /\ token.sub \in Users /\ Knows(token.sub, token.pwd_v, token.password)
            BY <1>1, <2>2 DEF TypeOK, Token, IInv, PasswordsKnown
        <3>. QED
            BY <1>3, <2>1, <3>1
    <2>3. ASSUME NEW d \in Clients, tx'[d].step # "idle"
          PROVE  users'[tx'[d].user].status = "LIVE"
                   /\ users'[tx'[d].user].password_changed_at = tx'[d].seen.password_changed_at =>
                    users'[tx'[d].user].password = tx'[d].seen.password
        <3>1. d # c /\ tx'[d] = tx[d]
            BY <1>1, <1>2, <2>3
        <3>2. tx[d].user \in Users /\ Knows(tx[d].user, tx[d].seen.password_changed_at, tx[d].seen.password)
            BY <2>3, <3>1 DEF IInv, PasswordsKnown, SessionSound
        <3>. QED
            BY <1>3, <2>1, <3>1, <3>2
    <2>. QED
        BY <2>2, <2>3 DEF PasswordsKnown, Knows
<1>. QED
    BY <1>4, <1>5

\* Each commit that counts ends a request that was overtaken; one that revokes ends a
\* request itself.
LEMMA RevocationsKeep ==
    ASSUME IInv, NEW c \in Clients, tx' = [tx EXCEPT ![c] = Idle], Count(c), tx[c].step = "checked"
    PROVE  RevocationsCounted' /\ late' \in [Users -> Nat]
<1>1. TypeOK /\ tx'[c] = Idle /\ (\A d \in Clients \ {c} : tx'[d] = tx[d]) /\ Idle.step = "idle"
    BY IdleSound DEF IInv, NamesUnique, TypeOK
<1>2. IsFiniteSet(Clients) /\ Cardinality(Clients) \in Nat
    BY AccountAssumption, FS_CardinalityType
<1>3. late' \in [Users -> Nat]
    BY <1>1 DEF Count, TypeOK
<1>4. ASSUME NEW u \in Users
      PROVE  late'[u] + Cardinality(Overtaken(u)') <= Cardinality(Clients) - 1
    <2>1. /\ IsFiniteSet(Overtaken(u)) /\ IsFiniteSet(Overtaken(u)')
          /\ Cardinality(Overtaken(u)) \in Nat /\ Cardinality(Overtaken(u)') \in Nat
        <3>1. Overtaken(u) \subseteq Clients /\ Overtaken(u)' \subseteq Clients
            BY DEF Overtaken
        <3>. QED
            BY <1>2, <3>1, FS_Subset, FS_CardinalityType
    <2>2. late[u] \in Nat /\ late[u] + Cardinality(Overtaken(u)) <= Cardinality(Clients) - 1
        BY <1>1 DEF IInv, RevocationsCounted, TypeOK
    <2>3. CASE Revokes(users[u], users'[u])
        <3>1. late'[u] = 0
            BY <2>3 DEF Count
        <3>2. Overtaken(u)' \subseteq Clients \ {c}
            BY <1>1 DEF Overtaken
        <3>3. IsFiniteSet(Clients \ {c}) /\ Cardinality(Clients \ {c}) = Cardinality(Clients) - 1
            BY <1>2, FS_RemoveElement
        <3>4. Cardinality(Overtaken(u)') <= Cardinality(Clients \ {c})
            BY <3>2, <3>3, FS_Subset
        <3>. QED
            BY <1>2, <2>1, <3>1, <3>3, <3>4
    <2>4. CASE ~Revokes(users[u], users'[u])
        <3>1. /\ users'[u].status = users[u].status /\ users'[u].role = users[u].role
              /\ users'[u].is_active = users[u].is_active
              /\ users'[u].password_changed_at = users[u].password_changed_at
            BY <2>4 DEF Revokes
        <3>2. Overtaken(u)' \subseteq Overtaken(u) \ {c}
            BY <1>1, <3>1 DEF Overtaken, Late, Admits
        <3>3. CASE u = tx[c].user /\ Late(c)
            <4>1. late'[u] = late[u] + 1
                BY <2>4, <3>3 DEF Count
            <4>2. c \in Overtaken(u)
                BY <3>3 DEF Overtaken
            <4>3. IsFiniteSet(Overtaken(u) \ {c}) /\ Cardinality(Overtaken(u) \ {c}) = Cardinality(Overtaken(u)) - 1
                BY <2>1, <4>2, FS_RemoveElement
            <4>4. Cardinality(Overtaken(u)') <= Cardinality(Overtaken(u) \ {c})
                BY <3>2, <4>3, FS_Subset
            <4>. QED
                BY <1>2, <2>1, <2>2, <4>1, <4>3, <4>4
        <3>4. CASE ~(u = tx[c].user /\ Late(c))
            <4>1. late'[u] = late[u]
                BY <2>4, <3>4 DEF Count
            <4>2. Cardinality(Overtaken(u)') <= Cardinality(Overtaken(u))
                BY <2>1, <3>2, FS_Subset
            <4>. QED
                BY <1>2, <2>1, <2>2, <4>1, <4>2
        <3>. QED
            BY <3>3, <3>4
    <2>. QED
        BY <2>3, <2>4
<1>. QED
    BY <1>3, <1>4 DEF RevocationsCounted

\* What every commit shares: it ends its session, and the tables it leaves have to be
\* looked at.
LEMMA CommittedKeeps ==
    ASSUME IInv, NEW c \in Clients, tx[c].step = "checked", Committed(c),
           users' \in [Users -> Row], \A u \in Users : PasswordStep(c, u),
           \A u \in Users : users'[u].name \in Names,
           \A u, v \in Users :
             users'[u].status = "LIVE" /\ users'[v].status = "LIVE" /\ users'[u].name = users'[v].name => u = v,
           \E u \in Users : users'[u].status = "LIVE",
           link' \in [Tenants -> Users \cup {NoUser}], manager' \in [Properties -> Users \cup {NoUser}],
           ReferencesLive'
    PROVE  IInv'
<1>1. TypeOK /\ tx' = [tx EXCEPT ![c] = Idle] /\ Count(c) /\ UNCHANGED <<tokens, clock>>
    BY DEF Committed, End, IInv, NamesUnique
<1>2. StampsFresh' /\ PasswordsKnown' /\ RevocationsCounted' /\ late' \in [Users -> Nat]
    BY <1>1, StampsKeep, RevocationsKeep
<1>3. TypeOK' /\ \A d \in Clients : SessionSound(tx'[d])
    BY <1>1, <1>2, IdleSound DEF TypeOK, IInv
<1>4. NamesUnique' /\ SomeAccountRemains'
    BY <1>3 DEF NamesUnique, SomeAccountRemains, Live
<1>. QED
    BY <1>2, <1>3, <1>4 DEF IInv

LEMMA CommitUserKeeps ==
    ASSUME IInv, NEW c \in Clients, CommitUser(c)
    PROVE  IInv'
<1>. DEFINE r == tx[c].request  x == r.target  row == Flush(users[x], r.before, r.after)
<1>1. /\ r.op \in {"create", "update"} /\ tx[c].step = "checked" /\ (r.op = "update" => Live(x))
      /\ ~NameTaken(row.name, x) /\ users' = [users EXCEPT ![x] = row]
      /\ link' = link /\ manager' = manager /\ Committed(c)
    BY DEF CommitUser, Committing, Audited, UniqueName
<1>2. TypeOK /\ Plan(r, tx[c].user)
    BY DEF IInv, NamesUnique, SessionSound
<1>3. /\ x \in Users /\ r.before \in Row /\ r.after \in Row /\ r.after.name \in Names
      /\ ~Setting(r) => r.after.password = r.before.password
      /\ r.op = "create" => r.before.status = "NONE" /\ r.after.status = "LIVE" /\ Setting(r)
      /\ r.op = "update" => r.before.status = r.after.status
    BY <1>1, <1>2 DEF Plan
<1>4. users[x] \in Row /\ users[x].name \in Names
    BY <1>2, <1>3 DEF TypeOK, IInv, NamesUnique
<1>5. /\ row \in Row
      /\ \A f \in Columns :
           f # "password" \/ r.after.password_changed_at = r.before.password_changed_at =>
             row[f] = IF r.after[f] # r.before[f] THEN r.after[f] ELSE users[x][f]
    BY <1>3, <1>4, FlushRow
<1>6. row.status = "LIVE" /\ row.name \in Names
    BY <1>1, <1>3, <1>4, <1>5 DEF Columns, Live
<1>7. Setting(r) => row.password_changed_at = Stamp(r)
    BY <1>5 DEF Setting, Stamp, Columns
<1>8. ~Setting(r) => /\ row.password_changed_at = users[x].password_changed_at
                     /\ row.password = users[x].password /\ users[x].status = "LIVE"
    BY <1>1, <1>3, <1>5 DEF Setting, Columns, Live
<1>. HIDE DEF row
<1>9. users' \in [Users -> Row] /\ users'[x] = row /\ \A u \in Users \ {x} : users'[u] = users[u]
    BY <1>1, <1>2, <1>3, <1>5 DEF TypeOK
<1>10. \A u \in Users : PasswordStep(c, u)
    BY <1>7, <1>8, <1>9 DEF PasswordStep
<1>11. \A u \in Users : users'[u].name \in Names
    BY <1>6, <1>9 DEF IInv, NamesUnique
<1>12. ASSUME NEW u \in Users, NEW v \in Users, users'[u].status = "LIVE", users'[v].status = "LIVE",
              users'[u].name = users'[v].name
       PROVE  u = v
    BY <1>1, <1>9, <1>12 DEF NameTaken, Live, IInv, NamesUnique
<1>13. ReferencesLive'
    <2>1. \A u \in Users : Live(u) => users'[u].status = "LIVE"
        BY <1>6, <1>9 DEF Live
    <2>. QED
        BY <1>1, <2>1 DEF IInv, ReferencesLive, Live
<1>14. link' \in [Tenants -> Users \cup {NoUser}] /\ manager' \in [Properties -> Users \cup {NoUser}]
    BY <1>1, <1>2 DEF TypeOK
<1>15. \E u \in Users : users'[u].status = "LIVE"
    BY <1>3, <1>6, <1>9
<1>. QED
    BY <1>1, <1>9, <1>10, <1>11, <1>12, <1>13, <1>14, <1>15, CommittedKeeps

LEMMA CommitDeleteKeeps ==
    ASSUME IInv, NEW c \in Clients, CommitDelete(c)
    PROVE  IInv'
<1>. DEFINE x == tx[c].request.target
<1>1. /\ tx[c].request.op = "delete" /\ tx[c].step = "checked" /\ Live(tx[c].user)
      /\ Live(x) /\ Unmanaged(x) /\ users' = [users EXCEPT ![x] = Deleted]
      /\ link' = [t \in Tenants |-> IF link[t] = x THEN NoUser ELSE link[t]]
      /\ manager' = manager /\ Committed(c)
    BY DEF CommitDelete, Committing, Audited
<1>2. TypeOK /\ x \in Users /\ x # tx[c].user /\ tx[c].user \in Users
    BY <1>1 DEF IInv, NamesUnique, SessionSound, Plan, Live
<1>3. users' \in [Users -> Row] /\ users'[x] = Deleted /\ \A u \in Users \ {x} : users'[u] = users[u]
    BY <1>1, <1>2, RowsTyped DEF TypeOK
<1>4. \A u \in Users : PasswordStep(c, u)
    BY <1>3 DEF PasswordStep
<1>5. /\ \A u \in Users : users'[u].name \in Names
      /\ \A u, v \in Users :
            users'[u].status = "LIVE" /\ users'[v].status = "LIVE" /\ users'[u].name = users'[v].name => u = v
    BY <1>3, RowsTyped DEF IInv, NamesUnique, Live
<1>6. users'[tx[c].user].status = "LIVE"
    BY <1>1, <1>2, <1>3 DEF Live
<1>7. link' \in [Tenants -> Users \cup {NoUser}] /\ manager' \in [Properties -> Users \cup {NoUser}]
    BY <1>1, <1>2 DEF TypeOK
<1>. HIDE DEF x
<1>8. ReferencesLive'
    <2>1. \A s, t \in Tenants : link'[s] = link'[t] /\ link'[s] # NoUser => s = t
        BY <1>1 DEF IInv, ReferencesLive
    <2>2. ASSUME NEW t \in Tenants, link'[t] # NoUser PROVE link'[t] \in Users /\ users'[link'[t]].status = "LIVE"
        <3>1. link'[t] = link[t] /\ link[t] # x
            BY <1>1, <2>2
        <3>. QED
            BY <1>3, <2>2, <3>1 DEF IInv, ReferencesLive, Live
    <2>3. ASSUME NEW p \in Properties, manager'[p] # NoUser
          PROVE  manager'[p] \in Users /\ users'[manager'[p]].status = "LIVE"
        <3>1. manager[p] # x
            BY <1>1 DEF Unmanaged
        <3>. QED
            BY <1>1, <1>3, <2>3, <3>1 DEF IInv, ReferencesLive, Live
    <2>. QED
        BY <2>1, <2>2, <2>3 DEF ReferencesLive, Live
<1>. QED
    BY <1>1, <1>2, <1>3, <1>4, <1>5, <1>6, <1>7, <1>8, CommittedKeeps

\* A commit that leaves the users table alone.
LEMMA UsersUntouched ==
    ASSUME IInv, NEW c \in Clients, UNCHANGED users
    PROVE  /\ users' \in [Users -> Row] /\ \A u \in Users : PasswordStep(c, u)
           /\ \A u \in Users : users'[u].name \in Names
           /\ \A u, v \in Users :
                users'[u].status = "LIVE" /\ users'[v].status = "LIVE" /\ users'[u].name = users'[v].name => u = v
           /\ \E u \in Users : users'[u].status = "LIVE"
BY DEF IInv, NamesUnique, SomeAccountRemains, TypeOK, PasswordStep, Live

LEMMA CommitLinkKeeps ==
    ASSUME IInv, NEW c \in Clients, CommitLink(c)
    PROVE  IInv'
<1>. DEFINE r == tx[c].request  x == r.target  u == Written(link[x], r.before, r.after)
<1>1. /\ r.op \in {"link", "unlink"} /\ tx[c].step = "checked"
      /\ (u = NoUser \/ Live(u)) /\ UniqueLink(x, u) /\ link' = [link EXCEPT ![x] = u]
      /\ UNCHANGED <<users, manager>> /\ Committed(c)
    BY DEF CommitLink, Committing, Audited
<1>2. TypeOK /\ x \in Tenants
    BY <1>1 DEF IInv, NamesUnique, SessionSound, Plan
<1>. HIDE DEF u
<1>3. /\ link' \in [Tenants -> Users \cup {NoUser}] /\ manager' \in [Properties -> Users \cup {NoUser}]
      /\ link'[x] = u /\ \A t \in Tenants \ {x} : link'[t] = link[t]
    BY <1>1, <1>2 DEF TypeOK, Live
<1>. HIDE DEF x
<1>4. ReferencesLive'
    <2>1. ASSUME NEW s \in Tenants, NEW t \in Tenants, link'[s] = link'[t], link'[s] # NoUser PROVE s = t
        BY <1>1, <1>3, <2>1 DEF IInv, ReferencesLive, UniqueLink
    <2>2. ASSUME NEW t \in Tenants PROVE link'[t] = NoUser \/ (link'[t] \in Users /\ users'[link'[t]].status = "LIVE")
        BY <1>1, <1>3 DEF IInv, ReferencesLive, Live
    <2>3. ASSUME NEW p \in Properties
          PROVE  manager'[p] = NoUser \/ (manager'[p] \in Users /\ users'[manager'[p]].status = "LIVE")
        BY <1>1 DEF IInv, ReferencesLive, Live
    <2>. QED
        BY <2>1, <2>2, <2>3 DEF ReferencesLive, Live
<1>. QED
    BY <1>1, <1>3, <1>4, UsersUntouched, CommittedKeeps

LEMMA CommitAssignKeeps ==
    ASSUME IInv, NEW c \in Clients, CommitAssign(c)
    PROVE  IInv'
<1>. DEFINE r == tx[c].request  x == r.target  u == Written(manager[x], r.before, r.after)
<1>1. /\ r.op = "assign" /\ tx[c].step = "checked"
      /\ Live(u) /\ manager' = [manager EXCEPT ![x] = u]
      /\ UNCHANGED <<users, link>> /\ Committed(c)
    BY DEF CommitAssign, Committing, Audited
<1>2. TypeOK /\ x \in Properties
    BY <1>1 DEF IInv, NamesUnique, SessionSound, Plan
<1>. HIDE DEF u
<1>3. /\ link' \in [Tenants -> Users \cup {NoUser}] /\ manager' \in [Properties -> Users \cup {NoUser}]
      /\ manager'[x] = u /\ \A p \in Properties \ {x} : manager'[p] = manager[p]
    BY <1>1, <1>2 DEF TypeOK, Live
<1>. HIDE DEF x
<1>4. ReferencesLive'
    <2>1. ASSUME NEW p \in Properties
          PROVE  manager'[p] = NoUser \/ (manager'[p] \in Users /\ users'[manager'[p]].status = "LIVE")
        BY <1>1, <1>3 DEF IInv, ReferencesLive, Live
    <2>2. ASSUME NEW t \in Tenants PROVE link'[t] = NoUser \/ (link'[t] \in Users /\ users'[link'[t]].status = "LIVE")
        BY <1>1 DEF IInv, ReferencesLive, Live
    <2>. QED
        BY <1>1, <2>1, <2>2 DEF IInv, ReferencesLive, Live
<1>. QED
    BY <1>1, <1>3, <1>4, UsersUntouched, CommittedKeeps
-----------------------------------------------------------------------------
(* The invariant *)

LEMMA InitSound == Init => IInv
<1>. SUFFICES ASSUME Init PROVE IInv
    OBVIOUS
<1>1. PICK n \in Names, p \in Passwords :
        users = [u \in Users |-> IF u = Admin THEN NewRow("LIVE", n, p, 0, "admin", "yes") ELSE NoRow]
    BY DEF Init
<1>2. 0 \in 0..MaxStamp /\ Admin \in Users
    BY AccountAssumption
<1>3. /\ NewRow("LIVE", n, p, 0, "admin", "yes") \in Row
      /\ NewRow("LIVE", n, p, 0, "admin", "yes").status = "LIVE"
      /\ NewRow("LIVE", n, p, 0, "admin", "yes").name = n
      /\ NewRow("LIVE", n, p, 0, "admin", "yes").password_changed_at = 0
    BY <1>2, NamesTyped DEF NewRow, Row, Role
<1>4. \A u \in Users : /\ users[u] \in Row /\ users[u].name \in Names /\ users[u].password_changed_at = 0
                       /\ users[u].status = "LIVE" <=> u = Admin
    BY <1>1, <1>3, RowsTyped
<1>5. TypeOK
    BY <1>1, <1>2, <1>3, RowsTyped, IdleSound DEF Init, TypeOK
<1>6. NamesUnique /\ ReferencesLive /\ SomeAccountRemains
    BY <1>2, <1>4, <1>5 DEF Init, NamesUnique, ReferencesLive, SomeAccountRemains, Live
<1>7. \A c \in Clients : tx[c] = Idle /\ SessionSound(tx[c]) /\ ~Setting(tx[c].request)
    BY IdleSound DEF Init, Setting
<1>8. StampsFresh /\ PasswordsKnown
    BY <1>4, <1>7, IdleSound, RowsTyped DEF Init, StampsFresh, PasswordsKnown
<1>9. RevocationsCounted
    <2>. SUFFICES ASSUME NEW u \in Users PROVE late[u] + Cardinality(Overtaken(u)) <= Cardinality(Clients) - 1
        BY DEF RevocationsCounted
    <2>1. Overtaken(u) = {} /\ late[u] = 0
        BY <1>7, IdleSound DEF Overtaken, Init
    <2>2. Cardinality(Overtaken(u)) = 0 /\ Cardinality(Clients) \in Nat /\ Cardinality(Clients) # 0
        BY <2>1, AccountAssumption, FS_EmptySet, FS_CardinalityType
    <2>. QED
        BY <2>1, <2>2
<1>. QED
    BY <1>6, <1>7, <1>8, <1>9 DEF IInv

LEMMA NextSound == IInv /\ [Next]_vars => IInv'
<1>. SUFFICES ASSUME IInv, [Next]_vars PROVE IInv'
    OBVIOUS
<1>1. CASE UNCHANGED vars
    BY <1>1 DEF vars, IInv, NamesUnique, TypeOK, ReferencesLive, SomeAccountRemains, Live, StampsFresh,
        PasswordsKnown, Knows, RevocationsCounted, Overtaken, Late, Admits
<1>2. ASSUME NEW c \in Clients, Account(c, Everything) PROVE IInv'
    BY <1>2, AccountChecksKeep, CommitUserKeeps DEF Account, Everything
<1>3. ASSUME NEW c \in Clients, Removal(c, Everything) PROVE IInv'
    BY <1>3, AccountChecksKeep, CommitDeleteKeeps DEF Removal, Everything
<1>4. ASSUME NEW c \in Clients, Linking(c, Everything) PROVE IInv'
    BY <1>4, ReferenceChecksKeep, CommitLinkKeeps DEF Linking, Everything
<1>5. ASSUME NEW c \in Clients, Assignment(c, Everything) PROVE IInv'
    BY <1>5, ReferenceChecksKeep, CommitAssignKeeps DEF Assignment, Everything
<1>. QED
    BY <1>1, <1>2, <1>3, <1>4, <1>5, LogInKeeps DEF Next, Work

\* The invariant of the tables, the tokens and the open requests holds in every reachable state.
THEOREM AlwaysSound == Spec => []IInv
BY InitSound, NextSound, PTL DEF Spec

-----------------------------------------------------------------------------
(* What it means *)

\* However creations and renames race past the pre-checks of create_user and update_user,
\* the tables are well typed and get_by_identifier finds at most one account.
THEOREM NamesStayUnique == Spec => []NamesUnique
BY AlwaysSound, PTL DEF IInv

\* Deleting a user at any moment leaves no link and no assignment to the account that is
\* gone, and portal access is never shared by two tenants.
THEOREM ReferencesStayLive == Spec => []ReferencesLive
BY AlwaysSound, PTL DEF IInv

\* Two admins that delete each other cannot both succeed: write_audit_log needs its actor.
THEOREM AccountsRemain == Spec => []SomeAccountRemains
BY AlwaysSound, PTL DEF IInv

\* A login that a password change overtakes yields a token that get_current_user refuses.
THEOREM TokensMatchPasswords == Spec => []TokenForPassword
<1>1. IInv => TokenForPassword
    BY DEF IInv, TokenForPassword, PasswordsKnown, Knows, Admits
<1>. QED
    BY <1>1, AlwaysSound, PTL

\* A revoked account commits at most what its other open requests had started.
THEOREM RevocationsBite == Spec => []RevocationBites
<1>1. IInv => RevocationBites
    <2>. SUFFICES ASSUME IInv, NEW u \in Users PROVE late[u] <= Cardinality(Clients) - 1
        BY DEF RevocationBites
    <2>1. late[u] \in Nat /\ late[u] + Cardinality(Overtaken(u)) <= Cardinality(Clients) - 1
        BY DEF IInv, NamesUnique, TypeOK, RevocationsCounted
    <2>2. Cardinality(Overtaken(u)) \in Nat /\ Cardinality(Clients) \in Nat
        BY AccountAssumption, FS_Subset, FS_CardinalityType DEF Overtaken
    <2>. QED
        BY <2>1, <2>2
<1>. QED
    BY <1>1, AlwaysSound, PTL

\* A linked tenant changes hands only through a link_user whose check saw no link.
THEOREM LinksMoveOnlyBlindly == Spec => LinkMovesOnlyBlindly
<1>1. ASSUME IInv, [Next]_vars
      PROVE  [\A t \in Tenants :
                link[t] # NoUser /\ link'[t] \notin {NoUser, link[t]} =>
                  \E c \in Clients :
                    tx[c].request.op = "link" /\ tx[c].request.target = t /\ tx[c].request.before = NoUser]_vars
    <2>. SUFFICES ASSUME Next, NEW t \in Tenants, link[t] # NoUser, link'[t] \notin {NoUser, link[t]}
                  PROVE  \E c \in Clients :
                    tx[c].request.op = "link" /\ tx[c].request.target = t /\ tx[c].request.before = NoUser
        BY <1>1 DEF vars
    <2>1. PICK c \in Clients : CommitLink(c)
        <3>1. PICK c \in Clients :
                LogIn(c) \/ Account(c, Everything) \/ Removal(c, Everything) \/ Linking(c, Everything)
                  \/ Assignment(c, Everything)
            BY DEF Next, Work
        <3>2. ~UNCHANGED link
            OBVIOUS
        <3>3. ~LogIn(c)
            BY <3>2 DEF LogIn, LoginReads, IssueToken, Authenticate, GiveUp
        <3>4. ~Account(c, Everything)
            BY <3>2 DEF Account, CheckCreate, CheckUpdate, CheckFrame, CommitUser
        <3>5. ~CommitDelete(c)
            BY DEF CommitDelete
        <3>6. ~Removal(c, Everything)
            BY <3>2, <3>5 DEF Removal, CheckDelete, CheckFrame
        <3>7. ~Assignment(c, Everything)
            BY <3>2 DEF Assignment, CheckAssign, CheckFrame, CommitAssign
        <3>. QED
            BY <3>1, <3>2, <3>3, <3>4, <3>6, <3>7 DEF Linking, CheckLink, CheckUnlink, CheckFrame
    <2>. DEFINE r == tx[c].request
    <2>2. /\ r.op \in {"link", "unlink"}
          /\ link' = [link EXCEPT ![r.target] = Written(link[r.target], r.before, r.after)]
        BY <2>1 DEF CommitLink, Committing
    <2>3. Plan(r, tx[c].user) /\ link \in [Tenants -> Users \cup {NoUser}]
        BY <1>1 DEF IInv, NamesUnique, TypeOK, SessionSound
    <2>4. t = r.target /\ link'[t] = r.after /\ r.after # r.before
        BY <2>2, <2>3 DEF Written
    <2>5. r.op = "link" /\ r.before = NoUser
        BY <2>2, <2>3, <2>4 DEF Plan
    <2>. QED
        BY <2>4, <2>5
<1>. QED
    BY <1>1, AlwaysSound, PTL DEF Spec, LinkMovesOnlyBlindly
================================================================================
