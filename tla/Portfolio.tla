----------------------------- MODULE Portfolio -----------------------------
(***************************************************************************)
(* Who sees and changes what: properties, tenants, contracts, collections  *)
(* and documents, the references between them, and the authorization that  *)
(* ResourceAuthorizationMixin derives from them.                           *)
(*                                                                         *)
(* A request resolves, validates and authorizes what it was asked for and  *)
(* loads the row it changes; it commits later.  In between other requests  *)
(* commit, and only the foreign keys are checked again.  A request that a  *)
(* check or a key refuses is simply not enabled.  What a contract means    *)
(* for its property is in Occupancy, the files of documents are in         *)
(* DocumentStorage, the users in Accounts.                                 *)
(***************************************************************************)
EXTENDS Naturals, FiniteSets

CONSTANTS
    Clients,      \* requests that can be open at the same time
    Admin,        \* the users: an admin and managers
    Managers,
    Properties, Tenants, Contracts, Collections, Docs,   \* ids of the five tables
    None          \* no reference

Users == Managers \cup {Admin}
Ids == UNION {Properties, Tenants, Contracts, Collections, Docs}
References == {"property_id", "tenant_id", "contract_id", "collection_id"}

ASSUME PortfolioAssumption ==
    /\ Admin \notin Managers
    /\ None \notin Ids \cup Users
    /\ Properties \cap (Tenants \cup Contracts \cup Collections \cup Docs) = {}
    /\ Tenants \cap (Contracts \cup Collections \cup Docs) = {}
    /\ Contracts \cap (Collections \cup Docs) = {}
    /\ Collections \cap Docs = {}

VARIABLES
    db,      \* the five tables: the row of each id
    audit,   \* the ids that audit_logs has rows about
    tx,      \* the request of each client
    raced    \* history: documents that two updates overlapped on

vars == <<db, audit, tx, raced>>

-----------------------------------------------------------------------------
(* Rows and requests *)

\* One shape for every table; a column that a table does not have is None.
Row ==
    [status: {"NONE", "LIVE", "DELETED"}, manager_id: Managers \cup {None},
     property_id: Properties \cup {None}, tenant_id: Tenants \cup {None},
     contract_id: Contracts \cup {None}, collection_id: Collections \cup {None}]

NewRow(status, p, t, k, g) ==
    [status |-> status, manager_id |-> None, property_id |-> p, tenant_id |-> t,
     contract_id |-> k, collection_id |-> g]
NoRow == NewRow("NONE", None, None, None, None)
Deleted == [NoRow EXCEPT !.status = "DELETED"]

Live(x) == x \in Ids /\ db[x].status = "LIVE"
LiveOrNone(x) == x = None \/ Live(x)

Request ==
    [op: {"none", "create", "update", "delete"}, target: Ids \cup {None}, before: Row, after: Row]
Idle == [op |-> "none", target |-> None, before |-> NoRow, after |-> NoRow]

Open(c, op, x, before, after) ==
    /\ tx[c] = Idle
    /\ tx' = [tx EXCEPT ![c] = [op |-> op, target |-> x, before |-> before, after |-> after]]
    /\ UNCHANGED <<db, audit, raced>>

\* uuid4 gives an id nobody uses.
Creates(c, x, row) ==
    /\ db[x] = NoRow
    /\ \A d \in Clients : tx[d].target # x
    /\ Open(c, "create", x, NoRow, row)

Updates(c, x, row) == Live(x) /\ Open(c, "update", x, db[x], row)
Deletes(c, x) == Live(x) /\ Open(c, "delete", x, db[x], Deleted)

-----------------------------------------------------------------------------
(* Authorization *)

\* _resolve_property: a contract is authoritative.
resolve_property(property_id, contract_id) ==
    IF contract_id # None THEN db[contract_id].property_id ELSE property_id

\* Bug: a manager is let through where nothing resolves to a property.
authorize_user_open(user, property_id, contract_id) ==
    \/ user = Admin
    \/ LET p == resolve_property(property_id, contract_id) IN p \in Properties => db[p].manager_id = user

\* _authorize_user_to_property: it fails closed.
authorize_user_to_property(user, property_id, contract_id) ==
    \/ user = Admin
    \/ LET p == resolve_property(property_id, contract_id) IN Live(p) /\ db[p].manager_id = user

\* _accessible_by_manager_clause: an unclaimed tenant, or one of an owned property.
accessible_by_manager(t, m) ==
    LET contracts == {k \in Contracts : Live(k) /\ db[k].tenant_id = t} IN
    contracts = {} \/ \E k \in contracts : db[db[k].property_id].manager_id = m

authorize_user_to_tenant(user, t) == user = Admin \/ accessible_by_manager(t, user)

-----------------------------------------------------------------------------
(* PropertyService and TenantService *)

CreateProperty(c, user, p) == user = Admin /\ Creates(c, p, NewRow("LIVE", None, None, None, None))

AssignManager(c, user, p, m) ==
    user = Admin /\ Updates(c, p, [db[p] EXCEPT !.manager_id = m])

DeleteProperty(c, user, p) == user = Admin /\ Deletes(c, p)

CreateTenant(c, t) == Creates(c, t, NewRow("LIVE", None, None, None, None))
DeleteTenant(c, user, t) == authorize_user_to_tenant(user, t) /\ Deletes(c, t)

-----------------------------------------------------------------------------
(* ContractService.  ContractUpdate changes no reference. *)

CreateContract(c, user, k, p, t) ==
    /\ Live(p) /\ Live(t)
    /\ authorize_user_to_property(user, p, None)
    /\ Creates(c, k, NewRow("LIVE", p, t, None, None))

DeleteContract(c, user, k) ==
    authorize_user_to_property(user, db[k].property_id, None) /\ Deletes(c, k)

-----------------------------------------------------------------------------
(* CollectionService *)

\* _prepare_collection_context.
collection_context(user, p, k) ==
    /\ Live(p) /\ LiveOrNone(k)
    /\ k # None => db[k].property_id = p
    /\ authorize_user_to_property(user, p, None)

CreateCollection(c, user, g, p, k) ==
    /\ collection_context(user, p, k)
    /\ Creates(c, g, NewRow("LIVE", p, None, k, None))

\* A contract_id of null is written without looking at the contract.
UpdateCollection(c, user, g, k) ==
    /\ authorize_user_to_property(user, db[g].property_id, None)
    /\ k # None => collection_context(user, db[g].property_id, k)
    /\ Updates(c, g, [db[g] EXCEPT !.contract_id = k])

DeleteCollection(c, user, g) ==
    authorize_user_to_property(user, db[g].property_id, None) /\ Deletes(c, g)

-----------------------------------------------------------------------------
(* DocumentService *)

\* _resolve_ids: what is not sent stays as it is.
resolve_id(sent, current) == IF sent # None THEN sent ELSE current

\* Bug: what the contract says is compared with what was sent and not filled in.
RelationshipAsSent(row) == row

\* _resolve_document_relationship: the columns of a document with a contract are those
\* of the contract.
Relationship(row) ==
    IF row.contract_id = None THEN row
    ELSE [row EXCEPT !.property_id = db[row.contract_id].property_id,
                     !.tenant_id = db[row.contract_id].tenant_id]

\* Its refusals.
RelationshipValid(row) ==
    /\ \A f \in References : LiveOrNone(row[f])
    /\ row.contract_id # None =>
        /\ row.property_id \in {None, db[row.contract_id].property_id}
        /\ row.tenant_id \in {None, db[row.contract_id].tenant_id}

\* _prepare_document_context.
document_context(user, row) ==
    /\ RelationshipValid(row)
    /\ authorize_user_to_property(user, Relationship(row).property_id, row.contract_id)

CreateDocument(c, user, d, p, t, k, g) ==
    LET row == NewRow("LIVE", p, t, k, g) IN
    /\ document_context(user, row)
    /\ Creates(c, d, Relationship(row))

\* update_document, and the same columns of replace_document_file: get_document, and the
\* same for where the document goes.
UpdateDocument(c, user, d, p, t, k, g) ==
    LET row == [db[d] EXCEPT !.property_id = resolve_id(p, @), !.tenant_id = resolve_id(t, @),
                             !.contract_id = resolve_id(k, @), !.collection_id = resolve_id(g, @)] IN
    /\ authorize_user_to_property(user, db[d].property_id, db[d].contract_id)
    /\ document_context(user, row)
    /\ Updates(c, d, Relationship(row))

DeleteDocument(c, user, d) ==
    authorize_user_to_property(user, db[d].property_id, db[d].contract_id) /\ Deletes(c, d)

-----------------------------------------------------------------------------
(* Commits *)

\* The unit of work writes a column only if it differs from what was loaded.
Flush(current, before, after) ==
    [f \in DOMAIN current |-> IF after[f] # before[f] THEN after[f] ELSE current[f]]

Others(c, x) == {d \in Clients \ {c} : tx[d].op = "update" /\ tx[d].target = x}

\* The collections write no audit rows.
End(c, x) ==
    /\ tx' = [tx EXCEPT ![c] = Idle]
    /\ audit' = IF x \in Collections THEN audit ELSE audit \cup {x}

CommitWrite(c) ==
    LET x == tx[c].target  row == Flush(db[x], tx[c].before, tx[c].after) IN
    /\ tx[c].op \in {"create", "update"}
    /\ tx[c].op = "update" => Live(x)
    /\ \A f \in References : LiveOrNone(row[f])
    /\ db' = [db EXCEPT ![x] = row]
    /\ raced' = IF x \in Docs /\ Others(c, x) # {} THEN raced \cup {x} ELSE raced
    /\ End(c, x)

\* Bug: the documents of a collection keep their reference to it.
DetachedKeeping(y, x) == db[y]

\* documents.collection_id is set to NULL when the collection goes.
Detached(y, x) ==
    IF x \in Collections /\ db[y].collection_id = x THEN [db[y] EXCEPT !.collection_id = None] ELSE db[y]

\* Every other foreign key refuses to let a row go that is referred to.
CommitDelete(c) ==
    LET x == tx[c].target IN
    /\ tx[c].op = "delete"
    /\ Live(x)
    /\ x \notin Collections => \A y \in Ids, f \in References : Live(y) => db[y][f] # x
    /\ db' = [y \in Ids |-> IF y = x THEN Deleted ELSE Detached(y, x)]
    /\ End(c, x)
    /\ UNCHANGED raced

\* A request that fails or dies before its commit leaves nothing.
GiveUp(c) ==
    /\ tx[c] # Idle
    /\ tx' = [tx EXCEPT ![c] = Idle]
    /\ UNCHANGED <<db, audit, raced>>

-----------------------------------------------------------------------------

Init ==
    /\ db = [x \in Ids |-> NoRow]
    /\ audit = {}
    /\ tx = [c \in Clients |-> Idle]
    /\ raced = {}

OrNone(S) == S \cup {None}

\* What callers ask for: rows of these ids, the removal of those.
Everything ==
    [users |-> Users, properties |-> Properties, tenants |-> Tenants, contracts |-> Contracts,
     collections |-> Collections, docs |-> Docs, removed |-> Ids]

PropertyWork(c, user, w) ==
    \/ \E p \in w.properties : CreateProperty(c, user, p) \/ \E m \in Managers : AssignManager(c, user, p, m)
    \/ \E t \in w.tenants : CreateTenant(c, t)
    \/ \E k \in w.contracts, p \in w.properties, t \in w.tenants : CreateContract(c, user, k, p, t)

FileWork(c, user, w) ==
    \E p \in OrNone(w.properties), t \in OrNone(w.tenants), k \in OrNone(w.contracts), g \in OrNone(w.collections) :
        \/ g # None /\ t = None /\ p # None /\ CreateCollection(c, user, g, p, k)
        \/ g # None /\ t = None /\ p = None /\ UpdateCollection(c, user, g, k)
        \/ \E d \in w.docs : CreateDocument(c, user, d, p, t, k, g) \/ UpdateDocument(c, user, d, p, t, k, g)

Removal(c, user, w) ==
    \E x \in w.removed :
        \/ x \in Properties /\ DeleteProperty(c, user, x)
        \/ x \in Tenants /\ DeleteTenant(c, user, x)
        \/ x \in Contracts /\ DeleteContract(c, user, x)
        \/ x \in Collections /\ DeleteCollection(c, user, x)
        \/ x \in Docs /\ DeleteDocument(c, user, x)

Work(w) ==
    \E c \in Clients :
        \/ \E user \in w.users : PropertyWork(c, user, w) \/ FileWork(c, user, w) \/ Removal(c, user, w)
        \/ CommitWrite(c) \/ CommitDelete(c) \/ GiveUp(c)

Next == Work(Everything)

Spec == Init /\ [][Next]_vars

-----------------------------------------------------------------------------
(* What users see *)

\* get_document, get_contract, get_collection.
Readable(user, x) ==
    Live(x) /\ authorize_user_to_property(user, db[x].property_id, IF x \in Docs THEN db[x].contract_id ELSE None)

\* get_all_for_manager of documents: by the property or through the contract.
Listed(m) ==
    {d \in Docs : Live(d) /\
        \/ db[d].property_id # None /\ db[db[d].property_id].manager_id = m
        \/ db[d].contract_id # None /\ db[db[db[d].contract_id].property_id].manager_id = m}

\* The entries of ActivityFeedRepository for a property: audit rows of the property, its
\* contracts and its documents as they are now.
Feed(p) ==
    {x \in audit :
        \/ x = p
        \/ x \in Contracts /\ Live(x) /\ db[x].property_id = p
        \/ x \in Docs /\ Live(x) /\
            \/ db[x].property_id = p
            \/ db[x].contract_id # None /\ db[db[x].contract_id].property_id = p}

-----------------------------------------------------------------------------
(* Properties *)

\* Tables and requests hold values of their types.
TypeOK ==
    /\ db \in [Ids -> Row]
    /\ audit \subseteq Ids
    /\ tx \in [Clients -> Request]
    /\ raced \subseteq Docs

\* Tables and requests hold values of their types, so a reference is to a row of the table
\* its foreign key names; and whatever is created and deleted at the same time, no row
\* refers to a row that is gone.
RowsKeepParents == TypeOK /\ \A x \in Ids, f \in References : Live(x) => LiveOrNone(db[x][f])

\* "The contract remains the source of truth": a collection with a contract is on the
\* property of that contract, and a document with one carries its property and its tenant
\* too, unless two updates of the document overlapped.
ContractIsSourceOfTruth ==
    \A x \in Collections \cup (Docs \ raced) :
        Live(x) /\ db[x].contract_id # None =>
            /\ db[x].property_id = db[db[x].contract_id].property_id
            /\ x \in Docs => db[x].tenant_id = db[db[x].contract_id].tenant_id

\* The three ways to a document agree: a manager is listed the documents that
\* get_document lets the manager read, and the activity feed of an owned property shows no
\* contract or document that the manager may not read.
VisibleMeansReadable ==
    \A m \in Managers :
        /\ \A d \in Docs \ raced : d \in Listed(m) <=> Readable(m, d)
        /\ \A p \in Properties :
            Live(p) /\ db[p].manager_id = m => \A x \in Feed(p) \ (raced \cup {p}) : Readable(m, x)

-----------------------------------------------------------------------------
(* What the documentation says and overlapping requests do not keep *)

\* _resolve_document_relationship: "If a contract is present, it is the source of truth
\* and any supplied property_id / tenant_id must match it".  Each request sees to it for
\* the row it loaded; of two updates that overlap, each writes only the columns it
\* changed, and the row can carry the contract of one and the property of the other.
ContractAlwaysSourceOfTruth ==
    \A d \in Docs :
        Live(d) /\ db[d].contract_id # None =>
            /\ db[d].property_id = db[db[d].contract_id].property_id
            /\ db[d].tenant_id = db[db[d].contract_id].tenant_id
=============================================================================
