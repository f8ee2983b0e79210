--------------------------- MODULE Portfolio_proofs ---------------------------
(***************************************************************************)
(* What Portfolio promises for any number of clients, users and rows.      *)
(*                                                                         *)
(* Nothing but the foreign keys is looked at again when a request commits. *)
(* The invariant says what a request that is still open may rely on:       *)
(* contracts never change what they refer to and deleted ids never come    *)
(* back, so what was read of a contract holds for as long as it lives.     *)
(***************************************************************************)
EXTENDS Portfolio, TLAPS

Filed == Collections \cup Docs

\* A row with a contract agrees with that contract, as long as the contract is there.
\* (D stands for the tables and R for raced, in this state or in the next.)
Agrees(D, x, row) ==
    row.contract_id # None =>
        /\ D[row.contract_id].status # "NONE"
        /\ D[row.contract_id].status = "LIVE" =>
            /\ row.property_id = D[row.contract_id].property_id
            /\ x \in Docs => row.tenant_id = D[row.contract_id].tenant_id

CreatePlan(D, r) ==
    /\ r.target \in Ids /\ r.before = NoRow /\ r.after.status = "LIVE"
    /\ D[r.target] = NoRow
    /\ r.target \in Contracts => r.after.property_id \in Properties
    /\ r.target \in Filed => Agrees(D, r.target, r.after)

\* The columns of a document that only its own updates write.
Own == {"property_id", "tenant_id", "contract_id"}

UpdatePlan(D, R, r) ==
    /\ r.target \in Ids \ Contracts
    /\ D[r.target].status # "NONE"
    /\ r.before.status = "LIVE" /\ r.after.status = "LIVE"
    /\ r.target \in Collections =>
        /\ r.after.property_id = r.before.property_id
        /\ D[r.target].status = "LIVE" => r.before.property_id = D[r.target].property_id
        /\ r.after.contract_id # r.before.contract_id => Agrees(D, r.target, r.after)
    /\ r.target \in Docs =>
        /\ Agrees(D, r.target, r.after)
        /\ r.target \notin R /\ D[r.target].status = "LIVE" =>
            \A f \in Own : r.before[f] = D[r.target][f]

\* What a request may still count on between its checks and its commit.
PlanSound(D, R, r) ==
    /\ r.op = "create" => CreatePlan(D, r)
    /\ r.op = "update" => UpdatePlan(D, R, r)
    /\ r.op = "delete" => r.target \in Ids

\* uuid4: nobody else works on the id of a row that is not inserted yet.
Alone ==
    \A c, d \in Clients :
        c # d /\ tx[c].op = "create" => tx[d].target # tx[c].target

ReferencesKept == \A x \in Ids, f \in References : db[x].status = "LIVE" => LiveOrNone(db[x][f])

ContractsPlaced ==
    \A k \in Contracts : db[k].status = "LIVE" => db[k].property_id \in Properties

FiledAgree == \A x \in Collections \cup (Docs \ raced) : db[x].status = "LIVE" => Agrees(db, x, db[x])

IInv ==
    /\ TypeOK
    /\ ReferencesKept
    /\ ContractsPlaced
    /\ FiledAgree
    /\ Alone
    /\ \A c \in Clients : PlanSound(db, raced, tx[c])
-----------------------------------------------------------------------------
(* The unit of work *)

Columns == {"status", "manager_id", "property_id", "tenant_id", "contract_id", "collection_id"}

\* Flush writes the columns that the request changed and keeps the others.
LEMMA FlushRow ==
    ASSUME NEW cur \in Row, NEW bef \in Row, NEW aft \in Row
    PROVE  /\ Flush(cur, bef, aft) \in Row
           /\ \A f \in Columns : Flush(cur, bef, aft)[f] = IF aft[f] # bef[f] THEN aft[f] ELSE cur[f]
<1>1. DOMAIN cur = Columns
    BY DEF Row, Columns
<1>2. \A f \in DOMAIN cur : Flush(cur, bef, aft)[f] = IF aft[f] # bef[f] THEN aft[f] ELSE cur[f]
    BY DEF Flush
<1>3. Flush(cur, bef, aft) \in Row
    BY <1>1 DEF Flush, Row, Columns
<1>. QED
    BY <1>1, <1>2, <1>3

LEMMA NoRowTyped == NoRow \in Row /\ Deleted \in Row /\ Idle \in Request
BY DEF NoRow, Deleted, NewRow, Row, Idle, Request

LEMMA NoneIsNoId == None \notin Ids /\ Contracts \subseteq Ids /\ Filed \subseteq Ids
BY PortfolioAssumption DEF Ids, Filed

-----------------------------------------------------------------------------
(* Requests that begin: only the request of the client changes. *)

LEMMA OpenKeeps ==
    ASSUME IInv, NEW c \in Clients, NEW op \in {"create", "update", "delete"}, NEW x \in Ids,
           NEW before \in Row, NEW after \in Row, Open(c, op, x, before, after),
           PlanSound(db, raced, [op |-> op, target |-> x, before |-> before, after |-> after]),
           op = "create" => \A d \in Clients : tx[d].target # x,
           op # "create" => db[x].status = "LIVE"
    PROVE  IInv'
<1>. DEFINE r == [op |-> op, target |-> x, before |-> before, after |-> after]
<1>1. /\ UNCHANGED <<db, audit, raced>>
      /\ tx'[c] = r
      /\ \A d \in Clients \ {c} : tx'[d] = tx[d]
    BY DEF Open, IInv, TypeOK
<1>2. TypeOK'
    BY DEF Open, IInv, TypeOK, Request
<1>3. ReferencesKept' /\ ContractsPlaced' /\ FiledAgree'
    BY <1>1 DEF IInv, ReferencesKept, ContractsPlaced, FiledAgree, Agrees, LiveOrNone, Live
<1>4. Alone'
    <2>. SUFFICES ASSUME NEW d \in Clients, NEW e \in Clients, d # e, tx'[d].op = "create"
                  PROVE  tx'[e].target # tx'[d].target
        BY DEF Alone
    <2>1. CASE d = c
        BY <1>1, <2>1
    <2>2. CASE d # c /\ e # c
        BY <1>1, <2>2 DEF IInv, Alone
    <2>3. CASE d # c /\ e = c
        <3>1. CreatePlan(db, tx[d])
            BY <1>1, <2>3 DEF IInv, PlanSound
        <3>2. db[tx[d].target].status # "LIVE"
            BY <3>1 DEF CreatePlan, NoRow, NewRow
        <3>. QED
            BY <1>1, <2>3, <3>2
    <2>. QED
        BY <2>1, <2>2, <2>3
<1>5. ASSUME NEW d \in Clients PROVE PlanSound(db', raced', tx'[d])
    <2>1. PlanSound(db, raced, tx'[d])
        BY <1>1 DEF IInv
    <2>. QED
        BY <1>1, <2>1
<1>. QED
    BY <1>2, <1>3, <1>4, <1>5 DEF IInv

LEMMA CreatesKeeps ==
    ASSUME IInv, NEW c \in Clients, NEW x \in Ids, NEW row \in Row, Creates(c, x, row),
           row.status = "LIVE", x \in Contracts => row.property_id \in Properties,
           x \in Filed => Agrees(db, x, row)
    PROVE  IInv'
<1>1. PlanSound(db, raced, [op |-> "create", target |-> x, before |-> NoRow, after |-> row])
    BY DEF PlanSound, CreatePlan, Creates
<1>. QED
    BY <1>1, OpenKeeps, NoRowTyped DEF Creates

LEMMA UpdatesKeeps ==
    ASSUME IInv, NEW c \in Clients, NEW x \in Ids \ Contracts, NEW row \in Row, Updates(c, x, row),
           row.status = "LIVE",
           x \in Collections => row.property_id = db[x].property_id,
           x \in Collections /\ row.contract_id # db[x].contract_id => Agrees(db, x, row),
           x \in Docs => Agrees(db, x, row)
    PROVE  IInv'
<1>1. db[x] \in Row /\ db[x].status = "LIVE"
    BY DEF Updates, Live, IInv, TypeOK
<1>2. PlanSound(db, raced, [op |-> "update", target |-> x, before |-> db[x], after |-> row])
    BY <1>1 DEF PlanSound, UpdatePlan
<1>. QED
    BY <1>1, <1>2, OpenKeeps DEF Updates

LEMMA DeletesKeeps ==
    ASSUME IInv, NEW c \in Clients, NEW x \in Ids, Deletes(c, x)
    PROVE  IInv'
<1>1. PlanSound(db, raced, [op |-> "delete", target |-> x, before |-> db[x], after |-> Deleted])
    BY DEF PlanSound
<1>2. db[x] \in Row /\ db[x].status = "LIVE"
    BY DEF Deletes, Live, IInv, TypeOK
<1>. QED
    BY <1>1, <1>2, OpenKeeps, NoRowTyped DEF Deletes

\* _resolve_document_relationship leaves a document that agrees with its contract.
LEMMA RelationshipAgrees ==
    ASSUME IInv, NEW row \in Row, row.status = "LIVE", RelationshipValid(row), NEW d \in Docs
    PROVE  Relationship(row) \in Row /\ Relationship(row).status = "LIVE" /\ Agrees(db, d, Relationship(row))
<1>1. CASE row.contract_id = None
    BY <1>1 DEF Relationship, Agrees
<1>2. CASE row.contract_id # None
    <2>1. Live(row.contract_id) /\ row.contract_id \in Contracts
        BY <1>2 DEF RelationshipValid, References, LiveOrNone, Row
    <2>2. db[row.contract_id] \in Row
        BY <2>1 DEF Live, IInv, TypeOK
    <2>3. Relationship(row) = [row EXCEPT !.property_id = db[row.contract_id].property_id,
                                          !.tenant_id = db[row.contract_id].tenant_id]
        BY <1>2 DEF Relationship
    <2>4. /\ Relationship(row) \in Row
          /\ Relationship(row).status = "LIVE"
          /\ Relationship(row).contract_id = row.contract_id
          /\ Relationship(row).property_id = db[row.contract_id].property_id
          /\ Relationship(row).tenant_id = db[row.contract_id].tenant_id
        BY <2>2, <2>3 DEF Row
    <2>. QED
        BY <2>1, <2>4 DEF Agrees, Live
<1>. QED
    BY <1>1, <1>2

\* A collection is narrowed to a contract of its own property.
LEMMA ContextAgrees ==
    ASSUME IInv, NEW user, NEW p, NEW k \in Contracts \cup {None}, NEW row, NEW g \in Collections,
           row.property_id = p, row.contract_id = k, k # None => collection_context(user, p, k)
    PROVE  Agrees(db, g, row)
<1>1. g \notin Docs
    BY PortfolioAssumption
<1>. QED
    BY <1>1 DEF Agrees, collection_context, LiveOrNone, Live

LEMMA PropertyWorkKeeps ==
    ASSUME IInv, NEW c \in Clients, NEW user \in Users, PropertyWork(c, user, Everything)
    PROVE  IInv'
<1>. USE PortfolioAssumption DEF Ids, Filed
<1>1. ASSUME NEW x \in Properties \cup Tenants, Creates(c, x, NewRow("LIVE", None, None, None, None))
      PROVE  IInv'
    <2>1. NewRow("LIVE", None, None, None, None) \in Row /\ NewRow("LIVE", None, None, None, None).status = "LIVE"
        BY DEF NewRow, Row
    <2>. QED
        BY <1>1, <2>1, CreatesKeeps
<1>2. ASSUME NEW p \in Properties, NEW m \in Managers, AssignManager(c, user, p, m)
      PROVE  IInv'
    <2>1. db[p] \in Row /\ db[p].status = "LIVE"
        BY <1>2 DEF AssignManager, Updates, Live, IInv, TypeOK
    <2>2. [db[p] EXCEPT !.manager_id = m] \in Row /\ [db[p] EXCEPT !.manager_id = m].status = "LIVE"
        BY <2>1 DEF Row
    <2>. QED
        BY <1>2, <2>2, UpdatesKeeps DEF AssignManager
<1>3. ASSUME NEW k \in Contracts, NEW p \in Properties, NEW t \in Tenants, CreateContract(c, user, k, p, t)
      PROVE  IInv'
    <2>1. /\ NewRow("LIVE", p, t, None, None) \in Row
          /\ NewRow("LIVE", p, t, None, None).status = "LIVE"
          /\ NewRow("LIVE", p, t, None, None).property_id = p
        BY DEF NewRow, Row
    <2>. QED
        BY <1>3, <2>1, CreatesKeeps DEF CreateContract
<1>. QED
    BY <1>1, <1>2, <1>3 DEF PropertyWork, Everything, CreateProperty, CreateTenant

\* _resolve_ids keeps the row's shape: a reference is the one sent or the one stored.
Resolved(row, p, t, k, g) ==
    [row EXCEPT !.property_id = resolve_id(p, @), !.tenant_id = resolve_id(t, @),
                !.contract_id = resolve_id(k, @), !.collection_id = resolve_id(g, @)]

LEMMA ResolvedRow ==
    ASSUME NEW row \in Row, NEW p \in Properties \cup {None}, NEW t \in Tenants \cup {None},
           NEW k \in Contracts \cup {None}, NEW g \in Collections \cup {None}
    PROVE  Resolved(row, p, t, k, g) \in Row /\ Resolved(row, p, t, k, g).status = row.status
<1>1. /\ resolve_id(p, row.property_id) \in Properties \cup {None}
      /\ resolve_id(t, row.tenant_id) \in Tenants \cup {None}
      /\ resolve_id(k, row.contract_id) \in Contracts \cup {None}
      /\ resolve_id(g, row.collection_id) \in Collections \cup {None}
    BY DEF resolve_id, Row
<1>. QED
    BY <1>1 DEF Resolved, Row

LEMMA UpdateDocumentKeeps ==
    ASSUME IInv, NEW c \in Clients, NEW user \in Users, NEW d \in Docs,
           NEW p \in Properties \cup {None}, NEW t \in Tenants \cup {None},
           NEW k \in Contracts \cup {None}, NEW g \in Collections \cup {None},
           UpdateDocument(c, user, d, p, t, k, g)
    PROVE  IInv'
<1>. DEFINE row == Resolved(db[d], p, t, k, g)
<1>1. d \in Ids \ Contracts /\ d \notin Collections
    BY PortfolioAssumption DEF Ids
<1>2. db[d] \in Row /\ db[d].status = "LIVE"
    BY <1>1 DEF UpdateDocument, Updates, Live, IInv, TypeOK
<1>3. row \in Row /\ row.status = "LIVE"
    <2>1. row \in Row /\ row.status = db[d].status
        BY <1>2, ResolvedRow
    <2>. QED
        BY <1>2, <2>1
<1>4. RelationshipValid(row) /\ Updates(c, d, Relationship(row))
    BY DEF UpdateDocument, document_context, Resolved
<1>. HIDE DEF row
<1>5. Relationship(row) \in Row /\ Relationship(row).status = "LIVE" /\ Agrees(db, d, Relationship(row))
    BY <1>3, <1>4, RelationshipAgrees
<1>. QED
    BY <1>1, <1>4, <1>5, UpdatesKeeps

LEMMA FileWorkKeeps ==
    ASSUME IInv, NEW c \in Clients, NEW user \in Users, FileWork(c, user, Everything)
    PROVE  IInv'
<1>. USE PortfolioAssumption DEF Ids, Filed
<1>1. PICK p \in Properties \cup {None}, t \in Tenants \cup {None}, k \in Contracts \cup {None},
           g \in Collections \cup {None} :
        \/ g # None /\ p # None /\ CreateCollection(c, user, g, p, k)
        \/ g # None /\ UpdateCollection(c, user, g, k)
        \/ \E d \in Docs : CreateDocument(c, user, d, p, t, k, g) \/ UpdateDocument(c, user, d, p, t, k, g)
    BY DEF FileWork, Everything, OrNone
<1>2. CASE g # None /\ p # None /\ CreateCollection(c, user, g, p, k)
    <2>. DEFINE row == NewRow("LIVE", p, None, k, None)
    <2>1. row \in Row /\ row.status = "LIVE" /\ row.property_id = p /\ row.contract_id = k
        BY DEF NewRow, Row
    <2>2. Agrees(db, g, row)
        BY <1>2, <2>1, ContextAgrees DEF CreateCollection
    <2>. QED
        BY <1>2, <2>1, <2>2, CreatesKeeps DEF CreateCollection
<1>3. CASE g # None /\ UpdateCollection(c, user, g, k)
    <2>. DEFINE row == [db[g] EXCEPT !.contract_id = k]
    <2>1. db[g] \in Row /\ db[g].status = "LIVE"
        BY <1>3 DEF UpdateCollection, Updates, Live, IInv, TypeOK
    <2>2. row \in Row /\ row.status = "LIVE" /\ row.property_id = db[g].property_id /\ row.contract_id = k
        BY <2>1 DEF Row
    <2>3. Agrees(db, g, row)
        BY <1>3, <2>2, ContextAgrees DEF UpdateCollection
    <2>. QED
        BY <1>3, <2>2, <2>3, UpdatesKeeps DEF UpdateCollection
<1>4. ASSUME NEW d \in Docs, CreateDocument(c, user, d, p, t, k, g)
      PROVE  IInv'
    <2>. DEFINE row == NewRow("LIVE", p, t, k, g)
    <2>1. row \in Row /\ row.status = "LIVE" /\ RelationshipValid(row)
        BY <1>4 DEF NewRow, Row, CreateDocument, document_context
    <2>2. Relationship(row) \in Row /\ Relationship(row).status = "LIVE" /\ Agrees(db, d, Relationship(row))
        BY <2>1, RelationshipAgrees
    <2>. QED
        BY <1>4, <2>2, CreatesKeeps DEF CreateDocument
<1>5. ASSUME NEW d \in Docs, UpdateDocument(c, user, d, p, t, k, g)
      PROVE  IInv'
    BY <1>5, UpdateDocumentKeeps
<1>. QED
    BY <1>1, <1>2, <1>3, <1>4, <1>5

LEMMA RemovalKeeps ==
    ASSUME IInv, NEW c \in Clients, NEW user \in Users, Removal(c, user, Everything)
    PROVE  IInv'
<1>1. PICK x \in Ids : Deletes(c, x)
    BY DEF Removal, Everything, DeleteProperty, DeleteTenant, DeleteContract, DeleteCollection, DeleteDocument
<1>. QED
    BY <1>1, DeletesKeeps

-----------------------------------------------------------------------------
(* Commits: what the tables keep from one state to the next. *)

\* A row that was ever inserted stays known, one that is gone stays gone, and contracts
\* and collections stay where they are.
Stays(D, E) ==
    \A y \in Ids : D[y].status # "NONE" =>
        /\ E[y].status # "NONE"
        /\ E[y].status = "LIVE" =>
            /\ D[y].status = "LIVE"
            /\ y \in Contracts \cup Collections => E[y].property_id = D[y].property_id
            /\ y \in Contracts => E[y].tenant_id = D[y].tenant_id

LEMMA AgreesStays ==
    ASSUME NEW D, NEW E, Stays(D, E), NEW x, NEW row \in Row, Agrees(D, x, row)
    PROVE  Agrees(E, x, row)
<1>1. row.contract_id \in Contracts \cup {None} /\ Contracts \subseteq Ids
    BY NoneIsNoId DEF Row
<1>. QED
    BY <1>1 DEF Agrees, Stays

\* The plan of an open request survives the commit of another.
LEMMA PlanStays ==
    ASSUME NEW D, NEW E, NEW R, NEW S, R \subseteq S, Stays(D, E), NEW r \in Request,
           PlanSound(D, R, r),
           r.op = "create" => E[r.target] = D[r.target],
           r.op = "update" /\ r.target \in Docs \ S /\ E[r.target].status = "LIVE" =>
               \A f \in Own : E[r.target][f] = D[r.target][f]
    PROVE  PlanSound(E, S, r)
<1>1. r.after \in Row
    BY DEF Request
<1>2. r.target \in Filed /\ Agrees(D, r.target, r.after) => Agrees(E, r.target, r.after)
    BY <1>1, AgreesStays
<1>3. CASE r.op = "create"
    BY <1>2, <1>3 DEF PlanSound, CreatePlan
<1>4. CASE r.op = "update"
    <2>. USE DEF PlanSound, UpdatePlan
    <2>1. r.target \in Ids /\ D[r.target].status # "NONE"
        BY <1>4
    <2>2. /\ E[r.target].status # "NONE"
          /\ E[r.target].status = "LIVE" =>
                /\ D[r.target].status = "LIVE"
                /\ r.target \in Collections => E[r.target].property_id = D[r.target].property_id
        BY <2>1 DEF Stays
    <2>3. r.target \in Docs /\ r.target \notin S /\ E[r.target].status = "LIVE" =>
            \A f \in Own : r.before[f] = E[r.target][f]
        BY <1>4, <2>2
    <2>. QED
        BY <1>2, <1>4, <2>2, <2>3 DEF Filed
<1>. QED
    BY <1>3, <1>4 DEF PlanSound

\* What the end of a request leaves of the others.
LEMMA AloneStays ==
    ASSUME IInv, NEW c \in Clients, tx' = [tx EXCEPT ![c] = Idle]
    PROVE  /\ Alone' /\ tx' \in [Clients -> Request]
           /\ tx'[c] = Idle /\ \A d \in Clients \ {c} : tx'[d] = tx[d]
<1>1. tx'[c] = Idle /\ \A d \in Clients \ {c} : tx'[d] = tx[d]
    BY DEF IInv, TypeOK
<1>2. tx' \in [Clients -> Request]
    BY NoRowTyped DEF IInv, TypeOK
<1>3. ASSUME NEW d \in Clients, NEW e \in Clients, d # e, tx'[d].op = "create"
      PROVE  tx'[e].target # tx'[d].target
    <2>1. d # c /\ tx'[d] = tx[d]
        BY <1>1, <1>3 DEF Idle
    <2>2. tx[d].target \in Ids
        BY <1>3, <2>1 DEF IInv, PlanSound, CreatePlan
    <2>3. CASE e = c
        BY <1>1, <2>1, <2>2, <2>3, NoneIsNoId DEF Idle
    <2>4. CASE e # c
        BY <1>1, <1>3, <2>1, <2>4 DEF IInv, Alone
    <2>. QED
        BY <2>3, <2>4
<1>. QED
    BY <1>1, <1>2, <1>3 DEF Alone

LEMMA GiveUpKeeps ==
    ASSUME IInv, NEW c \in Clients, GiveUp(c)
    PROVE  IInv'
<1>1. /\ Alone' /\ tx' \in [Clients -> Request]
      /\ tx'[c] = Idle /\ \A d \in Clients \ {c} : tx'[d] = tx[d]
    BY AloneStays DEF GiveUp
<1>2. UNCHANGED <<db, audit, raced>>
    BY DEF GiveUp
<1>3. TypeOK' /\ ReferencesKept' /\ ContractsPlaced' /\ FiledAgree'
    BY <1>1, <1>2 DEF IInv, TypeOK, ReferencesKept, ContractsPlaced, FiledAgree, LiveOrNone, Live
<1>4. \A d \in Clients : PlanSound(db', raced', tx'[d])
    BY <1>1, <1>2 DEF IInv, PlanSound, Idle
<1>. QED
    BY <1>1, <1>3, <1>4 DEF IInv

LEMMA CommitDeleteKeeps ==
    ASSUME IInv, NEW c \in Clients, CommitDelete(c)
    PROVE  IInv'
<1>. DEFINE x == tx[c].target
<1>1. /\ x \in Ids /\ db[x].status = "LIVE"
      /\ x \notin Collections => \A y \in Ids, f \in References : Live(y) => db[y][f] # x
      /\ db' = [y \in Ids |-> IF y = x THEN Deleted ELSE Detached(y, x)]
      /\ tx' = [tx EXCEPT ![c] = Idle]
      /\ audit' = (IF x \in Collections THEN audit ELSE audit \cup {x})
      /\ raced' = raced
    BY DEF CommitDelete, Live, End
<1>2. /\ Alone' /\ tx' \in [Clients -> Request]
      /\ tx'[c] = Idle /\ \A d \in Clients \ {c} : tx'[d] = tx[d]
    BY <1>1, AloneStays
<1>3. \A y \in Ids : db[y] \in Row
    BY DEF IInv, TypeOK
<1>. HIDE DEF x
<1>4. ASSUME NEW y \in Ids, y # x
      PROVE  /\ db'[y] \in Row
             /\ \A f \in Columns \ {"collection_id"} : db'[y][f] = db[y][f]
             /\ db'[y].collection_id \in {db[y].collection_id, None}
             /\ x \in Collections => db'[y].collection_id # x
             /\ db[y] = NoRow => db'[y] = NoRow
    <2>1. db'[y] = Detached(y, x)
        BY <1>1, <1>4
    <2>2. CASE x \in Collections /\ db[y].collection_id = x
        <3>1. db'[y] = [db[y] EXCEPT !.collection_id = None]
            BY <2>1, <2>2 DEF Detached
        <3>2. db[y] # NoRow /\ None # x
            BY <1>1, <2>2, NoneIsNoId DEF NoRow, NewRow
        <3>. QED
            BY <1>3, <3>1, <3>2 DEF Row, Columns
    <2>3. CASE ~(x \in Collections /\ db[y].collection_id = x)
        BY <1>3, <2>1, <2>3 DEF Detached
    <2>. QED
        BY <2>2, <2>3
<1>5. db'[x] = Deleted /\ Deleted.status = "DELETED" /\ Deleted \in Row
    BY <1>1, NoRowTyped DEF Deleted, NoRow, NewRow
<1>6. TypeOK'
    <2>1. db' \in [Ids -> Row]
        BY <1>1, <1>4, <1>5
    <2>. QED
        BY <1>1, <1>2, <2>1 DEF IInv, TypeOK
<1>7. Stays(db, db')
    <2>. SUFFICES ASSUME NEW y \in Ids, db[y].status # "NONE"
                  PROVE  /\ db'[y].status # "NONE"
                         /\ db'[y].status = "LIVE" =>
                             /\ db[y].status = "LIVE"
                             /\ db'[y].property_id = db[y].property_id
                             /\ db'[y].tenant_id = db[y].tenant_id
        BY DEF Stays
    <2>. QED
        BY <1>4, <1>5 DEF Columns
<1>8. ReferencesKept'
    <2>. SUFFICES ASSUME NEW y \in Ids, NEW f \in References, db'[y].status = "LIVE", db'[y][f] # None
                  PROVE  db'[y][f] \in Ids /\ db'[db'[y][f]].status = "LIVE"
        BY DEF ReferencesKept, LiveOrNone, Live
    <2>1. y # x
        BY <1>5
    <2>2. db'[y][f] = db[y][f] /\ db[y].status = "LIVE"
        BY <1>4, <2>1 DEF References, Columns
    <2>3. db[y][f] \in Ids /\ db[db[y][f]].status = "LIVE"
        BY <2>2 DEF IInv, ReferencesKept, LiveOrNone, Live
    <2>4. db[y][f] # x
        <3>1. CASE x \notin Collections
            BY <1>1, <2>2, <3>1 DEF Live
        <3>2. CASE x \in Collections /\ f = "collection_id"
            BY <1>4, <2>1, <2>2, <3>2
        <3>3. CASE x \in Collections /\ f # "collection_id"
            <4>1. db[y][f] \in Properties \cup Tenants \cup Contracts \cup {None}
                BY <1>3, <3>3 DEF References, Row
            <4>. QED
                BY <2>2, <3>3, <4>1, PortfolioAssumption
        <3>. QED
            BY <3>1, <3>2, <3>3
    <2>. QED
        BY <1>4, <2>2, <2>3, <2>4 DEF Columns
<1>9. ContractsPlaced' /\ FiledAgree'
    <2>1. ASSUME NEW k \in Contracts, db'[k].status = "LIVE"
          PROVE  db'[k].property_id \in Properties
        <3>1. k \in Ids /\ k # x
            BY <1>5, <2>1, NoneIsNoId
        <3>. QED
            BY <1>4, <2>1, <3>1 DEF Columns, IInv, ContractsPlaced
    <2>2. ASSUME NEW y \in Collections \cup (Docs \ raced'), db'[y].status = "LIVE"
          PROVE  Agrees(db', y, db'[y])
        <3>1. y \in Ids /\ y # x
            BY <1>5, <2>2, NoneIsNoId DEF Filed
        <3>2. db[y].status = "LIVE"
            BY <1>4, <2>2, <3>1 DEF Columns
        <3>3. Agrees(db, y, db[y])
            BY <1>1, <2>2, <3>2 DEF IInv, FiledAgree
        <3>4. Agrees(db', y, db[y])
            BY <1>3, <1>7, <3>1, <3>3, AgreesStays
        <3>5. /\ db'[y].contract_id = db[y].contract_id
              /\ db'[y].property_id = db[y].property_id
              /\ db'[y].tenant_id = db[y].tenant_id
            BY <1>4, <3>1 DEF Columns
        <3>. QED
            BY <3>4, <3>5 DEF Agrees
    <2>. QED
        BY <2>1, <2>2 DEF ContractsPlaced, FiledAgree
<1>10. ASSUME NEW d \in Clients PROVE PlanSound(db', raced', tx'[d])
    <2>1. CASE d = c
        BY <1>2, <2>1 DEF PlanSound, Idle
    <2>2. CASE d # c
        <3>. DEFINE r == tx[d]
        <3>1. r \in Request /\ PlanSound(db, raced, r)
            BY DEF IInv, TypeOK
        <3>2. r.op = "create" => db'[r.target] = db[r.target]
            <4>. SUFFICES ASSUME r.op = "create" PROVE db'[r.target] = db[r.target]
                OBVIOUS
            <4>1. r.target \in Ids /\ db[r.target] = NoRow
                BY <3>1 DEF PlanSound, CreatePlan
            <4>2. r.target # x
                BY <2>2 DEF IInv, Alone, x
            <4>. QED
                BY <1>4, <4>1, <4>2
        <3>3. r.op = "update" /\ r.target \in Docs \ raced' /\ db'[r.target].status = "LIVE" =>
                \A f \in Own : db'[r.target][f] = db[r.target][f]
            <4>. SUFFICES ASSUME r.op = "update", db'[r.target].status = "LIVE"
                          PROVE  \A f \in Own : db'[r.target][f] = db[r.target][f]
                OBVIOUS
            <4>1. r.target \in Ids
                BY <3>1 DEF PlanSound, UpdatePlan
            <4>2. r.target # x
                BY <1>5
            <4>. QED
                BY <1>4, <4>1, <4>2 DEF Own, Columns
        <3>. QED
            BY <1>1, <1>2, <1>7, <2>2, <3>1, <3>2, <3>3, PlanStays
    <2>. QED
        BY <2>1, <2>2
<1>. QED
    BY <1>2, <1>6, <1>8, <1>9, <1>10 DEF IInv

\* The row that a commit writes, out of what the request loaded, what it wants and what
\* the table holds by now.
LEMMA WrittenRow ==
    ASSUME IInv, NEW r \in Request, r.target \in Ids, PlanSound(db, raced, r),
           r.op \in {"create", "update"}, r.op = "update" => Live(r.target),
           NEW row, row = Flush(db[r.target], r.before, r.after)
    PROVE  /\ row \in Row /\ row.status = "LIVE"
           /\ r.op = "create" => \A f \in Columns : row[f] = r.after[f]
           /\ r.target \in Contracts => row.property_id \in Properties
           /\ r.target \in Collections \cup (Docs \ raced) => Agrees(db, r.target, row)
           /\ r.op = "update" /\ r.target \in Collections =>
                row.property_id = db[r.target].property_id
<1>1. /\ db[r.target] \in Row /\ r.before \in Row /\ r.after \in Row
      /\ r.op = "update" => db[r.target].status = "LIVE"
    BY DEF IInv, TypeOK, Request, Live
<1>2. /\ row \in Row
      /\ \A f \in Columns : row[f] = IF r.after[f] # r.before[f] THEN r.after[f] ELSE db[r.target][f]
    BY <1>1, FlushRow
<1>3. CASE r.op = "create"
    <2>1. /\ r.before = NoRow /\ db[r.target] = NoRow /\ r.after.status = "LIVE"
          /\ r.target \in Contracts => r.after.property_id \in Properties
          /\ r.target \in Filed => Agrees(db, r.target, r.after)
        BY <1>3 DEF PlanSound, CreatePlan
    <2>2. \A f \in Columns : row[f] = r.after[f]
        BY <1>2, <2>1
    <2>3. /\ row.status = r.after.status /\ row.property_id = r.after.property_id
          /\ row.tenant_id = r.after.tenant_id /\ row.contract_id = r.after.contract_id
        BY <2>2 DEF Columns
    <2>. QED
        BY <1>2, <1>3, <2>1, <2>2, <2>3 DEF Agrees, Filed
<1>4. CASE r.op = "update"
    <2>1. UpdatePlan(db, raced, r) /\ db[r.target].status = "LIVE"
        BY <1>1, <1>4 DEF PlanSound
    <2>2. row.status = "LIVE" /\ r.target \notin Contracts
        BY <1>2, <2>1 DEF UpdatePlan, Columns
    <2>3. CASE r.target \in Collections
        <3>1. /\ r.after.property_id = r.before.property_id
              /\ r.before.property_id = db[r.target].property_id
              /\ row.property_id = db[r.target].property_id
            BY <1>2, <2>1, <2>3 DEF UpdatePlan, Columns
        <3>2. r.target \notin Docs
            BY <2>3, PortfolioAssumption
        <3>3. CASE r.after.contract_id # r.before.contract_id
            <4>1. Agrees(db, r.target, r.after) /\ row.contract_id = r.after.contract_id
                BY <1>2, <2>1, <2>3, <3>3 DEF UpdatePlan, Columns
            <4>. QED
                BY <1>2, <1>4, <2>2, <3>1, <3>2, <4>1 DEF Agrees
        <3>4. CASE r.after.contract_id = r.before.contract_id
            <4>1. Agrees(db, r.target, db[r.target]) /\ row.contract_id = db[r.target].contract_id
                BY <1>2, <2>1, <2>3, <3>4 DEF IInv, FiledAgree, Columns
            <4>. QED
                BY <1>2, <1>4, <2>2, <3>1, <3>2, <4>1 DEF Agrees
        <3>. QED
            BY <3>3, <3>4
    <2>4. CASE r.target \in Docs \ raced
        <3>1. Agrees(db, r.target, r.after) /\ \A f \in Own : r.before[f] = db[r.target][f]
            BY <2>1, <2>4 DEF UpdatePlan
        <3>2. \A f \in Own : row[f] = r.after[f]
            BY <1>2, <3>1 DEF Own, Columns
        <3>3. Agrees(db, r.target, row)
            BY <3>1, <3>2 DEF Agrees, Own
        <3>4. r.target \notin Collections
            BY <2>4, PortfolioAssumption
        <3>. QED
            BY <1>2, <1>4, <2>2, <3>3, <3>4
    <2>. QED
        BY <1>2, <1>4, <2>2, <2>3, <2>4
<1>. QED
    BY <1>3, <1>4

LEMMA CommitWriteKeeps ==
    ASSUME IInv, NEW c \in Clients, CommitWrite(c)
    PROVE  IInv'
<1>. DEFINE r == tx[c]  x == r.target  row == Flush(db[x], r.before, r.after)
<1>1. /\ r.op \in {"create", "update"} /\ (r.op = "update" => Live(x))
      /\ \A f \in References : LiveOrNone(row[f])
      /\ db' = [db EXCEPT ![x] = row]
      /\ raced' = (IF x \in Docs /\ Others(c, x) # {} THEN raced \cup {x} ELSE raced)
      /\ tx' = [tx EXCEPT ![c] = Idle]
      /\ audit' = (IF x \in Collections THEN audit ELSE audit \cup {x})
    BY DEF CommitWrite, End
<1>2. /\ Alone' /\ tx' \in [Clients -> Request]
      /\ tx'[c] = Idle /\ \A d \in Clients \ {c} : tx'[d] = tx[d]
    BY <1>1, AloneStays
<1>3. /\ r \in Request /\ PlanSound(db, raced, r) /\ x \in Ids
      /\ \A y \in Ids : db[y] \in Row
    BY <1>1 DEF IInv, TypeOK, PlanSound, CreatePlan, UpdatePlan
<1>4. /\ row \in Row /\ row.status = "LIVE"
      /\ x \in Contracts => row.property_id \in Properties
      /\ x \in Collections \cup (Docs \ raced) => Agrees(db, x, row)
      /\ r.op = "update" /\ x \in Collections => row.property_id = db[x].property_id
    BY <1>1, <1>3, WrittenRow
<1>5. db'[x] = row /\ \A y \in Ids \ {x} : db'[y] = db[y]
    BY <1>1, <1>3 DEF IInv, TypeOK
<1>6. r.op = "create" => db[x] = NoRow
    BY <1>3 DEF PlanSound, CreatePlan
<1>7. r.op = "update" => db[x].status = "LIVE" /\ x \notin Contracts
    BY <1>1, <1>3 DEF PlanSound, UpdatePlan, Live
<1>8. \A d \in Clients \ {c} : r.op = "create" => tx[d].target # x
    BY DEF IInv, Alone
<1>9. /\ raced \subseteq raced'
      /\ (\E d \in Clients \ {c} : tx[d].op = "update" /\ tx[d].target = x /\ x \in Docs) => x \in raced'
    BY <1>1 DEF Others
<1>10. TypeOK'
    <2>1. db' \in [Ids -> Row]
        BY <1>1, <1>3, <1>4 DEF IInv, TypeOK
    <2>2. raced' \subseteq Docs /\ audit' \subseteq Ids
        BY <1>1, <1>3 DEF IInv, TypeOK
    <2>. QED
        BY <1>2, <2>1, <2>2 DEF TypeOK
<1>. HIDE DEF r, x, row
<1>11. Stays(db, db')
    <2>. SUFFICES ASSUME NEW y \in Ids, db[y].status # "NONE"
                  PROVE  /\ db'[y].status # "NONE"
                         /\ db'[y].status = "LIVE" =>
                             /\ db[y].status = "LIVE"
                             /\ y \in Contracts \cup Collections => db'[y].property_id = db[y].property_id
                             /\ y \in Contracts => db'[y].tenant_id = db[y].tenant_id
        BY DEF Stays
    <2>1. CASE y = x
        <3>1. r.op = "update"
            BY <1>1, <1>6, <2>1 DEF NoRow, NewRow
        <3>. QED
            BY <1>4, <1>5, <1>7, <2>1, <3>1
    <2>2. CASE y # x
        BY <1>5, <2>2
    <2>. QED
        BY <2>1, <2>2
<1>12. ReferencesKept'
    <2>. SUFFICES ASSUME NEW y \in Ids, NEW f \in References, db'[y].status = "LIVE", db'[y][f] # None
                  PROVE  db'[y][f] \in Ids /\ db'[db'[y][f]].status = "LIVE"
        BY DEF ReferencesKept, LiveOrNone, Live
    <2>1. db'[y][f] \in Ids /\ db[db'[y][f]].status = "LIVE"
        <3>1. CASE y = x
            BY <1>1, <1>5, <3>1 DEF LiveOrNone, Live
        <3>2. CASE y # x
            BY <1>5, <3>2 DEF IInv, ReferencesKept, LiveOrNone, Live
        <3>. QED
            BY <3>1, <3>2
    <2>. QED
        BY <1>4, <1>5, <2>1
<1>13. ContractsPlaced'
    BY <1>4, <1>5, NoneIsNoId DEF IInv, ContractsPlaced
<1>14. FiledAgree'
    <2>. SUFFICES ASSUME NEW y \in Collections \cup (Docs \ raced'), db'[y].status = "LIVE"
                  PROVE  Agrees(db', y, db'[y])
        BY DEF FiledAgree
    <2>1. y \in Ids /\ y \in Collections \cup (Docs \ raced)
        BY <1>9, NoneIsNoId DEF Filed
    <2>2. db'[y] \in Row /\ Agrees(db, y, db'[y])
        <3>1. CASE y = x
            BY <1>4, <1>5, <2>1, <3>1
        <3>2. CASE y # x
            BY <1>3, <1>5, <2>1, <3>2 DEF IInv, FiledAgree
        <3>. QED
            BY <3>1, <3>2
    <2>. QED
        BY <1>11, <2>2, AgreesStays
<1>15. ASSUME NEW d \in Clients PROVE PlanSound(db', raced', tx'[d])
    <2>1. CASE d = c
        BY <1>2, <2>1 DEF PlanSound, Idle
    <2>2. CASE d # c
        <3>1. tx[d] \in Request /\ PlanSound(db, raced, tx[d])
            BY DEF IInv, TypeOK
        <3>2. tx[d].op = "create" => db'[tx[d].target] = db[tx[d].target]
            <4>. SUFFICES ASSUME tx[d].op = "create" PROVE db'[tx[d].target] = db[tx[d].target]
                OBVIOUS
            <4>1. tx[d].target \in Ids
                BY <3>1 DEF PlanSound, CreatePlan
            <4>2. tx[d].target # x
                BY <2>2 DEF IInv, Alone, x, r
            <4>. QED
                BY <1>5, <4>1, <4>2
        <3>3. tx[d].op = "update" /\ tx[d].target \in Docs \ raced' =>
                db'[tx[d].target] = db[tx[d].target]
            <4>. SUFFICES ASSUME tx[d].op = "update", tx[d].target \in Docs \ raced'
                          PROVE  db'[tx[d].target] = db[tx[d].target]
                OBVIOUS
            <4>1. tx[d].target \in Ids
                BY <3>1 DEF PlanSound, UpdatePlan
            <4>2. tx[d].target # x
                BY <1>9, <2>2
            <4>. QED
                BY <1>5, <4>1, <4>2
        <3>. QED
            BY <1>2, <1>9, <1>11, <2>2, <3>1, <3>2, <3>3, PlanStays
    <2>. QED
        BY <2>1, <2>2
<1>. QED
    BY <1>2, <1>10, <1>12, <1>13, <1>14, <1>15 DEF IInv

-----------------------------------------------------------------------------
(* The invariant *)

LEMMA InitSound == Init => IInv
<1>. SUFFICES ASSUME Init PROVE IInv
    OBVIOUS
<1>1. TypeOK /\ (\A x \in Ids : db[x].status = "NONE") /\ (\A c \in Clients : tx[c].op = "none")
    BY NoRowTyped DEF Init, TypeOK, NoRow, NewRow, Idle
<1>2. ReferencesKept /\ ContractsPlaced /\ FiledAgree
    BY <1>1, NoneIsNoId DEF ReferencesKept, ContractsPlaced, FiledAgree, Filed
<1>. QED
    BY <1>1, <1>2 DEF IInv, Alone, PlanSound

LEMMA NextSound == IInv /\ [Next]_vars => IInv'
<1>. SUFFICES ASSUME IInv, [Next]_vars PROVE IInv'
    OBVIOUS
<1>1. CASE UNCHANGED vars
    BY <1>1 DEF vars, IInv, TypeOK, ReferencesKept, ContractsPlaced, FiledAgree, Alone, LiveOrNone, Live
<1>2. CASE Next
    <2>1. PICK c \in Clients :
            \/ \E user \in Users :
                PropertyWork(c, user, Everything) \/ FileWork(c, user, Everything) \/ Removal(c, user, Everything)
            \/ CommitWrite(c) \/ CommitDelete(c) \/ GiveUp(c)
        <3>1. Everything.users = Users
            BY DEF Everything
        <3>. QED
            BY <1>2, <3>1 DEF Next, Work
    <2>. QED
        BY <2>1, PropertyWorkKeeps, FileWorkKeeps, RemovalKeeps, CommitWriteKeeps, CommitDeleteKeeps, GiveUpKeeps
<1>. QED
    BY <1>1, <1>2

\* The invariant of the open requests and the tables holds in every reachable state.
THEOREM AlwaysSound == Spec => []IInv
BY InitSound, NextSound, PTL DEF Spec

-----------------------------------------------------------------------------
(* What it means for the tables and their readers *)

\* However creations, updates and deletions overlap, the tables stay well typed and the
\* commit-time foreign keys leave no row that refers to one that is gone.
THEOREM ParentsKept == Spec => []RowsKeepParents
<1>1. IInv => RowsKeepParents
    BY DEF IInv, RowsKeepParents, ReferencesKept, Live
<1>. QED
    BY <1>1, AlwaysSound, PTL

\* What _resolve_document_relationship and _prepare_collection_context checked before the
\* commit still holds after it: contracts never move, and an id never comes back.
THEOREM ContractStaysTrue == Spec => []ContractIsSourceOfTruth
<1>1. IInv => ContractIsSourceOfTruth
    <2>. SUFFICES ASSUME IInv, NEW x \in Collections \cup (Docs \ raced), Live(x), db[x].contract_id # None
                  PROVE  /\ db[x].property_id = db[db[x].contract_id].property_id
                         /\ x \in Docs => db[x].tenant_id = db[db[x].contract_id].tenant_id
        BY DEF ContractIsSourceOfTruth
    <2>1. Live(db[x].contract_id)
        BY DEF IInv, ReferencesKept, References, LiveOrNone, Live
    <2>. QED
        BY <2>1 DEF IInv, FiledAgree, Agrees, Live
<1>. QED
    BY <1>1, AlwaysSound, PTL

\* A manager's document list, get_document and the activity feed agree on every document
\* that no two updates overlapped on, whatever was reassigned or deleted meanwhile.
THEOREM ListedMeansReadable == Spec => []VisibleMeansReadable
<1>1. IInv => VisibleMeansReadable
    <2>. SUFFICES ASSUME IInv, NEW m \in Managers
                  PROVE  /\ \A d \in Docs \ raced : d \in Listed(m) <=> Readable(m, d)
                         /\ \A p \in Properties :
                              Live(p) /\ db[p].manager_id = m =>
                                \A x \in Feed(p) \ (raced \cup {p}) : Readable(m, x)
        BY DEF VisibleMeansReadable
    <2>1. m # Admin /\ m # None /\ Docs \cap Contracts = {} /\ Docs \subseteq Ids /\ Properties \subseteq Ids
        BY PortfolioAssumption DEF Users, Ids
    <2>2. ASSUME NEW d \in Docs \ raced, Live(d)
          PROVE  /\ db[d].property_id # None => Live(db[d].property_id)
                 /\ db[d].contract_id # None =>
                      /\ db[d].contract_id \in Contracts
                      /\ Live(db[db[d].contract_id].property_id)
                      /\ db[d].property_id = db[db[d].contract_id].property_id
        <3>1. db[d] \in Row /\ \A f \in References : LiveOrNone(db[d][f])
            BY <2>1, <2>2 DEF IInv, TypeOK, ReferencesKept, Live
        <3>2. db[d].property_id # None => Live(db[d].property_id)
            BY <3>1 DEF References, LiveOrNone
        <3>3. ASSUME db[d].contract_id # None
              PROVE  /\ db[d].contract_id \in Contracts /\ Live(db[d].contract_id)
                     /\ db[d].property_id = db[db[d].contract_id].property_id
            <4>1. Live(db[d].contract_id) /\ db[d].contract_id \in Contracts
                BY <3>1, <3>3 DEF References, LiveOrNone, Row
            <4>. QED
                BY <2>2, <3>3, <4>1 DEF IInv, FiledAgree, Agrees, Live
        <3>4. ASSUME db[d].contract_id # None PROVE db[d].property_id # None
            <4>1. db[db[d].contract_id].property_id \in Properties
                BY <3>3, <3>4 DEF IInv, ContractsPlaced, Live
            <4>. QED
                BY <2>1, <3>3, <3>4, <4>1, NoneIsNoId
        <3>. QED
            BY <3>2, <3>3, <3>4
    <2>3. ASSUME NEW d \in Docs \ raced, Live(d)
          PROVE  Readable(m, d) <=> db[d].property_id # None /\ db[db[d].property_id].manager_id = m
        <3>1. None \notin Ids
            BY NoneIsNoId
        <3>. QED
            BY <2>1, <2>2, <2>3, <3>1 DEF Readable, authorize_user_to_property, resolve_property, Live
    <2>4. ASSUME NEW d \in Docs \ raced PROVE d \in Listed(m) <=> Readable(m, d)
        <3>1. CASE Live(d)
            BY <2>2, <2>3, <3>1, NoneIsNoId DEF Listed, Live
        <3>2. CASE ~Live(d)
            BY <3>2 DEF Listed, Readable
        <3>. QED
            BY <3>1, <3>2
    <2>5. ASSUME NEW p \in Properties, Live(p), db[p].manager_id = m, NEW x \in Feed(p) \ (raced \cup {p})
          PROVE  Readable(m, x)
        <3>1. CASE x \in Contracts /\ Live(x) /\ db[x].property_id = p
            <4>1. x \notin Docs
                BY <2>1, <3>1
            <4>. QED
                BY <2>5, <3>1, <4>1 DEF Readable, authorize_user_to_property, resolve_property
        <3>2. CASE x \in Docs /\ Live(x) /\ (db[x].property_id = p \/ (db[x].contract_id # None /\ db[db[x].contract_id].property_id = p))
            <4>1. db[x].property_id = p
                BY <2>2, <3>2, <2>5
            <4>2. p # None
                BY <2>1, NoneIsNoId
            <4>. QED
                BY <2>3, <2>5, <3>2, <4>1, <4>2
        <3>. QED
            BY <2>5, <3>1, <3>2 DEF Feed
    <2>. QED
        BY <2>4, <2>5
<1>. QED
    BY <1>1, AlwaysSound, PTL
===============================================================================
