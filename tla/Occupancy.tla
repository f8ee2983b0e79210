----------------------------- MODULE Occupancy -----------------------------
(***************************************************************************)
(* Contracts, the properties they occupy, and the leases hung on them:     *)
(* ContractService, PropertyService and LeaseService.create_lease.         *)
(*                                                                         *)
(* A contract request reads the contract, flushes its change of the row    *)
(* (from then on it holds the row, and the place in the index              *)
(* uq_active_contract_property), compares the status it read with the      *)
(* status of the flushed row, reads the property if that comparison calls  *)
(* for a sync, and commits both rows.  What it flushes is visible to       *)
(* others at its commit.  A request that has to wait, or that a constraint *)
(* rejects, is simply not enabled; an exception rolls it back.             *)
(***************************************************************************)
EXTENDS Integers, FiniteSets

CONSTANTS
    Clients,      \* requests that can be open at the same time
    Properties,   \* property ids
    NoProperty,   \* the property of an unused contract id
    Contracts,    \* contract ids (a bound on the contracts ever created)
    NoContract,   \* the contract of a session that has none
    SentStatuses  \* contract statuses a caller can send

ContractStatus == {"ACTIVE", "EXPIRED", "TERMINATED"}
RentalType == {"long_term", "short_term"}
PropertyStatus == {"vacant", "occupied"}

ASSUME IdAssumption == NoProperty \notin Properties /\ NoContract \notin Contracts
ASSUME InputAssumption == SentStatuses \subseteq ContractStatus

VARIABLES
    property,     \* the properties table: the status of each, or NONE, DELETED
    contract,     \* the contracts table
    lease,        \* the contracts that have a lease (contract_id is unique)
    tx,           \* the session of each client
    disturbed     \* history: has a caller "override"n a property's status, or have
                  \* requests on one contract "overlap"ped?

vars == <<property, contract, lease, tx, disturbed>>

-----------------------------------------------------------------------------

PropertyRow == PropertyStatus \cup {"NONE", "DELETED"}

\* NONE: the id is not used yet.  DELETED: the row is gone.
ContractRow ==
    [status: ContractStatus \cup {"NONE", "DELETED"},
     property_id: Properties \cup {NoProperty}, rental_type: RentalType]

NewContract(status, p, rental_type) ==
    [status |-> status, property_id |-> p, rental_type |-> rental_type]

NoRow == NewContract("NONE", NoProperty, "long_term")

InTable(row) == row.status \in ContractStatus
PropertyExists(p) == p \in Properties /\ property[p] \in PropertyStatus
Active(k, p) == contract[k].status = "ACTIVE" /\ contract[k].property_id = p

\* Bug: a contract that stops being active leaves the property as it is.
ResolveOccupiedOnly(old_status, new_status) ==
    IF new_status # old_status /\ new_status = "ACTIVE" THEN "occupied" ELSE "none"

\* _resolve_property_status_transition; "none" stands for None.
Resolve(old_status, new_status) ==
    IF new_status = old_status THEN "none"
    ELSE IF old_status = "ACTIVE" THEN "vacant"
    ELSE IF new_status = "ACTIVE" THEN "occupied"
    ELSE "none"

\* The unit of work writes a column only if it differs from what was loaded.
Written(current, seen, new) == IF new # seen THEN new ELSE current

FlushContract(current, seen, new) ==
    [status |-> Written(current.status, seen.status, new.status),
     property_id |-> Written(current.property_id, seen.property_id, new.property_id),
     rental_type |-> Written(current.rental_type, seen.rental_type, new.rental_type)]

-----------------------------------------------------------------------------
(* Sessions *)

\* seen and new: the contract as loaded and as it is now in memory.  sync: the status
\* the property must get.  found: the property's status when the sync read it.
Session ==
    [step: {"idle", "loaded", "flushed", "ready", "lease"},
     contract_id: Contracts \cup {NoContract},
     seen: ContractRow, new: ContractRow,
     sync: PropertyStatus \cup {"none"}, found: PropertyRow]

OpenSession(step, k, seen, new) ==
    [step |-> step, contract_id |-> k, seen |-> seen, new |-> new,
     sync |-> "none", found |-> "NONE"]

IdleSession == OpenSession("idle", NoContract, NoRow, NoRow)

\* A session that has flushed holds its contract's row until it ends.
Holds(c) == tx[c].step \in {"flushed", "ready"}

\* Nobody works on contract k.
Free(k) == \A d \in Clients : tx[d].contract_id # k

Opens(c, session) ==
    /\ tx[c].step = "idle"
    /\ tx' = [tx EXCEPT ![c] = session]
    /\ disturbed' = disturbed \cup (IF Free(session.contract_id) THEN {} ELSE {"overlap"})
    /\ UNCHANGED <<property, contract, lease>>

-----------------------------------------------------------------------------
(* ContractService *)

\* create_contract: the property is checked; uuid4 gives an id nobody uses.
LoadForCreate(c, k, p, status, rental_type) ==
    /\ PropertyExists(p)
    /\ contract[k] = NoRow
    /\ Free(k)
    /\ Opens(c, OpenSession("loaded", k, NoRow, NewContract(status, p, rental_type)))

\* update_contract: the property is not a field of ContractUpdate.  An update that
\* leaves status and rental_type alone still changes some other column of the row.
LoadForUpdate(c, k, status, rental_type) ==
    /\ InTable(contract[k])
    /\ Opens(c, OpenSession("loaded", k, contract[k],
                            [contract[k] EXCEPT !.status = status,
                                                !.rental_type = rental_type]))

LoadForDelete(c, k) ==
    /\ InTable(contract[k])
    /\ Opens(c, OpenSession("loaded", k, contract[k],
                            [contract[k] EXCEPT !.status = "DELETED"]))

\* Bug: the partial unique index is missing.
IndexAdmitsAll(c, k, row) == TRUE

\* uq_active_contract_property, also against rows that are not committed yet.
IndexAdmits(c, k, row) ==
    row.status = "ACTIVE" =>
        /\ \A j \in Contracts \ {k} : ~Active(j, row.property_id)
        /\ \A d \in Clients \ {c} :
              Holds(d) => ~(tx[d].new.status = "ACTIVE"
                            /\ tx[d].new.property_id = row.property_id)

\* The property of a new row exists; a contract with a lease cannot be deleted.
ForeignKeys(k, row) ==
    /\ InTable(row) => PropertyExists(row.property_id)
    /\ row.status = "DELETED" => k \notin lease

\* flush and refresh in the repository, and the comparison of the two statuses.  A row
\* deleted meanwhile cannot be updated; deleting it once more matches no row.
Flush(c) ==
    LET s == tx[c]
        k == s.contract_id
        row == FlushContract(contract[k], s.seen, s.new)
        sync == Resolve(s.seen.status, row.status)
    IN  /\ s.step = "loaded"
        /\ \A d \in Clients \ {c} : Holds(d) => tx[d].contract_id # k
        /\ contract[k].status = "DELETED" => s.new.status = "DELETED"
        /\ IndexAdmits(c, k, row)
        /\ ForeignKeys(k, row)
        /\ tx' = [tx EXCEPT ![c] =
                    [s EXCEPT !.step = IF sync = "none" THEN "ready" ELSE "flushed",
                              !.new = row, !.sync = sync]]
        /\ UNCHANGED <<property, contract, lease, disturbed>>

\* _sync_property_status reads the property, if it is still there, and sets its status
\* in memory.
SyncProperty(c) ==
    LET p == tx[c].new.property_id IN
    /\ tx[c].step = "flushed"
    /\ tx' = [tx EXCEPT ![c].step = "ready", ![c].found = property[p],
                        ![c].sync = IF PropertyExists(p) THEN @ ELSE "none"]
    /\ UNCHANGED <<property, contract, lease, disturbed>>

\* The flush of the property, the audit row and the commit.
Commit(c) ==
    LET s == tx[c]
        p == s.new.property_id
    IN  /\ s.step = "ready"
        /\ s.sync # "none" => PropertyExists(p)
        /\ contract' = [contract EXCEPT ![s.contract_id] = s.new]
        /\ property' = IF s.sync = "none" THEN property
                       ELSE [property EXCEPT ![p] = Written(@, s.found, s.sync)]
        /\ tx' = [tx EXCEPT ![c] = IdleSession]
        /\ UNCHANGED <<lease, disturbed>>

\* A constraint, another exception or a lost connection: get_db rolls back.
Rollback(c) ==
    /\ tx[c].step # "idle"
    /\ tx' = [tx EXCEPT ![c] = IdleSession]
    /\ UNCHANGED <<property, contract, lease, disturbed>>

-----------------------------------------------------------------------------
(* LeaseService and PropertyService *)

\* create_lease: the contract must be long_term when it is read.
LoadForLease(c, k) ==
    /\ InTable(contract[k])
    /\ contract[k].rental_type = "long_term"
    /\ Opens(c, OpenSession("lease", k, contract[k], contract[k]))

\* The INSERT: contract_id is unique, and waits for a contract that is being deleted.
CreateLease(c) ==
    LET k == tx[c].contract_id IN
    /\ tx[c].step = "lease"
    /\ k \notin lease
    /\ InTable(contract[k])
    /\ \A d \in Clients : Holds(d) /\ tx[d].contract_id = k => tx[d].new.status # "DELETED"
    /\ lease' = lease \cup {k}
    /\ tx' = [tx EXCEPT ![c] = IdleSession]
    /\ UNCHANGED <<property, contract, disturbed>>

\* delete_lease of a lease that has no billing history.
DeleteLease(k) ==
    /\ k \in lease
    /\ lease' = lease \ {k}
    /\ UNCHANGED <<property, contract, tx, disturbed>>

\* create_property with a status, vacant unless the caller says otherwise.
CreateProperty(p, status) ==
    /\ property[p] = "NONE"
    /\ property' = [property EXCEPT ![p] = status]
    /\ disturbed' = disturbed \cup (IF status = "vacant" THEN {} ELSE {"override"})
    /\ UNCHANGED <<contract, lease, tx>>

\* update_property with a status: the manual override.
OverrideStatus(p, status) ==
    /\ PropertyExists(p)
    /\ property' = [property EXCEPT ![p] = status]
    /\ disturbed' = disturbed \cup {"override"}
    /\ UNCHANGED <<contract, lease, tx>>

\* Bug: contracts do not keep their property.
DeletePropertyAnytime(p) ==
    /\ PropertyExists(p)
    /\ property' = [property EXCEPT ![p] = "DELETED"]
    /\ UNCHANGED <<contract, lease, tx, disturbed>>

\* delete_property: contracts, those being inserted included, restrict it.
DeleteProperty(p) ==
    /\ PropertyExists(p)
    /\ \A k \in Contracts : InTable(contract[k]) => contract[k].property_id # p
    /\ \A d \in Clients : Holds(d) /\ InTable(tx[d].new) => tx[d].new.property_id # p
    /\ property' = [property EXCEPT ![p] = "DELETED"]
    /\ UNCHANGED <<contract, lease, tx, disturbed>>

-----------------------------------------------------------------------------

Init ==
    /\ property = [p \in Properties |-> "NONE"]
    /\ contract = [k \in Contracts |-> NoRow]
    /\ lease = {}
    /\ tx = [c \in Clients |-> IdleSession]
    /\ disturbed = {}

ContractRequest(c) ==
    \/ \E k \in Contracts, p \in Properties, status \in SentStatuses, type \in RentalType :
          LoadForCreate(c, k, p, status, type)
    \/ \E k \in Contracts, status \in SentStatuses, type \in RentalType :
          LoadForUpdate(c, k, status, type)
    \/ \E k \in Contracts : LoadForDelete(c, k) \/ LoadForLease(c, k)

SessionStep(c) ==
    Flush(c) \/ SyncProperty(c) \/ Commit(c) \/ CreateLease(c) \/ Rollback(c)

PropertyRequest(p) ==
    \/ \E status \in PropertyStatus : CreateProperty(p, status) \/ OverrideStatus(p, status)
    \/ DeleteProperty(p)

Next ==
    \/ \E c \in Clients : ContractRequest(c) \/ SessionStep(c)
    \/ \E k \in Contracts : DeleteLease(k)
    \/ \E p \in Properties : PropertyRequest(p)

Spec == Init /\ [][Next]_vars

-----------------------------------------------------------------------------
(* Properties *)

\* Tables and sessions hold values of their types.
TypeOK ==
    /\ property \in [Properties -> PropertyRow]
    /\ contract \in [Contracts -> ContractRow]
    /\ lease \subseteq Contracts
    /\ tx \in [Clients -> Session]
    /\ disturbed \subseteq {"override", "overlap"}

\* A property never has two active contracts, whatever requests overlap: no service
\* checks it, create_contract and update_contract leave it to the partial index.
OneActiveContract ==
    \A p \in Properties : \A j, k \in Contracts : Active(j, p) /\ Active(k, p) => j = k

\* No row outlives its parent, although parents are checked when a request loads and
\* the child is inserted later: contracts keep their property, leases their contract.
ParentsKept ==
    /\ \A k \in Contracts : InTable(contract[k]) => PropertyExists(contract[k].property_id)
    /\ \A k \in lease : InTable(contract[k])

\* The status of a property says whether it has an active contract (the comment on
\* Property.status).  It holds as long as no two requests on the same contract overlap
\* and nobody overrides the status; requests on different contracts may overlap.
OccupancyMatches == disturbed = {} =>
    \A p \in Properties :
        PropertyExists(p) => (property[p] = "occupied" <=> \E k \in Contracts : Active(k, p))

-----------------------------------------------------------------------------
(* What the documentation says of the program and the code does not keep *)

\* The comment on Property.status: it is synced "to reflect whether the property currently
\* has an ACTIVE contract", and only a manual override departs from that.  The sync is
\* decided from the status of the contract as the request first read it, so it is missed
\* when another request on the same contract has changed the status since.
StatusReflectsContracts == "override" \notin disturbed =>
    \A p \in Properties :
        PropertyExists(p) => (property[p] = "occupied" <=> \E k \in Contracts : Active(k, p))

\* The docstring of Lease: "only ever created against a Contract whose rental_type is
\* long_term".  create_lease checks it before the INSERT, and an update of the contract may
\* commit in between.
LeaseOnLongTerm ==
    [][\A k \in lease' \ lease : contract[k].rental_type = "long_term"]_vars
=============================================================================
