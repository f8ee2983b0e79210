-------------------------- MODULE Occupancy_proofs --------------------------
(***************************************************************************)
(* Proofs about Occupancy, for every number of clients, properties and     *)
(* contracts.                                                              *)
(***************************************************************************)
EXTENDS Occupancy, TLAPS

-----------------------------------------------------------------------------
(* The inductive invariant *)

\* An open session creates a contract whose id it alone knows and whose row is not
\* there yet, or works on a row it found in the table and that has not moved to
\* another property since.
SessionSound(c) ==
    LET s == tx[c]
        k == s.contract_id
    IN  \/ s = IdleSession
        \/ /\ s.step # "idle"
           /\ k \in Contracts
           /\ s.new.status # "NONE"
           /\ s.new.property_id \in Properties
           /\ \/ /\ s.seen = NoRow
                 /\ contract[k] = NoRow
                 /\ \A d \in Clients \ {c} : tx[d].contract_id # k
              \/ /\ InTable(s.seen)
                 /\ contract[k].status # "NONE"
                 /\ contract[k].property_id = s.new.property_id
                 /\ s.seen.property_id = s.new.property_id

\* What a session holds, nobody else holds: its contract, and the place of its
\* property in the index if the row it flushed is active.
HeldAlone ==
    \A c, d \in Clients :
        c # d /\ Holds(c) /\ Holds(d) =>
            /\ tx[c].contract_id # tx[d].contract_id
            /\ ~(/\ tx[c].new.status = "ACTIVE"
                 /\ tx[d].new.status = "ACTIVE"
                 /\ tx[c].new.property_id = tx[d].new.property_id)

\* The row a session is about to commit is compatible with the tables.
Fits(c) ==
    /\ tx[c].new.status = "ACTIVE" =>
          \A j \in Contracts \ {tx[c].contract_id} : ~Active(j, tx[c].new.property_id)
    /\ InTable(tx[c].new) => PropertyExists(tx[c].new.property_id)
    /\ tx[c].new.status = "DELETED" => tx[c].contract_id \notin lease

HeldFits == \A c \in Clients : Holds(c) => Fits(c)

IInv ==
    /\ TypeOK
    /\ \A c \in Clients : SessionSound(c)
    /\ HeldAlone
    /\ HeldFits
    /\ OneActiveContract
    /\ ParentsKept

\* As long as requests on the same contract do not overlap and nobody overrides a status,
\* a contract has one session at a time, and what that session read still stands.
Apart ==
    \A c, d \in Clients :
        c # d /\ tx[c].step # "idle" => tx[c].contract_id # tx[d].contract_id

Fresh ==
    \A c \in Clients :
        /\ tx[c].step # "idle" => tx[c].seen = contract[tx[c].contract_id]
        /\ Holds(c) => tx[c].sync = Resolve(tx[c].seen.status, tx[c].new.status)
        /\ tx[c].step = "ready" /\ tx[c].sync # "none" =>
              tx[c].found = property[tx[c].new.property_id]

StatusFollows ==
    \A p \in Properties :
        PropertyExists(p) => (property[p] = "occupied" <=> \E k \in Contracts : Active(k, p))

CalmInv == Apart /\ Fresh /\ StatusFollows

-----------------------------------------------------------------------------
(* Types *)

LEMMA IdleTypes == NoRow \in ContractRow /\ IdleSession \in Session
<1>1. NoRow \in ContractRow
    BY DEF NoRow, NewContract, ContractRow, RentalType
<1>. QED
    BY <1>1 DEF IdleSession, OpenSession, Session, PropertyRow

LEMMA OpenType ==
    ASSUME NEW step \in {"loaded", "lease"}, NEW k \in Contracts,
           NEW seen \in ContractRow, NEW new \in ContractRow
    PROVE  OpenSession(step, k, seen, new) \in Session
BY DEF OpenSession, Session, PropertyRow

LEMMA FlushType ==
    ASSUME NEW current \in ContractRow, NEW seen \in ContractRow, NEW new \in ContractRow
    PROVE  FlushContract(current, seen, new) \in ContractRow
BY DEF FlushContract, Written, ContractRow

-----------------------------------------------------------------------------
(* Opening and ending a session *)

\* What is asked of a session that a request opens on contract k.
SoundStart(c, s) ==
    /\ s \in Session
    /\ s.step \in {"loaded", "lease"}
    /\ s.contract_id \in Contracts
    /\ s.new.status # "NONE"
    /\ s.new.property_id \in Properties
    /\ \/ /\ s.seen = NoRow
          /\ contract[s.contract_id] = NoRow
          /\ \A d \in Clients : tx[d].contract_id # s.contract_id
       \/ /\ InTable(s.seen)
          /\ contract[s.contract_id].status # "NONE"
          /\ contract[s.contract_id].property_id = s.new.property_id
          /\ s.seen.property_id = s.new.property_id

LEMMA OpeningKeeps ==
    ASSUME IInv, NEW c \in Clients, NEW s, SoundStart(c, s), Opens(c, s)
    PROVE  IInv'
<1>1. /\ tx' = [tx EXCEPT ![c] = s] /\ UNCHANGED <<property, contract, lease>>
      /\ disturbed' \subseteq disturbed \cup {"overlap"}
    BY DEF Opens
<1>2. TypeOK'
    BY <1>1 DEF IInv, TypeOK, SoundStart
<1>3. \A d \in Clients : tx'[d] = IF d = c THEN s ELSE tx[d]
    BY <1>1 DEF IInv, TypeOK
<1>4. \A d \in Clients : SessionSound(d)'
    <2>. SUFFICES ASSUME NEW d \in Clients PROVE SessionSound(d)'
        OBVIOUS
    <2>1. CASE d = c
        BY <2>1, <1>1, <1>3 DEF SoundStart, SessionSound
    <2>2. CASE d # c
        <3>1. SessionSound(d)
            BY DEF IInv
        <3>2. NoRow.status = "NONE"
            BY DEF NoRow, NewContract
        <3>. QED
            BY <2>2, <3>1, <3>2, <1>1, <1>3 DEF SoundStart, SessionSound
    <2>. QED
        BY <2>1, <2>2
<1>5. HeldAlone' /\ HeldFits'
    BY <1>1, <1>3 DEF IInv, HeldAlone, HeldFits, Fits, Holds, SoundStart, Active, InTable,
                      PropertyExists
<1>6. OneActiveContract' /\ ParentsKept'
    BY <1>1 DEF IInv, OneActiveContract, ParentsKept, Active, InTable, PropertyExists
<1>. QED
    BY <1>2, <1>4, <1>5, <1>6 DEF IInv

LEMMA ClosingKeeps ==
    ASSUME IInv, NEW c \in Clients, tx' = [tx EXCEPT ![c] = IdleSession],
           UNCHANGED <<property, contract, lease, disturbed>>
    PROVE  IInv'
<1>2. TypeOK'
    BY IdleTypes DEF IInv, TypeOK
<1>3. \A d \in Clients : tx'[d] = IF d = c THEN IdleSession ELSE tx[d]
    BY DEF IInv, TypeOK
<1>0. IdleSession.step = "idle" /\ IdleSession.contract_id = NoContract
    BY DEF IdleSession, OpenSession
<1>4. \A d \in Clients : SessionSound(d)'
    <2>. SUFFICES ASSUME NEW d \in Clients PROVE SessionSound(d)'
        OBVIOUS
    <2>1. SessionSound(d)
        BY DEF IInv
    <2>. QED
        BY <2>1, <1>0, <1>3, IdAssumption DEF SessionSound
<1>5. HeldAlone' /\ HeldFits'
    BY <1>0, <1>3 DEF IInv, HeldAlone, HeldFits, Fits, Holds, Active, InTable, PropertyExists
<1>6. OneActiveContract' /\ ParentsKept'
    BY DEF IInv, OneActiveContract, ParentsKept, Active, InTable, PropertyExists
<1>. QED
    BY <1>2, <1>4, <1>5, <1>6 DEF IInv

-----------------------------------------------------------------------------
(* Requests that load *)

LEMMA LoadsKeep ==
    ASSUME IInv, NEW c \in Clients, ContractRequest(c)
    PROVE  IInv'
<1>0. NoRow.status = "NONE" /\ NoRow.property_id = NoProperty /\ NoRow \in ContractRow
    BY IdleTypes DEF NoRow, NewContract
<1>1. ASSUME NEW k \in Contracts, NEW p \in Properties, NEW status \in SentStatuses,
             NEW type \in RentalType, LoadForCreate(c, k, p, status, type)
      PROVE  IInv'
    <2>. DEFINE new == NewContract(status, p, type)
                s == OpenSession("loaded", k, NoRow, new)
    <2>1. new \in ContractRow /\ new.status # "NONE" /\ new.property_id = p
        BY InputAssumption DEF NewContract, ContractRow, ContractStatus
    <2>2. s \in Session
        BY <2>1, <1>0, OpenType
    <2>3. /\ s.step = "loaded" /\ s.contract_id = k /\ s.seen = NoRow /\ s.new = new
        BY DEF OpenSession
    <2>4. Opens(c, s) /\ contract[k] = NoRow /\ \A d \in Clients : tx[d].contract_id # k
        BY <1>1 DEF LoadForCreate, Free
    <2>5. SoundStart(c, s)
        BY <2>1, <2>2, <2>3, <2>4 DEF SoundStart
    <2>. QED
        BY <2>4, <2>5, OpeningKeeps
<1>2. ASSUME NEW k \in Contracts, NEW new \in ContractRow, NEW step \in {"loaded", "lease"},
             InTable(contract[k]), new.status # "NONE",
             new.property_id = contract[k].property_id,
             Opens(c, OpenSession(step, k, contract[k], new))
      PROVE  IInv'
    <2>. DEFINE s == OpenSession(step, k, contract[k], new)
    <2>1. contract[k] \in ContractRow
        BY DEF IInv, TypeOK
    <2>2. contract[k].property_id \in Properties
        BY <1>2, IdAssumption DEF IInv, ParentsKept, InTable, TypeOK, PropertyExists,
                                  ContractRow, PropertyStatus
    <2>3. s \in Session
        BY <2>1, OpenType
    <2>4. s.step = step /\ s.contract_id = k /\ s.seen = contract[k] /\ s.new = new
        BY DEF OpenSession
    <2>5. contract[k].status # "NONE"
        BY <1>2 DEF InTable, ContractStatus
    <2>6. SoundStart(c, s)
        BY <1>2, <2>2, <2>3, <2>4, <2>5 DEF SoundStart
    <2>. QED
        BY <1>2, <2>6, OpeningKeeps
<1>3. \A k \in Contracts : contract[k] \in ContractRow
    BY DEF IInv, TypeOK
<1>4. ASSUME NEW k \in Contracts, NEW status \in SentStatuses, NEW type \in RentalType,
             LoadForUpdate(c, k, status, type)
      PROVE  IInv'
    <2>. DEFINE new == [contract[k] EXCEPT !.status = status, !.rental_type = type]
    <2>1. new \in ContractRow /\ new.status # "NONE" /\ new.property_id = contract[k].property_id
        BY <1>3, InputAssumption DEF ContractRow, ContractStatus
    <2>. QED
        BY <2>1, <1>2, <1>4 DEF LoadForUpdate
<1>5. ASSUME NEW k \in Contracts, LoadForDelete(c, k)
      PROVE  IInv'
    <2>. DEFINE new == [contract[k] EXCEPT !.status = "DELETED"]
    <2>1. new \in ContractRow /\ new.status # "NONE" /\ new.property_id = contract[k].property_id
        BY <1>3 DEF ContractRow
    <2>. QED
        BY <2>1, <1>2, <1>5 DEF LoadForDelete
<1>6. ASSUME NEW k \in Contracts, LoadForLease(c, k)
      PROVE  IInv'
    <2>1. InTable(contract[k]) => contract[k].status # "NONE"
        BY DEF InTable, ContractStatus
    <2>. QED
        BY <2>1, <1>2, <1>3, <1>6 DEF LoadForLease
<1>. QED
    BY <1>1, <1>4, <1>5, <1>6 DEF ContractRequest

-----------------------------------------------------------------------------
(* Flushing *)

\* The row a session flushes: of the property it was opened for, never unused, and
\* deleted only by a deletion.
LEMMA FlushedRow ==
    ASSUME IInv, NEW c \in Clients, Flush(c)
    PROVE  LET s == tx[c]
               row == FlushContract(contract[s.contract_id], s.seen, s.new)
           IN  /\ s.step = "loaded" /\ s \in Session /\ s.contract_id \in Contracts
               /\ row \in ContractRow
               /\ row.status # "NONE"
               /\ row.property_id = s.new.property_id
               /\ row.property_id \in Properties
<1>. DEFINE s == tx[c]
            k == s.contract_id
            row == FlushContract(contract[k], s.seen, s.new)
<1>1. s.step = "loaded" /\ (contract[k].status = "DELETED" => s.new.status = "DELETED")
    BY DEF Flush
<1>2. s # IdleSession
    BY <1>1 DEF IdleSession, OpenSession
<1>3. s \in Session
    BY DEF IInv, TypeOK
<1>4. SessionSound(c)
    BY DEF IInv
<1>5. NoRow.status = "NONE" /\ NoRow.property_id = NoProperty
    BY DEF NoRow, NewContract
<1>6. k \in Contracts /\ s.new.status # "NONE" /\ s.new.property_id \in Properties
    BY <1>2, <1>4 DEF SessionSound
<1>7. contract[k] \in ContractRow /\ s.seen \in ContractRow /\ s.new \in ContractRow
    BY <1>3, <1>6 DEF IInv, TypeOK, Session
<1>8. row \in ContractRow
    BY <1>7, FlushType
<1>9. /\ row.status = Written(contract[k].status, s.seen.status, s.new.status)
      /\ row.property_id =
            Written(contract[k].property_id, s.seen.property_id, s.new.property_id)
    BY DEF FlushContract
<1>10. row.status # "NONE" /\ row.property_id = s.new.property_id
    BY <1>2, <1>4, <1>5, <1>6, <1>9, IdAssumption DEF SessionSound, Written
<1>. QED
    BY <1>1, <1>3, <1>6, <1>8, <1>10

LEMMA FlushKeeps ==
    ASSUME IInv, NEW c \in Clients, Flush(c)
    PROVE  IInv'
<1>. DEFINE s == tx[c]
            k == s.contract_id
            row == FlushContract(contract[k], s.seen, s.new)
            sync == Resolve(s.seen.status, row.status)
            t == [s EXCEPT !.step = IF sync = "none" THEN "ready" ELSE "flushed",
                           !.new = row, !.sync = sync]
<1>1. /\ s.step = "loaded" /\ s \in Session /\ k \in Contracts
      /\ row \in ContractRow /\ row.status # "NONE"
      /\ row.property_id = s.new.property_id /\ row.property_id \in Properties
    BY FlushedRow
<1>2. /\ \A d \in Clients \ {c} : Holds(d) => tx[d].contract_id # k
      /\ IndexAdmits(c, k, row) /\ ForeignKeys(k, row)
      /\ tx' = [tx EXCEPT ![c] = t]
      /\ UNCHANGED <<property, contract, lease, disturbed>>
    BY DEF Flush
<1>3. sync \in PropertyStatus \cup {"none"}
    BY DEF Resolve, PropertyStatus
<1>. HIDE DEF row, sync
<1>4. t \in Session
    BY <1>1, <1>3 DEF Session
<1>5. /\ t.step \in {"ready", "flushed"} /\ t.new = row
      /\ t.contract_id = k /\ t.seen = s.seen
    BY <1>1 DEF Session
<1>. HIDE DEF t
<1>6. TypeOK'
    BY <1>2, <1>4 DEF IInv, TypeOK
<1>7. \A d \in Clients : tx'[d] = IF d = c THEN t ELSE tx[d]
    BY <1>2 DEF IInv, TypeOK
<1>8. \A d \in Clients : SessionSound(d)'
    <2>. SUFFICES ASSUME NEW d \in Clients PROVE SessionSound(d)'
        OBVIOUS
    <2>1. SessionSound(d) /\ SessionSound(c) /\ s # IdleSession
        BY <1>1 DEF IInv, IdleSession, OpenSession
    <2>2. CASE d = c
        BY <2>1, <2>2, <1>1, <1>2, <1>5, <1>7 DEF SessionSound
    <2>3. CASE d # c
        BY <2>1, <2>3, <1>2, <1>5, <1>7 DEF SessionSound
    <2>. QED
        BY <2>2, <2>3
<1>9. HeldAlone'
    <2>. SUFFICES ASSUME NEW d \in Clients, NEW e \in Clients, d # e, Holds(d)', Holds(e)'
                  PROVE  /\ tx'[d].contract_id # tx'[e].contract_id
                         /\ ~(/\ tx'[d].new.status = "ACTIVE"
                              /\ tx'[e].new.status = "ACTIVE"
                              /\ tx'[d].new.property_id = tx'[e].new.property_id)
        BY DEF HeldAlone
    <2>1. \A f \in Clients \ {c} : Holds(f)' => Holds(f)
        BY <1>7 DEF Holds
    <2>2. \A f \in Clients \ {c} : Holds(f) =>
             /\ tx[f].contract_id # k
             /\ ~(/\ row.status = "ACTIVE" /\ tx[f].new.status = "ACTIVE"
                  /\ tx[f].new.property_id = row.property_id)
        BY <1>2 DEF IndexAdmits
    <2>. QED
        BY <2>1, <2>2, <1>5, <1>7 DEF IInv, HeldAlone
<1>10. HeldFits'
    <2>1. row.status = "ACTIVE" => \A j \in Contracts \ {k} : ~Active(j, row.property_id)
        BY <1>2 DEF IndexAdmits
    <2>2. /\ InTable(row) => PropertyExists(row.property_id)
          /\ row.status = "DELETED" => k \notin lease
        BY <1>2 DEF ForeignKeys
    <2>. QED
        BY <2>1, <2>2, <1>2, <1>5, <1>7
           DEF IInv, HeldFits, Fits, Holds, Active, InTable, PropertyExists
<1>11. OneActiveContract' /\ ParentsKept'
    BY <1>2 DEF IInv, OneActiveContract, ParentsKept, Active, InTable, PropertyExists
<1>. QED
    BY <1>6, <1>8, <1>9, <1>10, <1>11 DEF IInv

LEMMA SyncKeeps ==
    ASSUME IInv, NEW c \in Clients, SyncProperty(c)
    PROVE  IInv'
<1>. DEFINE s == tx[c]
            p == s.new.property_id
            t == [s EXCEPT !.step = "ready", !.found = property[p],
                           !.sync = IF PropertyExists(p) THEN @ ELSE "none"]
<1>1. s.step = "flushed" /\ UNCHANGED <<property, contract, lease, disturbed>>
    BY DEF SyncProperty
<1>2. s \in Session /\ SessionSound(c) /\ s # IdleSession
    BY <1>1 DEF IInv, TypeOK, IdleSession, OpenSession
<1>3. p \in Properties
    BY <1>2 DEF SessionSound
<1>4. t \in Session
    BY <1>2, <1>3 DEF IInv, TypeOK, Session
<1>5. t.step = "ready" /\ t.new = s.new /\ t.contract_id = s.contract_id /\ t.seen = s.seen
    BY <1>2 DEF Session
<1>6. tx' = [tx EXCEPT ![c] = t]
    BY <1>2 DEF SyncProperty, IInv, TypeOK, Session
<1>. HIDE DEF t
<1>7. TypeOK'
    BY <1>1, <1>4, <1>6 DEF IInv, TypeOK
<1>8. \A d \in Clients : tx'[d] = IF d = c THEN t ELSE tx[d]
    BY <1>6 DEF IInv, TypeOK
<1>9. \A d \in Clients : SessionSound(d)'
    <2>. SUFFICES ASSUME NEW d \in Clients PROVE SessionSound(d)'
        OBVIOUS
    <2>1. SessionSound(d)
        BY DEF IInv
    <2>2. CASE d = c
        BY <2>2, <1>1, <1>2, <1>5, <1>8 DEF SessionSound
    <2>3. CASE d # c
        BY <2>1, <2>3, <1>1, <1>5, <1>8 DEF SessionSound
    <2>. QED
        BY <2>2, <2>3
<1>10. \A d \in Clients :
          /\ Holds(d)' <=> Holds(d)
          /\ tx'[d].new = tx[d].new /\ tx'[d].contract_id = tx[d].contract_id
    BY <1>1, <1>5, <1>8 DEF Holds
<1>11. HeldAlone' /\ HeldFits'
    BY <1>1, <1>10 DEF IInv, HeldAlone, HeldFits, Fits, Active, InTable, PropertyExists
<1>12. OneActiveContract' /\ ParentsKept'
    BY <1>1 DEF IInv, OneActiveContract, ParentsKept, Active, InTable, PropertyExists
<1>. QED
    BY <1>7, <1>9, <1>11, <1>12 DEF IInv

-----------------------------------------------------------------------------
(* Committing *)

\* What a commit does to the tables.
LEMMA CommitEffect ==
    ASSUME IInv, NEW c \in Clients, Commit(c)
    PROVE  LET s == tx[c] IN
           /\ s \in Session /\ s.step = "ready" /\ Holds(c)
           /\ s.contract_id \in Contracts
           /\ s.new \in ContractRow /\ s.new.status # "NONE"
           /\ s.new.property_id \in Properties
           /\ \A j \in Contracts :
                 contract'[j] = IF j = s.contract_id THEN s.new ELSE contract[j]
           /\ \A p \in Properties : property'[p] \in PropertyStatus <=> property[p] \in PropertyStatus
           /\ contract' \in [Contracts -> ContractRow]
           /\ property' \in [Properties -> PropertyRow]
           /\ tx' \in [Clients -> Session]
           /\ \A d \in Clients : tx'[d] = IF d = c THEN IdleSession ELSE tx[d]
<1>. DEFINE s == tx[c]
            p == s.new.property_id
<1>1. s.step = "ready" /\ Holds(c)
    BY DEF Commit, Holds
<1>2. s \in Session /\ SessionSound(c) /\ s # IdleSession
    BY <1>1 DEF IInv, TypeOK, IdleSession, OpenSession
<1>3. s.contract_id \in Contracts /\ s.new.status # "NONE" /\ p \in Properties
    BY <1>2 DEF SessionSound
<1>4. s.new \in ContractRow /\ s.found \in PropertyRow
      /\ s.sync \in PropertyStatus \cup {"none"}
    BY <1>2 DEF Session
<1>5. contract' = [contract EXCEPT ![s.contract_id] = s.new]
    BY DEF Commit
<1>6. property' = IF s.sync = "none" THEN property
                  ELSE [property EXCEPT ![p] = Written(property[p], s.found, s.sync)]
    BY DEF Commit
<1>7. s.sync # "none" => property[p] \in PropertyStatus
    BY DEF Commit, PropertyExists
<1>8. s.sync # "none" => Written(property[p], s.found, s.sync) \in PropertyStatus
    BY <1>4, <1>7 DEF Written
<1>9. tx' = [tx EXCEPT ![c] = IdleSession]
    BY DEF Commit
<1>10. /\ property' \in [Properties -> PropertyRow]
       /\ \A q \in Properties : property'[q] \in PropertyStatus <=> property[q] \in PropertyStatus
    BY <1>3, <1>6, <1>7, <1>8 DEF IInv, TypeOK, PropertyRow
<1>11. /\ contract' \in [Contracts -> ContractRow]
       /\ \A j \in Contracts : contract'[j] = IF j = s.contract_id THEN s.new ELSE contract[j]
    BY <1>3, <1>4, <1>5 DEF IInv, TypeOK
<1>12. /\ tx' \in [Clients -> Session]
       /\ \A d \in Clients : tx'[d] = IF d = c THEN IdleSession ELSE tx[d]
    BY <1>9, IdleTypes DEF IInv, TypeOK
<1>. QED
    BY <1>1, <1>2, <1>3, <1>4, <1>10, <1>11, <1>12

LEMMA CommitKeeps ==
    ASSUME IInv, NEW c \in Clients, Commit(c)
    PROVE  IInv'
<1>. DEFINE s == tx[c]
            k == s.contract_id
<1>1. /\ s \in Session /\ s.step = "ready" /\ Holds(c) /\ k \in Contracts
      /\ s.new \in ContractRow /\ s.new.status # "NONE" /\ s.new.property_id \in Properties
    BY CommitEffect
<1>2. \A j \in Contracts : contract'[j] = IF j = k THEN s.new ELSE contract[j]
    BY CommitEffect
<1>3. \A p \in Properties : property'[p] \in PropertyStatus <=> property[p] \in PropertyStatus
    BY CommitEffect
<1>4. \A d \in Clients : tx'[d] = IF d = c THEN IdleSession ELSE tx[d]
    BY CommitEffect
<1>5. UNCHANGED <<lease, disturbed>>
    BY DEF Commit
<1>6. TypeOK'
    BY <1>5, CommitEffect DEF IInv, TypeOK
<1>7. IdleSession.step = "idle" /\ IdleSession.contract_id = NoContract
    BY DEF IdleSession, OpenSession
<1>8. \A d \in Clients \ {c} : Holds(d) =>
         /\ tx[d].contract_id # k
         /\ ~(/\ s.new.status = "ACTIVE" /\ tx[d].new.status = "ACTIVE"
              /\ tx[d].new.property_id = s.new.property_id)
    BY <1>1 DEF IInv, HeldAlone
<1>9. \A d \in Clients : SessionSound(d)'
    <2>. SUFFICES ASSUME NEW d \in Clients, d # c PROVE SessionSound(d)'
        BY <1>4 DEF SessionSound
    <2>1. SessionSound(d) /\ SessionSound(c) /\ s # IdleSession
        BY <1>1 DEF IInv, IdleSession, OpenSession
    <2>2. NoRow.status = "NONE"
        BY DEF NoRow, NewContract
    <2>3. tx'[d] = tx[d] /\ \A e \in Clients : tx'[e].contract_id \in {tx[e].contract_id, NoContract}
        BY <1>4, <1>7
    <2>4. CASE tx[d] = IdleSession
        BY <2>3, <2>4 DEF SessionSound
    <2>5. CASE tx[d] # IdleSession /\ tx[d].seen = NoRow /\ contract[tx[d].contract_id] = NoRow
               /\ \A e \in Clients \ {d} : tx[e].contract_id # tx[d].contract_id
        <3>1. tx[d].contract_id # k /\ tx[d].contract_id \in Contracts
            BY <2>1, <2>5 DEF SessionSound
        <3>. QED
            BY <3>1, <2>1, <2>3, <2>5, <1>2, IdAssumption DEF SessionSound
    <2>6. CASE tx[d] # IdleSession /\ InTable(tx[d].seen)
               /\ contract[tx[d].contract_id].status # "NONE"
               /\ contract[tx[d].contract_id].property_id = tx[d].new.property_id
               /\ tx[d].seen.property_id = tx[d].new.property_id
        <3>1. tx[d].contract_id = k => contract[k].property_id = s.new.property_id
            BY <2>1, <2>2, <2>6 DEF SessionSound
        <3>. QED
            BY <3>1, <2>1, <2>3, <2>6, <1>1, <1>2 DEF SessionSound, InTable
    <2>. QED
        BY <2>1, <2>4, <2>5, <2>6 DEF SessionSound
<1>10. HeldAlone'
    BY <1>4, <1>7 DEF IInv, HeldAlone, Holds
<1>11. HeldFits'
    <2>. SUFFICES ASSUME NEW d \in Clients, Holds(d)' PROVE Fits(d)'
        BY DEF HeldFits
    <2>1. d # c /\ tx'[d] = tx[d] /\ Holds(d)
        BY <1>4, <1>7 DEF Holds
    <2>2. /\ tx[d].new.status = "ACTIVE" =>
                \A j \in Contracts \ {tx[d].contract_id} : ~Active(j, tx[d].new.property_id)
          /\ InTable(tx[d].new) => PropertyExists(tx[d].new.property_id)
          /\ tx[d].new.status = "DELETED" => tx[d].contract_id \notin lease
        BY <2>1 DEF IInv, HeldFits, Fits
    <2>3. ~(/\ s.new.status = "ACTIVE" /\ tx[d].new.status = "ACTIVE"
            /\ tx[d].new.property_id = s.new.property_id)
        BY <2>1, <1>8
    <2>. QED
        BY <2>1, <2>2, <2>3, <1>2, <1>3, <1>5 DEF Fits, Active, PropertyExists, InTable
<1>12. OneActiveContract'
    BY <1>1, <1>2 DEF IInv, OneActiveContract, HeldFits, Fits, Active
<1>13. ParentsKept'
    <2>1. /\ InTable(s.new) => PropertyExists(s.new.property_id)
          /\ s.new.status = "DELETED" => k \notin lease
        BY <1>1 DEF IInv, HeldFits, Fits
    <2>2. k \in lease => InTable(s.new)
        BY <2>1, <1>1 DEF InTable, ContractRow
    <2>. QED
        BY <2>1, <2>2, <1>2, <1>3, <1>5 DEF IInv, TypeOK, ParentsKept, InTable, PropertyExists
<1>. QED
    BY <1>6, <1>9, <1>10, <1>11, <1>12, <1>13 DEF IInv

-----------------------------------------------------------------------------
(* The other requests *)

LEMMA LeaseKeeps ==
    ASSUME IInv, NEW c \in Clients, CreateLease(c)
    PROVE  IInv'
<1>. DEFINE k == tx[c].contract_id
<1>1. /\ tx[c].step = "lease" /\ InTable(contract[k])
      /\ \A d \in Clients : Holds(d) /\ tx[d].contract_id = k => tx[d].new.status # "DELETED"
      /\ lease' = lease \cup {k}
      /\ tx' = [tx EXCEPT ![c] = IdleSession]
      /\ UNCHANGED <<property, contract, disturbed>>
    BY DEF CreateLease
<1>2. k \in Contracts
    <2>1. SessionSound(c) /\ tx[c] # IdleSession
        BY <1>1 DEF IInv, IdleSession, OpenSession
    <2>. QED
        BY <2>1 DEF SessionSound
<1>3. TypeOK'
    BY <1>1, <1>2, IdleTypes DEF IInv, TypeOK
<1>4. \A d \in Clients : tx'[d] = IF d = c THEN IdleSession ELSE tx[d]
    BY <1>1 DEF IInv, TypeOK
<1>5. IdleSession.step = "idle" /\ IdleSession.contract_id = NoContract
    BY DEF IdleSession, OpenSession
<1>6. \A d \in Clients : SessionSound(d)'
    <2>. SUFFICES ASSUME NEW d \in Clients PROVE SessionSound(d)'
        OBVIOUS
    <2>1. SessionSound(d)
        BY DEF IInv
    <2>. QED
        BY <2>1, <1>1, <1>4, <1>5, IdAssumption DEF SessionSound
<1>7. HeldAlone' /\ HeldFits'
    BY <1>1, <1>4, <1>5 DEF IInv, HeldAlone, HeldFits, Fits, Holds, Active, InTable, PropertyExists
<1>8. OneActiveContract' /\ ParentsKept'
    BY <1>1 DEF IInv, OneActiveContract, ParentsKept, Active, InTable, PropertyExists
<1>. QED
    BY <1>3, <1>6, <1>7, <1>8 DEF IInv

LEMMA DeleteLeaseKeeps ==
    ASSUME IInv, NEW k \in Contracts, DeleteLease(k)
    PROVE  IInv'
<1>1. lease' \subseteq lease /\ UNCHANGED <<property, contract, tx, disturbed>>
    BY DEF DeleteLease
<1>2. TypeOK' /\ HeldAlone' /\ HeldFits'
    BY <1>1 DEF IInv, TypeOK, HeldAlone, HeldFits, Fits, Holds, Active, InTable, PropertyExists
<1>3. \A d \in Clients : SessionSound(d)'
    BY <1>1 DEF IInv, SessionSound, InTable
<1>4. OneActiveContract' /\ ParentsKept'
    BY <1>1 DEF IInv, OneActiveContract, ParentsKept, Active, InTable, PropertyExists
<1>. QED
    BY <1>2, <1>3, <1>4 DEF IInv

LEMMA PropertyKeeps ==
    ASSUME IInv, NEW p \in Properties, PropertyRequest(p)
    PROVE  IInv'
<1>1. /\ UNCHANGED <<contract, lease, tx>>
      /\ disturbed' \subseteq disturbed \cup {"override"}
    BY DEF PropertyRequest, CreateProperty, OverrideStatus, DeleteProperty
<1>2. property' \in [Properties -> PropertyRow]
    BY DEF PropertyRequest, CreateProperty, OverrideStatus, DeleteProperty, IInv, TypeOK,
           PropertyRow, PropertyStatus
<1>3. \A q \in Properties : PropertyExists(q) =>
         \/ PropertyExists(q)'
         \/ /\ \A k \in Contracts : InTable(contract[k]) => contract[k].property_id # q
            /\ \A d \in Clients : Holds(d) /\ InTable(tx[d].new) => tx[d].new.property_id # q
    BY DEF PropertyRequest, CreateProperty, OverrideStatus, DeleteProperty, IInv, TypeOK,
           PropertyExists, PropertyStatus
<1>4. TypeOK' /\ HeldAlone'
    BY <1>1, <1>2 DEF IInv, TypeOK, HeldAlone, Holds
<1>5. HeldFits'
    BY <1>1, <1>3 DEF IInv, HeldFits, Fits, Holds, Active, InTable, PropertyExists
<1>6. \A d \in Clients : SessionSound(d)'
    BY <1>1 DEF IInv, SessionSound, InTable
<1>7. OneActiveContract'
    BY <1>1 DEF IInv, OneActiveContract, Active
<1>8. ParentsKept'
    BY <1>1, <1>3 DEF IInv, TypeOK, ParentsKept, InTable, PropertyExists
<1>. QED
    BY <1>4, <1>5, <1>6, <1>7, <1>8 DEF IInv

-----------------------------------------------------------------------------
(* The theorems that hold whatever overlaps *)

LEMMA InitSound == Init => IInv
<1>. SUFFICES ASSUME Init PROVE IInv
    OBVIOUS
<1>1. TypeOK
    BY IdleTypes DEF Init, TypeOK, PropertyRow
<1>2. \A c \in Clients : SessionSound(c) /\ ~Holds(c)
    BY DEF Init, SessionSound, Holds, IdleSession, OpenSession
<1>3. OneActiveContract /\ ParentsKept
    BY DEF Init, OneActiveContract, ParentsKept, Active, InTable, NoRow, NewContract,
           ContractStatus
<1>. QED
    BY <1>1, <1>2, <1>3 DEF IInv, HeldAlone, HeldFits

LEMMA NextKeeps == IInv /\ [Next]_vars => IInv'
<1>. SUFFICES ASSUME IInv, [Next]_vars PROVE IInv'
    OBVIOUS
<1>1. ASSUME NEW c \in Clients, ContractRequest(c) PROVE IInv'
    BY <1>1, LoadsKeep
<1>2. ASSUME NEW c \in Clients, SessionStep(c) PROVE IInv'
    <2>1. CASE Rollback(c)
        BY <2>1, ClosingKeeps DEF Rollback
    <2>. QED
        BY <1>2, <2>1, FlushKeeps, SyncKeeps, CommitKeeps, LeaseKeeps DEF SessionStep
<1>3. ASSUME NEW k \in Contracts, DeleteLease(k) PROVE IInv'
    BY <1>3, DeleteLeaseKeeps
<1>4. ASSUME NEW p \in Properties, PropertyRequest(p) PROVE IInv'
    BY <1>4, PropertyKeeps
<1>5. CASE UNCHANGED vars
    <2>1. UNCHANGED <<property, contract, lease, tx, disturbed>>
        BY <1>5 DEF vars
    <2>2. TypeOK' /\ HeldAlone' /\ HeldFits'
        BY <2>1 DEF IInv, TypeOK, HeldAlone, HeldFits, Fits, Holds, Active, InTable,
                    PropertyExists
    <2>3. \A d \in Clients : SessionSound(d)'
        BY <2>1 DEF IInv, SessionSound, InTable
    <2>4. OneActiveContract' /\ ParentsKept'
        BY <2>1 DEF IInv, OneActiveContract, ParentsKept, Active, InTable, PropertyExists
    <2>. QED
        BY <2>2, <2>3, <2>4 DEF IInv
<1>. QED
    BY <1>1, <1>2, <1>3, <1>4, <1>5 DEF Next

\* Tables and sessions keep their types: the rows ContractService flushes are contracts.
THEOREM TypeCorrect == Spec => []TypeOK
<1>1. IInv => TypeOK
    BY DEF IInv
<1>. QED
    BY <1>1, InitSound, NextKeeps, PTL DEF Spec

\* However many requests of ContractService overlap, on the same contract or not, a
\* property never has two active contracts: the index is enough, no pre-check is needed.
THEOREM SingleActiveContract == Spec => []OneActiveContract
<1>1. IInv => OneActiveContract
    BY DEF IInv
<1>. QED
    BY <1>1, InitSound, NextKeeps, PTL DEF Spec

\* Contracts keep their property and leases their contract, whatever overlaps.
THEOREM NoOrphans == Spec => []ParentsKept
<1>1. IInv => ParentsKept
    BY DEF IInv
<1>. QED
    BY <1>1, InitSound, NextKeeps, PTL DEF Spec

-----------------------------------------------------------------------------
(* Occupancy, when requests on the same contract do not overlap *)

\* A session whose commit touches the property: the property exists, and it is of an
\* active contract in the table or of the row that becomes active.
LEMMA SyncTouches ==
    ASSUME IInv, Fresh, NEW c \in Clients, Holds(c),
           Resolve(tx[c].seen.status, tx[c].new.status) # "none"
    PROVE  LET p == tx[c].new.property_id IN
           /\ PropertyExists(p)
           /\ tx[c].contract_id \in Contracts
           /\ Active(tx[c].contract_id, p) \/ tx[c].new.status = "ACTIVE"
<1>. DEFINE s == tx[c]
            k == s.contract_id
<1>1. s.step # "idle" /\ s # IdleSession /\ SessionSound(c)
    BY DEF Holds, IInv, IdleSession, OpenSession
<1>2. s.seen = contract[k] /\ k \in Contracts
    BY <1>1 DEF Fresh, SessionSound
<1>3. s.seen.status = "ACTIVE" \/ s.new.status = "ACTIVE"
    BY DEF Resolve
<1>4. NoRow.status = "NONE"
    BY DEF NoRow, NewContract
<1>5. s.seen.status = "ACTIVE" => contract[k].property_id = s.new.property_id
    BY <1>1, <1>4 DEF SessionSound
<1>6. s.seen.status = "ACTIVE" => PropertyExists(s.new.property_id)
    BY <1>2, <1>5 DEF IInv, ParentsKept, InTable, ContractStatus
<1>7. s.new.status = "ACTIVE" => PropertyExists(s.new.property_id)
    BY DEF IInv, HeldFits, Fits, InTable, ContractStatus
<1>. QED
    BY <1>2, <1>3, <1>5, <1>6, <1>7 DEF Active

\* Two sessions that touch the same property cannot be between flush and commit together.
LEMMA SyncAlone ==
    ASSUME IInv, Fresh, NEW c \in Clients, NEW d \in Clients, c # d, Holds(c), Holds(d),
           Resolve(tx[c].seen.status, tx[c].new.status) # "none",
           Resolve(tx[d].seen.status, tx[d].new.status) # "none"
    PROVE  tx[c].new.property_id # tx[d].new.property_id
<1>. SUFFICES ASSUME tx[c].new.property_id = tx[d].new.property_id PROVE FALSE
    OBVIOUS
<1>. DEFINE p == tx[c].new.property_id
<1>1. /\ PropertyExists(p) /\ tx[c].contract_id \in Contracts
      /\ Active(tx[c].contract_id, p) \/ tx[c].new.status = "ACTIVE"
    BY SyncTouches
<1>2. /\ tx[d].contract_id \in Contracts
      /\ Active(tx[d].contract_id, p) \/ tx[d].new.status = "ACTIVE"
    BY SyncTouches
<1>3. /\ tx[c].contract_id # tx[d].contract_id
      /\ ~(tx[c].new.status = "ACTIVE" /\ tx[d].new.status = "ACTIVE")
    BY DEF IInv, HeldAlone
<1>4. /\ tx[c].new.status = "ACTIVE" => ~Active(tx[d].contract_id, p)
      /\ tx[d].new.status = "ACTIVE" => ~Active(tx[c].contract_id, p)
    BY <1>1, <1>2, <1>3 DEF IInv, HeldFits, Fits
<1>5. ~(Active(tx[c].contract_id, p) /\ Active(tx[d].contract_id, p))
    BY <1>1, <1>2, <1>3 DEF IInv, OneActiveContract, PropertyExists
<1>. QED
    BY <1>1, <1>2, <1>3, <1>4, <1>5

LEMMA OpeningCalm ==
    ASSUME IInv, CalmInv, NEW c \in Clients, NEW s, Opens(c, s),
           s.step \in {"loaded", "lease"},
           \A d \in Clients : tx[d].contract_id # s.contract_id,
           s.seen = contract[s.contract_id],
           s.step = "lease" => s.seen.rental_type = "long_term"
    PROVE  CalmInv'
<1>1. /\ UNCHANGED <<property, contract, lease>>
      /\ \A d \in Clients : tx'[d] = IF d = c THEN s ELSE tx[d]
    BY DEF Opens, IInv, TypeOK
<1>2. Apart'
    BY <1>1 DEF CalmInv, Apart
<1>3. Fresh'
    BY <1>1 DEF CalmInv, Fresh, Holds
<1>4. StatusFollows'
    BY <1>1 DEF CalmInv, StatusFollows, PropertyExists, Active
<1>. QED
    BY <1>2, <1>3, <1>4 DEF CalmInv

LEMMA LoadsCalm ==
    ASSUME IInv, CalmInv, disturbed' = {}, NEW c \in Clients, ContractRequest(c)
    PROVE  CalmInv'
<1>1. ASSUME NEW k \in Contracts, NEW step \in {"loaded", "lease"}, NEW seen, NEW new,
             Opens(c, OpenSession(step, k, seen, new)),
             seen = contract[k],
             step = "lease" => seen.rental_type = "long_term"
      PROVE  CalmInv'
    <2>. DEFINE s == OpenSession(step, k, seen, new)
    <2>1. s.step = step /\ s.contract_id = k /\ s.seen = seen
        BY DEF OpenSession
    <2>. HIDE DEF s
    <2>2. Opens(c, s)
        BY <1>1 DEF s
    <2>3. \A d \in Clients : tx[d].contract_id # k
        BY <2>1, <2>2 DEF Opens, Free
    <2>. QED
        BY <1>1, <2>1, <2>2, <2>3, OpeningCalm
<1>2. ASSUME NEW k \in Contracts, NEW p \in Properties, NEW status \in SentStatuses,
             NEW type \in RentalType, LoadForCreate(c, k, p, status, type)
      PROVE  CalmInv'
    BY <1>1, <1>2 DEF LoadForCreate
<1>3. ASSUME NEW k \in Contracts, NEW status \in SentStatuses, NEW type \in RentalType,
             LoadForUpdate(c, k, status, type)
      PROVE  CalmInv'
    BY <1>1, <1>3 DEF LoadForUpdate
<1>4. ASSUME NEW k \in Contracts, LoadForDelete(c, k)
      PROVE  CalmInv'
    BY <1>1, <1>4 DEF LoadForDelete
<1>5. ASSUME NEW k \in Contracts, LoadForLease(c, k)
      PROVE  CalmInv'
    BY <1>1, <1>5 DEF LoadForLease
<1>. QED
    BY <1>2, <1>3, <1>4, <1>5 DEF ContractRequest

\* A session that replaces its own record only, without touching the tables.
LEMMA FlushCalm ==
    ASSUME IInv, CalmInv, NEW c \in Clients, Flush(c)
    PROVE  CalmInv'
<1>. DEFINE s == tx[c]
            k == s.contract_id
            row == FlushContract(contract[k], s.seen, s.new)
            sync == Resolve(s.seen.status, row.status)
            t == [s EXCEPT !.step = IF sync = "none" THEN "ready" ELSE "flushed",
                           !.new = row, !.sync = sync]
<1>1. s.step = "loaded" /\ s \in Session
    BY DEF Flush, IInv, TypeOK
<1>2. tx' = [tx EXCEPT ![c] = t] /\ UNCHANGED <<property, contract, lease>>
    BY DEF Flush
<1>. HIDE DEF row, sync
<1>3. /\ t.step = IF sync = "none" THEN "ready" ELSE "flushed"
      /\ t.new = row /\ t.contract_id = k /\ t.seen = s.seen /\ t.sync = sync
    BY <1>1 DEF Session
<1>. HIDE DEF t
<1>4. \A d \in Clients : tx'[d] = IF d = c THEN t ELSE tx[d]
    BY <1>2 DEF IInv, TypeOK
<1>5. Apart'
    BY <1>1, <1>3, <1>4 DEF CalmInv, Apart
<1>6. Fresh'
    BY <1>1, <1>2, <1>3, <1>4 DEF CalmInv, Fresh, Holds, sync
<1>7. StatusFollows'
    BY <1>2 DEF CalmInv, StatusFollows, PropertyExists, Active
<1>. QED
    BY <1>5, <1>6, <1>7 DEF CalmInv

LEMMA SyncCalm ==
    ASSUME IInv, CalmInv, NEW c \in Clients, SyncProperty(c)
    PROVE  CalmInv'
<1>. DEFINE s == tx[c]
            p == s.new.property_id
            t == [s EXCEPT !.step = "ready", !.found = property[p],
                           !.sync = IF PropertyExists(p) THEN @ ELSE "none"]
<1>1. s.step = "flushed" /\ s \in Session /\ UNCHANGED <<property, contract, lease>>
    BY DEF SyncProperty, IInv, TypeOK
<1>2. tx' = [tx EXCEPT ![c] = t]
    BY <1>1 DEF SyncProperty, IInv, TypeOK, Session
<1>3. /\ t.step = "ready" /\ t.new = s.new /\ t.contract_id = s.contract_id
      /\ t.seen = s.seen /\ t.found = property[p]
      /\ t.sync = IF PropertyExists(p) THEN s.sync ELSE "none"
    BY <1>1 DEF Session
<1>. HIDE DEF t
<1>4. \A d \in Clients : tx'[d] = IF d = c THEN t ELSE tx[d]
    BY <1>2 DEF IInv, TypeOK
<1>5. Holds(c) /\ Fresh
    BY <1>1 DEF Holds, CalmInv
<1>6. t.sync = Resolve(s.seen.status, s.new.status)
    <2>1. s.sync = Resolve(s.seen.status, s.new.status)
        BY <1>5 DEF Fresh
    <2>2. s.sync # "none" => PropertyExists(p)
        BY <2>1, <1>5, SyncTouches
    <2>. QED
        BY <1>3, <2>1, <2>2
<1>7. Apart'
    BY <1>1, <1>3, <1>4 DEF CalmInv, Apart
<1>8. Fresh'
    BY <1>1, <1>3, <1>4, <1>5, <1>6 DEF Fresh, Holds
<1>9. StatusFollows'
    BY <1>1 DEF CalmInv, StatusFollows, PropertyExists, Active
<1>. QED
    BY <1>7, <1>8, <1>9 DEF CalmInv

LEMMA CommitCalm ==
    ASSUME IInv, CalmInv, NEW c \in Clients, Commit(c)
    PROVE  CalmInv'
<1>. DEFINE s == tx[c]
            k == s.contract_id
            p == s.new.property_id
<1>1. /\ s \in Session /\ s.step = "ready" /\ Holds(c) /\ k \in Contracts /\ p \in Properties
      /\ s.new \in ContractRow
      /\ \A j \in Contracts : contract'[j] = IF j = k THEN s.new ELSE contract[j]
      /\ \A d \in Clients : tx'[d] = IF d = c THEN IdleSession ELSE tx[d]
      /\ \A q \in Properties : property'[q] \in PropertyStatus <=> property[q] \in PropertyStatus
    BY CommitEffect
<1>2. Fresh /\ Apart /\ StatusFollows
    BY DEF CalmInv
<1>3. s.seen = contract[k] /\ s.sync = Resolve(s.seen.status, s.new.status)
      /\ (s.sync # "none" => s.found = property[p])
    BY <1>1, <1>2 DEF Fresh
<1>4. \A q \in Properties :
         property'[q] = IF q = p /\ s.sync # "none" THEN s.sync ELSE property[q]
    BY <1>1, <1>3 DEF Commit, Written, IInv, TypeOK
<1>5. IdleSession.step = "idle" /\ IdleSession.contract_id = NoContract
    BY DEF IdleSession, OpenSession
<1>6. \A d \in Clients : tx[d].step # "idle" => tx[d].contract_id \in Contracts
                                              /\ tx[d].new.property_id \in Properties
    BY <1>5 DEF IInv, SessionSound
<1>7. Apart'
    BY <1>1, <1>2, <1>5, <1>6, IdAssumption DEF Apart
<1>8. Fresh'
    <2>. SUFFICES ASSUME NEW d \in Clients, d # c
                  PROVE  /\ tx[d].step # "idle" => tx[d].seen = contract'[tx[d].contract_id]
                         /\ tx[d].step = "ready" /\ tx[d].sync # "none" =>
                               tx[d].found = property'[tx[d].new.property_id]
        BY <1>1, <1>2, <1>5 DEF Fresh, Holds
    <2>1. tx[d].step # "idle" => tx[d].contract_id # k
        BY <1>2 DEF Apart
    <2>2. tx[d].step # "idle" => tx[d].seen = contract'[tx[d].contract_id]
        BY <2>1, <1>1, <1>2, <1>6 DEF Fresh
    <2>3. ASSUME tx[d].step = "ready", tx[d].sync # "none"
          PROVE  tx[d].found = property'[tx[d].new.property_id]
        <3>1. Holds(d) /\ tx[d].sync = Resolve(tx[d].seen.status, tx[d].new.status)
              /\ tx[d].found = property[tx[d].new.property_id]
            BY <2>3, <1>2 DEF Fresh, Holds
        <3>2. s.sync # "none" => tx[d].new.property_id # p
            BY <2>3, <3>1, <1>1, <1>2, <1>3, SyncAlone
        <3>. QED
            BY <2>3, <3>1, <3>2, <1>4, <1>6
    <2>. QED
        BY <2>2, <2>3
<1>9. StatusFollows'
    <2>. SUFFICES ASSUME NEW q \in Properties, property'[q] \in PropertyStatus
                  PROVE  property'[q] = "occupied" <=>
                            \E j \in Contracts :
                                contract'[j].status = "ACTIVE" /\ contract'[j].property_id = q
        BY DEF StatusFollows, PropertyExists, Active
    <2>. DEFINE Was(j) == contract[j].status = "ACTIVE" /\ contract[j].property_id = q
                Is(j) == contract'[j].status = "ACTIVE" /\ contract'[j].property_id = q
    <2>1. property[q] = "occupied" <=> \E j \in Contracts : Was(j)
        BY <1>1, <1>2 DEF StatusFollows, PropertyExists, Active
    <2>2. \A j \in Contracts \ {k} : Is(j) <=> Was(j)
        BY <1>1
    <2>3. Is(k) <=> s.new.status = "ACTIVE" /\ q = p
        BY <1>1
    <2>4. Was(k) <=> s.seen.status = "ACTIVE" /\ q = p
        <3>1. SessionSound(c) /\ s # IdleSession
            BY <1>1, <1>5 DEF IInv
        <3>2. NoRow.status = "NONE"
            BY DEF NoRow, NewContract
        <3>3. s.seen.status = "ACTIVE" => contract[k].property_id = p
            BY <3>1, <3>2 DEF SessionSound
        <3>. QED
            BY <3>3, <1>3
    <2>5. \A i, j \in Contracts : Was(i) /\ Was(j) => i = j
        BY DEF IInv, OneActiveContract, Active
    <2>. HIDE DEF Was, Is
    <2>6. CASE s.sync = "none" \/ q # p
        <3>1. Is(k) <=> Was(k)
            BY <2>3, <2>4, <2>6, <1>3 DEF Resolve
        <3>2. property'[q] = property[q]
            BY <2>6, <1>4
        <3>3. (\E j \in Contracts : Is(j)) <=> (\E j \in Contracts : Was(j))
            BY <3>1, <2>2
        <3>. QED
            BY <3>2, <3>3, <2>1 DEF Is
    <2>7. CASE s.sync = "vacant" /\ q = p
        <3>1. Was(k) /\ ~Is(k)
            BY <2>3, <2>4, <2>7, <1>3 DEF Resolve
        <3>2. \A j \in Contracts : ~Is(j)
            BY <3>1, <2>2, <2>5, <1>1
        <3>. QED
            BY <3>2, <2>7, <1>4 DEF Is
    <2>8. CASE s.sync = "occupied" /\ q = p
        <3>1. Is(k)
            BY <2>3, <2>8, <1>3 DEF Resolve
        <3>. QED
            BY <3>1, <2>8, <1>1, <1>4 DEF Is
    <2>9. s.sync \in {"none", "vacant", "occupied"}
        BY <1>3 DEF Resolve
    <2>. QED
        BY <2>6, <2>7, <2>8, <2>9
<1>. QED
    BY <1>7, <1>8, <1>9 DEF CalmInv

\* Steps that close a session or only touch the leases.
LEMMA ClosingCalm ==
    ASSUME IInv, CalmInv, NEW c \in Clients, tx' = [tx EXCEPT ![c] = IdleSession],
           UNCHANGED <<property, contract>>
    PROVE  CalmInv'
<1>1. \A d \in Clients : tx'[d] = IF d = c THEN IdleSession ELSE tx[d]
    BY DEF IInv, TypeOK
<1>2. IdleSession.step = "idle" /\ IdleSession.contract_id = NoContract
    BY DEF IdleSession, OpenSession
<1>3. \A d \in Clients : tx[d].step # "idle" => tx[d].contract_id \in Contracts
    BY <1>2 DEF IInv, SessionSound
<1>4. Apart'
    BY <1>1, <1>2, <1>3, IdAssumption DEF CalmInv, Apart
<1>5. Fresh'
    BY <1>1, <1>2 DEF CalmInv, Fresh, Holds
<1>6. StatusFollows'
    BY DEF CalmInv, StatusFollows, PropertyExists, Active
<1>. QED
    BY <1>4, <1>5, <1>6 DEF CalmInv

LEMMA PropertyCalm ==
    ASSUME IInv, CalmInv, disturbed' = {}, NEW p \in Properties, PropertyRequest(p)
    PROVE  CalmInv'
<1>1. UNCHANGED <<contract, lease, tx>>
    BY DEF PropertyRequest, CreateProperty, OverrideStatus, DeleteProperty
<1>2. /\ \A q \in Properties \ {p} : property'[q] = property[q]
      /\ \/ property[p] = "NONE" /\ property'[p] = "vacant"
         \/ /\ property'[p] = "DELETED"
            /\ \A k \in Contracts : InTable(contract[k]) => contract[k].property_id # p
            /\ \A d \in Clients : Holds(d) /\ InTable(tx[d].new) => tx[d].new.property_id # p
    BY DEF PropertyRequest, CreateProperty, OverrideStatus, DeleteProperty, IInv, TypeOK
<1>3. Apart'
    BY <1>1 DEF CalmInv, Apart
<1>4. Fresh'
    <2>. SUFFICES ASSUME NEW c \in Clients, tx[c].step = "ready", tx[c].sync # "none"
                  PROVE  tx[c].found = property'[tx[c].new.property_id]
        BY <1>1 DEF CalmInv, Fresh, Holds
    <2>1. Holds(c) /\ Fresh
        BY DEF Holds, CalmInv
    <2>2. Resolve(tx[c].seen.status, tx[c].new.status) # "none"
          /\ tx[c].found = property[tx[c].new.property_id]
        BY <2>1 DEF Fresh
    <2>3. /\ PropertyExists(tx[c].new.property_id) /\ tx[c].contract_id \in Contracts
          /\ Active(tx[c].contract_id, tx[c].new.property_id) \/ tx[c].new.status = "ACTIVE"
        BY <2>1, <2>2, SyncTouches
    <2>4. tx[c].new.property_id # p
        BY <2>1, <2>3, <1>2 DEF Active, InTable, ContractStatus, PropertyExists, PropertyStatus
    <2>. QED
        BY <2>2, <2>3, <2>4, <1>2 DEF PropertyExists
<1>5. StatusFollows'
    <2>1. \A k \in Contracts : Active(k, p) => PropertyExists(p)
        BY DEF IInv, ParentsKept, Active, InTable, ContractStatus
    <2>. QED
        BY <2>1, <1>1, <1>2
           DEF CalmInv, StatusFollows, PropertyExists, PropertyStatus, Active
<1>. QED
    BY <1>3, <1>4, <1>5 DEF CalmInv

LEMMA NextCalm == IInv /\ CalmInv /\ [Next]_vars => (disturbed' = {} => CalmInv')
<1>. SUFFICES ASSUME IInv, CalmInv, disturbed' = {}, [Next]_vars PROVE CalmInv'
    OBVIOUS
<1>1. ASSUME NEW c \in Clients, ContractRequest(c) PROVE CalmInv'
    BY <1>1, LoadsCalm
<1>2. ASSUME NEW c \in Clients, SessionStep(c) PROVE CalmInv'
    <2>1. CASE Rollback(c)
        BY <2>1, ClosingCalm DEF Rollback
    <2>2. CASE CreateLease(c)
        BY <2>2, ClosingCalm DEF CreateLease
    <2>. QED
        BY <1>2, <2>1, <2>2, FlushCalm, SyncCalm, CommitCalm DEF SessionStep
<1>3. CASE UNCHANGED <<property, contract, tx>>
    BY <1>3 DEF CalmInv, Apart, Fresh, Holds, StatusFollows, PropertyExists, Active
<1>4. ASSUME NEW p \in Properties, PropertyRequest(p) PROVE CalmInv'
    BY <1>4, PropertyCalm
<1>. QED
    BY <1>1, <1>2, <1>3, <1>4 DEF Next, DeleteLease, vars

\* What disturbed records stays recorded.
LEMMA DisturbedGrows == [Next]_vars => disturbed \subseteq disturbed'
BY DEF Next, ContractRequest, SessionStep, PropertyRequest, LoadForCreate, LoadForUpdate,
       LoadForDelete, LoadForLease, Opens, Flush, SyncProperty, Commit, CreateLease, Rollback,
       DeleteLease, CreateProperty, OverrideStatus, DeleteProperty, vars

CalmSoFar == disturbed = {} => CalmInv

LEMMA CalmInit == Init => CalmSoFar
BY DEF Init, CalmSoFar, CalmInv, Apart, Fresh, Holds, StatusFollows, PropertyExists,
       PropertyStatus, IdleSession, OpenSession

LEMMA CalmNext == IInv /\ CalmSoFar /\ [Next]_vars => CalmSoFar'
BY NextCalm, DisturbedGrows DEF CalmSoFar

\* As long as requests on the same contract do not overlap and no admin overrides a
\* status, a property shows occupied exactly while it has an active contract, for any
\* number of requests on different contracts of the same property: the index orders
\* their flushes, and the sync commits with the contract.
THEOREM OccupancyFollows == Spec => []OccupancyMatches
<1>1. CalmSoFar => OccupancyMatches
    BY DEF CalmSoFar, CalmInv, OccupancyMatches, StatusFollows
<1>. QED
    BY <1>1, CalmInit, CalmNext, InitSound, NextKeeps, PTL DEF Spec
=============================================================================
