------------------------ MODULE BillingLedger_proofs ------------------------
(***************************************************************************)
(* Proofs about BillingLedger, for every number of clients, records and    *)
(* payments.  What overlapping requests cannot break is proved for every   *)
(* workload, the money behind a status for the workload "growing" of       *)
(* MCLedgerOverlap, and the rest for requests that do not overlap.         *)
(***************************************************************************)
EXTENDS MCLedgerOverlap, FiniteSetTheorems, TLAPS

-----------------------------------------------------------------------------
(* The inductive invariant *)

\* What a session is about to do to the record it loaded, whatever has happened to
\* the row since: it never goes back to pending, writes off only what it saw out of
\* pending, and changes the credit only of a record it takes to be paid.
RecordPlan(s) ==
    /\ s.new.status = "pending" => s.seen.status = "pending"
    /\ s.new.status = "written_off" => s.seen.status # "pending"
    /\ s.new.overpaid_amount # s.seen.overpaid_amount => s.new.status = "paid"

\* What a session is about to do to the payments: a correction points at the payment
\* the session voids, and a row that is updated keeps its link.
PaymentPlan(s) ==
    /\ s.insert.status \in PaymentStatus \cup {"NONE"}
    /\ s.insert.corrects_payment_id # NoPayment =>
          s.insert.corrects_payment_id = s.payment /\ ~Deletes(s)
    /\ s.payment # NoPayment => s.paymentNew.status \in PaymentStatus \cup {"DELETED"}
    /\ s.paymentNew.corrects_payment_id \in {s.paymentSeen.corrects_payment_id, NoPayment}
    /\ Deletes(s) => s.insert.status = "NONE"

\* Once a session has seen a record out of pending, the record stays out of it.
SeenOutOfPending(s) ==
    s.record # NoRecord /\ s.seen.status # "pending" => records[s.record].status # "pending"

SessionsSound ==
    \A c \in Clients : RecordPlan(tx[c]) /\ PaymentPlan(tx[c]) /\ SeenOutOfPending(tx[c])

\* The late-fee columns of a row agree.  This is a CHECK constraint, so every commit
\* establishes it; the requests rely on it when they read the row.
LateFeeConsistency ==
    \A r \in Records :
        records[r].late_fee_applied <=> records[r].late_fee_amount_charged # Null

IInv ==
    /\ TypeOK
    /\ LateFeeConsistency
    /\ CreditOnlyAfterPayment
    /\ CorrectionTargetKept
    /\ SessionsSound

-----------------------------------------------------------------------------
(* Opening a session *)

\* A step that only replaces the session of c by a sound one.
Opens(c, s) ==
    /\ s \in Session
    /\ RecordPlan(s) /\ PaymentPlan(s) /\ SeenOutOfPending(s)
    /\ tx' = [tx EXCEPT ![c] = s]
    /\ UNCHANGED <<records, payments>>

LEMMA RowTypes ==
    /\ NewRecord \in BillingRecord
    /\ NoRow \in Payment
    /\ DeletedRow \in Payment
    /\ IdleSession \in Session
<1>1. NewRecord \in BillingRecord
    BY DEF NewRecord, BillingRecord, BillingRecordStatus, Money
<1>2. NoRow \in Payment /\ DeletedRow \in Payment
    BY DEF NoRow, DeletedRow, EmptyRow, Payment
<1>3. NewRecord \in [status: BillingRecordStatus, late_fee_applied: BOOLEAN,
                     late_fee_amount_charged: Int, overpaid_amount: Int]
    BY DEF NewRecord, BillingRecordStatus, Null
<1>4. IdleSession \in Session
    BY <1>1, <1>2, <1>3 DEF IdleSession, Session
<1>. QED
    BY <1>1, <1>2, <1>4

LEMMA IdleIsSound ==
    RecordPlan(IdleSession) /\ PaymentPlan(IdleSession) /\ SeenOutOfPending(IdleSession)
BY DEF RecordPlan, PaymentPlan, SeenOutOfPending, IdleSession, NoRow, EmptyRow, Deletes,
       NewRecord

\* Fields of a record row are what a session may hold in memory.
LEMMA RowInMemory ==
    ASSUME NEW row \in BillingRecord
    PROVE  /\ row.status \in BillingRecordStatus
           /\ row.late_fee_applied \in BOOLEAN
           /\ row.late_fee_amount_charged \in Int
           /\ row.overpaid_amount \in Int
           /\ row \in [status: BillingRecordStatus, late_fee_applied: BOOLEAN,
                       late_fee_amount_charged: Int, overpaid_amount: Int]
<1>1. Money \subseteq Int
    BY DEF Money, Null
<1>. QED
    BY <1>1 DEF BillingRecord

\* A request on a record opens a sound session if what it makes of the row is sound.
LEMMA RecordSessionSound ==
    ASSUME TypeOK, NEW r \in Records,
           NEW new \in [status: BillingRecordStatus, late_fee_applied: BOOLEAN,
                        late_fee_amount_charged: Int, overpaid_amount: Int],
           new.status # "pending" \/ new.status = records[r].status,
           new.status = "written_off" => records[r].status # "pending",
           new.overpaid_amount = records[r].overpaid_amount
    PROVE  LET s == RecordSession(r, new) IN
           s \in Session /\ RecordPlan(s) /\ PaymentPlan(s) /\ SeenOutOfPending(s)
<1>. DEFINE s == RecordSession(r, new)
<1>1. records[r] \in BillingRecord
    BY DEF TypeOK
<1>2. s = [step |-> "ready", record |-> r, seen |-> records[r], new |-> new,
           payment |-> NoPayment, paymentSeen |-> NoRow, paymentNew |-> NoRow,
           insert |-> NoRow]
    BY DEF RecordSession
<1>. HIDE DEF s
<1>3. s \in Session
    BY <1>1, <1>2, RowTypes DEF Session
<1>4. RecordPlan(s) /\ SeenOutOfPending(s)
    BY <1>2 DEF RecordPlan, SeenOutOfPending
<1>5. PaymentPlan(s)
    BY <1>2 DEF PaymentPlan, Deletes, NoRow, EmptyRow
<1>. QED
    BY <1>3, <1>4, <1>5 DEF s

\* The same for a request on a payment.
LEMMA PaymentSessionSound ==
    ASSUME TypeOK, NEW p \in Payments, NEW new \in Payment, NEW insert \in Payment,
           new.status \in PaymentStatus \cup {"DELETED"},
           new.corrects_payment_id \in {payments[p].corrects_payment_id, NoPayment},
           insert.status \in PaymentStatus \cup {"NONE"},
           insert.corrects_payment_id # NoPayment =>
               insert.corrects_payment_id = p /\ new.status # "DELETED",
           new.status = "DELETED" => insert.status = "NONE"
    PROVE  LET s == PaymentSession(p, new, insert) IN
           s \in Session /\ RecordPlan(s) /\ PaymentPlan(s) /\ SeenOutOfPending(s)
<1>. DEFINE s == PaymentSession(p, new, insert)
<1>1. payments[p] \in Payment
    BY DEF TypeOK
<1>2. s = [step |-> "ready", record |-> NoRecord, seen |-> NewRecord, new |-> NewRecord,
           payment |-> p, paymentSeen |-> payments[p], paymentNew |-> new,
           insert |-> insert]
    BY DEF PaymentSession
<1>. HIDE DEF s
<1>3. s \in Session
    BY <1>1, <1>2, RowTypes, RowInMemory DEF Session
<1>4. RecordPlan(s) /\ SeenOutOfPending(s)
    BY <1>2 DEF RecordPlan, SeenOutOfPending, NewRecord
<1>5. PaymentPlan(s)
    BY <1>2 DEF PaymentPlan, Deletes
<1>. QED
    BY <1>3, <1>4, <1>5 DEF s

\* The same for a request that inserts a payment and has not applied it yet.
LEMMA InsertSessionSound ==
    ASSUME NEW step \in {"loaded", "ready"}, NEW r \in Records \cup {NoRecord},
           NEW row \in BillingRecord, r # NoRecord => row = records[r],
           NEW insert \in Payment, insert.status \in PaymentStatus,
           insert.corrects_payment_id = NoPayment
    PROVE  LET s == InsertSession(step, r, row, insert) IN
           s \in Session /\ RecordPlan(s) /\ PaymentPlan(s) /\ SeenOutOfPending(s)
<1>. DEFINE s == InsertSession(step, r, row, insert)
<1>1. s = [step |-> step, record |-> r, seen |-> row, new |-> row,
           payment |-> NoPayment, paymentSeen |-> NoRow, paymentNew |-> NoRow,
           insert |-> insert]
    BY DEF InsertSession
<1>. HIDE DEF s
<1>2. s \in Session
    BY <1>1, RowTypes, RowInMemory DEF Session
<1>3. RecordPlan(s) /\ SeenOutOfPending(s)
    BY <1>1 DEF RecordPlan, SeenOutOfPending
<1>4. PaymentPlan(s)
    BY <1>1 DEF PaymentPlan, Deletes, NoRow, EmptyRow
<1>. QED
    BY <1>2, <1>3, <1>4 DEF s

\* total_owed of a row a session can hold is a number.
LEMMA TotalType ==
    ASSUME NEW row \in BillingRecord
    PROVE  total_owed(row) \in Int
BY MoneyAssumption, RowInMemory DEF total_owed

\* Every request, and every rollback, replaces one session by a sound one.
LEMMA StepsOpen ==
    ASSUME TypeOK, SessionsSound, NEW c \in Clients,
           PaymentRequest(c) \/ RecordRequest(c) \/ Rollback(c)
    PROVE  \E s : Opens(c, s)
<1>a. \A r \in Records : records[r] \in BillingRecord
    BY DEF TypeOK
<1>b. \A p \in Payments : payments[p] \in Payment
    BY DEF TypeOK
<1>c. SentStatuses \subseteq PaymentStatus
    BY BoundAssumption DEF PaymentStatus
<1>d. Amounts \subseteq Nat
    BY MoneyAssumption
<1>1. ASSUME NEW r \in Records \cup {NoRecord}, NEW amount \in Amounts,
             NEW status \in SentStatuses, LoadForCreate(c, r, amount, status)
      PROVE  \E s : Opens(c, s)
  <2>. DEFINE insert == PaymentRow(status, amount, r, NoPayment)
  <2>1. /\ insert \in Payment
        /\ insert.status \in PaymentStatus
        /\ insert.corrects_payment_id = NoPayment
      BY <1>c, <1>d DEF PaymentRow, Payment
  <2>2. CASE r = NoRecord
    <3>. DEFINE s == InsertSession("ready", NoRecord, NewRecord, insert)
    <3>1. s \in Session /\ RecordPlan(s) /\ PaymentPlan(s) /\ SeenOutOfPending(s)
        BY <2>1, InsertSessionSound, RowTypes
    <3>2. tx' = [tx EXCEPT ![c] = s] /\ UNCHANGED <<records, payments>>
        BY <1>1, <2>2 DEF LoadForCreate
    <3>. QED
        BY <3>1, <3>2 DEF Opens
  <2>3. CASE r # NoRecord
    <3>. DEFINE s == InsertSession("loaded", r, records[r], insert)
    <3>1. s \in Session /\ RecordPlan(s) /\ PaymentPlan(s) /\ SeenOutOfPending(s)
        BY <1>a, <2>1, <2>3, InsertSessionSound
    <3>2. tx' = [tx EXCEPT ![c] = s] /\ UNCHANGED <<records, payments>>
        BY <1>1, <2>3 DEF LoadForCreate
    <3>. QED
        BY <3>1, <3>2 DEF Opens
  <2>. QED
      BY <2>2, <2>3
<1>2. ASSUME NEW cumulative_paid \in 0..MaxSum, ApplyPayment(c, cumulative_paid)
      PROVE  \E s : Opens(c, s)
  <2>. DEFINE new == apply_payment(tx[c].seen, cumulative_paid)
              s == [tx[c] EXCEPT !.step = "ready", !.new = new]
  <2>1. tx[c] \in Session /\ tx[c].seen \in BillingRecord
      BY DEF TypeOK, Session
  <2>2. cumulative_paid - total_owed(tx[c].seen) \in Int
      BY <2>1, TotalType, BoundAssumption
  <2>3. TargetStatus(tx[c].seen, cumulative_paid) \in BillingRecordStatus \ {"pending"}
      BY <2>1, RowInMemory DEF TargetStatus, Terminal, BillingRecordStatus
  <2>4. /\ new \in [status: BillingRecordStatus, late_fee_applied: BOOLEAN,
                    late_fee_amount_charged: Int, overpaid_amount: Int]
        /\ new.status = TargetStatus(tx[c].seen, cumulative_paid)
        /\ new.overpaid_amount # tx[c].seen.overpaid_amount => new.status = "paid"
    <3>. DEFINE status == TargetStatus(tx[c].seen, cumulative_paid)
                excess == cumulative_paid - total_owed(tx[c].seen)
                credit == IF status # "paid" THEN tx[c].seen.overpaid_amount
                          ELSE IF excess > 0 THEN excess ELSE Null
    <3>1. new = [tx[c].seen EXCEPT !.status = status, !.overpaid_amount = credit]
        BY DEF apply_payment
    <3>2. credit \in Int /\ (credit # tx[c].seen.overpaid_amount => status = "paid")
        BY <2>1, <2>2, RowInMemory DEF Null
    <3>. HIDE DEF new, status, credit
    <3>3. status \in BillingRecordStatus
        BY <2>3 DEF status
    <3>4. /\ new \in [status: BillingRecordStatus, late_fee_applied: BOOLEAN,
                      late_fee_amount_charged: Int, overpaid_amount: Int]
          /\ new.status = status
          /\ new.overpaid_amount = credit
        BY <2>1, <3>1, <3>2, <3>3, RowInMemory
    <3>. QED
        BY <3>2, <3>4 DEF status
  <2>. HIDE DEF new
  <2>5. new.status = "written_off" => tx[c].seen.status = "written_off"
      BY <2>4 DEF TargetStatus, Terminal
  <2>6. s \in Session
      BY <2>1, <2>4 DEF Session
  <2>7. /\ s.new = new /\ s.seen = tx[c].seen /\ s.record = tx[c].record
        /\ s.insert = tx[c].insert /\ s.payment = tx[c].payment
        /\ s.paymentSeen = tx[c].paymentSeen /\ s.paymentNew = tx[c].paymentNew
      BY <2>1 DEF Session
  <2>. HIDE DEF s
  <2>8. RecordPlan(s)
      BY <2>3, <2>4, <2>5, <2>7 DEF RecordPlan
  <2>9. PaymentPlan(s) /\ SeenOutOfPending(s)
      BY <2>7 DEF SessionsSound, PaymentPlan, SeenOutOfPending, Deletes
  <2>10. tx' = [tx EXCEPT ![c] = s]
      BY <1>2, <2>1 DEF ApplyPayment, TypeOK, s, new
  <2>. QED
      BY <1>2, <2>6, <2>8, <2>9, <2>10 DEF Opens, ApplyPayment
<1>3. ASSUME NEW p \in Payments, NEW amount \in Amounts, NEW status \in SentStatuses,
             LoadForUpdate(c, p, amount, status)
      PROVE  \E s : Opens(c, s)
  <2>. DEFINE new == [payments[p] EXCEPT !.amount = amount, !.status = status]
              s == PaymentSession(p, new, NoRow)
  <2>1. /\ new \in Payment
        /\ new.status \in PaymentStatus
        /\ new.corrects_payment_id = payments[p].corrects_payment_id
      BY <1>b, <1>c, <1>d DEF Payment
  <2>2. /\ NoRow.status = "NONE"
        /\ NoRow.corrects_payment_id = NoPayment
      BY DEF NoRow, EmptyRow
  <2>3. new.status # "DELETED"
      BY <2>1 DEF PaymentStatus
  <2>4. s \in Session /\ RecordPlan(s) /\ PaymentPlan(s) /\ SeenOutOfPending(s)
    <3>. HIDE DEF new
    <3>. QED
        BY <2>1, <2>2, <2>3, PaymentSessionSound, RowTypes
  <2>. QED
      BY <1>3, <2>4 DEF LoadForUpdate, Opens
<1>4. ASSUME NEW p \in Payments, NEW amount \in Amounts, NEW status \in SentStatuses,
             LoadForCorrection(c, p, amount, status)
      PROVE  \E s : Opens(c, s)
  <2>. DEFINE new == [payments[p] EXCEPT !.status = "VOIDED"]
              insert == PaymentRow(status, amount, NoRecord, p)
              s == PaymentSession(p, new, insert)
  <2>1. /\ new \in Payment
        /\ new.status = "VOIDED"
        /\ new.corrects_payment_id = payments[p].corrects_payment_id
      BY <1>b DEF Payment, PaymentStatus
  <2>2. /\ insert \in Payment
        /\ insert.status \in PaymentStatus
        /\ insert.corrects_payment_id = p
      BY <1>c, <1>d DEF PaymentRow, Payment
  <2>3. s \in Session /\ RecordPlan(s) /\ PaymentPlan(s) /\ SeenOutOfPending(s)
    <3>. HIDE DEF new, insert
    <3>1. "VOIDED" \in PaymentStatus
        BY DEF PaymentStatus
    <3>. QED
        BY <2>1, <2>2, <3>1, PaymentSessionSound
  <2>. QED
      BY <1>4, <2>3 DEF LoadForCorrection, Opens
<1>5. ASSUME NEW p \in Payments, LoadForDelete(c, p)
      PROVE  \E s : Opens(c, s)
  <2>. DEFINE s == PaymentSession(p, DeletedRow, NoRow)
  <2>1. /\ DeletedRow.status = "DELETED"
        /\ DeletedRow.corrects_payment_id = NoPayment
        /\ NoRow.status = "NONE"
        /\ NoRow.corrects_payment_id = NoPayment
      BY DEF DeletedRow, NoRow, EmptyRow
  <2>2. s \in Session /\ RecordPlan(s) /\ PaymentPlan(s) /\ SeenOutOfPending(s)
      BY <2>1, PaymentSessionSound, RowTypes
  <2>. QED
      BY <1>5, <2>2 DEF LoadForDelete, Opens
<1>6. ASSUME NEW r \in Records, NEW as_of \in AsOfDates, LoadForEvaluate(c, r, as_of)
      PROVE  \E s : Opens(c, s)
  <2>. DEFINE new == MarkOverdue(records[r])
              s == RecordSession(r, new)
  <2>1. /\ new \in [status: BillingRecordStatus, late_fee_applied: BOOLEAN,
                    late_fee_amount_charged: Int, overpaid_amount: Int]
        /\ new.status = "overdue"
        /\ new.overpaid_amount = records[r].overpaid_amount
    <3>1. CASE records[r].late_fee_applied
      <4>1. new = [records[r] EXCEPT !.status = "overdue"]
          BY <3>1 DEF MarkOverdue
      <4>. HIDE DEF new
      <4>. QED
          BY <1>a, <4>1, RowInMemory DEF BillingRecordStatus
    <3>2. CASE ~records[r].late_fee_applied
      <4>. DEFINE applied == TRUE
                  moved == [records[r] EXCEPT !.status = "overdue"]
      <4>1. new = [moved EXCEPT !.late_fee_applied = applied,
                                !.late_fee_amount_charged = LeaseFee]
          BY <3>2 DEF MarkOverdue
      <4>2. applied \in BOOLEAN /\ LeaseFee \in Int
          BY MoneyAssumption
      <4>3. /\ moved \in BillingRecord
            /\ moved.status = "overdue"
            /\ moved.overpaid_amount = records[r].overpaid_amount
          BY <1>a DEF BillingRecord, BillingRecordStatus
      <4>. HIDE DEF new, applied, moved
      <4>. QED
          BY <4>1, <4>2, <4>3, RowInMemory
    <3>. QED
        BY <3>1, <3>2
  <2>2. s \in Session /\ RecordPlan(s) /\ PaymentPlan(s) /\ SeenOutOfPending(s)
    <3>. HIDE DEF new
    <3>. QED
        BY <2>1, RecordSessionSound
  <2>. QED
      BY <1>6, <2>2 DEF LoadForEvaluate, Opens
<1>7. ASSUME NEW r \in Records, LoadForWriteOff(c, r)
      PROVE  \E s : Opens(c, s)
  <2>. DEFINE new == [records[r] EXCEPT !.status = "written_off"]
              s == RecordSession(r, new)
  <2>1. /\ new \in [status: BillingRecordStatus, late_fee_applied: BOOLEAN,
                    late_fee_amount_charged: Int, overpaid_amount: Int]
        /\ new.status = "written_off"
        /\ new.overpaid_amount = records[r].overpaid_amount
      BY <1>a, RowInMemory DEF BillingRecordStatus
  <2>2. records[r].status # "pending"
      BY <1>7, <1>a DEF LoadForWriteOff, CanTransition, ValidTransitions, BillingRecordStatus
  <2>3. s \in Session /\ RecordPlan(s) /\ PaymentPlan(s) /\ SeenOutOfPending(s)
    <3>. HIDE DEF new
    <3>. QED
        BY <2>1, <2>2, RecordSessionSound
  <2>. QED
      BY <1>7, <2>3 DEF LoadForWriteOff, Opens
<1>8. ASSUME NEW r \in Records, NEW fee \in FeeAmounts \cup {Null},
             LoadForFeeCorrection(c, r, fee)
      PROVE  \E s : Opens(c, s)
  <2>. DEFINE new == CorrectFee(records[r], fee)
              s == RecordSession(r, new)
  <2>1. /\ new \in [status: BillingRecordStatus, late_fee_applied: BOOLEAN,
                    late_fee_amount_charged: Int, overpaid_amount: Int]
        /\ new.status = records[r].status
        /\ new.overpaid_amount = records[r].overpaid_amount
    <3>. DEFINE applied == fee # Null
    <3>1. applied \in BOOLEAN
        OBVIOUS
    <3>2. new = [records[r] EXCEPT !.late_fee_applied = applied,
                                   !.late_fee_amount_charged = fee]
        BY DEF CorrectFee
    <3>3. fee \in Int
        BY MoneyAssumption DEF Null
    <3>. HIDE DEF applied, new
    <3>. QED
        BY <1>a, <3>1, <3>2, <3>3, RowInMemory
  <2>2. new.status = "written_off" => records[r].status # "pending"
      BY <2>1
  <2>3. s \in Session /\ RecordPlan(s) /\ PaymentPlan(s) /\ SeenOutOfPending(s)
    <3>. HIDE DEF new
    <3>. QED
        BY <2>1, <2>2, RecordSessionSound
  <2>. QED
      BY <1>8, <2>3 DEF LoadForFeeCorrection, Opens
<1>9. ASSUME Rollback(c)
      PROVE  \E s : Opens(c, s)
    BY <1>9, RowTypes, IdleIsSound DEF Rollback, Opens
<1>. QED
    BY <1>1, <1>2, <1>3, <1>4, <1>5, <1>6, <1>7, <1>8, <1>9
    DEF PaymentRequest, RecordRequest

-----------------------------------------------------------------------------
(* Steps keep the invariant *)

LEMMA OpeningKeepsIInv ==
    ASSUME IInv, NEW c \in Clients, NEW s, Opens(c, s)
    PROVE  IInv'
<1>1. TypeOK'
    BY DEF IInv, TypeOK, Opens
<1>2. LateFeeConsistency' /\ CreditOnlyAfterPayment' /\ CorrectionTargetKept'
    BY DEF IInv, Opens, LateFeeConsistency, CreditOnlyAfterPayment, CorrectionTargetKept,
           Exists
<1>3. SessionsSound'
  <2>. SUFFICES ASSUME NEW d \in Clients
                PROVE  /\ RecordPlan(tx[d])'
                       /\ PaymentPlan(tx[d])'
                       /\ SeenOutOfPending(tx[d])'
      BY DEF SessionsSound
  <2>1. tx'[d] = IF d = c THEN s ELSE tx[d]
      BY DEF IInv, TypeOK, Opens
  <2>2. RecordPlan(tx[d]) /\ PaymentPlan(tx[d]) /\ SeenOutOfPending(tx[d])
      BY DEF IInv, SessionsSound
  <2>3. RecordPlan(tx'[d]) /\ PaymentPlan(tx'[d])
      BY <2>1, <2>2 DEF Opens
  <2>4. SeenOutOfPending(tx[d])'
      BY <2>1, <2>2 DEF Opens, SeenOutOfPending
  <2>. QED
      BY <2>3, <2>4 DEF RecordPlan, PaymentPlan, Deletes
<1>. QED
    BY <1>1, <1>2, <1>3 DEF IInv

\* The row a commit leaves in billing_records.
LEMMA FlushedRecord ==
    ASSUME IInv, NEW c \in Clients, NEW r \in Records,
           CheckConstraints(RecordsAfter(tx[c])[r])
    PROVE  LET row == RecordsAfter(tx[c])[r] IN
           /\ row \in BillingRecord
           /\ row.late_fee_applied <=> row.late_fee_amount_charged # Null
           /\ row.overpaid_amount # Null => row.status # "pending"
           /\ row.status = "pending" => records[r].status = "pending"
           /\ row.status = "written_off" => records[r].status # "pending"
<1>. DEFINE row == RecordsAfter(tx[c])[r]
            s == tx[c]
            current == records[r]
<1>1. /\ current \in BillingRecord
      /\ s.seen \in BillingRecord
      /\ s.new \in [status: BillingRecordStatus, late_fee_applied: BOOLEAN,
                    late_fee_amount_charged: Int, overpaid_amount: Int]
    BY DEF IInv, TypeOK, Session
<1>2. row.late_fee_applied <=> row.late_fee_amount_charged # Null
    BY DEF CheckConstraints
<1>3. CASE r # s.record
  <2>1. row = current
      BY <1>3 DEF RecordsAfter
  <2>. QED
      BY <1>1, <1>2, <2>1 DEF IInv, CreditOnlyAfterPayment
<1>4. CASE r = s.record
  <2>1. row = FlushRecord(current, s.seen, s.new)
      BY <1>4 DEF RecordsAfter
  <2>2. /\ row.status = Written(current.status, s.seen.status, s.new.status)
        /\ row.overpaid_amount = Written(current.overpaid_amount, s.seen.overpaid_amount,
                                         s.new.overpaid_amount)
      BY <2>1 DEF FlushRecord
  <2>3. row \in BillingRecord
    <3>1. /\ row.status \in BillingRecordStatus
          /\ row.late_fee_applied \in BOOLEAN
        BY <1>1, <2>1, RowInMemory DEF FlushRecord, Written
    <3>2. /\ row.late_fee_amount_charged \in Int
          /\ row.overpaid_amount \in Int
        BY <1>1, <2>1, RowInMemory DEF FlushRecord, Written
    <3>3. /\ row.late_fee_amount_charged \in Money
          /\ row.overpaid_amount \in Money
        BY <3>2 DEF CheckConstraints, Money
    <3>4. row = [status |-> row.status, late_fee_applied |-> row.late_fee_applied,
                 late_fee_amount_charged |-> row.late_fee_amount_charged,
                 overpaid_amount |-> row.overpaid_amount]
        BY <2>1 DEF FlushRecord
    <3>. HIDE DEF row
    <3>. QED
        BY <3>1, <3>3, <3>4 DEF BillingRecord
  <2>4. RecordPlan(s) /\ SeenOutOfPending(s)
      BY DEF IInv, SessionsSound
  <2>5. s.seen.status # "pending" => current.status # "pending"
      BY <1>4, <2>4, BoundAssumption DEF SeenOutOfPending
  <2>6. row.status = "pending" => current.status = "pending"
      BY <2>2, <2>4 DEF RecordPlan, Written
  <2>7. row.status = "written_off" => current.status # "pending"
      BY <2>2, <2>4, <2>5 DEF RecordPlan, Written
  <2>8. ASSUME row.overpaid_amount # Null
        PROVE  row.status # "pending"
    <3>1. CASE s.new.overpaid_amount = s.seen.overpaid_amount
        BY <2>2, <2>6, <2>8, <3>1 DEF Written, IInv, CreditOnlyAfterPayment
    <3>2. CASE s.new.overpaid_amount # s.seen.overpaid_amount
        BY <2>2, <2>4, <2>5, <3>2 DEF Written, RecordPlan
    <3>. QED
        BY <3>1, <3>2
  <2>. QED
      BY <1>2, <2>3, <2>6, <2>7, <2>8
<1>. QED
    BY <1>3, <1>4

\* The rows a commit leaves in payments.
LEMMA FlushedPayments ==
    ASSUME IInv, NEW c \in Clients, NEW id \in Payments,
           PaymentWritable(tx[c]),
           tx[c].insert.status # "NONE" => payments[id].status = "NONE",
           payments' = PaymentsAfter(tx[c], id)
    PROVE  payments' \in [Payments -> Payment] /\ CorrectionTargetKept'
<1>. DEFINE s == tx[c]
            flushed(p) == FlushPayment(payments[p], s.paymentSeen, s.paymentNew)
<1>1. /\ s.insert \in Payment /\ s.paymentSeen \in Payment /\ s.paymentNew \in Payment
      /\ s.payment \in Payments \cup {NoPayment}
    BY DEF IInv, TypeOK, Session
<1>2. \A p \in Payments : payments[p] \in Payment
    BY DEF IInv, TypeOK
<1>3. PaymentPlan(s)
    BY DEF IInv, SessionsSound
<1>4. \A p \in Payments : flushed(p) \in Payment
    BY <1>1, <1>2 DEF FlushPayment, Payment, Written
<1>5. payments' \in [Payments -> Payment]
    BY <1>1, <1>2, <1>4 DEF PaymentsAfter
<1>6. \A p \in Payments :
          /\ p = id /\ s.insert.status # "NONE" => payments'[p] = s.insert
          /\ ~(p = id /\ s.insert.status # "NONE") /\ p = s.payment => payments'[p] = flushed(p)
          /\ ~(p = id /\ s.insert.status # "NONE") /\ p # s.payment => payments'[p] = payments[p]
    BY DEF PaymentsAfter
<1>7. ASSUME NEW p \in Payments, Exists(p), ~(Deletes(s) /\ p = s.payment)
      PROVE  payments'[p].status \in PaymentStatus
  <2>1. ~(p = id /\ s.insert.status # "NONE")
      BY <1>7 DEF Exists, PaymentStatus
  <2>2. CASE p # s.payment
      BY <1>6, <1>7, <2>1, <2>2 DEF Exists
  <2>3. CASE p = s.payment
    <3>1. s.paymentNew.status \in PaymentStatus
        BY <1>3, <1>7, <2>3, BoundAssumption DEF PaymentPlan, Deletes
    <3>2. flushed(p).status \in PaymentStatus
        BY <1>7, <3>1 DEF FlushPayment, Written, Exists
    <3>. QED
        BY <1>6, <2>1, <2>3, <3>2 DEF Exists
  <2>. QED
      BY <2>2, <2>3
<1>8. ASSUME NEW q \in Payments, payments'[q].corrects_payment_id # NoPayment
      PROVE  Exists(payments[q].corrects_payment_id)'
  <2>. DEFINE target == payments'[q].corrects_payment_id
  <2>1. CASE q = id /\ s.insert.status # "NONE"
    <3>1. /\ target = s.insert.corrects_payment_id
          /\ target = s.payment
          /\ ~Deletes(s)
          /\ target \in Payments
        BY <1>1, <1>3, <1>6, <1>8, <2>1 DEF PaymentPlan
    <3>2. Exists(s.payment)
        BY <3>1, BoundAssumption DEF PaymentWritable
    <3>3. Exists(target)
        BY <3>1, <3>2
    <3>4. ~(Deletes(s) /\ target = s.payment)
        BY <3>1
    <3>. HIDE DEF target
    <3>5. payments'[target].status \in PaymentStatus
        BY <1>7, <3>1, <3>3, <3>4
    <3>. QED
        BY <3>5 DEF Exists, target
  <2>2. CASE ~(q = id /\ s.insert.status # "NONE")
    <3>1. target = payments[q].corrects_payment_id
      <4>1. CASE q = s.payment
        <5>1. payments'[q] = flushed(q)
            BY <1>6, <2>2, <4>1
        <5>2. target = Written(payments[q].corrects_payment_id,
                               s.paymentSeen.corrects_payment_id,
                               s.paymentNew.corrects_payment_id)
            BY <5>1 DEF FlushPayment
        <5>3. s.paymentNew.corrects_payment_id \in
                  {s.paymentSeen.corrects_payment_id, NoPayment}
            BY <1>3 DEF PaymentPlan
        <5>. QED
            BY <1>8, <5>2, <5>3 DEF Written
      <4>2. CASE q # s.payment
          BY <1>6, <2>2, <4>2
      <4>. QED
          BY <4>1, <4>2
    <3>2. target \in Payments
        BY <1>2, <1>8, <3>1 DEF Payment
    <3>3. Exists(target)
        BY <1>8, <3>1 DEF IInv, CorrectionTargetKept
    <3>4. ~(Deletes(s) /\ target = s.payment)
        BY <1>8, <3>1, <3>2, BoundAssumption DEF PaymentWritable
    <3>. HIDE DEF target
    <3>5. payments'[target].status \in PaymentStatus
        BY <1>7, <3>2, <3>3, <3>4
    <3>. QED
        BY <3>5 DEF Exists, target
  <2>. QED
      BY <2>1, <2>2
<1>9. CorrectionTargetKept'
    BY <1>8 DEF CorrectionTargetKept
<1>. QED
    BY <1>5, <1>9

LEMMA CommitKeepsIInv ==
    ASSUME IInv, NEW c \in Clients, NEW id \in Payments, Commit(c, id)
    PROVE  IInv'
<1>1. /\ payments' \in [Payments -> Payment]
      /\ CorrectionTargetKept'
    BY FlushedPayments DEF Commit
<1>2. \A r \in Records :
          /\ records'[r] \in BillingRecord
          /\ records'[r].late_fee_applied <=> records'[r].late_fee_amount_charged # Null
          /\ records'[r].overpaid_amount # Null => records'[r].status # "pending"
          /\ records'[r].status = "pending" => records[r].status = "pending"
    BY FlushedRecord DEF Commit
<1>3. records' \in [Records -> BillingRecord]
    BY <1>2 DEF Commit, RecordsAfter
<1>4. LateFeeConsistency' /\ CreditOnlyAfterPayment'
    BY <1>2 DEF LateFeeConsistency, CreditOnlyAfterPayment
<1>5. \A d \in Clients : tx'[d] = IF d = c THEN IdleSession ELSE tx[d]
    BY DEF Commit, IInv, TypeOK
<1>6. TypeOK'
    BY <1>1, <1>3, RowTypes DEF Commit, IInv, TypeOK
<1>7. SessionsSound'
  <2>. SUFFICES ASSUME NEW d \in Clients
                PROVE  /\ RecordPlan(tx[d])'
                       /\ PaymentPlan(tx[d])'
                       /\ SeenOutOfPending(tx[d])'
      BY DEF SessionsSound
  <2>1. CASE d = c
    <3>1. tx'[d] = IdleSession
        BY <1>5, <2>1
    <3>2. SeenOutOfPending(tx[d])'
        BY <3>1 DEF SeenOutOfPending, IdleSession
    <3>. QED
        BY <3>1, <3>2, IdleIsSound DEF RecordPlan, PaymentPlan, Deletes
  <2>2. CASE d # c
    <3>1. tx'[d] = tx[d]
        BY <1>5, <2>2
    <3>2. RecordPlan(tx[d]) /\ PaymentPlan(tx[d]) /\ SeenOutOfPending(tx[d])
        BY DEF IInv, SessionsSound
    <3>3. tx[d].record \in Records \cup {NoRecord}
        BY DEF IInv, TypeOK, Session
    <3>4. SeenOutOfPending(tx[d])'
        BY <1>2, <3>1, <3>2, <3>3 DEF SeenOutOfPending
    <3>. QED
        BY <3>1, <3>2, <3>4 DEF RecordPlan, PaymentPlan, Deletes
  <2>. QED
      BY <2>1, <2>2
<1>. QED
    BY <1>1, <1>4, <1>6, <1>7 DEF IInv

LEMMA IInvInit == Init => IInv
<1>. SUFFICES ASSUME Init PROVE IInv
    OBVIOUS
<1>1. TypeOK
    BY RowTypes DEF Init, TypeOK
<1>2. LateFeeConsistency /\ CreditOnlyAfterPayment /\ CorrectionTargetKept
    BY DEF Init, LateFeeConsistency, CreditOnlyAfterPayment, CorrectionTargetKept, NewRecord,
           NoRow, EmptyRow
<1>3. SessionsSound
    BY IdleIsSound DEF Init, SessionsSound
<1>. QED
    BY <1>1, <1>2, <1>3 DEF IInv

LEMMA IInvNext == IInv /\ [Next]_vars => IInv'
<1>. SUFFICES ASSUME IInv, [Next]_vars PROVE IInv'
    OBVIOUS
<1>1. ASSUME NEW c \in Clients, PaymentRequest(c) \/ RecordRequest(c) \/ Rollback(c)
      PROVE  IInv'
    BY <1>1, StepsOpen, OpeningKeepsIInv DEF IInv
<1>2. ASSUME NEW c \in Clients, NEW id \in Payments, Commit(c, id)
      PROVE  IInv'
    BY <1>2, CommitKeepsIInv
<1>3. CASE UNCHANGED vars
  <2>1. TypeOK'
      BY <1>3 DEF vars, IInv, TypeOK
  <2>2. LateFeeConsistency' /\ CreditOnlyAfterPayment' /\ CorrectionTargetKept'
      BY <1>3 DEF vars, IInv, LateFeeConsistency, CreditOnlyAfterPayment,
                  CorrectionTargetKept, Exists
  <2>3. SessionsSound'
      BY <1>3 DEF vars, IInv, SessionsSound, RecordPlan, PaymentPlan, Deletes,
                  SeenOutOfPending
  <2>. QED
      BY <2>1, <2>2, <2>3 DEF IInv
<1>. QED
    BY <1>1, <1>2, <1>3 DEF Next

-----------------------------------------------------------------------------
(* What the CHECK constraints refuse *)

\* What a session is about to write would satisfy the constraints, but for a fee of zero.
Statable(row) ==
    /\ row.late_fee_applied <=> row.late_fee_amount_charged # Null
    /\ row.late_fee_amount_charged \in Money \cup {0}
    /\ row.overpaid_amount \in Money

PlanStatable(s) == Statable(s.seen) /\ Statable(s.new)
PlansStatable == \A c \in Clients : PlanStatable(tx[c])

LEMMA IdleStatable == Statable(NewRecord) /\ PlanStatable(IdleSession)
BY DEF PlanStatable, Statable, IdleSession, NewRecord, Money

LEMMA RowsStatable ==
    ASSUME IInv, NEW r \in Records
    PROVE  records[r] \in BillingRecord /\ Statable(records[r])
BY DEF IInv, TypeOK, LateFeeConsistency, Statable, BillingRecord

LEMMA AppliedStatable ==
    ASSUME NEW row \in BillingRecord, Statable(row), NEW paid \in Int
    PROVE  Statable(apply_payment(row, paid))
<1>. DEFINE status == TargetStatus(row, paid)
            excess == paid - total_owed(row)
            credit == IF status # "paid" THEN row.overpaid_amount
                      ELSE IF excess > 0 THEN excess ELSE Null
<1>1. apply_payment(row, paid) = [row EXCEPT !.status = status, !.overpaid_amount = credit]
    BY DEF apply_payment
<1>2. credit \in Money
  <2>1. excess \in Int
      BY TotalType
  <2>2. row.overpaid_amount \in Money
      BY DEF BillingRecord
  <2>. HIDE DEF status, excess
  <2>. QED
      BY <2>1, <2>2 DEF Money
<1>. HIDE DEF status, credit
<1>. QED
    BY <1>1, <1>2 DEF Statable, BillingRecord

LEMMA MarkedStatable ==
    ASSUME NEW row \in BillingRecord, Statable(row)
    PROVE  Statable(MarkOverdue(row))
<1>1. CASE row.late_fee_applied
    BY <1>1 DEF MarkOverdue, Statable, BillingRecord
<1>2. CASE ~row.late_fee_applied
    BY <1>2, MoneyAssumption DEF MarkOverdue, Statable, BillingRecord, Money, Null
<1>. QED
    BY <1>1, <1>2

LEMMA CorrectedStatable ==
    ASSUME NEW row \in BillingRecord, Statable(row), NEW fee \in FeeAmounts \cup {Null}
    PROVE  Statable(CorrectFee(row, fee))
<1>1. fee \in Money
    BY MoneyAssumption DEF Money
<1>. QED
    BY <1>1 DEF CorrectFee, Statable, BillingRecord

LEMMA StatableNext == IInv /\ PlansStatable /\ [Next]_vars => PlansStatable'
<1>. SUFFICES ASSUME IInv, PlansStatable, [Next]_vars
              PROVE  PlansStatable'
    OBVIOUS
<1>a. tx \in [Clients -> Session]
    BY DEF IInv, TypeOK
<1>b. \A c \in Clients : tx[c].seen \in BillingRecord
    BY <1>a DEF Session
<1>1. ASSUME NEW c \in Clients, NEW s, tx' = [tx EXCEPT ![c] = s], PlanStatable(s)
      PROVE  PlansStatable'
    BY <1>a, <1>1 DEF PlansStatable, PlanStatable, Statable
<1>2. ASSUME NEW c \in Clients, NEW r \in Records \cup {NoRecord}, NEW amount \in Amounts,
             NEW status \in SentStatuses, LoadForCreate(c, r, amount, status)
      PROVE  PlansStatable'
  <2>. DEFINE insert == PaymentRow(status, amount, r, NoPayment)
  <2>1. CASE r = NoRecord
    <3>. DEFINE s == InsertSession("ready", NoRecord, NewRecord, insert)
    <3>1. PlanStatable(s)
        BY IdleStatable DEF InsertSession, PlanStatable
    <3>2. tx' = [tx EXCEPT ![c] = s]
        BY <1>2, <2>1 DEF LoadForCreate
    <3>. HIDE DEF s
    <3>. QED
        BY <1>1, <3>1, <3>2
  <2>2. CASE r # NoRecord
    <3>. DEFINE s == InsertSession("loaded", r, records[r], insert)
    <3>1. PlanStatable(s)
        BY <2>2, RowsStatable DEF InsertSession, PlanStatable
    <3>2. tx' = [tx EXCEPT ![c] = s]
        BY <1>2, <2>2 DEF LoadForCreate
    <3>. HIDE DEF s
    <3>. QED
        BY <1>1, <3>1, <3>2
  <2>. QED
      BY <2>1, <2>2
<1>3. ASSUME NEW c \in Clients, NEW paid \in 0..MaxSum, ApplyPayment(c, paid)
      PROVE  PlansStatable'
  <2>. DEFINE s == [tx[c] EXCEPT !.step = "ready", !.new = apply_payment(tx[c].seen, paid)]
  <2>1. tx' = [tx EXCEPT ![c] = s]
      BY <1>a, <1>3 DEF ApplyPayment
  <2>2. s.seen = tx[c].seen /\ s.new = apply_payment(tx[c].seen, paid)
      BY <1>a DEF Session
  <2>3. Statable(tx[c].seen) /\ paid \in Int
      BY BoundAssumption DEF PlansStatable, PlanStatable
  <2>4. PlanStatable(s)
      BY <1>b, <2>2, <2>3, AppliedStatable DEF PlanStatable
  <2>. HIDE DEF s
  <2>. QED
      BY <1>1, <2>1, <2>4
<1>4. ASSUME NEW c \in Clients, NEW p \in Payments, NEW new, NEW insert,
             tx' = [tx EXCEPT ![c] = PaymentSession(p, new, insert)]
      PROVE  PlansStatable'
  <2>1. PlanStatable(PaymentSession(p, new, insert))
      BY IdleStatable DEF PaymentSession, PlanStatable
  <2>. QED
      BY <1>1, <1>4, <2>1
<1>5. ASSUME NEW c \in Clients, NEW r \in Records, NEW new, Statable(new),
             tx' = [tx EXCEPT ![c] = RecordSession(r, new)]
      PROVE  PlansStatable'
  <2>1. PlanStatable(RecordSession(r, new))
      BY <1>5, RowsStatable DEF RecordSession, PlanStatable
  <2>. QED
      BY <1>1, <1>5, <2>1
<1>6. ASSUME NEW c \in Clients, PaymentRequest(c)
      PROVE  PlansStatable'
  <2>1. ASSUME NEW p \in Payments, NEW amount \in Amounts, NEW status \in SentStatuses,
               LoadForUpdate(c, p, amount, status) \/ LoadForCorrection(c, p, amount, status)
        PROVE  PlansStatable'
      BY <1>4, <2>1 DEF LoadForUpdate, LoadForCorrection
  <2>2. ASSUME NEW p \in Payments, LoadForDelete(c, p)
        PROVE  PlansStatable'
      BY <1>4, <2>2 DEF LoadForDelete
  <2>. QED
      BY <1>2, <1>3, <1>6, <2>1, <2>2 DEF PaymentRequest
<1>7. ASSUME NEW c \in Clients, RecordRequest(c)
      PROVE  PlansStatable'
  <2>1. PICK r \in Records :
            \/ \E as_of \in AsOfDates : LoadForEvaluate(c, r, as_of)
            \/ LoadForWriteOff(c, r)
            \/ \E fee \in FeeAmounts \cup {Null} : LoadForFeeCorrection(c, r, fee)
      BY <1>7 DEF RecordRequest
  <2>2. records[r] \in BillingRecord /\ Statable(records[r])
      BY RowsStatable
  <2>3. CASE \E as_of \in AsOfDates : LoadForEvaluate(c, r, as_of)
      BY <1>5, <2>2, <2>3, MarkedStatable DEF LoadForEvaluate
  <2>4. CASE LoadForWriteOff(c, r)
    <3>. DEFINE new == [records[r] EXCEPT !.status = "written_off"]
    <3>1. Statable(new)
        BY <2>2 DEF Statable, BillingRecord
    <3>. QED
        BY <1>5, <2>4, <3>1 DEF LoadForWriteOff
  <2>5. CASE \E fee \in FeeAmounts \cup {Null} : LoadForFeeCorrection(c, r, fee)
      BY <1>5, <2>2, <2>5, CorrectedStatable DEF LoadForFeeCorrection
  <2>. QED
      BY <2>1, <2>3, <2>4, <2>5
<1>8. ASSUME NEW c \in Clients, NEW id \in Payments, Commit(c, id)
      PROVE  PlansStatable'
    BY <1>1, <1>8, IdleStatable DEF Commit
<1>9. ASSUME NEW c \in Clients, Rollback(c)
      PROVE  PlansStatable'
    BY <1>1, <1>9, IdleStatable DEF Rollback
<1>10. CASE UNCHANGED vars
    BY <1>10 DEF vars, PlansStatable, PlanStatable, Statable
<1>. QED
    BY <1>6, <1>7, <1>8, <1>9, <1>10 DEF Next

LEMMA StatableIsAdmitted == IInv /\ PlansStatable => RefusedOnlyIfOvertaken
<1>. SUFFICES ASSUME IInv, PlansStatable, NEW c \in Clients,
                     tx[c].record # NoRecord,
                     FeeColumns(tx[c].seen) = FeeColumns(records[tx[c].record]),
                     tx[c].new.late_fee_amount_charged # 0
              PROVE  CheckConstraints(RecordsAfter(tx[c])[tx[c].record])
    BY DEF RefusedOnlyIfOvertaken
<1>. DEFINE s == tx[c]
            r == tx[c].record
            current == records[r]
            row == RecordsAfter(s)[r]
<1>1. /\ r \in Records /\ current \in BillingRecord
      /\ s.seen \in BillingRecord
    BY DEF IInv, TypeOK, Session
<1>2. row = FlushRecord(current, s.seen, s.new)
    BY <1>1 DEF RecordsAfter
<1>3. Statable(s.new)
    BY DEF PlansStatable, PlanStatable
<1>4. /\ s.seen.late_fee_applied = current.late_fee_applied
      /\ s.seen.late_fee_amount_charged = current.late_fee_amount_charged
    BY DEF FeeColumns
<1>5. /\ row.late_fee_applied = s.new.late_fee_applied
      /\ row.late_fee_amount_charged = s.new.late_fee_amount_charged
    BY <1>2, <1>4 DEF FlushRecord, Written
<1>6. row.overpaid_amount \in Money
    BY <1>1, <1>2, <1>3 DEF FlushRecord, Written, Statable, BillingRecord
<1>. HIDE DEF row
<1>7. row.late_fee_amount_charged \in Money
    BY <1>3, <1>5 DEF Statable
<1>8. row.late_fee_applied <=> row.late_fee_amount_charged # Null
    BY <1>3, <1>5 DEF Statable
<1>9. \A m \in Money : m # Null => m > 0
    BY DEF Money
<1>10. CheckConstraints(row)
    BY <1>6, <1>7, <1>8, <1>9 DEF CheckConstraints
<1>. QED
    BY <1>10 DEF row

-----------------------------------------------------------------------------
(* Requests that do not overlap *)

\* There is one client: a request ends before the next one begins.
OneAtATime == \A c, d \in Clients : c = d

\* What a fee or a credit can be.
Figures == {Null, LeaseFee} \cup FeeAmounts \cup 1..MaxSum

\* What one request may make of the columns of a record: a step of BillingLifecycle, or nothing.
RecordStep(seen, new) ==
    \/ /\ seen.status \notin Terminal /\ new.status = "partially_paid"
       /\ new.late_fee_amount_charged = seen.late_fee_amount_charged
       /\ new.overpaid_amount = seen.overpaid_amount
    \/ /\ seen.status # "written_off" /\ new.status = "paid"
       /\ new.late_fee_amount_charged = seen.late_fee_amount_charged
       /\ new.overpaid_amount \in Figures
    \/ /\ seen.status \in {"pending", "partially_paid"} /\ new.status = "overdue"
       /\ new.late_fee_amount_charged =
              IF seen.late_fee_amount_charged = Null THEN LeaseFee ELSE seen.late_fee_amount_charged
       /\ new.overpaid_amount = seen.overpaid_amount
    \/ /\ seen.status \in {"partially_paid", "overdue"} /\ new.status = "written_off"
       /\ new.late_fee_amount_charged = seen.late_fee_amount_charged
       /\ new.overpaid_amount = seen.overpaid_amount
    \/ /\ seen.status \notin Terminal /\ new.status = seen.status
       /\ new.late_fee_amount_charged \in Figures
       /\ new.overpaid_amount = seen.overpaid_amount
    \/ /\ new.status = seen.status
       /\ new.late_fee_amount_charged = seen.late_fee_amount_charged
       /\ new.overpaid_amount = seen.overpaid_amount

\* What a session read is still in the tables, and what it makes of it is allowed: a payment
\* that it edits or corrects is not voided.
SessionCurrent(s) ==
    /\ s.record # NoRecord => s.seen = records[s.record] /\ RecordStep(s.seen, s.new)
    /\ s.payment # NoPayment =>
          /\ s.paymentSeen = payments[s.payment]
          /\ Deletes(s) \/ s.paymentSeen.status # "VOIDED"
    /\ s.insert.corrects_payment_id # NoPayment => s.paymentNew.status = "VOIDED"

\* A corrected payment stays voided, and has one correction.
CorrectedVoided ==
    \A q \in Payments :
        payments[q].corrects_payment_id # NoPayment => payments[payments[q].corrects_payment_id].status = "VOIDED"

CorrectedOnce ==
    \A p, q \in Payments :
        payments[p].corrects_payment_id = payments[q].corrects_payment_id
            => payments[p].corrects_payment_id = NoPayment \/ p = q

SerialSound ==
    /\ \A c \in Clients : SessionCurrent(tx[c])
    /\ CorrectedVoided
    /\ CorrectedOnce

\* What the requests make of the record they loaded.
LEMMA RequestsStepRecords ==
    ASSUME NEW row \in BillingRecord, row.late_fee_applied <=> row.late_fee_amount_charged # Null
    PROVE  /\ RecordStep(row, row)
           /\ \A paid \in 0..MaxSum : RecordStep(row, apply_payment(row, paid))
           /\ row.status \in {"pending", "partially_paid"} => RecordStep(row, MarkOverdue(row))
           /\ CanTransition(row, "written_off") => RecordStep(row, [row EXCEPT !.status = "written_off"])
           /\ \A fee \in FeeAmounts \cup {Null} : row.status \notin Terminal => RecordStep(row, CorrectFee(row, fee))
<1>0. /\ row.status \in BillingRecordStatus /\ row.late_fee_amount_charged \in Int
      /\ row.overpaid_amount \in Int /\ row.late_fee_applied \in BOOLEAN
    BY RowInMemory
<1>1. RecordStep(row, row)
    BY DEF RecordStep
<1>2. ASSUME NEW paid \in 0..MaxSum PROVE RecordStep(row, apply_payment(row, paid))
  <2>. DEFINE status == TargetStatus(row, paid)
              excess == paid - total_owed(row)
              credit == IF status # "paid" THEN row.overpaid_amount ELSE IF excess > 0 THEN excess ELSE Null
              new == apply_payment(row, paid)
  <2>1. new = [row EXCEPT !.status = status, !.overpaid_amount = credit]
      BY DEF apply_payment
  <2>2. total_owed(row) \in Nat
    <3>1. row.late_fee_amount_charged \in {Null} \cup (Nat \ {0})
        BY DEF BillingRecord, Money
    <3>. QED
        BY <3>1, MoneyAssumption DEF total_owed
  <2>3. excess \in Int /\ (excess > 0 => excess \in 1..MaxSum)
      BY <2>2, BoundAssumption
  <2>4. status = "paid" => credit \in Figures
      BY <2>3 DEF Figures
  <2>5. status # "paid" => credit = row.overpaid_amount
      OBVIOUS
  <2>6. \/ status = row.status /\ row.status \in Terminal
        \/ row.status \notin Terminal /\ status \in {"paid", "partially_paid"}
      BY DEF TargetStatus
  <2>. HIDE DEF status, credit, new
  <2>7. /\ new.status = status /\ new.overpaid_amount = credit
        /\ new.late_fee_amount_charged = row.late_fee_amount_charged
      BY <2>1 DEF BillingRecord
  <2>8. RecordStep(row, new)
      BY <2>4, <2>5, <2>6, <2>7 DEF RecordStep, Terminal
  <2>. QED
      BY <2>8 DEF new
<1>3. ASSUME row.status \in {"pending", "partially_paid"} PROVE RecordStep(row, MarkOverdue(row))
  <2>. DEFINE new == MarkOverdue(row)
  <2>1. /\ new.status = "overdue" /\ new.overpaid_amount = row.overpaid_amount
        /\ new.late_fee_amount_charged =
               IF row.late_fee_amount_charged = Null THEN LeaseFee ELSE row.late_fee_amount_charged
    <3>1. CASE row.late_fee_applied
        BY <1>0, <3>1 DEF MarkOverdue, BillingRecord
    <3>2. CASE ~row.late_fee_applied
        BY <1>0, <3>2 DEF MarkOverdue, BillingRecord
    <3>. QED
        BY <3>1, <3>2
  <2>. HIDE DEF new
  <2>2. RecordStep(row, new)
      BY <1>3, <2>1 DEF RecordStep
  <2>. QED
      BY <2>2 DEF new
<1>4. ASSUME CanTransition(row, "written_off") PROVE RecordStep(row, [row EXCEPT !.status = "written_off"])
  <2>1. row.status \in {"partially_paid", "overdue"}
      BY <1>0, <1>4 DEF CanTransition, ValidTransitions, BillingRecordStatus
  <2>. QED
      BY <2>1 DEF RecordStep, BillingRecord
<1>5. ASSUME NEW fee \in FeeAmounts \cup {Null}, row.status \notin Terminal PROVE RecordStep(row, CorrectFee(row, fee))
  <2>. DEFINE applied == fee # Null  new == CorrectFee(row, fee)
  <2>1. new = [row EXCEPT !.late_fee_applied = applied, !.late_fee_amount_charged = fee]
      BY DEF CorrectFee
  <2>. HIDE DEF applied, new
  <2>2. new.status = row.status /\ new.overpaid_amount = row.overpaid_amount /\ new.late_fee_amount_charged = fee
      BY <2>1 DEF BillingRecord
  <2>3. RecordStep(row, new)
      BY <1>5, <2>2 DEF RecordStep, Figures
  <2>. QED
      BY <2>3 DEF new
<1>. QED
    BY <1>1, <1>2, <1>3, <1>4, <1>5

\* A session that loads nothing, a record, or a payment, as it opens.
LEMMA IdleIsCurrent == SessionCurrent(IdleSession)
BY DEF SessionCurrent, IdleSession, NoRow, EmptyRow

LEMMA RecordSessionCurrent ==
    ASSUME NEW r \in Records, NEW new, RecordStep(records[r], new)
    PROVE  SessionCurrent(RecordSession(r, new))
BY DEF SessionCurrent, RecordSession, NoRow, EmptyRow

LEMMA PaymentSessionCurrent ==
    ASSUME NEW p \in Payments, NEW new, NEW insert,
           new.status = "DELETED" \/ payments[p].status # "VOIDED",
           insert.corrects_payment_id # NoPayment => new.status = "VOIDED"
    PROVE  SessionCurrent(PaymentSession(p, new, insert))
<1>1. p # NoPayment
    BY BoundAssumption
<1>. QED
    BY <1>1 DEF SessionCurrent, PaymentSession, Deletes

LEMMA InsertSessionCurrent ==
    ASSUME NEW step, NEW r, NEW row, r # NoRecord => row = records[r] /\ RecordStep(row, row),
           NEW insert, insert.corrects_payment_id = NoPayment
    PROVE  SessionCurrent(InsertSession(step, r, row, insert))
BY DEF SessionCurrent, InsertSession

\* Every request, and every rollback, leaves a current session.
LEMMA StepsCurrent ==
    ASSUME IInv, NEW c \in Clients, SessionCurrent(tx[c]),
           PaymentRequest(c) \/ RecordRequest(c) \/ Rollback(c)
    PROVE  \E s : SessionCurrent(s) /\ tx' = [tx EXCEPT ![c] = s]
<1>a. \A r \in Records :
          /\ records[r] \in BillingRecord
          /\ records[r].late_fee_applied <=> records[r].late_fee_amount_charged # Null
    BY DEF IInv, TypeOK, LateFeeConsistency
<1>1. ASSUME NEW r \in Records \cup {NoRecord}, NEW amount \in Amounts, NEW status \in SentStatuses,
             LoadForCreate(c, r, amount, status)
      PROVE  \E s : SessionCurrent(s) /\ tx' = [tx EXCEPT ![c] = s]
  <2>. DEFINE insert == PaymentRow(status, amount, r, NoPayment)
  <2>1. insert.corrects_payment_id = NoPayment
      BY DEF PaymentRow
  <2>2. CASE r = NoRecord
    <3>. DEFINE s == InsertSession("ready", NoRecord, NewRecord, insert)
    <3>1. SessionCurrent(s)
        BY <2>1, InsertSessionCurrent
    <3>2. tx' = [tx EXCEPT ![c] = s]
        BY <1>1, <2>2 DEF LoadForCreate
    <3>. QED
        BY <3>1, <3>2
  <2>3. CASE r # NoRecord
    <3>. DEFINE s == InsertSession("loaded", r, records[r], insert)
    <3>1. RecordStep(records[r], records[r])
        BY DEF RecordStep
    <3>2. SessionCurrent(s)
        BY <2>1, <3>1, InsertSessionCurrent
    <3>3. tx' = [tx EXCEPT ![c] = s]
        BY <1>1, <2>3 DEF LoadForCreate
    <3>. QED
        BY <3>2, <3>3
  <2>. QED
      BY <2>2, <2>3
<1>2. ASSUME NEW paid \in 0..MaxSum, ApplyPayment(c, paid)
      PROVE  \E s : SessionCurrent(s) /\ tx' = [tx EXCEPT ![c] = s]
  <2>. DEFINE new == apply_payment(tx[c].seen, paid)
              s == [tx[c] EXCEPT !.step = "ready", !.new = new]
  <2>1. tx[c] \in Session /\ tx \in [Clients -> Session] /\ tx[c].record \in Records \cup {NoRecord}
      BY DEF IInv, TypeOK, Session
  <2>2. tx[c].record # NoRecord => RecordStep(tx[c].seen, new)
      BY <1>a, <2>1, RequestsStepRecords DEF SessionCurrent
  <2>. HIDE DEF new
  <2>3. /\ s.record = tx[c].record /\ s.seen = tx[c].seen /\ s.new = new /\ s.payment = tx[c].payment
        /\ s.paymentSeen = tx[c].paymentSeen /\ s.paymentNew = tx[c].paymentNew /\ s.insert = tx[c].insert
      BY <2>1 DEF Session
  <2>4. tx' = [tx EXCEPT ![c] = s]
      BY <1>2, <2>1 DEF ApplyPayment, new
  <2>. HIDE DEF s
  <2>5. SessionCurrent(s)
      BY <2>2, <2>3 DEF SessionCurrent, Deletes
  <2>. QED
      BY <2>4, <2>5
<1>3. ASSUME NEW p \in Payments, NEW amount \in Amounts, NEW status \in SentStatuses,
             LoadForUpdate(c, p, amount, status)
      PROVE  \E s : SessionCurrent(s) /\ tx' = [tx EXCEPT ![c] = s]
  <2>1. SessionCurrent(PaymentSession(p, [payments[p] EXCEPT !.amount = amount, !.status = status], NoRow))
      BY <1>3, PaymentSessionCurrent DEF LoadForUpdate, NoRow, EmptyRow
  <2>. QED
      BY <1>3, <2>1 DEF LoadForUpdate
<1>4. ASSUME NEW p \in Payments, NEW amount \in Amounts, NEW status \in SentStatuses,
             LoadForCorrection(c, p, amount, status)
      PROVE  \E s : SessionCurrent(s) /\ tx' = [tx EXCEPT ![c] = s]
  <2>. DEFINE new == [payments[p] EXCEPT !.status = "VOIDED"]
  <2>1. new.status = "VOIDED"
      BY DEF IInv, TypeOK, Payment
  <2>2. SessionCurrent(PaymentSession(p, new, PaymentRow(status, amount, NoRecord, p)))
    <3>. HIDE DEF new
    <3>. QED
        BY <1>4, <2>1, PaymentSessionCurrent DEF LoadForCorrection
  <2>. QED
      BY <1>4, <2>2 DEF LoadForCorrection
<1>5. ASSUME NEW p \in Payments, LoadForDelete(c, p)
      PROVE  \E s : SessionCurrent(s) /\ tx' = [tx EXCEPT ![c] = s]
  <2>1. SessionCurrent(PaymentSession(p, DeletedRow, NoRow))
      BY PaymentSessionCurrent DEF DeletedRow, NoRow, EmptyRow
  <2>. QED
      BY <1>5, <2>1 DEF LoadForDelete
<1>6. ASSUME NEW r \in Records, NEW as_of \in AsOfDates, LoadForEvaluate(c, r, as_of)
      PROVE  \E s : SessionCurrent(s) /\ tx' = [tx EXCEPT ![c] = s]
  <2>1. RecordStep(records[r], MarkOverdue(records[r]))
      BY <1>6, <1>a, RequestsStepRecords DEF LoadForEvaluate
  <2>. QED
      BY <1>6, <2>1, RecordSessionCurrent DEF LoadForEvaluate
<1>7. ASSUME NEW r \in Records, LoadForWriteOff(c, r)
      PROVE  \E s : SessionCurrent(s) /\ tx' = [tx EXCEPT ![c] = s]
  <2>1. RecordStep(records[r], [records[r] EXCEPT !.status = "written_off"])
      BY <1>7, <1>a, RequestsStepRecords DEF LoadForWriteOff
  <2>. QED
      BY <1>7, <2>1, RecordSessionCurrent DEF LoadForWriteOff
<1>8. ASSUME NEW r \in Records, NEW fee \in FeeAmounts \cup {Null}, LoadForFeeCorrection(c, r, fee)
      PROVE  \E s : SessionCurrent(s) /\ tx' = [tx EXCEPT ![c] = s]
  <2>1. RecordStep(records[r], CorrectFee(records[r], fee))
      BY <1>8, <1>a, RequestsStepRecords DEF LoadForFeeCorrection
  <2>. QED
      BY <1>8, <2>1, RecordSessionCurrent DEF LoadForFeeCorrection
<1>9. CASE Rollback(c)
    BY <1>9, IdleIsCurrent DEF Rollback
<1>. QED
    BY <1>1, <1>2, <1>3, <1>4, <1>5, <1>6, <1>7, <1>8, <1>9 DEF PaymentRequest, RecordRequest

\* A commit of what was read just now writes what the session holds.
LEMMA CommitWrites ==
    ASSUME IInv, NEW c \in Clients, SessionCurrent(tx[c]), NEW id \in Payments, Commit(c, id)
    PROVE  /\ \A r \in Records :
                 IF r = tx[c].record
                 THEN /\ records'[r].status = tx[c].new.status
                      /\ records'[r].late_fee_amount_charged = tx[c].new.late_fee_amount_charged
                      /\ records'[r].overpaid_amount = tx[c].new.overpaid_amount
                 ELSE records'[r] = records[r]
           /\ \A p \in Payments :
                 IF p = id /\ tx[c].insert.status # "NONE" THEN payments'[p] = tx[c].insert
                 ELSE IF p = tx[c].payment
                 THEN /\ payments'[p].status = tx[c].paymentNew.status
                      /\ payments'[p].corrects_payment_id = tx[c].paymentNew.corrects_payment_id
                 ELSE payments'[p] = payments[p]
<1>1. ASSUME NEW r \in Records, r = tx[c].record
      PROVE  /\ records'[r].status = tx[c].new.status
             /\ records'[r].late_fee_amount_charged = tx[c].new.late_fee_amount_charged
             /\ records'[r].overpaid_amount = tx[c].new.overpaid_amount
  <2>1. tx[c].seen = records[r]
      BY <1>1, BoundAssumption DEF SessionCurrent
  <2>2. records'[r] = FlushRecord(records[r], tx[c].seen, tx[c].new)
      BY <1>1 DEF Commit, RecordsAfter
  <2>. QED
      BY <2>1, <2>2 DEF FlushRecord, Written
<1>2. ASSUME NEW r \in Records, r # tx[c].record PROVE records'[r] = records[r]
    BY <1>2 DEF Commit, RecordsAfter
<1>3. ASSUME NEW p \in Payments, p = tx[c].payment, ~(p = id /\ tx[c].insert.status # "NONE")
      PROVE  /\ payments'[p].status = tx[c].paymentNew.status
             /\ payments'[p].corrects_payment_id = tx[c].paymentNew.corrects_payment_id
  <2>1. tx[c].paymentSeen = payments[p]
      BY <1>3, BoundAssumption DEF SessionCurrent
  <2>2. payments'[p] = FlushPayment(payments[p], tx[c].paymentSeen, tx[c].paymentNew)
      BY <1>3 DEF Commit, PaymentsAfter
  <2>. QED
      BY <2>1, <2>2 DEF FlushPayment, Written
<1>4. ASSUME NEW p \in Payments, p = id /\ tx[c].insert.status # "NONE" PROVE payments'[p] = tx[c].insert
    BY <1>4 DEF Commit, PaymentsAfter
<1>5. ASSUME NEW p \in Payments, p # tx[c].payment, ~(p = id /\ tx[c].insert.status # "NONE")
      PROVE  payments'[p] = payments[p]
    BY <1>5 DEF Commit, PaymentsAfter
<1>. QED
    BY <1>1, <1>2, <1>3, <1>4, <1>5

\* A commit keeps corrected payments voided and corrects none a second time: the payment that
\* the session edits, corrects or deletes has no correction.
LEMMA CommitCorrectsOnce ==
    ASSUME IInv, NEW c \in Clients, SessionCurrent(tx[c]), CorrectedVoided, CorrectedOnce,
           NEW id \in Payments, Commit(c, id)
    PROVE  CorrectedVoided' /\ CorrectedOnce'
<1>. DEFINE s == tx[c]
            inserts(p) == p = id /\ s.insert.status # "NONE"
<1>1. /\ PaymentPlan(s) /\ s.insert \in Payment /\ s.payment \in Payments \cup {NoPayment}
      /\ \A p \in Payments : payments[p] \in Payment
    BY DEF IInv, SessionsSound, TypeOK, Session
<1>2. \A p \in Payments :
          IF inserts(p) THEN payments'[p] = s.insert
          ELSE IF p = s.payment
          THEN /\ payments'[p].status = s.paymentNew.status
               /\ payments'[p].corrects_payment_id = s.paymentNew.corrects_payment_id
          ELSE payments'[p] = payments[p]
    BY CommitWrites
<1>3. PaymentWritable(s) /\ (s.insert.status # "NONE" => payments[id].status = "NONE")
    BY DEF Commit
<1>4. ASSUME NEW q \in Payments, payments[q].corrects_payment_id # NoPayment
      PROVE  /\ payments[q].corrects_payment_id \in Payments
             /\ payments[payments[q].corrects_payment_id].status = "VOIDED"
             /\ payments[q].corrects_payment_id # s.payment
             /\ ~inserts(payments[q].corrects_payment_id)
  <2>1. /\ payments[q].corrects_payment_id \in Payments
        /\ payments[payments[q].corrects_payment_id].status = "VOIDED"
      BY <1>1, <1>4 DEF Payment, CorrectedVoided
  <2>2. payments[q].corrects_payment_id # s.payment
    <3>1. CASE Deletes(s)
        BY <1>3, <1>4, <3>1 DEF PaymentWritable
    <3>2. CASE ~Deletes(s)
        BY <1>4, <2>1, <3>2 DEF SessionCurrent
    <3>. QED
        BY <3>1, <3>2
  <2>. QED
      BY <1>3, <2>1, <2>2
<1>5. ASSUME NEW q \in Payments, payments'[q].corrects_payment_id # NoPayment, ~inserts(q)
      PROVE  payments'[q].corrects_payment_id = payments[q].corrects_payment_id
  <2>1. CASE q = s.payment
    <3>1. s.paymentSeen = payments[q]
        BY <2>1, BoundAssumption DEF SessionCurrent
    <3>. QED
        BY <1>1, <1>2, <1>5, <2>1, <3>1 DEF PaymentPlan
  <2>2. CASE q # s.payment
      BY <1>2, <1>5, <2>2
  <2>. QED
      BY <2>1, <2>2
<1>6. ASSUME NEW q \in Payments, payments'[q].corrects_payment_id # NoPayment, inserts(q)
      PROVE  /\ payments'[q].corrects_payment_id = s.payment /\ s.payment \in Payments
             /\ payments'[s.payment].status = "VOIDED"
  <2>1. /\ payments'[q] = s.insert /\ s.insert.corrects_payment_id = s.payment /\ ~Deletes(s)
        /\ s.paymentNew.status = "VOIDED" /\ s.payment \in Payments
      BY <1>1, <1>2, <1>6 DEF PaymentPlan, SessionCurrent
  <2>2. Exists(s.payment)
      BY <1>3, <2>1, BoundAssumption DEF PaymentWritable
  <2>3. ~inserts(s.payment)
      BY <1>3, <2>2 DEF Exists, PaymentStatus
  <2>. QED
      BY <1>2, <2>1, <2>3
<1>. HIDE DEF inserts
<1>7. ASSUME NEW q \in Payments, payments'[q].corrects_payment_id # NoPayment
      PROVE  payments'[payments'[q].corrects_payment_id].status = "VOIDED"
  <2>1. CASE inserts(q)
      BY <1>6, <1>7, <2>1
  <2>2. CASE ~inserts(q)
    <3>1. payments'[q].corrects_payment_id = payments[q].corrects_payment_id
        BY <1>5, <1>7, <2>2
    <3>. QED
        BY <1>2, <1>4, <1>7, <3>1
  <2>. QED
      BY <2>1, <2>2
<1>8. ASSUME NEW p \in Payments, NEW q \in Payments, payments'[p].corrects_payment_id = payments'[q].corrects_payment_id,
             payments'[p].corrects_payment_id # NoPayment
      PROVE  p = q
  <2>1. CASE inserts(p) /\ inserts(q)
      BY <2>1 DEF inserts
  <2>2. CASE ~inserts(p) /\ ~inserts(q)
      BY <1>5, <1>8, <2>2 DEF CorrectedOnce
  <2>3. CASE inserts(p) /\ ~inserts(q)
      BY <1>4, <1>5, <1>6, <1>8, <2>3
  <2>4. CASE ~inserts(p) /\ inserts(q)
      BY <1>4, <1>5, <1>6, <1>8, <2>4
  <2>. QED
      BY <2>1, <2>2, <2>3, <2>4
<1>. QED
    BY <1>7, <1>8 DEF CorrectedVoided, CorrectedOnce

LEMMA SerialInit == Init => SerialSound
<1>1. SUFFICES ASSUME Init PROVE SerialSound
    OBVIOUS
<1>2. \A c \in Clients : SessionCurrent(tx[c])
    BY <1>1, IdleIsCurrent DEF Init
<1>3. CorrectedVoided /\ CorrectedOnce
    BY <1>1 DEF Init, CorrectedVoided, CorrectedOnce, NoRow, EmptyRow
<1>. QED
    BY <1>2, <1>3 DEF SerialSound

LEMMA SerialNext ==
    ASSUME OneAtATime, IInv, SerialSound, [Next]_vars
    PROVE  SerialSound'
<1>1. ASSUME NEW c \in Clients, PaymentRequest(c) \/ RecordRequest(c) \/ Rollback(c)
      PROVE  SerialSound'
  <2>1. UNCHANGED <<records, payments>>
      BY <1>1, StepsOpen DEF IInv, Opens
  <2>2. PICK s : SessionCurrent(s) /\ tx' = [tx EXCEPT ![c] = s]
      BY <1>1, StepsCurrent DEF SerialSound
  <2>3. ASSUME NEW d \in Clients PROVE SessionCurrent(tx[d])'
    <3>1. tx'[d] = s
        BY <2>2 DEF OneAtATime, IInv, TypeOK
    <3>. QED
        BY <2>1, <2>2, <3>1 DEF SessionCurrent, Deletes
  <2>4. CorrectedVoided' /\ CorrectedOnce'
      BY <2>1 DEF SerialSound, CorrectedVoided, CorrectedOnce
  <2>. QED
      BY <2>3, <2>4 DEF SerialSound
<1>2. ASSUME NEW c \in Clients, NEW id \in Payments, Commit(c, id)
      PROVE  SerialSound'
  <2>1. ASSUME NEW d \in Clients PROVE SessionCurrent(tx[d])'
    <3>1. tx'[d] = IdleSession
        BY <1>2 DEF Commit, OneAtATime, IInv, TypeOK
    <3>. QED
        BY <3>1 DEF SessionCurrent, IdleSession, NoRow, EmptyRow
  <2>2. CorrectedVoided' /\ CorrectedOnce'
      BY <1>2, CommitCorrectsOnce DEF SerialSound
  <2>. QED
      BY <2>1, <2>2 DEF SerialSound
<1>3. CASE UNCHANGED vars
    BY <1>3 DEF vars, SerialSound, SessionCurrent, Deletes, CorrectedVoided, CorrectedOnce
<1>. QED
    BY <1>1, <1>2, <1>3 DEF Next

-----------------------------------------------------------------------------
(* The abstract specification *)

\* What happens to the columns of a record when one request commits is a step of the life cycle.
LEMMA RecordStepIsStep ==
    ASSUME NEW r \in Records, RecordStep(records[r], records'[r]),
           \A k \in Records \ {r} : records'[k] = records[k]
    PROVE  [Lifecycle!LifecycleNext]_(Lifecycle!lifecycleVars)
<1>. DEFINE status == [k \in Records |-> records[k].status]
            fee == [k \in Records |-> records[k].late_fee_amount_charged]
            credit == [k \in Records |-> records[k].overpaid_amount]
            row == records[r]
            new == records'[r]
<1>1. /\ status' = [status EXCEPT ![r] = new.status]
      /\ fee' = [fee EXCEPT ![r] = new.late_fee_amount_charged]
      /\ credit' = [credit EXCEPT ![r] = new.overpaid_amount]
    OBVIOUS
<1>2. /\ status[r] = row.status /\ fee[r] = row.late_fee_amount_charged /\ credit[r] = row.overpaid_amount
    OBVIOUS
<1>3. /\ new.late_fee_amount_charged = row.late_fee_amount_charged => fee' = fee
      /\ new.overpaid_amount = row.overpaid_amount => credit' = credit
      /\ new.status = row.status => status' = status
    BY <1>1
<1>4. LeaseFee # Lifecycle!Null
    BY MoneyAssumption DEF Lifecycle!Null
<1>5. Lifecycle!Null = Null
    BY DEF Lifecycle!Null, Null
<1>6. CASE row.status \notin Terminal /\ new.status = "partially_paid"
           /\ new.late_fee_amount_charged = row.late_fee_amount_charged /\ new.overpaid_amount = row.overpaid_amount
  <2>1. Lifecycle!PayPart(r)
      BY <1>1, <1>2, <1>3, <1>6 DEF Lifecycle!PayPart, Lifecycle!Settled, Terminal
  <2>. QED
      BY <2>1 DEF Lifecycle!LifecycleNext
<1>7. CASE row.status # "written_off" /\ new.status = "paid"
           /\ new.late_fee_amount_charged = row.late_fee_amount_charged /\ new.overpaid_amount \in Figures
  <2>1. PICK amount \in Figures : amount = new.overpaid_amount
      BY <1>7
  <2>2. Lifecycle!PayFull(r, amount)
      BY <1>1, <1>2, <1>3, <1>7, <2>1 DEF Lifecycle!PayFull
  <2>3. Lifecycle!LifecycleNext
      BY <2>2 DEF Lifecycle!LifecycleNext, Figures
  <2>. QED
      BY <2>3
<1>8. CASE row.status \in {"pending", "partially_paid"} /\ new.status = "overdue"
           /\ new.late_fee_amount_charged =
                  (IF row.late_fee_amount_charged = Null THEN LeaseFee ELSE row.late_fee_amount_charged)
           /\ new.overpaid_amount = row.overpaid_amount
  <2>1. Lifecycle!BecomeOverdue(r, LeaseFee)
      BY <1>1, <1>2, <1>3, <1>4, <1>5, <1>8 DEF Lifecycle!BecomeOverdue
  <2>. QED
      BY <2>1 DEF Lifecycle!LifecycleNext, Figures
<1>9. CASE row.status \in {"partially_paid", "overdue"} /\ new.status = "written_off"
           /\ new.late_fee_amount_charged = row.late_fee_amount_charged /\ new.overpaid_amount = row.overpaid_amount
  <2>1. Lifecycle!WriteOff(r)
      BY <1>1, <1>2, <1>3, <1>9 DEF Lifecycle!WriteOff
  <2>. QED
      BY <2>1 DEF Lifecycle!LifecycleNext
<1>10. CASE row.status \notin Terminal /\ new.status = row.status
            /\ new.late_fee_amount_charged \in Figures /\ new.overpaid_amount = row.overpaid_amount
  <2>1. PICK amount \in Figures : amount = new.late_fee_amount_charged
      BY <1>10
  <2>2. Lifecycle!ReviseFee(r, amount)
      BY <1>1, <1>2, <1>3, <1>10, <2>1 DEF Lifecycle!ReviseFee, Lifecycle!Settled, Terminal
  <2>3. Lifecycle!LifecycleNext
      BY <2>2 DEF Lifecycle!LifecycleNext, Figures
  <2>. QED
      BY <2>3
<1>11. CASE new.status = row.status
            /\ new.late_fee_amount_charged = row.late_fee_amount_charged /\ new.overpaid_amount = row.overpaid_amount
    BY <1>3, <1>11 DEF Lifecycle!lifecycleVars
<1>. QED
    BY <1>6, <1>7, <1>8, <1>9, <1>10, <1>11 DEF RecordStep

LEMMA SerialStepsLifecycle ==
    ASSUME IInv, SerialSound, [Next]_vars
    PROVE  [Lifecycle!LifecycleNext]_(Lifecycle!lifecycleVars)
<1>1. ASSUME UNCHANGED records PROVE UNCHANGED Lifecycle!lifecycleVars
    BY <1>1 DEF Lifecycle!lifecycleVars
<1>2. ASSUME NEW c \in Clients, PaymentRequest(c) \/ RecordRequest(c) \/ Rollback(c)
      PROVE  UNCHANGED records
    BY <1>2, StepsOpen DEF IInv, Opens
<1>3. ASSUME NEW c \in Clients, NEW id \in Payments, Commit(c, id)
      PROVE  [Lifecycle!LifecycleNext]_(Lifecycle!lifecycleVars)
  <2>1. SessionCurrent(tx[c]) /\ tx[c].record \in Records \cup {NoRecord} /\ records \in [Records -> BillingRecord]
      BY DEF SerialSound, IInv, TypeOK, Session
  <2>2. \A r \in Records :
            IF r = tx[c].record
            THEN /\ records'[r].status = tx[c].new.status
                 /\ records'[r].late_fee_amount_charged = tx[c].new.late_fee_amount_charged
                 /\ records'[r].overpaid_amount = tx[c].new.overpaid_amount
            ELSE records'[r] = records[r]
      BY <1>3, <2>1, CommitWrites
  <2>3. CASE tx[c].record = NoRecord
    <3>1. \A r \in Records : records'[r] = records[r]
        BY <2>2, <2>3, BoundAssumption
    <3>2. records' = records
        BY <1>3, <2>1, <3>1 DEF Commit, RecordsAfter
    <3>. QED
        BY <1>1, <3>2
  <2>4. CASE tx[c].record # NoRecord
    <3>1. PICK r \in Records : r = tx[c].record
        BY <2>1, <2>4
    <3>2. RecordStep(records[r], tx[c].new)
        BY <2>1, <2>4, <3>1 DEF SessionCurrent
    <3>3. RecordStep(records[r], records'[r])
        BY <2>2, <3>1, <3>2 DEF RecordStep
    <3>4. \A k \in Records \ {r} : records'[k] = records[k]
        BY <2>2, <3>1
    <3>. QED
        BY <3>3, <3>4, RecordStepIsStep
  <2>. QED
      BY <2>3, <2>4
<1>4. CASE UNCHANGED vars
    BY <1>1, <1>4 DEF vars
<1>. QED
    BY <1>1, <1>2, <1>3, <1>4 DEF Next

LEMMA LifecycleStarts == Init => Lifecycle!LifecycleInit
<1>1. Lifecycle!Null = Null
    BY DEF Lifecycle!Null, Null
<1>. QED
    BY <1>1 DEF Init, NewRecord, Lifecycle!LifecycleInit

-----------------------------------------------------------------------------
(* Sums over finite sets of payments *)

\* The amounts of the rows S of a table T, and the fold that MapThenSumSet unfolds to.
Sum(T, S) == MapThenSumSet(LAMBDA p : T[p].amount, S)
Pick(s) == CHOOSE x \in s : TRUE
Solves(g, T, D) == g = [s \in D |-> IF s = {} THEN 0 ELSE T[Pick(s)].amount + g[s \ {Pick(s)}]]
Fold(T, S) == CHOOSE g : Solves(g, T, SUBSET S)

\* A sum is the value of the fold.
LEMMA SumIsFold == ASSUME NEW T, NEW S PROVE Sum(T, S) = Fold(T, S)[S]
BY DEF Sum, Fold, Solves, Pick, MapThenSumSet, MapThenFoldSet

\* Induction over a finite set: among some of its subsets there is a minimal one.
LEMMA MinimalSubset ==
    ASSUME NEW S, IsFiniteSet(S), NEW B \in SUBSET SUBSET S, B # {}
    PROVE  \E t \in B : \A u \in B : u \subseteq t => u = t
<1>1. IsWellFoundedOn(StrictSubsetOrdering(S), FiniteSubsetsOf(S))
    BY FS_StrictSubsetOrderingWellFounded
<1>2. B \subseteq FiniteSubsetsOf(S)
    BY FS_Subset DEF FiniteSubsetsOf
<1>3. \E x \in B : \A y \in B : ~ (<<y, x>> \in StrictSubsetOrdering(S))
    BY <1>1, <1>2, WFMin
<1>. QED
    BY <1>3 DEF StrictSubsetOrdering

\* A nonempty set of numbers has a least member.
LEMMA LeastNumber ==
    ASSUME NEW N \in SUBSET Nat, N # {}
    PROVE  \E m \in N : \A k \in N : m <= k
<1>1. PICK n \in N : TRUE
    OBVIOUS
<1>2. n \in Nat /\ IsFiniteSet(1..n)
    BY FS_Interval
<1>. DEFINE B == {1..k : k \in {k \in N : k <= n}}
<1>3. B \in SUBSET SUBSET (1..n)
    BY <1>2
<1>4. B # {}
    BY <1>2
<1>5. PICK t \in B : \A u \in B : u \subseteq t => u = t
  <2>. DEFINE I == 1..n
  <2>1. IsFiniteSet(I) /\ B \in SUBSET SUBSET I /\ B # {}
      BY <1>2, <1>3, <1>4
  <2>. HIDE DEF I, B
  <2>. QED
      BY <2>1, MinimalSubset
<1>. HIDE DEF B
<1>6. PICK m \in N : m <= n /\ t = 1..m
    BY <1>5 DEF B
<1>7. ASSUME NEW k \in N, k < m PROVE FALSE
  <2>1. k \in Nat /\ m \in Nat /\ k <= n
      BY <1>2, <1>6, <1>7
  <2>2. 1..k \in B
      BY <2>1 DEF B
  <2>3. 1..k \subseteq 1..m
      BY <1>7, <2>1
  <2>4. 1..k = 1..m
      BY <1>5, <1>6, <2>2, <2>3
  <2>5. m \in 1..m
      BY <1>7, <2>1
  <2>6. m \in 1..k
      BY <2>4, <2>5
  <2>. QED
      BY <1>7, <2>1, <2>6
<1>. QED
    BY <1>7

\* The subsets that have at most n members.
Small(S, n) == {s \in SUBSET S : Cardinality(s) <= n}

\* The row the fold takes next is one of those that are left.
LEMMA PickIn == ASSUME NEW s, s # {} PROVE Pick(s) \in s
BY DEF Pick

\* Without it there are fewer rows.
LEMMA SmallerByOne ==
    ASSUME NEW S, IsFiniteSet(S), NEW n \in Nat, NEW s \in Small(S, n), s # {}
    PROVE  n # 0 /\ s \ {Pick(s)} \in Small(S, n - 1)
<1>1. s \in SUBSET S /\ Cardinality(s) <= n
    BY DEF Small
<1>2. IsFiniteSet(s)
    BY <1>1, FS_Subset
<1>3. Cardinality(s) \in Nat /\ Cardinality(s) # 0
    BY <1>2, FS_CardinalityType, FS_EmptySet
<1>4. Cardinality(s \ {Pick(s)}) = Cardinality(s) - 1
    BY <1>2, PickIn, FS_RemoveElement
<1>5. n # 0 /\ Cardinality(s \ {Pick(s)}) <= n - 1
    BY <1>1, <1>3, <1>4
<1>. QED
    BY <1>1, <1>5 DEF Small

\* The fold is well defined: a solution for n rows extends to n + 1.
LEMMA SolutionExists ==
    ASSUME NEW T, NEW S, IsFiniteSet(S)
    PROVE  Solves(Fold(T, S), T, SUBSET S)
<1>. DEFINE Unsolved == {n \in Nat : ~\E g : Solves(g, T, Small(S, n))}
<1>1. Unsolved = {}
  <2>1. SUFFICES ASSUME Unsolved # {} PROVE FALSE
      OBVIOUS
  <2>2. PICK n \in Unsolved : \A k \in Unsolved : n <= k
    <3>1. Unsolved \in SUBSET Nat
        OBVIOUS
    <3>. HIDE DEF Unsolved
    <3>. QED
        BY <2>1, <3>1, LeastNumber
  <2>3. n \in Nat /\ ~\E g : Solves(g, T, Small(S, n))
      BY <2>2
  <2>4. CASE n = 0
    <3>. DEFINE g == [s \in Small(S, 0) |-> 0]
    <3>1. \A s \in Small(S, 0) : s = {}
        BY SmallerByOne
    <3>2. Solves(g, T, Small(S, 0))
        BY <3>1 DEF Solves
    <3>. QED
        BY <2>3, <2>4, <3>2
  <2>5. CASE n # 0
    <3>1. n - 1 \in Nat /\ n - 1 \notin Unsolved
        BY <2>2, <2>3, <2>5
    <3>2. PICK g : Solves(g, T, Small(S, n - 1))
        BY <3>1
    <3>. DEFINE h == [s \in Small(S, n) |-> IF s = {} THEN 0 ELSE T[Pick(s)].amount + g[s \ {Pick(s)}]]
    <3>3. \A s \in Small(S, n - 1) : s \in Small(S, n)
      <4>1. ASSUME NEW s \in SUBSET S, Cardinality(s) <= n - 1 PROVE Cardinality(s) <= n
        <5>1. Cardinality(s) \in Nat
            BY FS_Subset, FS_CardinalityType
        <5>. QED
            BY <2>3, <4>1, <5>1
      <4>. QED
          BY <4>1 DEF Small
    <3>4. \A s \in Small(S, n - 1) : h[s] = g[s]
        BY <3>2, <3>3 DEF Solves
    <3>5. \A s \in Small(S, n) : s # {} => h[s \ {Pick(s)}] = g[s \ {Pick(s)}]
        BY <2>3, <3>4, SmallerByOne
    <3>6. Solves(h, T, Small(S, n))
        BY <3>5 DEF Solves
    <3>. QED
        BY <2>3, <3>6
  <2>. QED
      BY <2>4, <2>5
<1>2. Cardinality(S) \in Nat
    BY FS_CardinalityType
<1>3. PICK g : Solves(g, T, Small(S, Cardinality(S)))
    BY <1>1, <1>2
<1>4. Small(S, Cardinality(S)) = SUBSET S
    BY FS_Subset DEF Small
<1>5. Solves(g, T, SUBSET S)
    BY <1>3, <1>4
<1>. QED
    BY <1>5 DEF Fold

\* The recursion equation of the fold.
Unfolds(T, S) ==
    \A s \in SUBSET S :
        /\ s = {} => Fold(T, S)[s] = 0
        /\ s # {} => Fold(T, S)[s] = T[Pick(s)].amount + Fold(T, S)[s \ {Pick(s)}]

LEMMA FoldEquation == ASSUME NEW T, NEW S, IsFiniteSet(S) PROVE Unfolds(T, S)
<1>. DEFINE g == Fold(T, S)
<1>0. Solves(g, T, SUBSET S)
    BY SolutionExists
<1>. HIDE DEF g
<1>1. g = [s \in SUBSET S |-> IF s = {} THEN 0 ELSE T[Pick(s)].amount + g[s \ {Pick(s)}]]
    BY <1>0 DEF Solves
<1>2. \A s \in SUBSET S : g[s] = IF s = {} THEN 0 ELSE T[Pick(s)].amount + g[s \ {Pick(s)}]
    BY <1>1
<1>. QED
    BY <1>2 DEF g, Unfolds

\* It depends on the amounts of the members only.
LEMMA FoldAgrees ==
    ASSUME NEW T, NEW U, NEW S, NEW R, IsFiniteSet(S), IsFiniteSet(R), NEW s \in SUBSET S, s \in SUBSET R,
           \A x \in s : T[x].amount = U[x].amount
    PROVE  Fold(T, S)[s] = Fold(U, R)[s]
<1>. DEFINE Differ == {u \in SUBSET s : Fold(T, S)[u] # Fold(U, R)[u]}
<1>0. IsFiniteSet(s)
    BY FS_Subset
<1>1. ASSUME Differ # {} PROVE FALSE
  <2>1. PICK t \in Differ : \A u \in Differ : u \subseteq t => u = t
    <3>1. Differ \in SUBSET SUBSET s
        OBVIOUS
    <3>. HIDE DEF Differ
    <3>. QED
        BY <1>0, <1>1, <3>1, MinimalSubset
  <2>2. t \in SUBSET S /\ t \in SUBSET R /\ t \in SUBSET s /\ Fold(T, S)[t] # Fold(U, R)[t]
      OBVIOUS
  <2>3. /\ t = {} => Fold(T, S)[t] = 0 /\ Fold(U, R)[t] = 0
        /\ t # {} => /\ Fold(T, S)[t] = T[Pick(t)].amount + Fold(T, S)[t \ {Pick(t)}]
                     /\ Fold(U, R)[t] = U[Pick(t)].amount + Fold(U, R)[t \ {Pick(t)}]
    <3>1. Unfolds(T, S) /\ Unfolds(U, R)
        BY FoldEquation
    <3>. QED
        BY <2>2, <3>1 DEF Unfolds
  <2>4. t # {}
      BY <2>2, <2>3
  <2>5. Pick(t) \in t /\ T[Pick(t)].amount = U[Pick(t)].amount
      BY <2>2, <2>4, PickIn
  <2>6. t \ {Pick(t)} \notin Differ
      BY <2>1, <2>5
  <2>7. Fold(T, S)[t \ {Pick(t)}] = Fold(U, R)[t \ {Pick(t)}]
      BY <2>2, <2>6
  <2>. QED
      BY <2>2, <2>3, <2>4, <2>5, <2>7
<1>. QED
    BY <1>1

\* It adds numbers up to a number.
LEMMA FoldTyped ==
    ASSUME NEW T, NEW S, IsFiniteSet(S), \A x \in S : T[x].amount \in Nat, NEW s \in SUBSET S
    PROVE  Fold(T, S)[s] \in Nat
<1>. DEFINE Bad == {u \in SUBSET S : Fold(T, S)[u] \notin Nat}
<1>1. ASSUME Bad # {} PROVE FALSE
  <2>1. PICK t \in Bad : \A u \in Bad : u \subseteq t => u = t
    <3>1. Bad \in SUBSET SUBSET S
        OBVIOUS
    <3>. HIDE DEF Bad
    <3>. QED
        BY <1>1, <3>1, MinimalSubset
  <2>2. t \in SUBSET S /\ Fold(T, S)[t] \notin Nat
      OBVIOUS
  <2>3. /\ t = {} => Fold(T, S)[t] = 0
        /\ t # {} => Fold(T, S)[t] = T[Pick(t)].amount + Fold(T, S)[t \ {Pick(t)}]
      BY <2>2, FoldEquation DEF Unfolds
  <2>4. t # {}
      BY <2>2, <2>3
  <2>5. Pick(t) \in t /\ T[Pick(t)].amount \in Nat
      BY <2>2, <2>4, PickIn
  <2>6. t \ {Pick(t)} \notin Bad
      BY <2>1, <2>5
  <2>7. Fold(T, S)[t \ {Pick(t)}] \in Nat
      BY <2>2, <2>6
  <2>. QED
      BY <2>2, <2>3, <2>4, <2>5, <2>7
<1>. QED
    BY <1>1

\* Any member may be taken first.
LEMMA FoldRemoves ==
    ASSUME NEW T, NEW S, IsFiniteSet(S), \A x \in S : T[x].amount \in Nat
    PROVE  \A s \in SUBSET S : \A x \in s : Fold(T, S)[s] = T[x].amount + Fold(T, S)[s \ {x}]
<1>. DEFINE F(s) == Fold(T, S)[s]
            Bad == {u \in SUBSET S : \E x \in u : F(u) # T[x].amount + F(u \ {x})}
<1>1. ASSUME Bad # {} PROVE FALSE
  <2>1. PICK t \in Bad : \A u \in Bad : u \subseteq t => u = t
    <3>1. Bad \in SUBSET SUBSET S
        OBVIOUS
    <3>. HIDE DEF Bad
    <3>. QED
        BY <1>1, <3>1, MinimalSubset
  <2>2. PICK x \in t : F(t) # T[x].amount + F(t \ {x})
      BY <2>1
  <2>. DEFINE y == Pick(t)
  <2>3. t \in SUBSET S /\ t # {}
      BY <2>2
  <2>4. y \in t /\ F(t) = T[y].amount + F(t \ {y})
      BY <2>3, FoldEquation, PickIn DEF Unfolds
  <2>5. x # y
      BY <2>2, <2>4
  <2>6. t \ {x} \notin Bad /\ t \ {y} \notin Bad /\ y \in t \ {x} /\ x \in t \ {y}
      BY <2>1, <2>2, <2>4, <2>5
  <2>7. t \ {x} \in SUBSET S /\ t \ {y} \in SUBSET S
      BY <2>3
  <2>8. (t \ {x}) \ {y} = (t \ {y}) \ {x} /\ (t \ {x}) \ {y} \in SUBSET S
      BY <2>3
  <2>9. F(t \ {y}) = T[x].amount + F((t \ {y}) \ {x})
      BY <2>6, <2>7
  <2>10. F(t \ {x}) = T[y].amount + F((t \ {x}) \ {y})
      BY <2>6, <2>7
  <2>11. F((t \ {x}) \ {y}) \in Nat /\ T[x].amount \in Nat /\ T[y].amount \in Nat
      BY <2>2, <2>3, <2>4, <2>8, FoldTyped
  <2>. DEFINE a == T[x].amount
              b == T[y].amount
              v == F((t \ {x}) \ {y})
              w == F(t)
  <2>12. a \in Nat /\ b \in Nat /\ v \in Nat /\ w = b + (a + v) /\ w # a + (b + v)
      BY <2>2, <2>4, <2>8, <2>9, <2>10, <2>11, Zenon
  <2>. HIDE DEF a, b, v, w
  <2>. QED
      BY <2>12
<1>. QED
    BY <1>1


\* A sum depends on the amounts of its rows only, is a number, and grows by the amount of
\* the row that is added.
LEMMA SumAgrees ==
    ASSUME NEW T, NEW U, NEW S, IsFiniteSet(S), \A x \in S : T[x].amount = U[x].amount
    PROVE  Sum(T, S) = Sum(U, S)
BY SumIsFold, FoldAgrees

LEMMA SumTyped ==
    ASSUME NEW T, NEW S, IsFiniteSet(S), \A x \in S : T[x].amount \in Nat
    PROVE  Sum(T, S) \in Nat
BY SumIsFold, FoldTyped

LEMMA SumAdds ==
    ASSUME NEW T, NEW S, IsFiniteSet(S), NEW x, x \notin S, \A y \in S \cup {x} : T[y].amount \in Nat
    PROVE  Sum(T, S \cup {x}) = Sum(T, S) + T[x].amount
<1>. DEFINE R == S \cup {x}
<1>1. IsFiniteSet(R)
    BY FS_AddElement
<1>2. R \ {x} = S /\ S \in SUBSET R /\ x \in R
    OBVIOUS
<1>3. \A y \in R : T[y].amount \in Nat
    OBVIOUS
<1>. HIDE DEF R
<1>4. Fold(T, R)[R] = T[x].amount + Fold(T, R)[R \ {x}]
    BY <1>1, <1>2, <1>3, FoldRemoves
<1>5. Fold(T, R)[S] = Fold(T, S)[S]
    BY <1>1, <1>2, FoldAgrees
<1>6. Fold(T, S)[S] \in Nat /\ T[x].amount \in Nat
    BY <1>2, <1>3, FoldTyped
<1>7. Sum(T, R) = T[x].amount + Sum(T, S) /\ Sum(T, S) \in Nat
    BY <1>2, <1>4, <1>5, <1>6, SumIsFold, Zenon
<1>. QED
    BY <1>6, <1>7 DEF R
-----------------------------------------------------------------------------
(* What the payments of a record come to *)

Paying(T, r) == {p \in Payments : Counts(T[p], r)}

LEMMA PaidIsSum ==
    ASSUME NEW r
    PROVE  /\ CumulativePaid(r) = Sum(payments, Paying(payments, r))
           /\ CumulativePaid(r)' = Sum(payments', Paying(payments', r))
BY DEF CumulativePaid, Sum, Paying, Counts, MapThenSumSet, MapThenFoldSet

LEMMA PayingFinite == ASSUME NEW T, NEW r PROVE IsFiniteSet(Paying(T, r))
BY BoundAssumption, FS_Subset DEF Paying

LEMMA PaidTyped ==
    ASSUME TypeOK, NEW r
    PROVE  CumulativePaid(r) \in Nat
<1>1. \A p \in Paying(payments, r) : payments[p].amount \in Nat
    BY DEF TypeOK, Payment, Paying
<1>. QED
    BY <1>1, PaidIsSum, PayingFinite, SumTyped

\* A request that only inserts a payment leaves exactly what it saw when it summed.
LEMMA CommitPays ==
    ASSUME IInv, NEW c \in Clients, NEW id \in Payments, Commit(c, id), tx[c].payment = NoPayment,
           NEW r \in Records
    PROVE  CumulativePaid(r)' = VisiblePaid(r, tx[c].insert)
<1>. DEFINE insert == tx[c].insert
            before == Paying(payments, r)
            after == Paying(payments', r)
<1>1. insert \in Payment /\ insert.status \in PaymentStatus \cup {"NONE"} /\ insert.amount \in Nat
    BY DEF IInv, TypeOK, Session, SessionsSound, PaymentPlan, Payment
<1>2. /\ \A p \in Payments \ {id} : payments'[p] = payments[p]
      /\ insert.status = "NONE" => payments'[id] = payments[id]
      /\ insert.status # "NONE" => payments'[id] = insert /\ payments[id].status = "NONE"
    BY BoundAssumption DEF Commit, PaymentsAfter
<1>3. \A p \in before : payments[p].amount \in Nat
    BY DEF IInv, TypeOK, Payment, Paying
<1>4. CASE Counts(insert, r)
  <2>1. insert.status # "NONE"
      BY <1>4 DEF Counts, PaymentStatus
  <2>2. id \notin before /\ after = before \cup {id}
      BY <1>2, <1>4, <2>1 DEF Paying, Counts, PaymentStatus
  <2>3. IsFiniteSet(before)
      BY PayingFinite
  <2>4. \A p \in before : payments'[p].amount = payments[p].amount
      BY <1>2, <2>2 DEF Paying
  <2>5. \A p \in before \cup {id} : payments'[p].amount \in Nat
      BY <1>1, <1>2, <1>3, <2>1, <2>4
  <2>. HIDE DEF before, after
  <2>6. Sum(payments', before) = Sum(payments, before)
      BY <2>3, <2>4, SumAgrees
  <2>7. Sum(payments', before \cup {id}) = Sum(payments', before) + payments'[id].amount
      BY <2>2, <2>3, <2>5, SumAdds
  <2>8. Sum(payments', after) = Sum(payments, before) + insert.amount
      BY <1>2, <2>1, <2>2, <2>6, <2>7
  <2>9. CumulativePaid(r)' = CumulativePaid(r) + insert.amount
      BY <2>8, PaidIsSum DEF before, after
  <2>. QED
      BY <1>4, <2>9 DEF VisiblePaid
<1>5. CASE ~Counts(insert, r)
  <2>1. after = before /\ \A p \in before : payments'[p].amount = payments[p].amount
      BY <1>2, <1>5 DEF Paying, Counts, PaymentStatus
  <2>2. IsFiniteSet(before)
      BY PayingFinite
  <2>. HIDE DEF before, after
  <2>3. Sum(payments', after) = Sum(payments, before)
      BY <2>1, <2>2, SumAgrees
  <2>4. CumulativePaid(r)' = CumulativePaid(r)
      BY <2>3, PaidIsSum DEF before, after
  <2>5. CumulativePaid(r) \in Nat
      BY PaidTyped DEF IInv
  <2>. QED
      BY <1>5, <2>4, <2>5 DEF VisiblePaid
<1>. QED
    BY <1>4, <1>5

-----------------------------------------------------------------------------
(* The money behind a status *)

\* What a session is about to claim of the record it loaded: it settles it, or gives it
\* a credit, only as far as the money given covers.
Backed(s, paid) ==
    /\ s.new.status = "paid" /\ s.seen.status # "paid" => AmountDue <= paid
    /\ s.new.overpaid_amount \notin {Null, s.seen.overpaid_amount} =>
          s.new.overpaid_amount <= paid - AmountDue

\* The money is the payments that stand and the one the session inserts.
PlanBacked(s) == s.record # NoRecord => Backed(s, VisiblePaid(s.record, s.insert))

\* The ledger while payments are only made.
GrowingSound ==
    /\ \A c \in Clients : tx[c].payment = NoPayment /\ PlanBacked(tx[c])
    /\ PaidCoversRent
    /\ CreditBacked

\* A request that inserts a payment for a record has computed what becomes of the record
\* from the payments that stand; no other request gives a payment a record.
SessionReconciles(s) ==
    /\ s.insert.billing_record_id # NoRecord =>
          /\ s.record = s.insert.billing_record_id
          /\ s.payment = NoPayment
          /\ s.step = "ready" => s.new = apply_payment(s.seen, VisiblePaid(s.record, s.insert))
    /\ s.paymentNew.billing_record_id \in {s.paymentSeen.billing_record_id, NoRecord}

\* An id that is not used yet belongs to no record.
UnusedUnlinked ==
    \A p \in Payments : payments[p].status = "NONE" => payments[p].billing_record_id = NoRecord

Reconciled ==
    /\ \A c \in Clients : SessionReconciles(tx[c])
    /\ UnusedUnlinked

LEMMA PaidKept ==
    ASSUME UNCHANGED payments, NEW r
    PROVE  CumulativePaid(r)' = CumulativePaid(r)
BY PaidIsSum DEF Paying, Counts

\* Every request claims only what the payments it sees cover.
LEMMA StepsBacked ==
    ASSUME IInv, NEW c \in Clients, PaymentRequest(c) \/ RecordRequest(c) \/ Rollback(c)
    PROVE  PlanBacked(tx'[c])
<1>a. /\ tx \in [Clients -> Session] /\ tx[c] \in Session /\ tx[c].seen \in BillingRecord
      /\ \A r \in Records : records[r] \in BillingRecord
    BY DEF IInv, TypeOK, Session
<1>1. ASSUME NEW r \in Records \cup {NoRecord}, NEW amount \in Amounts, NEW status \in SentStatuses,
             LoadForCreate(c, r, amount, status)
      PROVE  PlanBacked(tx'[c])
  <2>1. tx'[c].new = tx'[c].seen
      BY <1>1, <1>a DEF LoadForCreate, InsertSession
  <2>. QED
      BY <2>1 DEF PlanBacked, Backed
<1>2. ASSUME NEW cumulative_paid \in 0..MaxSum, ApplyPayment(c, cumulative_paid)
      PROVE  PlanBacked(tx'[c])
  <2>. DEFINE seen == tx[c].seen
              new == apply_payment(seen, cumulative_paid)
              owed == total_owed(seen)
              status == TargetStatus(seen, cumulative_paid)
              excess == cumulative_paid - owed
              credit == IF status # "paid" THEN seen.overpaid_amount ELSE IF excess > 0 THEN excess ELSE Null
  <2>1. /\ tx'[c].new = new /\ tx'[c].seen = seen
        /\ tx'[c].record = tx[c].record /\ tx'[c].insert = tx[c].insert
      BY <1>2, <1>a DEF ApplyPayment, Session
  <2>2. cumulative_paid = VisiblePaid(tx[c].record, tx[c].insert)
      BY <1>2 DEF ApplyPayment
  <2>3. owed \in Nat /\ AmountDue \in Nat /\ AmountDue <= owed /\ cumulative_paid \in Int
    <3>1. seen.late_fee_amount_charged \in {Null} \cup (Nat \ {0})
        BY <1>a DEF BillingRecord, Money
    <3>. QED
        BY <3>1, MoneyAssumption, BoundAssumption DEF total_owed
  <2>4. new.status = status /\ new.overpaid_amount = credit
    <3>1. new = [seen EXCEPT !.status = status, !.overpaid_amount = credit]
        BY DEF apply_payment
    <3>. HIDE DEF new, status, credit
    <3>. QED
        BY <1>a, <3>1 DEF BillingRecord
  <2>5. new.status = "paid" /\ seen.status # "paid" => cumulative_paid >= owed
      BY <2>4 DEF TargetStatus, Terminal
  <2>6. new.overpaid_amount \notin {Null, seen.overpaid_amount} => new.overpaid_amount = cumulative_paid - owed
      BY <2>4
  <2>. HIDE DEF new, seen, owed, status, excess, credit
  <2>7. /\ new.status = "paid" /\ seen.status # "paid" => AmountDue <= cumulative_paid
        /\ new.overpaid_amount \notin {Null, seen.overpaid_amount} => new.overpaid_amount <= cumulative_paid - AmountDue
      BY <2>3, <2>5, <2>6
  <2>. QED
      BY <2>1, <2>2, <2>7 DEF PlanBacked, Backed
<1>3. ASSUME NEW p \in Payments, NEW new, NEW insert, tx' = [tx EXCEPT ![c] = PaymentSession(p, new, insert)]
      PROVE  PlanBacked(tx'[c])
    BY <1>3, <1>a DEF PaymentSession, PlanBacked
<1>4. ASSUME NEW r \in Records, NEW new, tx' = [tx EXCEPT ![c] = RecordSession(r, new)],
             new.status = "paid" => records[r].status = "paid", new.overpaid_amount = records[r].overpaid_amount
      PROVE  PlanBacked(tx'[c])
  <2>1. tx'[c].new = new /\ tx'[c].seen = records[r]
      BY <1>4, <1>a DEF RecordSession
  <2>. QED
      BY <1>4, <2>1 DEF PlanBacked, Backed
<1>5. ASSUME NEW p \in Payments, NEW amount \in Amounts, NEW status \in SentStatuses,
             LoadForUpdate(c, p, amount, status) \/ LoadForCorrection(c, p, amount, status)
      PROVE  PlanBacked(tx'[c])
    BY <1>3, <1>5 DEF LoadForUpdate, LoadForCorrection
<1>6. ASSUME NEW p \in Payments, LoadForDelete(c, p) PROVE PlanBacked(tx'[c])
    BY <1>3, <1>6 DEF LoadForDelete
<1>7. ASSUME NEW r \in Records, NEW as_of \in AsOfDates, LoadForEvaluate(c, r, as_of)
      PROVE  PlanBacked(tx'[c])
  <2>. DEFINE new == MarkOverdue(records[r])
  <2>1. new.status = "overdue" /\ new.overpaid_amount = records[r].overpaid_amount
      BY <1>a DEF MarkOverdue, BillingRecord
  <2>2. tx' = [tx EXCEPT ![c] = RecordSession(r, new)]
      BY <1>7 DEF LoadForEvaluate
  <2>. HIDE DEF new
  <2>. QED
      BY <1>4, <2>1, <2>2
<1>8. ASSUME NEW r \in Records, LoadForWriteOff(c, r)
      PROVE  PlanBacked(tx'[c])
  <2>. DEFINE new == [records[r] EXCEPT !.status = "written_off"]
  <2>1. new.status = "written_off" /\ new.overpaid_amount = records[r].overpaid_amount
      BY <1>a DEF BillingRecord
  <2>2. tx' = [tx EXCEPT ![c] = RecordSession(r, new)]
      BY <1>8 DEF LoadForWriteOff
  <2>. HIDE DEF new
  <2>. QED
      BY <1>4, <2>1, <2>2
<1>9. ASSUME NEW r \in Records, NEW fee \in FeeAmounts \cup {Null}, LoadForFeeCorrection(c, r, fee)
      PROVE  PlanBacked(tx'[c])
  <2>. DEFINE new == CorrectFee(records[r], fee)
  <2>1. new.status = records[r].status /\ new.overpaid_amount = records[r].overpaid_amount
      BY <1>a DEF CorrectFee, BillingRecord
  <2>2. tx' = [tx EXCEPT ![c] = RecordSession(r, new)]
      BY <1>9 DEF LoadForFeeCorrection
  <2>. HIDE DEF new
  <2>. QED
      BY <1>4, <2>1, <2>2
<1>10. ASSUME Rollback(c) PROVE PlanBacked(tx'[c])
    BY <1>10, <1>a DEF Rollback, IdleSession, PlanBacked
<1>. QED
    BY <1>1, <1>2, <1>5, <1>6, <1>7, <1>8, <1>9, <1>10 DEF PaymentRequest, RecordRequest

\* More money never takes the cover away.
LEMMA BackedByMore ==
    ASSUME NEW s, s.new.overpaid_amount \in Int, NEW paid \in Nat, NEW more \in Nat, paid <= more, Backed(s, paid)
    PROVE  Backed(s, more)
BY MoneyAssumption DEF Backed

\* A commit that only inserts a payment adds money to a record, or leaves what it has.
LEMMA CommitAdds ==
    ASSUME IInv, NEW c \in Clients, NEW id \in Payments, Commit(c, id), tx[c].payment = NoPayment,
           NEW r \in Records
    PROVE  CumulativePaid(r) \in Nat /\ CumulativePaid(r)' \in Nat /\ CumulativePaid(r) <= CumulativePaid(r)'
<1>1. CumulativePaid(r) \in Nat
    BY PaidTyped DEF IInv
<1>2. tx[c].insert.amount \in Nat
    BY DEF IInv, TypeOK, Session, Payment
<1>3. CumulativePaid(r)' = CumulativePaid(r) + (IF Counts(tx[c].insert, r) THEN tx[c].insert.amount ELSE 0)
    BY CommitPays DEF VisiblePaid
<1>. QED
    BY <1>1, <1>2, <1>3

\* What another session plans stays backed.
LEMMA CommitLeavesBacked ==
    ASSUME IInv, NEW c \in Clients, NEW id \in Payments, Commit(c, id), tx[c].payment = NoPayment,
           NEW s \in Session, PlanBacked(s)
    PROVE  s.record # NoRecord =>
               Backed(s, CumulativePaid(s.record)' + (IF Counts(s.insert, s.record) THEN s.insert.amount ELSE 0))
<1>. DEFINE own == IF Counts(s.insert, s.record) THEN s.insert.amount ELSE 0
            old == CumulativePaid(s.record)
            now == CumulativePaid(s.record)'
<1>1. SUFFICES ASSUME s.record # NoRecord PROVE Backed(s, now + own)
    OBVIOUS
<1>2. s.record \in Records /\ s.insert.amount \in Nat /\ s.new.overpaid_amount \in Int
    BY <1>1 DEF Session, Payment
<1>3. own \in Nat /\ old \in Nat /\ now \in Nat /\ old <= now
    BY <1>2, CommitAdds
<1>4. Backed(s, old + own)
    BY <1>1 DEF PlanBacked, VisiblePaid
<1>. HIDE DEF own, old, now
<1>5. old + own \in Nat /\ now + own \in Nat /\ old + own <= now + own
    BY <1>3
<1>. QED
    BY <1>2, <1>4, <1>5, BackedByMore

\* The row a commit leaves is covered by what the record has received then.
LEMMA CommitCovers ==
    ASSUME IInv, PaidCoversRent, CreditBacked, NEW c \in Clients, NEW id \in Payments, Commit(c, id),
           tx[c].payment = NoPayment, PlanBacked(tx[c]), NEW r \in Records
    PROVE  /\ records'[r].status = "paid" => CumulativePaid(r)' >= AmountDue
           /\ records'[r].overpaid_amount # Null => records'[r].overpaid_amount <= CumulativePaid(r)' - AmountDue
<1>. DEFINE s == tx[c]
            row == records[r]
            old == CumulativePaid(r)
            now == CumulativePaid(r)'
<1>1. old \in Nat /\ now \in Nat /\ old <= now /\ AmountDue \in Nat
    BY CommitAdds, MoneyAssumption
<1>2. row.overpaid_amount \in Int
    BY RowInMemory DEF IInv, TypeOK
<1>3. /\ row.status = "paid" => old >= AmountDue
      /\ row.overpaid_amount # Null => row.overpaid_amount <= old - AmountDue
    BY DEF PaidCoversRent, CreditBacked
<1>4. CASE r # s.record
  <2>1. records'[r] = row
      BY <1>4 DEF Commit, RecordsAfter
  <2>. HIDE DEF s, row, old, now
  <2>2. /\ row.status = "paid" => now >= AmountDue
        /\ row.overpaid_amount # Null => row.overpaid_amount <= now - AmountDue
      BY <1>1, <1>2, <1>3
  <2>. QED
      BY <2>1, <2>2 DEF now
<1>5. CASE r = s.record
  <2>1. /\ records'[r].status = Written(row.status, s.seen.status, s.new.status)
        /\ records'[r].overpaid_amount = Written(row.overpaid_amount, s.seen.overpaid_amount, s.new.overpaid_amount)
      BY <1>5 DEF Commit, RecordsAfter, FlushRecord
  <2>2. Backed(s, now)
    <3>1. now = VisiblePaid(r, s.insert)
        BY CommitPays
    <3>. QED
        BY <1>5, <3>1, BoundAssumption DEF PlanBacked
  <2>. HIDE DEF s, row, old, now
  <2>3. records'[r].status = "paid" => now >= AmountDue
      BY <1>1, <1>3, <2>1, <2>2 DEF Written, Backed
  <2>4. records'[r].overpaid_amount # Null => records'[r].overpaid_amount <= now - AmountDue
    <3>1. CASE s.new.overpaid_amount # s.seen.overpaid_amount
        BY <2>1, <2>2, <3>1 DEF Written, Backed
    <3>2. CASE s.new.overpaid_amount = s.seen.overpaid_amount
      <4>1. records'[r].overpaid_amount = row.overpaid_amount
          BY <2>1, <3>2 DEF Written
      <4>. QED
          BY <1>1, <1>2, <1>3, <4>1
    <3>. QED
        BY <3>1, <3>2
  <2>. QED
      BY <2>3, <2>4 DEF now
<1>. QED
    BY <1>4, <1>5

LEMMA GrowingNext ==
    ASSUME IInv, GrowingSound, [Next]_vars, \A c \in Clients : tx'[c].payment = NoPayment
    PROVE  GrowingSound'
<1>a. tx \in [Clients -> Session]
    BY DEF IInv, TypeOK
<1>1. ASSUME NEW c \in Clients, PaymentRequest(c) \/ RecordRequest(c) \/ Rollback(c)
      PROVE  GrowingSound'
  <2>1. UNCHANGED <<records, payments>> /\ \A d \in Clients \ {c} : tx'[d] = tx[d]
      BY <1>1, <1>a, StepsOpen DEF IInv, Opens
  <2>2. \A r : CumulativePaid(r)' = CumulativePaid(r)
      BY <2>1, PaidKept
  <2>3. ASSUME NEW d \in Clients PROVE PlanBacked(tx[d])'
    <3>1. PlanBacked(tx'[d])
      <4>1. CASE d = c
          BY <1>1, <4>1, StepsBacked
      <4>2. CASE d # c
          BY <2>1, <4>2 DEF GrowingSound
      <4>. QED
          BY <4>1, <4>2
    <3>. QED
        BY <2>2, <3>1 DEF PlanBacked, Backed, VisiblePaid, Counts
  <2>4. PaidCoversRent' /\ CreditBacked'
      BY <2>1, <2>2 DEF GrowingSound, PaidCoversRent, CreditBacked
  <2>. QED
      BY <2>3, <2>4 DEF GrowingSound
<1>2. ASSUME NEW c \in Clients, NEW id \in Payments, Commit(c, id)
      PROVE  GrowingSound'
  <2>1. \A d \in Clients : tx[d].payment = NoPayment /\ PlanBacked(tx[d]) /\ tx[d] \in Session
      BY <1>a DEF GrowingSound
  <2>2. ASSUME NEW d \in Clients PROVE PlanBacked(tx[d])'
    <3>1. CASE d = c
      <4>1. tx'[d].record = NoRecord
          BY <1>2, <1>a, <3>1 DEF Commit, IdleSession
      <4>. QED
          BY <4>1 DEF PlanBacked
    <3>2. CASE d # c
      <4>1. tx'[d] = tx[d]
          BY <1>2, <1>a, <3>2 DEF Commit
      <4>2. PICK s \in Session : s = tx[d]
          BY <2>1
      <4>3. s.record # NoRecord =>
                Backed(s, CumulativePaid(s.record)' + (IF Counts(s.insert, s.record) THEN s.insert.amount ELSE 0))
          BY <1>2, <2>1, <4>2, CommitLeavesBacked
      <4>4. PlanBacked(s)'
          BY <4>3 DEF PlanBacked, Backed, VisiblePaid, Counts
      <4>. QED
          BY <4>1, <4>2, <4>4
    <3>. QED
        BY <3>1, <3>2
  <2>3. PaidCoversRent' /\ CreditBacked'
    <3>1. \A r \in Records :
              /\ records'[r].status = "paid" => CumulativePaid(r)' >= AmountDue
              /\ records'[r].overpaid_amount # Null => records'[r].overpaid_amount <= CumulativePaid(r)' - AmountDue
        BY <1>2, <2>1, CommitCovers DEF GrowingSound
    <3>. QED
        BY <3>1 DEF PaidCoversRent, CreditBacked
  <2>. QED
      BY <2>2, <2>3 DEF GrowingSound
<1>3. CASE UNCHANGED vars
  <2>1. \A r : CumulativePaid(r)' = CumulativePaid(r)
      BY <1>3, PaidKept DEF vars
  <2>2. ASSUME NEW d \in Clients PROVE PlanBacked(tx[d])'
    <3>1. PlanBacked(tx[d])
        BY DEF GrowingSound
    <3>. QED
        BY <1>3, <2>1, <3>1 DEF vars, PlanBacked, Backed, VisiblePaid, Counts
  <2>3. PaidCoversRent' /\ CreditBacked'
      BY <1>3, <2>1 DEF vars, GrowingSound, PaidCoversRent, CreditBacked
  <2>. QED
      BY <2>2, <2>3 DEF GrowingSound
<1>. QED
    BY <1>1, <1>2, <1>3 DEF Next

LEMMA GrowingInit == Init => GrowingSound
BY DEF Init, GrowingSound, PlanBacked, PaidCoversRent, CreditBacked, IdleSession, NewRecord

\* Every request opens a session that reconciles.
LEMMA StepsReconcile ==
    ASSUME IInv, NEW c \in Clients, SessionReconciles(tx[c]), PaymentRequest(c) \/ RecordRequest(c) \/ Rollback(c)
    PROVE  SessionReconciles(tx'[c])
<1>a. tx \in [Clients -> Session] /\ tx[c] \in Session /\ \A p \in Payments : payments[p] \in Payment
    BY DEF IInv, TypeOK, Session
<1>b. NoRow.billing_record_id = NoRecord /\ DeletedRow.billing_record_id = NoRecord
    BY DEF NoRow, DeletedRow, EmptyRow
<1>1. ASSUME NEW r \in Records \cup {NoRecord}, NEW amount \in Amounts, NEW status \in SentStatuses,
             LoadForCreate(c, r, amount, status)
      PROVE  SessionReconciles(tx'[c])
  <2>1. /\ tx'[c].insert.billing_record_id = r /\ tx'[c].record = r /\ tx'[c].payment = NoPayment
        /\ r # NoRecord => tx'[c].step = "loaded"
        /\ tx'[c].paymentNew = tx'[c].paymentSeen
      BY <1>1, <1>a DEF LoadForCreate, InsertSession, PaymentRow
  <2>. QED
      BY <2>1 DEF SessionReconciles
<1>2. ASSUME NEW cumulative_paid \in 0..MaxSum, ApplyPayment(c, cumulative_paid)
      PROVE  SessionReconciles(tx'[c])
  <2>. DEFINE new == apply_payment(tx[c].seen, cumulative_paid)
  <2>1. cumulative_paid = VisiblePaid(tx[c].record, tx[c].insert)
      BY <1>2 DEF ApplyPayment
  <2>2. tx'[c] = [tx[c] EXCEPT !.step = "ready", !.new = new]
      BY <1>2, <1>a DEF ApplyPayment
  <2>. HIDE DEF new
  <2>3. /\ tx'[c].new = new /\ tx'[c].seen = tx[c].seen
        /\ tx'[c].record = tx[c].record /\ tx'[c].insert = tx[c].insert /\ tx'[c].payment = tx[c].payment
        /\ tx'[c].paymentNew = tx[c].paymentNew /\ tx'[c].paymentSeen = tx[c].paymentSeen
      BY <1>a, <2>2 DEF Session
  <2>4. tx'[c].new = apply_payment(tx'[c].seen, VisiblePaid(tx'[c].record, tx'[c].insert))
      BY <2>1, <2>3 DEF new
  <2>. QED
      BY <2>3, <2>4 DEF SessionReconciles
<1>3. ASSUME NEW p \in Payments, NEW new, NEW insert, tx' = [tx EXCEPT ![c] = PaymentSession(p, new, insert)],
             insert.billing_record_id = NoRecord, new.billing_record_id \in {payments[p].billing_record_id, NoRecord}
      PROVE  SessionReconciles(tx'[c])
    BY <1>3, <1>a DEF PaymentSession, SessionReconciles
<1>4. ASSUME NEW p \in Payments, NEW amount \in Amounts, NEW status \in SentStatuses,
             LoadForUpdate(c, p, amount, status)
      PROVE  SessionReconciles(tx'[c])
  <2>. DEFINE new == [payments[p] EXCEPT !.amount = amount, !.status = status]
  <2>1. new.billing_record_id = payments[p].billing_record_id
      BY <1>a DEF Payment
  <2>2. tx' = [tx EXCEPT ![c] = PaymentSession(p, new, NoRow)]
      BY <1>4 DEF LoadForUpdate
  <2>. HIDE DEF new
  <2>. QED
      BY <1>3, <1>b, <2>1, <2>2
<1>5. ASSUME NEW p \in Payments, NEW amount \in Amounts, NEW status \in SentStatuses,
             LoadForCorrection(c, p, amount, status)
      PROVE  SessionReconciles(tx'[c])
  <2>. DEFINE new == [payments[p] EXCEPT !.status = "VOIDED"]
              insert == PaymentRow(status, amount, NoRecord, p)
  <2>1. new.billing_record_id = payments[p].billing_record_id /\ insert.billing_record_id = NoRecord
      BY <1>a DEF Payment, PaymentRow
  <2>2. tx' = [tx EXCEPT ![c] = PaymentSession(p, new, insert)]
      BY <1>5 DEF LoadForCorrection
  <2>. HIDE DEF new, insert
  <2>. QED
      BY <1>3, <2>1, <2>2
<1>6. ASSUME NEW p \in Payments, LoadForDelete(c, p) PROVE SessionReconciles(tx'[c])
    BY <1>3, <1>6, <1>b DEF LoadForDelete
<1>7. ASSUME NEW r \in Records, NEW new, tx' = [tx EXCEPT ![c] = RecordSession(r, new)]
      PROVE  SessionReconciles(tx'[c])
    BY <1>7, <1>a, <1>b DEF RecordSession, SessionReconciles
<1>8. ASSUME RecordRequest(c) PROVE SessionReconciles(tx'[c])
    BY <1>7, <1>8 DEF RecordRequest, LoadForEvaluate, LoadForWriteOff, LoadForFeeCorrection
<1>9. ASSUME Rollback(c) PROVE SessionReconciles(tx'[c])
    BY <1>9, <1>a, <1>b DEF Rollback, IdleSession, SessionReconciles
<1>. QED
    BY <1>1, <1>2, <1>4, <1>5, <1>6, <1>8, <1>9 DEF PaymentRequest

LEMMA ReconciledInit == Init => Reconciled
BY DEF Init, Reconciled, SessionReconciles, UnusedUnlinked, IdleSession, NoRow, EmptyRow

LEMMA ReconciledNext ==
    ASSUME OneAtATime, IInv, SerialSound, Reconciled, [Next]_vars
    PROVE  Reconciled'
<1>a. tx \in [Clients -> Session]
    BY DEF IInv, TypeOK
<1>1. ASSUME NEW c \in Clients, PaymentRequest(c) \/ RecordRequest(c) \/ Rollback(c)
      PROVE  Reconciled'
  <2>1. UNCHANGED <<records, payments>>
      BY <1>1, StepsOpen DEF IInv, Opens
  <2>2. SessionReconciles(tx'[c])
      BY <1>1, StepsReconcile DEF Reconciled
  <2>3. \A r : CumulativePaid(r)' = CumulativePaid(r)
      BY <2>1, PaidKept
  <2>4. ASSUME NEW d \in Clients PROVE SessionReconciles(tx[d])'
    <3>1. d = c
        BY DEF OneAtATime
    <3>. QED
        BY <2>2, <2>3, <3>1 DEF SessionReconciles, VisiblePaid, Counts, apply_payment, TargetStatus, total_owed
  <2>5. UnusedUnlinked'
      BY <2>1 DEF Reconciled, UnusedUnlinked
  <2>. QED
      BY <2>4, <2>5 DEF Reconciled
<1>2. ASSUME NEW c \in Clients, NEW id \in Payments, Commit(c, id)
      PROVE  Reconciled'
  <2>1. ASSUME NEW d \in Clients PROVE SessionReconciles(tx[d])'
    <3>1. tx'[d] = IdleSession
        BY <1>2, <1>a DEF Commit, OneAtATime
    <3>. QED
        BY <3>1 DEF SessionReconciles, IdleSession, NoRow, EmptyRow
  <2>2. UnusedUnlinked'
    <3>1. \A p \in Payments :
              IF p = id /\ tx[c].insert.status # "NONE" THEN payments'[p] = tx[c].insert
              ELSE IF p = tx[c].payment THEN payments'[p].status = tx[c].paymentNew.status
              ELSE payments'[p] = payments[p]
        BY <1>2, CommitWrites DEF SerialSound
    <3>2. tx[c].payment # NoPayment => tx[c].paymentNew.status # "NONE"
        BY DEF IInv, SessionsSound, PaymentPlan, PaymentStatus
    <3>. QED
        BY <3>1, <3>2, BoundAssumption DEF Reconciled, UnusedUnlinked
  <2>. QED
      BY <2>1, <2>2 DEF Reconciled
<1>3. CASE UNCHANGED vars
  <2>1. \A r : CumulativePaid(r)' = CumulativePaid(r)
      BY <1>3, PaidKept DEF vars
  <2>2. ASSUME NEW d \in Clients PROVE SessionReconciles(tx[d])'
    <3>1. SessionReconciles(tx[d])
        BY DEF Reconciled
    <3>. QED
        BY <1>3, <2>1, <3>1 DEF vars, SessionReconciles, VisiblePaid, Counts, apply_payment, TargetStatus, total_owed
  <2>3. UnusedUnlinked'
      BY <1>3 DEF vars, Reconciled, UnusedUnlinked
  <2>. QED
      BY <2>2, <2>3 DEF Reconciled
<1>. QED
    BY <1>1, <1>2, <1>3 DEF Next

\* The commit that inserts a payment for a record leaves the record reconciled.
LEMMA CommitReconciles ==
    ASSUME IInv, SerialSound, Reconciled, NEW c \in Clients, NEW id \in Payments, Commit(c, id),
           NEW p \in Payments, NEW r \in Records, payments[p].status = "NONE", payments'[p].billing_record_id = r,
           records[r].status \notin Terminal
    PROVE  /\ records'[r].status = "paid" <=> CumulativePaid(r)' >= total_owed(records[r])'
           /\ records'[r].status \in {"paid", "partially_paid"}
<1>. DEFINE s == tx[c]
            paid == VisiblePaid(r, s.insert)
<1>1. /\ SessionCurrent(s) /\ SessionReconciles(s) /\ s \in Session
      /\ r # NoRecord /\ payments[p].billing_record_id = NoRecord
    BY BoundAssumption DEF SerialSound, Reconciled, UnusedUnlinked, IInv, TypeOK
<1>2. s.step = "ready" /\ PaymentWritable(s)
    BY DEF Commit
<1>3. p = id /\ s.insert.status # "NONE"
  <2>1. SUFFICES ASSUME ~(p = id /\ s.insert.status # "NONE") PROVE FALSE
      OBVIOUS
  <2>2. CASE p # s.payment
    <3>1. payments'[p] = payments[p]
        BY <2>1, <2>2 DEF Commit, PaymentsAfter
    <3>. QED
        BY <1>1, <3>1
  <2>3. CASE p = s.payment
    <3>1. payments'[p] = FlushPayment(payments[p], s.paymentSeen, s.paymentNew)
        BY <2>1, <2>3 DEF Commit, PaymentsAfter
    <3>2. s.paymentSeen = payments[p]
        BY <1>1, <2>3, BoundAssumption DEF SessionCurrent
    <3>3. payments'[p].billing_record_id = s.paymentNew.billing_record_id
        BY <3>1, <3>2 DEF FlushPayment, Written
    <3>. QED
        BY <1>1, <3>2, <3>3 DEF SessionReconciles
  <2>. QED
      BY <2>2, <2>3
<1>4. s.insert.billing_record_id = r
    BY <1>3 DEF Commit, PaymentsAfter
<1>5. /\ s.record = r /\ s.payment = NoPayment /\ s.seen = records[r]
      /\ s.new = apply_payment(records[r], paid)
    BY <1>1, <1>2, <1>4 DEF SessionReconciles, SessionCurrent
<1>6. CumulativePaid(r)' = paid
    BY <1>5, CommitPays
<1>7. /\ records'[r].status = s.new.status
      /\ records'[r].late_fee_amount_charged = s.new.late_fee_amount_charged
    BY <1>1, <1>5, CommitWrites
<1>8. records[r] \in BillingRecord
    BY DEF IInv, TypeOK
<1>. HIDE DEF paid
<1>9. /\ s.new.status = TargetStatus(records[r], paid)
      /\ s.new.late_fee_amount_charged = records[r].late_fee_amount_charged
  <2>. DEFINE status == TargetStatus(records[r], paid)
              excess == paid - total_owed(records[r])
              credit == IF status # "paid" THEN records[r].overpaid_amount ELSE IF excess > 0 THEN excess ELSE Null
  <2>1. s.new = [records[r] EXCEPT !.status = status, !.overpaid_amount = credit]
      BY <1>5 DEF apply_payment
  <2>. HIDE DEF status, credit
  <2>2. s.new.status = status /\ s.new.late_fee_amount_charged = records[r].late_fee_amount_charged
      BY <1>8, <2>1 DEF BillingRecord
  <2>. QED
      BY <2>2 DEF status
<1>10. total_owed(records[r])' = total_owed(records[r])
    BY <1>7, <1>9 DEF total_owed
<1>11. records'[r].status = IF paid >= total_owed(records[r]) THEN "paid" ELSE "partially_paid"
    BY <1>7, <1>9 DEF TargetStatus
<1>. QED
    BY <1>6, <1>10, <1>11
-----------------------------------------------------------------------------
(* The status tells the truth while requests neither overlap nor revise the past *)

\* Payments are made, records become overdue and are written off, and nothing else.
NothingRevised == Operations \subseteq {"create_payment", "evaluate_overdue", "write_off_billing_record"}

\* A session pays a record, marks one overdue or writes one off.
SessionOrdinary(s) ==
    /\ s.payment = NoPayment
    /\ \/ s.insert.billing_record_id = s.record
       \/ /\ s.insert.billing_record_id = NoRecord /\ s.step = "ready"
          /\ \/ s.new.status = "written_off"
             \/ s.seen.status \notin Terminal /\ s.new = MarkOverdue(s.seen)

Truthful ==
    /\ \A c \in Clients : SessionOrdinary(tx[c])
    /\ StatusMatchesLedger

\* StatusMatchesLedger, of one row and the money its record has received.
Tells(row, paid) ==
    /\ row.status = "paid" =>
          /\ paid >= total_owed(row)
          /\ row.overpaid_amount = IF paid > total_owed(row) THEN paid - total_owed(row) ELSE Null
    /\ row.status \notin Terminal => paid < total_owed(row) /\ row.overpaid_amount = Null

LEMMA OwedTyped ==
    ASSUME NEW row \in BillingRecord
    PROVE  total_owed(row) \in Nat
<1>1. row.late_fee_amount_charged \in {Null} \cup (Nat \ {0})
    BY DEF BillingRecord, Money
<1>. QED
    BY <1>1, MoneyAssumption DEF total_owed

LEMMA RowTells ==
    ASSUME NEW row \in BillingRecord, NEW paid \in Nat
    PROVE  Tells(row, paid) <=>
              LET excess == paid - total_owed(row)
                  remaining == total_owed(row) - paid
                  balance == IF remaining > 0 THEN remaining ELSE 0
              IN  /\ row.status = "paid" =>
                        balance = 0 /\ row.overpaid_amount = IF excess > 0 THEN excess ELSE Null
                  /\ row.status \notin Terminal => balance > 0 /\ row.overpaid_amount = Null
<1>. DEFINE owed == total_owed(row)
            excess == paid - owed
            remaining == owed - paid
            balance == IF remaining > 0 THEN remaining ELSE 0
<1>1. owed \in Nat
    BY OwedTyped
<1>2. /\ paid >= owed <=> balance = 0
      /\ paid < owed <=> balance > 0
      /\ paid > owed <=> excess > 0
  <2>. HIDE DEF owed
  <2>. QED
      BY <1>1
<1>. QED
    BY <1>2 DEF Tells

\* The invariant, in the state and in the next one, row by row.
LEMMA StatusTells ==
    ASSUME TypeOK
    PROVE  StatusMatchesLedger <=> \A r \in Records : Tells(records[r], CumulativePaid(r))
<1>1. ASSUME NEW r \in Records
      PROVE  Tells(records[r], CumulativePaid(r)) <=>
                LET excess == CumulativePaid(r) - total_owed(records[r]) IN
                /\ records[r].status = "paid" =>
                      /\ RemainingBalance(r) = 0
                      /\ records[r].overpaid_amount = IF excess > 0 THEN excess ELSE Null
                /\ records[r].status \notin Terminal =>
                      RemainingBalance(r) > 0 /\ records[r].overpaid_amount = Null
  <2>1. records[r] \in BillingRecord /\ CumulativePaid(r) \in Nat
      BY PaidTyped DEF TypeOK
  <2>. QED
      BY <2>1, RowTells DEF RemainingBalance
<1>. QED
    BY <1>1 DEF StatusMatchesLedger

LEMMA StatusTellsNext ==
    ASSUME TypeOK'
    PROVE  StatusMatchesLedger' <=> \A r \in Records : Tells(records'[r], CumulativePaid(r)')
<1>1. (StatusMatchesLedger <=> \A r \in Records : Tells(records[r], CumulativePaid(r)))'
    BY StatusTells, PTL
<1>. QED
    BY <1>1 DEF Tells, total_owed

\* A payment that is applied to a row that told the truth leaves one that does.
LEMMA PaymentTells ==
    ASSUME NEW row \in BillingRecord, NEW old \in Nat, NEW paid \in Nat, old <= paid, Tells(row, old)
    PROVE  Tells(apply_payment(row, paid), paid)
<1>. DEFINE status == TargetStatus(row, paid)
            owed == total_owed(row)
            excess == paid - owed
            credit == IF status # "paid" THEN row.overpaid_amount ELSE IF excess > 0 THEN excess ELSE Null
            new == apply_payment(row, paid)
<1>1. owed \in Nat
    BY OwedTyped
<1>2. /\ new.status = status /\ new.overpaid_amount = credit
      /\ new.late_fee_amount_charged = row.late_fee_amount_charged
  <2>1. new = [row EXCEPT !.status = status, !.overpaid_amount = credit]
      BY DEF apply_payment
  <2>. HIDE DEF new, status, credit
  <2>. QED
      BY <2>1 DEF BillingRecord
<1>3. total_owed(new) = owed
    BY <1>2 DEF total_owed
<1>4. /\ status = "paid" => paid >= owed
      /\ status \notin Terminal => status = "partially_paid" /\ row.status \notin Terminal /\ paid < owed
  <2>1. row.status = "paid" => old >= owed
      BY DEF Tells
  <2>2. status = IF row.status \in Terminal THEN row.status ELSE IF paid >= owed THEN "paid" ELSE "partially_paid"
      BY DEF TargetStatus
  <2>. HIDE DEF status, owed
  <2>. QED
      BY <1>1, <2>1, <2>2 DEF Terminal
<1>5. row.status \notin Terminal => row.overpaid_amount = Null
    BY DEF Tells
<1>6. excess > 0 <=> paid > owed
  <2>. HIDE DEF owed
  <2>. QED
      BY <1>1
<1>7. status = "paid" => credit = IF paid > owed THEN paid - owed ELSE Null
    BY <1>6
<1>8. status \notin Terminal => credit = Null
    BY <1>4, <1>5
<1>. HIDE DEF new, status, credit, owed
<1>9. Tells(new, paid)
    BY <1>2, <1>3, <1>4, <1>7, <1>8 DEF Tells
<1>. QED
    BY <1>9 DEF new

\* So does the fee of a record that becomes overdue: more is owed then.
LEMMA OverdueTells ==
    ASSUME NEW row \in BillingRecord, row.late_fee_applied <=> row.late_fee_amount_charged # Null,
           row.status \notin Terminal, NEW paid \in Nat, Tells(row, paid)
    PROVE  Tells(MarkOverdue(row), paid)
<1>. DEFINE new == MarkOverdue(row)
            fee == IF row.late_fee_applied THEN row.late_fee_amount_charged ELSE LeaseFee
<1>1. /\ new.status = "overdue" /\ new.overpaid_amount = row.overpaid_amount
      /\ new.late_fee_amount_charged = fee
    BY DEF MarkOverdue, BillingRecord
<1>2. total_owed(row) \in Nat /\ paid < total_owed(row) /\ row.overpaid_amount = Null
    BY OwedTyped DEF Tells
<1>3. total_owed(new) \in Nat /\ total_owed(row) <= total_owed(new)
  <2>1. CASE row.late_fee_applied
    <3>1. total_owed(new) = total_owed(row)
        BY <1>1, <2>1 DEF total_owed
    <3>. QED
        BY <1>2, <3>1
  <2>2. CASE ~row.late_fee_applied
    <3>1. row.late_fee_amount_charged = Null /\ fee = LeaseFee /\ LeaseFee # Null
        BY <2>2, MoneyAssumption DEF Null
    <3>2. total_owed(row) = AmountDue + 0 /\ total_owed(new) = AmountDue + LeaseFee
        BY <1>1, <3>1 DEF total_owed
    <3>. QED
        BY <3>2, MoneyAssumption
  <2>. QED
      BY <2>1, <2>2
<1>. HIDE DEF new, fee
<1>4. Tells(new, paid)
    BY <1>1, <1>2, <1>3 DEF Tells, Terminal
<1>. QED
    BY <1>4 DEF new

LEMMA StepsOrdinary ==
    ASSUME NothingRevised, IInv, NEW c \in Clients, SessionOrdinary(tx[c]),
           PaymentRequest(c) \/ RecordRequest(c) \/ Rollback(c)
    PROVE  SessionOrdinary(tx'[c])
<1>a. tx \in [Clients -> Session] /\ tx[c] \in Session
    BY DEF IInv, TypeOK
<1>1. ASSUME NEW r \in Records \cup {NoRecord}, NEW amount \in Amounts, NEW status \in SentStatuses,
             LoadForCreate(c, r, amount, status)
      PROVE  SessionOrdinary(tx'[c])
  <2>1. tx'[c].payment = NoPayment /\ tx'[c].insert.billing_record_id = r /\ tx'[c].record = r
      BY <1>1, <1>a DEF LoadForCreate, InsertSession, PaymentRow
  <2>. QED
      BY <2>1 DEF SessionOrdinary
<1>2. ASSUME NEW cumulative_paid \in 0..MaxSum, ApplyPayment(c, cumulative_paid)
      PROVE  SessionOrdinary(tx'[c])
  <2>. DEFINE new == apply_payment(tx[c].seen, cumulative_paid)
  <2>1. tx'[c] = [tx[c] EXCEPT !.step = "ready", !.new = new] /\ tx[c].step = "loaded"
      BY <1>2, <1>a DEF ApplyPayment
  <2>. HIDE DEF new
  <2>2. tx'[c].payment = tx[c].payment /\ tx'[c].insert = tx[c].insert /\ tx'[c].record = tx[c].record
      BY <1>a, <2>1 DEF Session
  <2>3. tx[c].insert.billing_record_id = tx[c].record
      BY <2>1 DEF SessionOrdinary
  <2>. QED
      BY <2>2, <2>3 DEF SessionOrdinary
<1>3. ASSUME NEW r \in Records, NEW as_of \in AsOfDates, LoadForEvaluate(c, r, as_of)
      PROVE  SessionOrdinary(tx'[c])
    BY <1>3, <1>a DEF LoadForEvaluate, RecordSession, SessionOrdinary, NoRow, EmptyRow, Terminal
<1>4. ASSUME NEW r \in Records, LoadForWriteOff(c, r)
      PROVE  SessionOrdinary(tx'[c])
    BY <1>4, <1>a DEF LoadForWriteOff, RecordSession, SessionOrdinary, NoRow, EmptyRow, IInv, TypeOK, BillingRecord
<1>5. ASSUME Rollback(c) PROVE SessionOrdinary(tx'[c])
    BY <1>5, <1>a DEF Rollback, IdleSession, SessionOrdinary, NoRow, EmptyRow
<1>. QED
    BY <1>1, <1>2, <1>3, <1>4, <1>5
    DEF NothingRevised, PaymentRequest, RecordRequest, LoadForUpdate, LoadForCorrection, LoadForDelete,
        LoadForFeeCorrection, Free

\* The commit of such a session leaves every record with a status that tells the truth.
LEMMA CommitTells ==
    ASSUME IInv, SerialSound, Reconciled, NEW c \in Clients, SessionOrdinary(tx[c]),
           NEW id \in Payments, Commit(c, id), NEW r \in Records, Tells(records[r], CumulativePaid(r))
    PROVE  Tells(records'[r], CumulativePaid(r)')
<1>. DEFINE s == tx[c]
            old == CumulativePaid(r)
            now == CumulativePaid(r)'
<1>1. /\ s.payment = NoPayment /\ s.step = "ready" /\ SessionCurrent(s) /\ SessionReconciles(s)
      /\ r # NoRecord /\ records[r] \in BillingRecord
      /\ records[r].late_fee_applied <=> records[r].late_fee_amount_charged # Null
    BY BoundAssumption DEF SessionOrdinary, Commit, SerialSound, Reconciled, IInv, TypeOK, LateFeeConsistency
<1>2. old \in Nat /\ now \in Nat /\ old <= now
    BY <1>1, CommitAdds
<1>3. now = VisiblePaid(r, s.insert)
    BY <1>1, CommitPays
<1>4. s.insert.billing_record_id # r => now = old
  <2>1. s.insert.billing_record_id # r => now = old + 0
      BY <1>3 DEF VisiblePaid, Counts
  <2>. QED
      BY <1>2, <2>1
<1>5. IF r = s.record
      THEN /\ records'[r].status = s.new.status
           /\ records'[r].late_fee_amount_charged = s.new.late_fee_amount_charged
           /\ records'[r].overpaid_amount = s.new.overpaid_amount
      ELSE records'[r] = records[r]
    BY <1>1, CommitWrites
<1>6. CASE r # s.record
  <2>1. s.insert.billing_record_id # r
      BY <1>1, <1>6 DEF SessionOrdinary
  <2>. QED
      BY <1>4, <1>5, <1>6, <2>1
<1>7. CASE r = s.record
  <2>1. s.seen = records[r]
      BY <1>1, <1>7 DEF SessionCurrent
  <2>2. Tells(s.new, now) \/ s.new.status = "written_off"
    <3>1. CASE s.insert.billing_record_id = s.record
      <4>1. s.new = apply_payment(records[r], now)
          BY <1>1, <1>3, <1>7, <2>1, <3>1 DEF SessionReconciles
      <4>. HIDE DEF now, old, s
      <4>2. Tells(records[r], old)
          BY DEF old
      <4>. QED
          BY <1>1, <1>2, <4>1, <4>2, PaymentTells
    <3>2. CASE s.insert.billing_record_id = NoRecord /\ s.seen.status \notin Terminal /\ s.new = MarkOverdue(s.seen)
      <4>1. now = old
          BY <1>1, <1>4, <3>2
      <4>2. Tells(MarkOverdue(records[r]), old)
          BY <1>1, <1>2, <2>1, <3>2, OverdueTells
      <4>. QED
          BY <2>1, <3>2, <4>1, <4>2
    <3>. QED
        BY <3>1, <3>2 DEF SessionOrdinary
  <2>. HIDE DEF now, s
  <2>3. Tells(records'[r], now)
      BY <1>5, <1>7, <2>2 DEF Tells, total_owed, Terminal
  <2>. QED
      BY <2>3 DEF now
<1>. QED
    BY <1>6, <1>7

LEMMA TruthfulInit == Init => Truthful
<1>1. SUFFICES ASSUME Init PROVE Truthful
    OBVIOUS
<1>2. \A c \in Clients : SessionOrdinary(tx[c])
    BY <1>1 DEF Init, SessionOrdinary, IdleSession, NoRow, EmptyRow
<1>3. ASSUME NEW r \in Records PROVE Tells(records[r], CumulativePaid(r))
  <2>1. Paying(payments, r) = {}
      BY <1>1 DEF Init, Paying, Counts, NoRow, EmptyRow, PaymentStatus
  <2>2. CumulativePaid(r) = 0
    <3>1. Unfolds(payments, {})
        BY FoldEquation, FS_EmptySet
    <3>2. Sum(payments, {}) = 0
        BY <3>1, SumIsFold DEF Unfolds
    <3>. QED
        BY <2>1, <3>2, PaidIsSum
  <2>3. total_owed(NewRecord) = AmountDue + 0 /\ records[r] = NewRecord
      BY <1>1 DEF Init, total_owed, NewRecord
  <2>4. 0 < total_owed(NewRecord)
      BY <2>3, MoneyAssumption
  <2>. QED
      BY <2>2, <2>3, <2>4 DEF Tells, NewRecord, Terminal
<1>4. TypeOK
    BY <1>1, IInvInit DEF IInv
<1>. QED
    BY <1>2, <1>3, <1>4, StatusTells DEF Truthful

LEMMA TruthfulNext ==
    ASSUME OneAtATime, NothingRevised, IInv, SerialSound, Reconciled, Truthful, [Next]_vars
    PROVE  Truthful'
<1>a. tx \in [Clients -> Session] /\ TypeOK'
    BY IInvNext DEF IInv, TypeOK
<1>b. \A r \in Records : Tells(records[r], CumulativePaid(r))
    BY StatusTells DEF IInv, Truthful
<1>1. ASSUME NEW c \in Clients, PaymentRequest(c) \/ RecordRequest(c) \/ Rollback(c)
      PROVE  Truthful'
  <2>1. UNCHANGED <<records, payments>>
      BY <1>1, StepsOpen DEF IInv, Opens
  <2>2. SessionOrdinary(tx'[c])
      BY <1>1, StepsOrdinary DEF Truthful
  <2>3. ASSUME NEW d \in Clients PROVE SessionOrdinary(tx[d])'
    <3>1. d = c
        BY DEF OneAtATime
    <3>. QED
        BY <2>2, <3>1 DEF SessionOrdinary, MarkOverdue
  <2>4. \A r \in Records : Tells(records'[r], CumulativePaid(r)')
      BY <1>b, <2>1, PaidKept
  <2>. QED
      BY <1>a, <2>3, <2>4, StatusTellsNext DEF Truthful
<1>2. ASSUME NEW c \in Clients, NEW id \in Payments, Commit(c, id)
      PROVE  Truthful'
  <2>1. ASSUME NEW d \in Clients PROVE SessionOrdinary(tx[d])'
    <3>1. tx'[d] = IdleSession
        BY <1>2, <1>a DEF Commit, OneAtATime
    <3>. QED
        BY <3>1 DEF SessionOrdinary, IdleSession, NoRow, EmptyRow
  <2>2. \A r \in Records : Tells(records'[r], CumulativePaid(r)')
      BY <1>2, <1>b, CommitTells DEF Truthful
  <2>. QED
      BY <1>a, <2>1, <2>2, StatusTellsNext DEF Truthful
<1>3. CASE UNCHANGED vars
  <2>1. ASSUME NEW d \in Clients PROVE SessionOrdinary(tx[d])'
      BY <1>3 DEF vars, Truthful, SessionOrdinary, MarkOverdue
  <2>2. \A r \in Records : Tells(records'[r], CumulativePaid(r)')
      BY <1>3, <1>b, PaidKept DEF vars
  <2>. QED
      BY <1>a, <2>1, <2>2, StatusTellsNext DEF Truthful
<1>. QED
    BY <1>1, <1>2, <1>3 DEF Next

-----------------------------------------------------------------------------
(* Theorems *)

\* The tables and the sessions always hold values of their types.
THEOREM TypeCorrect == Spec => []TypeOK
<1>1. IInv => TypeOK
    BY DEF IInv
<1>. QED
    BY IInvInit, IInvNext, <1>1, PTL DEF Spec

\* A CHECK constraint refuses a request only if another request changed the fee after this
\* one read the record or the fee rounds to zero, for any number of overlapping requests.
THEOREM RefusalsHaveACause == Spec => []RefusedOnlyIfOvertaken
<1>1. Init => PlansStatable
    BY IdleStatable DEF Init, PlansStatable
<1>2. IInv /\ PlansStatable => RefusedOnlyIfOvertaken
    BY StatableIsAdmitted
<1>. QED
    BY IInvInit, IInvNext, StatableNext, <1>1, <1>2, PTL DEF Spec

\* A payment that a correction refers to is never lost, for any overlap of requests.
THEOREM CorrectedPaymentsKept == Spec => []CorrectionTargetKept
<1>1. IInv => CorrectionTargetKept
    BY DEF IInv
<1>. QED
    BY IInvInit, IInvNext, <1>1, PTL DEF Spec

\* A credit never sits on a record that no payment has reached.
THEOREM CreditsFollowPayments == Spec => []CreditOnlyAfterPayment
<1>1. IInv => CreditOnlyAfterPayment
    BY DEF IInv
<1>. QED
    BY IInvInit, IInvNext, <1>1, PTL DEF Spec

\* No overlap of requests writes a record off straight from pending.
THEOREM PendingNeverWrittenOff == Spec => NoPendingWriteOff
<1>. DEFINE Keeps == \A r \in Records :
                records[r].status = "pending" => records'[r].status # "written_off"
<1>1. ASSUME IInv, [Next]_vars
      PROVE  [Keeps]_vars
  <2>1. ASSUME NEW c \in Clients, PaymentRequest(c) \/ RecordRequest(c) \/ Rollback(c)
        PROVE  Keeps
    <3>1. UNCHANGED records
        BY <1>1, <2>1, StepsOpen DEF IInv, Opens
    <3>. QED
        BY <3>1
  <2>2. ASSUME NEW c \in Clients, NEW id \in Payments, Commit(c, id)
        PROVE  Keeps
      BY <1>1, <2>2, FlushedRecord DEF Commit
  <2>. QED
      BY <1>1, <2>1, <2>2 DEF Next
<1>. QED
    BY IInvInit, IInvNext, <1>1, PTL DEF Spec, NoPendingWriteOff

\* While requests do not overlap, void_and_correct_payment corrects a payment at most once,
\* through any history of edits, deletions and corrections and for any number of payments.
THEOREM CorrectionsStaySingle ==
    ASSUME OneAtATime
    PROVE  Spec => []OneCorrectionPerPayment
<1>1. SerialSound => OneCorrectionPerPayment
  <2>1. SUFFICES ASSUME SerialSound, NEW p \in Payments
                 PROVE  Cardinality({q \in Payments : payments[q].corrects_payment_id = p}) <= 1
      BY DEF OneCorrectionPerPayment
  <2>. DEFINE Corrections == {q \in Payments : payments[q].corrects_payment_id = p}
  <2>2. p # NoPayment
      BY BoundAssumption
  <2>3. Corrections = {} \/ \E q \in Payments : Corrections = {q}
      BY <2>1, <2>2 DEF SerialSound, CorrectedOnce
  <2>. HIDE DEF Corrections
  <2>4. Cardinality(Corrections) <= 1
      BY <2>3, FS_EmptySet, FS_Singleton
  <2>. QED
      BY <2>4 DEF Corrections
<1>2. IInv /\ SerialSound /\ [Next]_vars => SerialSound'
    BY SerialNext
<1>. QED
    BY IInvInit, IInvNext, SerialInit, <1>1, <1>2, PTL DEF Spec

\* While requests do not overlap, the ledger implements BillingLifecycle: the transition
\* table of LeaseBillingService is obeyed, a settled record is final, and credits sit on
\* paid records only.
THEOREM LedgerImplementsLifecycle ==
    ASSUME OneAtATime
    PROVE  Spec => ImplementsLifecycle
<1>1. IInv /\ SerialSound /\ [Next]_vars => SerialSound'
    BY SerialNext
<1>2. IInv /\ SerialSound /\ [Next]_vars => [Lifecycle!LifecycleNext]_(Lifecycle!lifecycleVars)
    BY SerialStepsLifecycle
<1>. QED
    BY IInvInit, IInvNext, SerialInit, LifecycleStarts, <1>1, <1>2, PTL
    DEF Spec, ImplementsLifecycle, Lifecycle!LifecycleSpec

\* While payments are only made, whatever requests overlap, a record that shows paid has
\* received at least the rent and a credit is backed by money received beyond the rent: for
\* any number of clients, records and payments, and any amounts.
THEOREM MoneyStaysBacked == WorkloadSpec => []GrowingMoneyBacked
<1>. DEFINE Backs == IInv /\ (workload = "growing" => GrowingSound)
            Step == /\ Next /\ UNCHANGED workload
                    /\ workload = "any" => Cardinality({p \in Payments : payments'[p] # NoRow}) <= FewPayments
                    /\ workload = "growing" => \A c \in Clients : tx'[c].payment = NoPayment
<1>1. WorkloadInit => Backs
    BY IInvInit, GrowingInit DEF WorkloadInit
<1>2. Backs /\ [Step]_<<vars, workload>> => Backs'
  <2>1. SUFFICES ASSUME Backs, [Step]_<<vars, workload>> PROVE Backs'
      OBVIOUS
  <2>2. [Next]_vars /\ UNCHANGED workload
      BY <2>1
  <2>3. IInv'
      BY <2>1, <2>2, IInvNext
  <2>4. ASSUME workload = "growing" PROVE GrowingSound'
    <3>1. IInv /\ GrowingSound
        BY <2>1, <2>4
    <3>2. \A c \in Clients : tx'[c].payment = NoPayment
      <4>1. CASE Step
          BY <2>4, <4>1
      <4>2. CASE UNCHANGED <<vars, workload>>
          BY <3>1, <4>2 DEF vars, GrowingSound
      <4>. QED
          BY <2>1, <4>1, <4>2
    <3>. QED
        BY <2>2, <3>1, <3>2, GrowingNext
  <2>. QED
      BY <2>2, <2>3, <2>4
<1>3. Backs => GrowingMoneyBacked
    BY DEF GrowingSound, GrowingMoneyBacked
<1>. QED
    BY <1>1, <1>2, <1>3, PTL DEF WorkloadSpec

\* While requests do not overlap, a new payment settles an unsettled record exactly when the
\* payments that stand cover what is owed then, after any history of edits, voids, deletions
\* and fee corrections.
THEOREM PaymentsReconcile ==
    ASSUME OneAtATime
    PROVE  Spec => PaymentReconciles
<1>. DEFINE Settles == \A p \in Payments, r \in Records :
                /\ payments[p].status = "NONE"
                /\ payments'[p].billing_record_id = r
                /\ records[r].status \notin Terminal
                => /\ records'[r].status = "paid" <=> CumulativePaid(r)' >= total_owed(records[r])'
                   /\ records'[r].status \in {"paid", "partially_paid"}
<1>1. IInv /\ SerialSound /\ [Next]_vars => SerialSound'
    BY SerialNext
<1>2. IInv /\ SerialSound /\ Reconciled /\ [Next]_vars => Reconciled'
    BY ReconciledNext
<1>3. IInv /\ SerialSound /\ Reconciled /\ [Next]_vars => [Settles]_vars
  <2>1. SUFFICES ASSUME IInv, SerialSound, Reconciled, [Next]_vars, NEW p \in Payments, NEW r \in Records,
                        ~UNCHANGED vars, payments[p].status = "NONE", payments'[p].billing_record_id = r,
                        records[r].status \notin Terminal
                 PROVE  /\ records'[r].status = "paid" <=> CumulativePaid(r)' >= total_owed(records[r])'
                        /\ records'[r].status \in {"paid", "partially_paid"}
      OBVIOUS
  <2>2. ASSUME NEW c \in Clients, PaymentRequest(c) \/ RecordRequest(c) \/ Rollback(c)
        PROVE  FALSE
    <3>1. UNCHANGED payments
        BY <2>1, <2>2, StepsOpen DEF IInv, Opens
    <3>. QED
        BY <2>1, <3>1, BoundAssumption DEF Reconciled, UnusedUnlinked
  <2>3. PICK c \in Clients, id \in Payments : Commit(c, id)
      BY <2>1, <2>2 DEF Next
  <2>. QED
      BY <2>1, <2>3, CommitReconciles
<1>. QED
    BY IInvInit, IInvNext, SerialInit, ReconciledInit, <1>1, <1>2, <1>3, PTL DEF Spec, PaymentReconciles

\* What overlapping payments break (split_payment) holds without overlap: while payments are
\* only made and records only become overdue or are written off, a paid record has nothing
\* left to pay and its credit is the excess, and an unsettled one has something left to pay.
THEOREM StatusTellsTruth ==
    ASSUME OneAtATime, NothingRevised
    PROVE  Spec => []StatusMatchesLedger
<1>1. IInv /\ SerialSound /\ [Next]_vars => SerialSound'
    BY SerialNext
<1>2. IInv /\ SerialSound /\ Reconciled /\ [Next]_vars => Reconciled'
    BY ReconciledNext
<1>3. IInv /\ SerialSound /\ Reconciled /\ Truthful /\ [Next]_vars => Truthful'
    BY TruthfulNext
<1>4. Truthful => StatusMatchesLedger
    BY DEF Truthful
<1>. QED
    BY IInvInit, IInvNext, SerialInit, ReconciledInit, TruthfulInit, <1>1, <1>2, <1>3, <1>4, PTL DEF Spec
=============================================================================
