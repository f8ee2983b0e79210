---------------------------- MODULE BillingLedger ----------------------------
(***************************************************************************)
(* The money side of the billing engine: billing records, the payments     *)
(* linked to them, and the requests of LeaseBillingService and             *)
(* PaymentService that change either table.                                *)
(*                                                                         *)
(* A request runs in a database session of its own at READ COMMITTED and   *)
(* takes no row lock when it reads, so it is split where another request   *)
(* can run:                                                                *)
(*                                                                         *)
(*   load    it reads the rows it works on, passes the checks made on them *)
(*           and changes the objects in memory;                            *)
(*   apply   (create_payment only) it sums the payments of the record and  *)
(*           changes the record it loaded earlier;                         *)
(*   commit  the unit of work writes the columns whose value differs from  *)
(*           the value that was loaded, and the transaction commits.       *)
(*                                                                         *)
(* A request that a check rejects changes nothing and is not a step.       *)
(* NULL in a numeric column is Null.                                       *)
(***************************************************************************)
EXTENDS Integers, FiniteSets, FiniteSetsExt

CONSTANTS
    Clients,      \* requests that can be open at the same time
    Records,      \* billing records, generated by BillingPeriods
    NoRecord,     \* "no billing_record_id"
    Payments,     \* ids of the payments that can be inserted (a bound)
    NoPayment,    \* "no corrects_payment_id"
    Amounts,      \* amounts a caller can send
    SentStatuses, \* payment statuses a caller can send
    AmountDue,    \* amount_due of every record
    LeaseFee,     \* the fee computed from the lease; 0 when a percentage rounds to 0.00
    FeeAmounts,   \* late-fee amounts a caller can send
    Cutoff,       \* due_date + grace_period_days of every record
    AsOfDates,    \* dates a caller can evaluate a record as of
    MaxSum,       \* bound on the money linked to one record
    Operations    \* the requests a run uses

OperationNames ==
    {"create_payment", "update_payment", "void_and_correct_payment", "delete_payment",
     "evaluate_overdue", "write_off_billing_record", "correct_late_fee"}

ASSUME BoundAssumption ==
    /\ NoRecord \notin Records
    /\ NoPayment \notin Payments
    /\ IsFiniteSet(Payments)
    /\ MaxSum \in Nat
    /\ Operations \subseteq OperationNames
    /\ SentStatuses \subseteq {"PAID", "PENDING", "VOIDED", "REFUNDED"}

ASSUME MoneyAssumption ==
    /\ Amounts \subseteq Nat \ {0}
    /\ AmountDue \in Nat \ {0}
    /\ LeaseFee \in Nat
    /\ FeeAmounts \subseteq Nat \ {0}

ASSUME DateAssumption == Cutoff \in Nat /\ AsOfDates \subseteq Nat

VARIABLES
    records,      \* the billing_records table
    payments,     \* the payments table
    tx            \* the session of each client

vars == <<records, payments, tx>>

-----------------------------------------------------------------------------
(* Rows *)

Null == -1

BillingRecordStatus == {"pending", "partially_paid", "paid", "overdue", "written_off"}
Terminal == {"paid", "written_off"}

\* A late-fee or credit column: NULL or a positive amount.
Money == {Null} \cup (Nat \ {0})

BillingRecord ==
    [status: BillingRecordStatus, late_fee_applied: BOOLEAN,
     late_fee_amount_charged: Money, overpaid_amount: Money]

NewRecord ==
    [status |-> "pending", late_fee_applied |-> FALSE,
     late_fee_amount_charged |-> Null, overpaid_amount |-> Null]

PaymentStatus == {"PAID", "PENDING", "VOIDED", "REFUNDED"}

\* NONE: the id is not used yet.  DELETED: the row is gone; ids are never reused.
Payment ==
    [status: PaymentStatus \cup {"NONE", "DELETED"}, amount: Nat,
     billing_record_id: Records \cup {NoRecord},
     corrects_payment_id: Payments \cup {NoPayment}]

EmptyRow(status) ==
    [status |-> status, amount |-> 0,
     billing_record_id |-> NoRecord, corrects_payment_id |-> NoPayment]

NoRow == EmptyRow("NONE")
DeletedRow == EmptyRow("DELETED")

PaymentRow(status, amount, record, corrected) ==
    [status |-> status, amount |-> amount,
     billing_record_id |-> record, corrects_payment_id |-> corrected]

Exists(p) == payments[p].status \in PaymentStatus

-----------------------------------------------------------------------------
(* The state machine of a record *)

\* Bug: a pending record can be written off.
ValidTransitionsBug ==
    [s \in BillingRecordStatus |->
        CASE s = "pending"        -> {"overdue", "partially_paid", "paid", "written_off"}
          [] s = "partially_paid" -> {"paid", "overdue", "written_off"}
          [] s = "overdue"        -> {"partially_paid", "paid", "written_off"}
          [] OTHER                -> {}]

ValidTransitions ==
    [s \in BillingRecordStatus |->
        CASE s = "pending"        -> {"overdue", "partially_paid", "paid"}
          [] s = "partially_paid" -> {"paid", "overdue", "written_off"}
          [] s = "overdue"        -> {"partially_paid", "paid", "written_off"}
          [] OTHER                -> {}]

CanTransition(row, status) == status \in ValidTransitions[row.status]

\* What is owed on a record: the rent and the late fee, if one is charged.
total_owed(row) ==
    AmountDue + (IF row.late_fee_amount_charged = Null THEN 0
                 ELSE row.late_fee_amount_charged)

TargetStatus(row, cumulative_paid) ==
    IF row.status \in Terminal THEN row.status
    ELSE IF cumulative_paid >= total_owed(row) THEN "paid"
    ELSE "partially_paid"

\* Bug: paying exactly what is owed records a credit of nothing.
apply_payment_zero(row, cumulative_paid) ==
    LET status == TargetStatus(row, cumulative_paid)
        excess == cumulative_paid - total_owed(row)
    IN  [row EXCEPT
            !.status = status,
            !.overpaid_amount = IF status # "paid" THEN @
                                ELSE IF excess >= 0 THEN excess ELSE Null]

apply_payment(row, cumulative_paid) ==
    LET status == TargetStatus(row, cumulative_paid)
        excess == cumulative_paid - total_owed(row)
    IN  [row EXCEPT
            !.status = status,
            !.overpaid_amount = IF status # "paid" THEN @
                                ELSE IF excess > 0 THEN excess ELSE Null]

\* The fee is charged once: a record that already carries one keeps it.
MarkOverdue(row) ==
    IF row.late_fee_applied
    THEN [row EXCEPT !.status = "overdue"]
    ELSE [row EXCEPT !.status = "overdue", !.late_fee_applied = TRUE,
                     !.late_fee_amount_charged = LeaseFee]

\* Bug: taking the fee back also takes the status back.
CorrectFeeReopening(row, fee) ==
    [row EXCEPT !.late_fee_applied = (fee # Null), !.late_fee_amount_charged = fee,
                !.status = IF fee = Null THEN "pending" ELSE @]

\* The payload states a complete position: a fee with its amount, or none.
CorrectFee(row, fee) ==
    [row EXCEPT !.late_fee_applied = (fee # Null), !.late_fee_amount_charged = fee]

Counts(row, r) ==
    row.billing_record_id = r /\ row.status \in PaymentStatus \ {"VOIDED"}

\* The sum over the payments of r that are not voided.  PENDING and REFUNDED count.
CumulativePaid(r) ==
    MapThenSumSet(LAMBDA p : payments[p].amount, {p \in Payments : Counts(payments[p], r)})

\* Bug: the payment that was just inserted is not in the sum.
VisiblePaidCommitted(r, inserted) == CumulativePaid(r)

\* Bug: the payment that was just inserted is in the sum and added to it again.
VisiblePaidTwice(r, inserted) ==
    CumulativePaid(r) + (IF Counts(inserted, r) THEN 2 * inserted.amount ELSE 0)

\* The sum a request sees: the committed payments and the one it has just inserted.
VisiblePaid(r, inserted) ==
    CumulativePaid(r) + (IF Counts(inserted, r) THEN inserted.amount ELSE 0)

RemainingBalance(r) ==
    LET remaining == total_owed(records[r]) - CumulativePaid(r)
    IN  IF remaining > 0 THEN remaining ELSE 0
-----------------------------------------------------------------------------
(* Sessions *)

\* A column is written only if the object in memory differs from what was loaded.
Written(current, seen, new) == IF new # seen THEN new ELSE current

FlushRecord(current, seen, new) ==
    [status |-> Written(current.status, seen.status, new.status),
     late_fee_applied |->
        Written(current.late_fee_applied, seen.late_fee_applied, new.late_fee_applied),
     late_fee_amount_charged |->
        Written(current.late_fee_amount_charged, seen.late_fee_amount_charged,
                new.late_fee_amount_charged),
     overpaid_amount |->
        Written(current.overpaid_amount, seen.overpaid_amount, new.overpaid_amount)]

FlushPayment(current, seen, new) ==
    [status |-> Written(current.status, seen.status, new.status),
     amount |-> Written(current.amount, seen.amount, new.amount),
     billing_record_id |->
        Written(current.billing_record_id, seen.billing_record_id, new.billing_record_id),
     corrects_payment_id |->
        Written(current.corrects_payment_id, seen.corrects_payment_id,
                new.corrects_payment_id)]

\* The CHECK constraints of billing_records.
CheckConstraints(row) ==
    /\ row.late_fee_amount_charged # Null => row.late_fee_amount_charged > 0
    /\ row.overpaid_amount # Null => row.overpaid_amount > 0
    /\ row.late_fee_applied <=> row.late_fee_amount_charged # Null

\* A session: the record and the payment it loaded (seen), what they are now in
\* memory (new), and the payment it inserts (insert.status = "NONE": none).
Session ==
    [step: {"idle", "loaded", "ready"},
     record: Records \cup {NoRecord},
     seen: BillingRecord,
     new: [status: BillingRecordStatus, late_fee_applied: BOOLEAN,
           late_fee_amount_charged: Int, overpaid_amount: Int],
     payment: Payments \cup {NoPayment},
     paymentSeen: Payment, paymentNew: Payment,
     insert: Payment]

IdleSession ==
    [step |-> "idle", record |-> NoRecord, seen |-> NewRecord, new |-> NewRecord,
     payment |-> NoPayment, paymentSeen |-> NoRow, paymentNew |-> NoRow,
     insert |-> NoRow]

Free(c, operation) == tx[c].step = "idle" /\ operation \in Operations

\* A request that only changes the record r it has loaded.
RecordSession(r, new) ==
    [step |-> "ready", record |-> r, seen |-> records[r], new |-> new,
     payment |-> NoPayment, paymentSeen |-> NoRow, paymentNew |-> NoRow,
     insert |-> NoRow]

\* A request that changes the payment p it has loaded and may insert another.
PaymentSession(p, new, insert) ==
    [step |-> "ready", record |-> NoRecord, seen |-> NewRecord, new |-> NewRecord,
     payment |-> p, paymentSeen |-> payments[p], paymentNew |-> new,
     insert |-> insert]

\* A request that inserts a payment, linked to the record r or to none.
InsertSession(step, r, row, insert) ==
    [step |-> step, record |-> r, seen |-> row, new |-> row,
     payment |-> NoPayment, paymentSeen |-> NoRow, paymentNew |-> NoRow,
     insert |-> insert]

-----------------------------------------------------------------------------
(* PaymentService *)

\* create_payment up to the INSERT; without a billing record nothing is left to apply.
LoadForCreate(c, r, amount, status) ==
    /\ Free(c, "create_payment")
    /\ LET insert == PaymentRow(status, amount, r, NoPayment) IN
       tx' = [tx EXCEPT ![c] =
                IF r = NoRecord
                THEN InsertSession("ready", NoRecord, NewRecord, insert)
                ELSE InsertSession("loaded", r, records[r], insert)]
    /\ UNCHANGED <<records, payments>>

\* _apply_payment_to_billing_record: the sum is read now, the record was read before.
ApplyPayment(c, cumulative_paid) ==
    /\ tx[c].step = "loaded"
    /\ cumulative_paid = VisiblePaid(tx[c].record, tx[c].insert)
    /\ tx' = [tx EXCEPT ![c].step = "ready",
                        ![c].new = apply_payment(tx[c].seen, cumulative_paid)]
    /\ UNCHANGED <<records, payments>>

\* Bug: a voided payment can be edited, and so come back.
LoadForUpdateVoided(c, p, amount, status) ==
    /\ Free(c, "update_payment")
    /\ Exists(p)
    /\ status # "VOIDED"
    /\ tx' = [tx EXCEPT ![c] =
                PaymentSession(p, [payments[p] EXCEPT !.amount = amount, !.status = status],
                               NoRow)]
    /\ UNCHANGED <<records, payments>>

\* update_payment: any field but the links; VOIDED can be neither left nor entered.
LoadForUpdate(c, p, amount, status) ==
    /\ Free(c, "update_payment")
    /\ Exists(p)
    /\ payments[p].status # "VOIDED"
    /\ status # "VOIDED"
    /\ tx' = [tx EXCEPT ![c] =
                PaymentSession(p, [payments[p] EXCEPT !.amount = amount, !.status = status],
                               NoRow)]
    /\ UNCHANGED <<records, payments>>

\* void_and_correct_payment: the correction carries no billing_record_id.
LoadForCorrection(c, p, amount, status) ==
    /\ Free(c, "void_and_correct_payment")
    /\ Exists(p)
    /\ payments[p].status # "VOIDED"
    /\ status # "VOIDED"
    /\ tx' = [tx EXCEPT ![c] =
                PaymentSession(p, [payments[p] EXCEPT !.status = "VOIDED"],
                               PaymentRow(status, amount, NoRecord, p))]
    /\ UNCHANGED <<records, payments>>

LoadForDelete(c, p) ==
    /\ Free(c, "delete_payment")
    /\ Exists(p)
    /\ tx' = [tx EXCEPT ![c] = PaymentSession(p, DeletedRow, NoRow)]
    /\ UNCHANGED <<records, payments>>

-----------------------------------------------------------------------------
(* LeaseBillingService *)

LoadForEvaluate(c, r, as_of) ==
    /\ Free(c, "evaluate_overdue")
    /\ records[r].status \in {"pending", "partially_paid"}
    /\ as_of > Cutoff
    /\ CanTransition(records[r], "overdue")
    /\ tx' = [tx EXCEPT ![c] = RecordSession(r, MarkOverdue(records[r]))]
    /\ UNCHANGED <<records, payments>>

LoadForWriteOff(c, r) ==
    /\ Free(c, "write_off_billing_record")
    /\ CanTransition(records[r], "written_off")
    /\ tx' = [tx EXCEPT ![c] =
                RecordSession(r, [records[r] EXCEPT !.status = "written_off"])]
    /\ UNCHANGED <<records, payments>>

\* Bug: a settled record's fee can be corrected.
LoadForFeeCorrectionAnytime(c, r, fee) ==
    /\ Free(c, "correct_late_fee")
    /\ tx' = [tx EXCEPT ![c] = RecordSession(r, CorrectFee(records[r], fee))]
    /\ UNCHANGED <<records, payments>>

LoadForFeeCorrection(c, r, fee) ==
    /\ Free(c, "correct_late_fee")
    /\ records[r].status \notin Terminal
    /\ tx' = [tx EXCEPT ![c] = RecordSession(r, CorrectFee(records[r], fee))]
    /\ UNCHANGED <<records, payments>>

-----------------------------------------------------------------------------
(* The end of a request *)

Deletes(s) == s.payment # NoPayment /\ s.paymentNew.status = "DELETED"

\* Bug: corrects_payment_id is not a foreign key.
PaymentWritableUnchecked(s) ==
    s.payment # NoPayment => Deletes(s) \/ Exists(s.payment)

\* The row to UPDATE must still be there, and a row that a correction refers to
\* cannot be deleted (the foreign key of corrects_payment_id).
PaymentWritable(s) ==
    s.payment # NoPayment =>
        IF Deletes(s)
        THEN \A q \in Payments : payments[q].corrects_payment_id # s.payment
        ELSE Exists(s.payment)

\* The UPDATE of the payment row and the INSERT at a fresh id.
PaymentsAfter(s, id) ==
    [p \in Payments |->
        IF p = id /\ s.insert.status # "NONE" THEN s.insert
        ELSE IF p = s.payment THEN FlushPayment(payments[p], s.paymentSeen, s.paymentNew)
        ELSE payments[p]]

RecordsAfter(s) ==
    [r \in Records |->
        IF r = s.record THEN FlushRecord(records[r], s.seen, s.new) ELSE records[r]]

\* flush and db.commit(): all the writes of the session become visible at once.
Commit(c, id) ==
    /\ tx[c].step = "ready"
    /\ PaymentWritable(tx[c])
    /\ tx[c].insert.status # "NONE" => payments[id].status = "NONE"
    /\ \A r \in Records : CheckConstraints(RecordsAfter(tx[c])[r])
    /\ records' = RecordsAfter(tx[c])
    /\ payments' = PaymentsAfter(tx[c], id)
    /\ tx' = [tx EXCEPT ![c] = IdleSession]

\* An exception anywhere before the commit: get_db rolls the session back.
Rollback(c) ==
    /\ tx[c].step # "idle"
    /\ tx' = [tx EXCEPT ![c] = IdleSession]
    /\ UNCHANGED <<records, payments>>

-----------------------------------------------------------------------------

Init ==
    /\ records = [r \in Records |-> NewRecord]
    /\ payments = [p \in Payments |-> NoRow]
    /\ tx = [c \in Clients |-> IdleSession]

PaymentRequest(c) ==
    \/ \E r \in Records \cup {NoRecord}, amount \in Amounts, status \in SentStatuses :
          LoadForCreate(c, r, amount, status)
    \/ \E cumulative_paid \in 0..MaxSum : ApplyPayment(c, cumulative_paid)
    \/ \E p \in Payments, amount \in Amounts, status \in SentStatuses :
          \/ LoadForUpdate(c, p, amount, status)
          \/ LoadForCorrection(c, p, amount, status)
    \/ \E p \in Payments : LoadForDelete(c, p)

RecordRequest(c) ==
    \E r \in Records :
        \/ \E as_of \in AsOfDates : LoadForEvaluate(c, r, as_of)
        \/ LoadForWriteOff(c, r)
        \/ \E fee \in FeeAmounts \cup {Null} : LoadForFeeCorrection(c, r, fee)

Next ==
    \E c \in Clients :
        \/ PaymentRequest(c)
        \/ RecordRequest(c)
        \/ \E id \in Payments : Commit(c, id)
        \/ Rollback(c)

Spec == Init /\ [][Next]_vars

-----------------------------------------------------------------------------
(* Properties *)

\* The tables and the sessions hold values of their types.
TypeOK ==
    /\ records \in [Records -> BillingRecord]
    /\ payments \in [Payments -> Payment]
    /\ tx \in [Clients -> Session]

FeeColumns(row) == <<row.late_fee_applied, row.late_fee_amount_charged>>

\* The CHECK constraints of billing_records refuse a request only for what no check of the
\* services could see: another request changed the fee of the record after this one read
\* it, or the fee that evaluate_overdue computed rounds to zero.  Paying to the exact
\* amount, stating a fee or taking it back is never refused on its own account, whatever
\* else overlaps and whichever columns of the row are stale.
RefusedOnlyIfOvertaken ==
    \A c \in Clients :
        LET s == tx[c] IN
        /\ s.step = "ready" /\ s.record # NoRecord
        /\ FeeColumns(s.seen) = FeeColumns(records[s.record])
        /\ s.new.late_fee_amount_charged # 0
        => CheckConstraints(RecordsAfter(s)[s.record])

\* The payment that a correction replaces stays in the table, whatever deletes and
\* corrections overlap: the append-only history of void_and_correct_payment.
CorrectionTargetKept ==
    \A p \in Payments :
        payments[p].corrects_payment_id # NoPayment => Exists(payments[p].corrects_payment_id)

\* A record is never written off straight from pending (write_off_billing_record),
\* even when the status the request checked is no longer the status it overwrites.
NoPendingWriteOff ==
    [][\A r \in Records :
          records[r].status = "pending" => records'[r].status # "written_off"]_vars

\* A credit is never recorded on a record that no payment has reached: apply_payment
\* writes the credit and the status of two different reads of the row.
CreditOnlyAfterPayment ==
    \A r \in Records :
        records[r].overpaid_amount # Null => records[r].status # "pending"

\* As long as no payment is edited, voided or deleted, a record that shows paid has
\* received at least the rent, whatever payments, overdue evaluations, write-offs and
\* fee corrections overlap.
PaidCoversRent ==
    \A r \in Records :
        records[r].status = "paid" => CumulativePaid(r) >= AmountDue

\* Under the same workload a credit (sum_credits on the dashboard) is never larger
\* than what was really received beyond the rent.
CreditBacked ==
    \A r \in Records :
        records[r].overpaid_amount # Null =>
            records[r].overpaid_amount <= CumulativePaid(r) - AmountDue

\* A new payment settles an unsettled record exactly when the payments that stand
\* cover what is owed at that moment, after any history of edits, voids, deletions
\* and fee corrections (create_payment reconciles the record it is linked to).
PaymentReconciles ==
    [][\A p \in Payments, r \in Records :
          /\ payments[p].status = "NONE"
          /\ payments'[p].billing_record_id = r
          /\ records[r].status \notin Terminal
          => /\ records'[r].status = "paid" <=> CumulativePaid(r)' >= total_owed(records[r])'
             /\ records'[r].status \in {"paid", "partially_paid"}]_vars

\* A payment is corrected at most once (the error of void_and_correct_payment: it "cannot
\* be corrected again").  Without overlapping requests this holds through any sequence of
\* updates, deletions and corrections: the check of void_and_correct_payment needs
\* update_payment never to take VOIDED back.  Two corrections that both read the payment
\* before either commits break it.
OneCorrectionPerPayment ==
    \A p \in Payments :
        Cardinality({q \in Payments : payments[q].corrects_payment_id = p}) <= 1

\* The promise of BillingLifecycle, read off the columns of the records.
Lifecycle ==
    INSTANCE BillingLifecycle WITH
        Amount <- {Null, LeaseFee} \cup FeeAmounts \cup 1..MaxSum,
        status <- [r \in Records |-> records[r].status],
        fee    <- [r \in Records |-> records[r].late_fee_amount_charged],
        credit <- [r \in Records |-> records[r].overpaid_amount]

\* Without overlapping requests the ledger implements BillingLifecycle: the status
\* table is obeyed, a settled record is final and credits sit on paid records only.
ImplementsLifecycle == Lifecycle!LifecycleSpec

-----------------------------------------------------------------------------
(* What the code's comments say of the program and overlapping requests break *)

\* Where no payment is edited, voided or deleted, status and credit tell the truth about
\* the ledger (apply_payment: "recompute record's status from the cumulative amount
\* paid"): a paid record has nothing left to pay and its credit is the excess, an
\* unsettled one has something left to pay.
StatusMatchesLedger ==
    \A r \in Records :
        LET excess == CumulativePaid(r) - total_owed(records[r]) IN
        /\ records[r].status = "paid" =>
              /\ RemainingBalance(r) = 0
              /\ records[r].overpaid_amount = IF excess > 0 THEN excess ELSE Null
        /\ records[r].status \notin Terminal =>
              RemainingBalance(r) > 0 /\ records[r].overpaid_amount = Null

\* A record that is paid or written off stays so (docs/product/phase-2.md: they "are
\* terminal - enforced via an explicit transition table").  The table is consulted when a
\* request reads the record; a write-off, a payment or an evaluation that read it earlier
\* still overwrites the status.
SettledIsFinal ==
    [][\A r \in Records :
          records[r].status \in Terminal => records'[r].status = records[r].status]_vars
=============================================================================
