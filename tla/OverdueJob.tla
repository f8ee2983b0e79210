----------------------------- MODULE OverdueJob -----------------------------
(***************************************************************************)
(* The second job of the worker, evaluate_overdue_billing_records: it      *)
(* lists every billing record that is not settled and evaluates each in a  *)
(* session of its own.  Nothing around an evaluation catches an exception: *)
(* a record whose late fee rounds to zero is refused by a CHECK constraint *)
(* and ends the run.  The requests of users are single steps here; how     *)
(* they overlap is the subject of BillingLedger.                           *)
(***************************************************************************)
EXTENDS Naturals

CONSTANTS
    Bills,        \* billing record ids
    NoBill,       \* the record of a worker that evaluates none
    MaxCrashes    \* bound on the crashes of the worker

ASSUME BillAssumption == NoBill \notin Bills
ASSUME CrashAssumption == MaxCrashes \in Nat

VARIABLES
    bill,         \* the billing_records table
    rule,         \* what the lease of each record charges for lateness
    sweep         \* the run of the job

overdueVars == <<bill, rule, sweep>>

-----------------------------------------------------------------------------

Unsettled == {"pending", "partially_paid", "overdue"}

\* due: the day is past due_date and the grace period.
Bill == [status: Unsettled \cup {"paid", "written_off"}, late_fee_applied: BOOLEAN, due: BOOLEAN]

\* A percentage of a small rent is quantized to 0.00.
FeeRule == {"positive", "zero"}

\* seen and charge: the record and the fee of its lease as the evaluation read them.
Sweep ==
    [step: {"idle", "listed", "loaded"}, todo: SUBSET Bills, at: Bills \cup {NoBill},
     seen: Bill, charge: FeeRule, crashes: 0..MaxCrashes]

NewBill == [status |-> "pending", late_fee_applied |-> FALSE, due |-> FALSE]

Evaluable(row) == row.status \in {"pending", "partially_paid"} /\ row.due

-----------------------------------------------------------------------------
(* Users and the calendar *)

UserFrame == UNCHANGED <<rule, sweep>>

BecomeDue(b) ==
    /\ ~bill[b].due
    /\ bill' = [bill EXCEPT ![b].due = TRUE]
    /\ UserFrame

\* update_lease with a longer grace_period_days moves the cutoff past today.
ExtendGrace(b) ==
    /\ bill[b].due
    /\ bill' = [bill EXCEPT ![b].due = FALSE]
    /\ UserFrame

\* create_payment: apply_payment settles the record or leaves it partially paid.
Pay(b, status) ==
    /\ bill[b].status \in Unsettled
    /\ bill' = [bill EXCEPT ![b].status = status]
    /\ UserFrame

WriteOff(b) ==
    /\ bill[b].status \in {"partially_paid", "overdue"}
    /\ bill' = [bill EXCEPT ![b].status = "written_off"]
    /\ UserFrame

\* correct_late_fee: the fee is waived, or set by hand.
CorrectFee(b, applied) ==
    /\ bill[b].status \in Unsettled
    /\ bill' = [bill EXCEPT ![b].late_fee_applied = applied]
    /\ UserFrame

\* update_lease with other late-fee terms.
EditFeeRule(b, new) ==
    /\ rule' = [rule EXCEPT ![b] = new]
    /\ UNCHANGED <<bill, sweep>>

-----------------------------------------------------------------------------
(* evaluate_overdue_billing_records *)

\* Bug: the list leaves out the records that are partially paid.
SweepStartPending ==
    /\ sweep.step = "idle"
    /\ sweep' = [sweep EXCEPT !.step = "listed",
                              !.todo = {b \in Bills : bill[b].status \in {"pending", "overdue"}}]
    /\ UNCHANGED <<bill, rule>>

\* The cron tick: get_unpaid_with_grace, in no particular order.
SweepStart ==
    /\ sweep.step = "idle"
    /\ sweep' = [sweep EXCEPT !.step = "listed",
                              !.todo = {b \in Bills : bill[b].status \in Unsettled}]
    /\ UNCHANGED <<bill, rule>>

\* evaluate_overdue reads record and lease; it returns at once unless the record is
\* pending or partially paid, and past its cutoff.
SweepLoad(b) ==
    /\ sweep.step = "listed"
    /\ b \in sweep.todo
    /\ sweep' = IF Evaluable(bill[b])
                THEN [sweep EXCEPT !.todo = @ \ {b}, !.step = "loaded", !.at = b,
                                   !.seen = bill[b], !.charge = rule[b]]
                ELSE [sweep EXCEPT !.todo = @ \ {b}]
    /\ UNCHANGED <<bill, rule>>

Idle(step, todo) ==
    [sweep EXCEPT !.step = step, !.todo = todo, !.at = NoBill, !.seen = NewBill,
                  !.charge = "positive"]

\* ck_billing_record_late_fee_amount_positive
Refused == ~sweep.seen.late_fee_applied /\ sweep.charge = "zero"

\* _transition to overdue, the fee if none is applied yet, flush and commit.
SweepCommit ==
    /\ sweep.step = "loaded"
    /\ ~Refused
    /\ bill' = [bill EXCEPT ![sweep.at].status = "overdue",
                            ![sweep.at].late_fee_applied = @ \/ ~sweep.seen.late_fee_applied]
    /\ sweep' = Idle("listed", sweep.todo)
    /\ UNCHANGED rule

\* The IntegrityError leaves the loop: the rest of the list waits for the next run.
SweepAbort ==
    /\ sweep.step = "loaded"
    /\ Refused
    /\ sweep' = Idle("idle", {})
    /\ UNCHANGED <<bill, rule>>

SweepEnd ==
    /\ sweep.step = "listed"
    /\ sweep.todo = {}
    /\ sweep' = Idle("idle", {})
    /\ UNCHANGED <<bill, rule>>

\* The worker dies and is started again.
SweepCrash ==
    /\ sweep.step # "idle"
    /\ sweep.crashes < MaxCrashes
    /\ sweep' = [Idle("idle", {}) EXCEPT !.crashes = @ + 1]
    /\ UNCHANGED <<bill, rule>>

-----------------------------------------------------------------------------

OverdueInit ==
    /\ bill = [b \in Bills |-> NewBill]
    /\ rule \in [Bills -> FeeRule]
    /\ sweep = [step |-> "idle", todo |-> {}, at |-> NoBill, seen |-> NewBill,
                charge |-> "positive", crashes |-> 0]

SweepStep ==
    SweepStart \/ (\E b \in Bills : SweepLoad(b)) \/ SweepCommit \/ SweepAbort \/ SweepEnd

BillRequest(b) ==
    \/ BecomeDue(b)
    \/ ExtendGrace(b)
    \/ \E status \in {"partially_paid", "paid"} : Pay(b, status)
    \/ WriteOff(b)
    \/ \E applied \in BOOLEAN : CorrectFee(b, applied)
    \/ \E new \in FeeRule : EditFeeRule(b, new)

OverdueNext == SweepStep \/ SweepCrash \/ \E b \in Bills : BillRequest(b)

\* arq starts the job every day and runs it to its end or to an exception.
OverdueSpec == OverdueInit /\ [][OverdueNext]_overdueVars /\ WF_overdueVars(SweepStep)

-----------------------------------------------------------------------------
(* Properties *)

\* The record cannot be evaluated: its fee would be 0.00.
Blocking(b) == Evaluable(bill[b]) /\ ~bill[b].late_fee_applied /\ rule[b] = "zero"

\* A record past its cutoff does not stay unmarked: some run makes it overdue unless it
\* is settled or its grace period extended, although crashes and records whose fee rounds to zero end runs early, as
\* long as such records do not block the job forever.
DueRecordsMarked ==
    <>[](\A b \in Bills : ~Blocking(b)) =>
        \A b \in Bills : [](bill[b].due => <>(~Evaluable(bill[b])))
=============================================================================
