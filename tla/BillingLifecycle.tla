-------------------------- MODULE BillingLifecycle --------------------------
(***************************************************************************)
(* What the billing engine promises about one billing record, whatever the *)
(* requests that act on it: its status moves along the table of            *)
(* LeaseBillingService, a settled record (paid, written off) keeps its     *)
(* status and its late fee, and a credit exists only on a paid record.     *)
(* BillingLedger implements it as long as requests do not overlap.         *)
(***************************************************************************)
EXTENDS Integers

CONSTANTS
    Records,      \* billing records
    Amount        \* what a fee or a credit can be, NULL (-1) included

VARIABLES
    status,       \* status of each record
    fee,          \* late fee charged on each record, or Null
    credit        \* overpaid amount of each record, or Null

lifecycleVars == <<status, fee, credit>>

Null == -1

Settled(r) == status[r] \in {"paid", "written_off"}

LifecycleInit ==
    /\ status = [r \in Records |-> "pending"]
    /\ fee = [r \in Records |-> Null]
    /\ credit = [r \in Records |-> Null]

\* A payment leaves the record partially paid.
PayPart(r) ==
    /\ ~Settled(r)
    /\ status' = [status EXCEPT ![r] = "partially_paid"]
    /\ UNCHANGED <<fee, credit>>

\* A payment covers what is owed, or arrives on a record that is already paid.
PayFull(r, amount) ==
    /\ status[r] # "written_off"
    /\ status' = [status EXCEPT ![r] = "paid"]
    /\ credit' = [credit EXCEPT ![r] = amount]
    /\ UNCHANGED fee

\* The due date and the grace period have passed; the fee is charged once.
BecomeOverdue(r, amount) ==
    /\ status[r] \in {"pending", "partially_paid"}
    /\ amount # Null
    /\ status' = [status EXCEPT ![r] = "overdue"]
    /\ fee' = [fee EXCEPT ![r] = IF @ = Null THEN amount ELSE @]
    /\ UNCHANGED credit

\* A debt is given up only after it was partly paid or overdue.
WriteOff(r) ==
    /\ status[r] \in {"partially_paid", "overdue"}
    /\ status' = [status EXCEPT ![r] = "written_off"]
    /\ UNCHANGED <<fee, credit>>

\* A manager charges, changes or takes back the late fee of an unsettled record.
ReviseFee(r, amount) ==
    /\ ~Settled(r)
    /\ fee' = [fee EXCEPT ![r] = amount]
    /\ UNCHANGED <<status, credit>>

LifecycleNext ==
    \E r \in Records :
        \/ PayPart(r)
        \/ WriteOff(r)
        \/ \E amount \in Amount :
              PayFull(r, amount) \/ BecomeOverdue(r, amount) \/ ReviseFee(r, amount)

LifecycleSpec == LifecycleInit /\ [][LifecycleNext]_lifecycleVars
=============================================================================
