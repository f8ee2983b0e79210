--------------------------- MODULE MCBillingLedger ---------------------------
(* Instances of BillingLedger for TLC. *)
EXTENDS BillingLedger, TLC

AllOperations == OperationNames
PayOnly == {"create_payment"}
PayAndWriteOff == {"create_payment", "evaluate_overdue", "write_off_billing_record"}
PayAndCorrect == {"create_payment", "void_and_correct_payment"}

SamePayments == Permutations(Payments)
Interchangeable == Permutations(Clients) \cup SamePayments
=============================================================================
