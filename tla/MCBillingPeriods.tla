-------------------------- MODULE MCBillingPeriods --------------------------
(* Instances of BillingPeriods for TLC. *)
EXTENDS BillingPeriods, TLC

\* Every lease starts on day 1.
StartOnDayOne == [l \in Leases |-> 1]
=============================================================================
