--------------------------- MODULE MCLedgerOverlap ---------------------------
(* BillingLedger with overlapping requests, under two workloads, for TLC. *)
EXTENDS MCBillingLedger

CONSTANT FewPayments   \* a bound on the payments of the workload "any"

\* "growing": payments are made, and never edited, voided or deleted.  "any": every
\* request, with fewer payments.
VARIABLE workload

WorkloadInit == Init /\ workload \in {"any", "growing"}
WorkloadSpec ==
    /\ WorkloadInit
    /\ [][/\ Next /\ UNCHANGED workload
          /\ workload = "any" => Cardinality({p \in Payments : payments'[p] # NoRow}) <= FewPayments
          /\ workload = "growing" => \A c \in Clients : tx'[c].payment = NoPayment]_<<vars, workload>>

\* While payments are only made, a record that shows paid has received at least the
\* rent, and a credit (sum_credits on the dashboard) is never larger than what was really
\* received beyond the rent, whatever payments, overdue evaluations, write-offs and fee
\* corrections overlap.
GrowingMoneyBacked == workload = "growing" => PaidCoversRent /\ CreditBacked
==============================================================================
