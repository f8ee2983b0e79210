------------------------------- MODULE MCJobs -------------------------------
(* The two jobs of the worker, BillingPeriods and OverdueJob, for TLC. *)
EXTENDS MCBillingPeriods, OverdueJob

CONSTANTS
    RacedLeases,    \* the leases that clients bill in the workload "racing"
    EarlyClients    \* the clients of the workload "editing"

\* "racing": all clients race each other, on some leases only, and a job that may crash
\* or miss a day.
\* "editing": fewer clients, and managers who edit start dates, next to a worker that
\* stays up and runs the job every day.  "evaluating": the other job, OverdueJob.
VARIABLE workload

Racing ==
    /\ Next
    /\ edited' = {}
    /\ \A c \in Clients : gen'[c].lease_id \in RacedLeases \cup {NoLease}
    /\ UNCHANGED overdueVars

Editing ==
    /\ UserStep \/ CronStep
    /\ \A c \in Clients \ EarlyClients : gen'[c] = IdleGen
    /\ UNCHANGED overdueVars

Evaluating == OverdueNext /\ UNCHANGED vars

allVars == <<vars, overdueVars, workload>>

WorkloadInit ==
    /\ Init /\ OverdueInit
    /\ workload \in {"racing", "editing", "evaluating"}
    /\ workload # "evaluating" => \A b \in Bills : rule[b] = "positive"

WorkloadSpec ==
    /\ WorkloadInit
    /\ [][/\ \/ workload = "racing" /\ Racing
             \/ workload = "editing" /\ Editing
             \/ workload = "evaluating" /\ Evaluating
          /\ UNCHANGED workload]_allVars
    /\ WF_allVars(workload = "editing" /\ CronStep /\ UNCHANGED <<overdueVars, workload>>)
    /\ WF_allVars(workload = "evaluating" /\ SweepStep /\ UNCHANGED <<vars, workload>>)

\* A worker that stays up eventually bills every lease that stays active: a lease
\* deleted during a run aborts that run, but not the runs of the following days.
SteadyWorkerBills == workload = "editing" => ActiveLeaseBilled
=============================================================================
