--------------------------- MODULE BillingPeriods ---------------------------
(***************************************************************************)
(* The generation of billing periods: LeaseBillingService's                *)
(* generate_billing_record, called by users through the API and, once a    *)
(* day, by the generate_due_billing_records job for every active lease.    *)
(*                                                                         *)
(* A generation is three steps, because other requests run between them:   *)
(* it loads the lease, it reads the latest record of the lease and         *)
(* computes the next period, and it inserts that period.  Only the unique  *)
(* constraint on (lease_id, period_start) stands between two generations   *)
(* that computed their period from the same latest record.                 *)
(*                                                                         *)
(* Dates are day numbers.  A period covers period_start .. PeriodEnd.      *)
(***************************************************************************)
EXTENDS Integers, FiniteSets

CONSTANTS
    Leases,          \* leases of the portfolio
    NoLease,         \* the lease of an actor that generates nothing
    Clients,         \* API requests that can be open at the same time
    Job,             \* the cron job's session
    CycleLength,     \* _CYCLE_LENGTH_DAYS of the billing cycle
    StartDate,       \* lease.start_date as the lease was created
    EditedStarts,    \* start dates an edit of a lease can bring
    LastDay,         \* bound on the clock, and so on the runs of the job
    MaxPeriods       \* bound: no generation begins on a lease with this many records

ASSUME ActorAssumption == Job \notin Clients /\ NoLease \notin Leases
ASSUME CycleAssumption == CycleLength \in Nat \ {0}
ASSUME DateAssumption ==
    /\ StartDate \in [Leases -> Nat]
    /\ EditedStarts \subseteq Nat
    /\ LastDay \in Nat
ASSUME BoundAssumption == MaxPeriods \in Nat

VARIABLES
    lease,        \* the leases table: status and start_date
    periods,      \* the billing_records table: id, lease_id and period_start
    gen,          \* the generation each client, or the job, is in
    job,          \* the run of the job
    today,        \* the calendar
    edited        \* history: the leases whose start date was edited

vars == <<lease, periods, gen, job, today, edited>>

Actors == Clients \cup {Job}

-----------------------------------------------------------------------------

LeaseStatus == {"ACTIVE", "ENDED"}

\* DELETED: the row is gone.
LeaseRow == [status: LeaseStatus \cup {"DELETED"}, start_date: Nat]

\* id tells two rows apart that agree in everything else: the records of a lease are
\* numbered as they are inserted, and never deleted.
Period == [id: Nat, lease_id: Leases, period_start: Nat]

PeriodsOf(l) == {r \in periods : r.lease_id = l}
PeriodEnd(r) == r.period_start + CycleLength

Overlap(r, s) == r.period_start <= PeriodEnd(s) /\ s.period_start <= PeriodEnd(r)

\* get_latest_for_lease: the record with the highest period_end.
IsLatest(r) ==
    /\ r \in periods
    /\ \A s \in PeriodsOf(r.lease_id) : PeriodEnd(s) <= PeriodEnd(r)

\* Bug: a day is left out between two periods.
NextStartGap(r) == PeriodEnd(r) + 2

\* The day after a record's period.
NextStart(r) == PeriodEnd(r) + 1

IdleGen == [step |-> "idle", lease_id |-> NoLease, date |-> 0]
GenRow ==
    {IdleGen} \cup [step: {"leaseLoaded", "computed"}, lease_id: Leases, date: Nat]

-----------------------------------------------------------------------------
(* generate_billing_record, by an API client or by the job *)

\* get_by_id on the lease.  Its status is not looked at; date is its start_date.
LoadLease(a, l) ==
    /\ gen[a].step = "idle"
    /\ lease[l].status # "DELETED"
    /\ gen' = [gen EXCEPT ![a] =
                  [step |-> "leaseLoaded", lease_id |-> l, date |-> lease[l].start_date]]

\* get_latest_for_lease; date becomes the period_start of the record to insert.
ComputePeriod(a) ==
    /\ gen[a].step = "leaseLoaded"
    /\ \/ /\ PeriodsOf(gen[a].lease_id) = {}
          /\ gen' = [gen EXCEPT ![a].step = "computed"]
       \/ \E r \in PeriodsOf(gen[a].lease_id) :
             /\ IsLatest(r)
             /\ gen' = [gen EXCEPT ![a].step = "computed", ![a].date = NextStart(r)]
    /\ UNCHANGED <<lease, periods, job, today, edited>>

NewPeriod(a) ==
    [id |-> Cardinality(PeriodsOf(gen[a].lease_id)),
     lease_id |-> gen[a].lease_id, period_start |-> gen[a].date]

\* uq_billing_record_lease_id_period_start
Duplicate(a) == \E r \in PeriodsOf(gen[a].lease_id) : r.period_start = gen[a].date

\* Bug: the unique constraint is missing.
CanInsertDuplicate(a) ==
    /\ gen[a].step = "computed"
    /\ lease[gen[a].lease_id].status # "DELETED"

\* The foreign key to leases, and then the unique constraint, let the row in.
CanInsert(a) ==
    /\ gen[a].step = "computed"
    /\ lease[gen[a].lease_id].status # "DELETED"
    /\ ~Duplicate(a)

\* create, audit row and commit.
InsertPeriod(a) ==
    /\ CanInsert(a)
    /\ periods' = periods \cup {NewPeriod(a)}
    /\ gen' = [gen EXCEPT ![a] = IdleGen]

-----------------------------------------------------------------------------
(* API clients *)

ClientLoad(c, l) ==
    /\ Cardinality(PeriodsOf(l)) < MaxPeriods
    /\ LoadLease(c, l)
    /\ UNCHANGED <<lease, periods, job, today, edited>>

ClientInsert(c) ==
    /\ InsertPeriod(c)
    /\ UNCHANGED <<lease, job, today, edited>>

\* BillingRecordAlreadyGeneratedError, any other exception, or a lost connection.
ClientFail(c) ==
    /\ gen[c].step # "idle"
    /\ gen' = [gen EXCEPT ![c] = IdleGen]
    /\ UNCHANGED <<lease, periods, job, today, edited>>

\* update_lease: a manager ends a lease or takes that back.
SetLeaseStatus(l, status) ==
    /\ lease[l].status \in LeaseStatus
    /\ lease' = [lease EXCEPT ![l].status = status]
    /\ UNCHANGED <<periods, gen, job, today, edited>>

\* Bug: no foreign key stops the deletion.
DeleteLeaseAnytime(l) ==
    /\ lease[l].status \in LeaseStatus
    /\ lease' = [lease EXCEPT ![l].status = "DELETED"]
    /\ UNCHANGED <<periods, gen, job, today, edited>>

\* delete_lease: the foreign key of billing_records restricts it.
DeleteLease(l) ==
    /\ lease[l].status \in LeaseStatus
    /\ PeriodsOf(l) = {}
    /\ lease' = [lease EXCEPT ![l].status = "DELETED"]
    /\ UNCHANGED <<periods, gen, job, today, edited>>

\* update_lease with a start_date: nothing looks at the records already generated.
EditStart(l, date) ==
    /\ lease[l].status \in LeaseStatus
    /\ lease' = [lease EXCEPT ![l].start_date = date]
    /\ edited' = edited \cup {l}
    /\ UNCHANGED <<periods, gen, job, today>>

-----------------------------------------------------------------------------
(* generate_due_billing_records *)

\* lastRun: the day of the last run.  todo: listed leases not yet handled.
\* outcome of the run: running, done, aborted.  listed and before are history: the
\* leases the run listed, and how many records each lease had when it listed them.
JobRow ==
    [outcome: {"never", "running", "done", "aborted"}, lastRun: Nat,
     todo: SUBSET Leases, listed: SUBSET Leases, before: [Leases -> Nat]]

IdleJob ==
    [outcome |-> "never", lastRun |-> 0, todo |-> {}, listed |-> {},
     before |-> [l \in Leases |-> 0]]

\* Bug: the job lists every lease it has not seen end.
JobStartNotEnded ==
    /\ job.outcome # "running"
    /\ job.lastRun < today
    /\ LET active == {l \in Leases : lease[l].status # "ENDED"} IN
       job' = [outcome |-> "running", lastRun |-> today, todo |-> active,
               listed |-> active, before |-> [l \in Leases |-> Cardinality(PeriodsOf(l))]]
    /\ UNCHANGED <<lease, periods, gen, today, edited>>

\* The cron tick: get_active lists the leases; their order does not matter.
JobStart ==
    /\ job.outcome # "running"
    /\ job.lastRun < today
    /\ LET active == {l \in Leases : lease[l].status = "ACTIVE"} IN
       job' = [outcome |-> "running", lastRun |-> today, todo |-> active,
               listed |-> active, before |-> [l \in Leases |-> Cardinality(PeriodsOf(l))]]
    /\ UNCHANGED <<lease, periods, gen, today, edited>>

JobLoad(l) ==
    /\ job.outcome = "running"
    /\ l \in job.todo
    /\ LoadLease(Job, l)
    /\ job' = [job EXCEPT !.todo = @ \ {l}]
    /\ UNCHANGED <<lease, periods, today, edited>>

JobInsert ==
    /\ InsertPeriod(Job)
    /\ UNCHANGED <<lease, job, today, edited>>

\* Bug: every exception of a generation counts as skipped.
JobSkipAny ==
    /\ gen[Job].step = "computed"
    /\ gen' = [gen EXCEPT ![Job] = IdleGen]
    /\ UNCHANGED <<lease, periods, job, today, edited>>

\* except BillingRecordAlreadyGeneratedError: skipped += 1
JobSkip ==
    /\ gen[Job].step = "computed"
    /\ lease[gen[Job].lease_id].status # "DELETED"
    /\ Duplicate(Job)
    /\ gen' = [gen EXCEPT ![Job] = IdleGen]
    /\ UNCHANGED <<lease, periods, job, today, edited>>

JobStops ==
    /\ gen' = [gen EXCEPT ![Job] = IdleGen]
    /\ job' = [job EXCEPT !.outcome = "aborted", !.todo = {}]
    /\ UNCHANGED <<lease, periods, today, edited>>

\* No other exception is caught: a lease deleted since it was listed ends the run,
\* at its get_by_id or at the INSERT, and leaves the rest of the list unbilled.
JobAbort ==
    /\ job.outcome = "running"
    /\ \/ gen[Job].step = "computed" /\ lease[gen[Job].lease_id].status = "DELETED"
       \/ gen[Job].step = "idle" /\ \E l \in job.todo : lease[l].status = "DELETED"
    /\ JobStops

\* The worker or its database connection goes away.
JobCrash ==
    /\ job.outcome = "running"
    /\ JobStops

JobEnd ==
    /\ job.outcome = "running"
    /\ job.todo = {}
    /\ gen[Job].step = "idle"
    /\ job' = [job EXCEPT !.outcome = "done"]
    /\ UNCHANGED <<lease, periods, gen, today, edited>>

NextDay ==
    /\ today < LastDay
    /\ today' = today + 1
    /\ UNCHANGED <<lease, periods, gen, job, edited>>

-----------------------------------------------------------------------------

Init ==
    /\ lease = [l \in Leases |-> [status |-> "ACTIVE", start_date |-> StartDate[l]]]
    /\ periods = {}
    /\ gen = [a \in Actors |-> IdleGen]
    /\ job = IdleJob
    /\ today = 0
    /\ edited = {}

ClientStep(c) ==
    \/ \E l \in Leases : ClientLoad(c, l)
    \/ ComputePeriod(c)
    \/ ClientInsert(c)
    \/ ClientFail(c)

JobStep ==
    \/ JobStart
    \/ \E l \in Leases : JobLoad(l)
    \/ ComputePeriod(Job)
    \/ JobInsert
    \/ JobSkip
    \/ JobAbort
    \/ JobEnd

UserStep ==
    \/ \E c \in Clients : ClientStep(c)
    \/ \E l \in Leases, status \in LeaseStatus : SetLeaseStatus(l, status)
    \/ \E l \in Leases : DeleteLease(l)
    \/ \E l \in Leases, date \in EditedStarts : EditStart(l, date)

Next == UserStep \/ JobStep \/ JobCrash \/ NextDay

Spec == Init /\ [][Next]_vars

\* The cron schedule of a worker that stays up: a day passes once its run has ended.
CronStep == JobStep \/ (job.lastRun = today /\ job.outcome # "running" /\ NextDay)
CronSpec == Init /\ [][UserStep \/ CronStep]_vars /\ WF_vars(CronStep)

-----------------------------------------------------------------------------
(* Properties *)

\* Tables, generations, the job and the calendar hold values of their types.
TypeOK ==
    /\ lease \in [Leases -> LeaseRow]
    /\ periods \subseteq Period
    /\ gen \in [Actors -> GenRow]
    /\ job \in JobRow
    /\ today \in Nat
    /\ edited \subseteq Leases

\* No day of a lease is billed twice, however many generations of the job and of the
\* API overlap: two rows of a lease are for disjoint periods.  Only the unique constraint
\* on (lease_id, period_start) stops the second of two generations that computed the same
\* period.  A start date that is edited between the computation of two first periods gets
\* around that constraint, so the leases whose start was edited are left out.
NoOverlap ==
    \A r, s \in periods :
        r.lease_id = s.lease_id /\ r.lease_id \notin edited /\ r # s => ~Overlap(r, s)

\* No day is skipped: a record either starts the lease or follows another record of
\* the lease without a gap (generate_billing_record: "periods are contiguous").
Contiguous ==
    \A r \in periods :
        \/ r.lease_id \in edited
        \/ r.period_start = StartDate[r.lease_id]
        \/ \E s \in PeriodsOf(r.lease_id) : r.period_start = PeriodEnd(s) + 1

\* A run of the job that ends normally has moved every lease it listed forward by at
\* least one period, its own or one generated meanwhile: skipping a conflict is safe.
CompletedRunBills ==
    job.outcome = "done" =>
        \A l \in job.listed : Cardinality(PeriodsOf(l)) > job.before[l]

\* A lease with billing history is never deleted, even if the deletion checked the
\* table while a generation was under way.
HistoryKeepsLease ==
    \A r \in periods : lease[r.lease_id].status # "DELETED"

\* A worker that stays up eventually bills every lease that stays active: a lease
\* deleted during a run aborts that run, but not the runs of the following days.
ActiveLeaseBilled ==
    \A l \in Leases : <>(PeriodsOf(l) # {} \/ lease[l].status # "ACTIVE")

-----------------------------------------------------------------------------
(* What the documentation says of the program and the code does not keep *)

\* The job's docstring: a lease whose period has not elapsed is "an expected no-op".
\* Without API generations, then, no record is for a period that has not begun.
NoRecordAhead == \A r \in periods : r.period_start <= today

\* generate_billing_record's docstring: period_start is the lease's start or the day after
\* the latest record, "so periods are contiguous".  Without the exemption of NoOverlap,
\* then, no day of any lease is billed twice.
PeriodsDisjoint ==
    \A r, s \in periods : r.lease_id = s.lease_id /\ r # s => ~Overlap(r, s)
=============================================================================
