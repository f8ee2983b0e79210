# PropNest API: a TLA+ model

PropNest is a property-management backend (FastAPI, SQLAlchemy on PostgreSQL, Redis, MinIO,
an arq worker). This directory models the parts that carry its own logic, checks them with
TLC on small instances, and proves what matters most with TLAPS for every instance.

`PROJECT.json` holds the details: which lines each definition stands for (`map`), the runs,
the mutations that each property catches, the disagreements between code and documentation
(`findings`), and the list of what is hard to test (`hazards`).

## 1. Inventory

| Component | State | Operations | What makes it correct |
|---|---|---|---|
| Billing records and payments (`billing/services/*`) | `billing_records`, `payments` | create, update, void-and-correct, delete payment; evaluate overdue, write off, correct late fee | status, fee and credit of a record agree with the payments that stand; settled records are final; the history of corrections survives |
| Billing periods and the daily jobs (`generate_billing_record`, `jobs/billing_jobs.py`) | `billing_records.period_start`, `leases` | generate by API or job, evaluate overdue records, edit, end and delete leases | no day billed twice, none skipped; every active lease is billed, every late record marked |
| Contracts, properties, leases (`leasing/services/*`, `properties/services/*`) | `contracts`, `properties.status`, `leases` | create, update, delete; status override | one active contract per property; the property's status follows its contracts; leases hang on long-term contracts |
| Documents (`documents/services/document_service.py`) | `documents` and objects in MinIO | upload, replace (stage, commit, promote, clean up), delete | the committed file is never lost; what is left behind is logged |
| Receipts and templates (`receipts/services/*`) | `receipts`, `receipt_templates`, objects | issue, create and activate template | one readable active template per scope; a receipt keeps payment, number and PDF |
| Login throttling and sessions (`identity/*`, `core/dependencies.py`) | Redis counters and locks, `users.password_changed_at` | failure, success, lock, password change, logout | wrong guesses are bounded, lockouts end; an old token dies with the password |
| Users, tenants, collections (`identity`, `crm`, `collections`) | their tables | CRUD, linking a tenant to a user, narrowing a collection to a contract | names and links stay unique; references stay live and agree with each other |
| Authorization (`core/services/base.py`) | none of its own | `_authorize_user_to_property` | list, read and feed agree on who sees what |
| Audit log, activity feed (`core/services/audit.py`, `reporting`) | `audit_logs` | a row per change, in the change's transaction; a feed per property | atomic with the change; the feed shows nothing a manager may not read |
| Dashboard | none | read-only aggregates | - |

**How the parts interact.** Every request gets a session of its own (`get_db`), and the
service, not the route, commits it. Components call one another as Python objects inside
that session: `PaymentService` calls `LeaseBillingService.apply_payment`, `ContractService`
writes the property, `ReceiptService` goes through `DocumentService`. The worker is a
second process that calls `LeaseBillingService` with a session per lease or record. Everything
else is shared through the tables, the bucket and Redis.

**What is hard.** The engine runs at READ COMMITTED and no read takes a row lock, so
every check made on a loaded row can be stale when the row is written. SQLAlchemy writes
only the columns that differ from what it loaded, so two overlapping requests can each
contribute columns to a row neither of them computed. Correctness under overlap rests on
the constraints of the schema: the unique key of a billing period, the partial index on
active contracts, the CHECK constraints of the late-fee columns, the foreign keys. PostgreSQL,
MinIO and Redis share no transaction: a request that touches two of them can stop in between,
and a commit can take effect although its caller sees an error. Which properties the constraints
are enough for, and which they are not, is the question most of the runs and theorems answer.

## 2. Modules

    BillingLifecycle          abstract: what one billing record promises
      ^ implemented by
    BillingLedger             records, payments, the seven requests on them
      MCBillingLedger         instances
        MCLedgerOverlap       two workloads of overlapping requests
          BillingLedger_proofs
    BillingPeriods            generation by API and job, lease edits, crashes
      BillingPeriods_proofs
      MCBillingPeriods
        MCJobs                with OverdueJob: the worker's two jobs
    OverdueJob                the daily evaluation of unsettled records
    Occupancy                 contracts, properties, creation of leases
      Occupancy_proofs
      MCOccupancy
    DocumentStorage           rows and objects of documents, faults
      DocumentStorage_proofs
      MCDocumentStorage
    ReceiptTemplates          upload and activation of templates
    Receipts                  issuing; extends DocumentStorage and ReceiptTemplates
      Receipts_proofs         of both; uses the theorems of DocumentStorage_proofs
      MCReceipts
    LoginThrottle             the Redis keys in front of a login
      LoginThrottle_proofs
    Accounts                  users, tokens, managers, portal links
      Accounts_proofs
      MCAccounts
    Portfolio                 references between the tables, and who sees what
      Portfolio_proofs
      MCPortfolio

In all of them a request is split where another one can run, a request that a check or a
constraint refuses changes nothing and is no step, and a failed one gives up its session.

### BillingLedger

`records` and `payments` are the tables, `tx` the session of each client. `LoadFor...`
reads the rows, passes the checks on them and changes the objects in memory. `ApplyPayment`
(only `create_payment`) reads the sum of the payments, the request's own uncommitted row
included, and applies it to the record that was loaded *before*. `Commit` writes the changed
columns (`FlushRecord`, `FlushPayment`), subject to the CHECK constraints and to the foreign
key of `corrects_payment_id`, inserts the new payment and commits. `Rollback` is every
exception.

Flush and commit are one step: from its flush on a request holds the row, so nobody else
can write it before the commit, and nobody sees it. `create_payment` inserts its payment
before it sums; nobody else sees that row before the commit, so the insertion is modelled
at the commit and the request's own row is added to the sum it reads.

Amounts are integers (cents). A percentage fee that rounds to 0.00 is `LeaseFee = 0`; the CHECK
constraint then refuses the commit. `RefusedOnlyIfOvertaken` is about what these constraints may
refuse: only a request whose fee another one changed since it was read, or that rounded fee.
Audit rows, dates of payments, payment methods and reference numbers are left out.
`billing_record_id` can only be set by `create_payment`, as in the schemas: a correction carries
no link, and its money leaves the record.

### BillingLifecycle

The promise for one record: the status table is followed, a settled record keeps its status and
fee, a fee is charged once, a credit belongs to a paid record. `BillingLedger` implements
it when requests do not overlap (`ledger_serial`, property `ImplementsLifecycle`); the
refinement mapping reads status, fee and credit off the rows. The refinement is also proved
(`LedgerImplementsLifecycle`).

### BillingPeriods and OverdueJob

`lease` and `periods` are the tables, a period with an id of its own, so that a second record
for the same days would be seen; `gen` is the generation each client or the job is in: load the
lease, look up the latest record and compute the period, insert. `job` is the run of the daily
job: the leases it listed, those left, how it ended. `JobSkip` is the one exception the loop
catches, `JobAbort` the ones it does not, `JobCrash` the loss of the worker. `listed` and
`before` in `job` are history variables for `CompletedRunBills`, and `edited` remembers the
leases whose start date `update_lease` moved (`EditStart`): periods of such a lease can overlap
(`billed_twice.cfg`). Days are natural numbers and the billing cycle has `CycleLength` days.
`CronSpec` is a worker that stays up, with fairness.

`OverdueJob` is the other job: `SweepStart` lists the unsettled records, `SweepLoad` and
`SweepCommit` evaluate them one at a time from what was read, `SweepAbort` is the refused
fee of 0.00, which nothing catches. A record is `due` when its grace period is over, and no longer so
when `update_lease` extends it (`ExtendGrace`). Requests of users are single steps there.

### Occupancy

A session of `ContractService` loads, flushes (holding row and index entry from then on), reads
the property if `_resolve_property_status_transition` calls for a sync, and commits both rows.
`IndexAdmits` is `uq_active_contract_property`, checked against committed rows and rows in
flight. PostgreSQL would let the second request wait for the first one's commit; in the model
the flush is not enabled until then, which has the same outcomes. An update is assumed to change
at least one column; one that changes none writes nothing, and takes no lock. The history
variable `disturbed` records that an admin has set a status by hand (`update_property`), or that
two requests on the *same* contract overlapped; `OccupancyMatches` holds only until then (`occupancy_stale.cfg`). Authorization, tenants, dates and money amounts are left out.

### DocumentStorage

`document` is the table and `storage` the bucket: what is under each key. An upload is put and
then inserted; a replacement is staged, committed, promoted and cleaned up; a deletion commits
and then removes the object. `Faults` says what can go wrong: a storage call fails, a commit
fails, a commit takes effect although its caller sees an error ("lost"), the process stops. A
call that raises may have had its effect or not: `Tried` for removals, `PromotionFails` for the
promotion, and `Strand` for a first put, whose object then stays although its request ended with
an error. A file is an upload id, so that TLC can tell which file is where; `BaseName` is what
`Path(file_name).name` does to a name, since two names can lead to the same key. `mishap` is
history: what befell a document (requests overlapped, a commit was lost, a crash, an object
stranded, something left behind and logged). Validation of an upload decides before anything is
written and is left out.

### ReceiptTemplates and Receipts

`template` is the table, `html` the templates whose object is in the bucket, `act` the
request of each manager. `CommitActivation` is both updates of `activate_template` under the
partial unique index; a template the session had loaded as active is not written again,
because to SQLAlchemy its column does not change. `raced` and `orphaned` are history:
another activation committed in the scope since the load; an upload was cut off, logged or
lost.

`Receipts` composes them: POST `/payments/` commits the payment, then takes a number, renders
with the template in force, creates the document through the actions of `DocumentStorage`, and
inserts the receipt. Reprints are the same without the payment. Payments and documents are
deleted, and documents replaced, meanwhile. `printed` and `answer` are history: the number on
each PDF `issue_receipt` stored (a file that replaces it later is not a receipt's PDF), and the
answer each payment got.

### LoginThrottle

Four Redis keys with count and time to live, and one action per Redis command; `Tick` is a
second. Counts stop at the last value the code tells apart. `Abort` is a Redis error or the end
of the process between two commands. `told` counts the wrong passwords a caller learned of since
the last lock, successful login or expired window, each of which starts the code's own count
over, and `severed` the keys whose EXPIRE was never sent. One identifier and one address: keys
of different ones do not interact.

### Accounts

`users`, `tenants.user_id`, `properties.manager_id` and the tokens handed out. A request
authenticates (`Authenticate` is `get_current_user`), checks what it is about to do
(`Check...`), and commits; the unique and foreign keys are asked again at the commit, and
nothing else is. A timestamp is a counter, so that every setting of a password has its own. A
PATCH is a record with a field for each of the payload's, set or left out (`Patch`), and one
request may change several; an account may be created inactive. Setting a password writes hash
and version even if the password is the old one, since every hash has its own salt. `late`
counts what a user still commits after its row was revoked.

### Portfolio

One function `db` holds the rows of properties, tenants, contracts, collections and documents,
with their references and the manager of a property. Every request checks and authorizes, then
commits under the foreign keys; the deletion of a collection sets its documents' reference to
NULL, every other key refuses. `Readable`, `Listed` and `Feed` are the three queries that show a
document to a manager; each is translated from its own code. `raced` is history: the documents
on which two updates overlapped (`document_mixed.cfg`). The relinking that
`replace_document_file` does is the same step as `UpdateDocument`.

## 3. Runs

| Run | Result | States | What it shows |
|---|---|---|---|
| `ledger_serial` | holds | 78,626 | one request at a time, all seven: implements `BillingLifecycle`; a new payment settles its record exactly when the standing payments cover what is owed, after any history of edits, voids and deletions; no payment is corrected twice |
| `ledger_overlap` | holds | 1,575,286 | two overlapping clients: the CHECK constraints refuse only what another request or a rounded fee brought about, corrected payments are kept, no credit on a pending record, nothing is written off straight from pending; while payments are only made, `paid` means at least the rent has come in and no credit exceeds the money |
| `split_payment` | violated | | two payments that together cover the rent each miss the other; the record stays `partially_paid` with nothing to pay |
| `jobs` | holds | 917,664 | generations by API and job, crashes, ended, deleted and edited leases: no day in two records, no gap; a completed run has billed every lease it listed; billed leases stay; a worker that stays up bills every active lease; late records are eventually marked although runs crash or are ended by a fee of 0.00 |
| `job_runs_ahead` | violated | | each daily run generates one more period, elapsed or not |
| `occupancy` | holds | 406,728 | any overlap, with overrides and deletions: one active contract per property, no orphans; until disturbed, the status follows the contracts |
| `documents` | holds | 648,484 | the live file is only touched after a commit; the committed file is never lost; when all is quiet the bucket holds what the row says, or the log tells |
| `receipts` | holds | 2,366,584 | receipts keep payment, document and number; a number is printed once; the PDF is there; the active template of a scope is readable, and an activation replaces it and never just removes it |
| `payment_unanswered` | violated | | a receipt that cannot be inserted makes POST `/payments/` fail for a payment that is committed |
| `throttle` | holds | 403,249 | at most `clients x limit` wrong guesses since the last lockout, success or expired window, whatever overlaps (windows without a lockout are not added up, in the code neither); counters expire; lockouts end and addresses are released |
| `accounts` | holds | 869,496 | an accepted token belongs to the password in force; a revoked account commits no more than what was authenticated before; names unique, references live; two admins who delete each other do not both succeed; a portal link moves only through a stale read |
| `portfolio` | holds | 71,994 | references stay live, a document agrees with its contract; list, read and feed agree |

A violated run checks one sentence of the documentation or a docstring, quoted under
`findings`.

**Further counterexamples.** Where a property holds only under a condition, the case that the condition
leaves out breaks a sentence of the repository too. Each is stated as a definition without the condition,
and has a configuration (`tlc -config <name>.cfg <module>`) in which TLC finds the counterexample:

| Configuration, module | Definition | What the code does | What is said |
|---|---|---|---|
| `settled_reopened`, `MCBillingLedger` | `SettledIsFinal` | a payment, write-off or evaluation that read the record before it was settled overwrites `paid` or `written_off` (`_transition` looks at the status as loaded) | `docs/product/phase-2.md:55`: "`paid`/`written_off` are terminal — enforced via an explicit transition table" |
| `corrected_twice`, `MCBillingLedger` | `OneCorrectionPerPayment` | two corrections read the payment before either has voided it, and both replacements are inserted | `payment_service.py:225`: "already voided and cannot be corrected again" |
| `billed_twice`, `MCBillingPeriods` | `PeriodsDisjoint` | two first generations around an edit of the start date bill the same day; the unique key is on the start (`edited` in `NoOverlap`, `Contiguous`) | `phase-2.md:56`: "periods are server-computed and always contiguous" |
| `occupancy_stale`, `MCOccupancy` | `StatusReflectsContracts` | two requests on one contract decide the sync from a stale status, and the property keeps the wrong one (`disturbed` in `OccupancyMatches`) | `properties/models/property.py:32`: "to reflect whether the property currently has an ACTIVE contract" |
| `lease_short_term`, `MCOccupancy` | `LeaseOnLongTerm` | a contract turns short-term between the check and the insert of its lease | `leasing/models/lease.py:32`: "Only ever created against a `Contract` whose `rental_type` is `long_term`" |
| `replace_race`, `MCDocumentStorage` | `UpdatedCorrectly` | of two overlapping replacements, the one that commits first and cleans up last removes as its old object the key the other has made current (`mishap` in `FileRecoverable`, `LeftoversLogged`). No call fails. In one process, where storage calls block the event loop, it takes a commit whose answer arrives after the other replacement is done | `document_service.py:404`: "the document is already correctly updated" |
| `link_moved`, `MCAccounts` | `LinkNeverMoved` | two `link_user` calls on one tenant both read it unlinked, and the second takes the link of the first; the constraint is on the user, not on the tenant (what `LinkMovesOnlyBlindly` leaves open) | `tenant_service.py:200`: "the DB constraint remains the final backstop against concurrent-request races" |
| `document_mixed`, `MCPortfolio` | `ContractAlwaysSourceOfTruth` | two updates of a document, each writing the columns that changed for it, leave it with the contract of one and the property of the other (`raced` in `ContractIsSourceOfTruth`, `VisibleMeansReadable`) | `document_service.py:686`: "If a contract is present, it is the source of truth" |

The models show more, for which no definition is stated:

- The credit of a paid record stays on it when a stale evaluation makes it overdue again.
- An update that read a payment before its correction takes VOIDED back. A payment can also be
  created VOIDED.
- A replacement and a deletion of a document that overlap can leave a file behind (`mishap`). An
  object whose upload raised after storing it stays in the bucket, neither removed nor logged
  ("stranded"). A receipt's document can be replaced by anyone who may edit documents, where
  `docs/roadmap-alignment.md:34` speaks of immutable PDF storage.
- Activating the active template again, while another activation commits, leaves the
  scope without a template (`raced` in `ReceiptTemplates`).
- If the EXPIRE of an address counter is not sent, the address stays counted for good
  (`severed`; the comment at `ip_rate_limit.py:51` knows of the moment between the two commands,
  but not of a second one that is never sent). The number of lockouts, and with it the doubling,
  is forgotten after the longest lockout.
- The feed loses the entries of deleted contracts and documents, and collections write no audit
  rows. An account that was deleted while it assigned a manager gets the answer
  `ManagerAssignedToPropertyError`, which is how the service reads any foreign-key error there.

**Workloads.** Some instances would be too large with every request at once. Their MC module
has one more variable, chosen in the initial state and never changed, that selects a mix of
requests (`workload`, `staff`, `agenda`); one run explores all of the mixes. The properties of
the components do not mention it, except `GrowingMoneyBacked` and `SteadyWorkerBills`, which are
about one workload. `MCOccupancy` lets fewer contracts and clients take part once
a behaviour is disturbed.

**Bounds.** Ledger: one record (no request touches two, and records share no columns), two or
three payment ids, two clients. Two clients are enough for each lost update, since each is a
read overtaken by one commit; the theorems cover any number. Amounts are chosen around the rent
(2) and the rent with fee (3): below, exactly, above. `MaxSum` caps the sum of the amounts in a
run; it is at least the number of payments times the largest amount, so it excludes nothing.
Jobs: two leases or records, so that an aborted run has one to leave behind, two clients next to
the job, two days, one crash of the evaluation; generations begin only on leases with fewer than
`MaxPeriods` records. A cycle of 2 days is enough to tell the off-by-one errors (overlap by a
day, gap of a day) apart. Occupancy: one property (properties meet nowhere), three contracts and
clients. Documents: one document, whose keys no other shares, three uploads, so that two
replacements can follow an upload, and three names of which two have the same base. Receipts:
one payment, two documents, so that a reprint can race the first receipt, two templates, two
scopes. Throttle: limits of 2 and 1, windows of 2 seconds, lockouts of 2 and 3 seconds, so that
the doubling meets its cap. Accounts: the admin and a second user, two tenants, one property,
three spellings of two names, two passwords, two stamps. Portfolio: two properties, each with a
contract, two managers, one collection and one document, which can move between the contracts.

**Symmetry** is used for ids that are compared for equality only, and never in a run with
liveness (`jobs`, `throttle`).

**Deadlock** is checked in the ledger and the throttle. Elsewhere the system stops when the
bounds are used up: the calendar ends, all ids are taken and deleted.

**Fairness.** Weak fairness of the jobs' own steps and of the calendar (`CronStep`,
`SweepStep`): arq starts each cron job every day and awaits each step, so it is enough that the
worker stays up and the database answers. Users need not do anything. In `CronSpec` a day passes
after its run has ended, which matches a run that takes less than a day. Crashes are left out
there, since a worker that crashes every day bills nobody. `DueRecordsMarked` is conditional: a
record whose fee rounds to 0.00 and is never corrected ends every run, and what follows it in
the list may never be reached. In `LoginThrottle` time passes (`Tick`), and a request that has
begun goes on, its next command returning or raising (`Proceed`); nobody has to log in.

**Mutations.** Next to a definition, an operator whose comment begins with `Bug:` is a
plausible wrong version of it. `PROJECT.json` pairs each property of a passing run with one
that violates it.

## 4. Proofs

Every safety property of a passing run is also a theorem: for any number of clients, rows,
files and uploads, any limits and any amounts. `PROJECT.json` pairs them up.

**Assumptions** are the ones next to the constants, and TLC evaluates them in the runs: ids that
stand for NULL are not ids, amounts are positive, cycles have at least a day, sent values have
the types of the schemas. Beyond what TLC needs, the proofs use that ids of different tables
differ (`PortfolioAssumption`, the ids are UUIDs), that a file name is not an upload id and
there is one (`NameAssumption`), that finitely many requests, and at least one, can be open at
once (`AccountAssumption`), and that the payments table is finite (`BoundAssumption`). Two
hypotheses stand in theorems and not in an ASSUME: `OneAtATime`, one client, for what
`ledger_serial` checks with one client, and `NothingRevised`, see below.

Each inductive invariant below was first checked by TLC as an invariant of the component's run.
They have the same shape: the tables alone are not inductive, so the invariant says what each
open request may still count on between its read and its commit.

**BillingLedger_proofs.** *Any overlap*: `TypeCorrect`, `RefusalsHaveACause`,
`CorrectedPaymentsKept`, `CreditsFollowPayments`, `PendingNeverWrittenOff`. Needed beside the
properties is what a session remembers (`SessionsSound`): which columns it can have changed
(`RecordPlan`, `PaymentPlan`), and that a status which has left `pending` never returns to it
(`SeenOutOfPending`). A stale session can then only write a credit together with `paid`, or over
a record that has left `pending`, and a write-off only on a record whose status it has seen
outside `pending`. For `RefusalsHaveACause` every plan is shown to state its fee and its credit
in a way the constraints admit (`PlansStatable`), so that only columns which changed since the
read, or a fee of 0.00, can be refused.

*Any overlap, payments only made*: `MoneyStaysBacked` (`GrowingMoneyBacked`). What a session is about to
claim is covered by the payments that stand and its own (`PlanBacked`), and cover once given
is never taken away, since sums only grow (`BackedByMore`, `CommitPays`).

*One request at a time*: `CorrectionsStaySingle` (a corrected payment stays voided,
`CorrectedVoided`), `LedgerImplementsLifecycle` (what each request makes of a row is a step of the
life cycle, `RecordStep`, and the row is still the one it read, `SessionCurrent`), and
`PaymentsReconcile` (`SessionReconciles`: the new row was computed from the sum that the commit
leaves). `StatusTellsTruth` is the counterpart of the run `split_payment`: without overlap, and
while nothing but payments, overdue evaluations and write-offs happens (`NothingRevised`),
`StatusMatchesLedger` does hold; so it is the overlap that breaks it. With fee
corrections it would not hold: a fee that is taken back reconciles nothing before the next payment.

The sums are `MapThenSumSet` over a finite set of payments, a recursive function chosen on its
subsets. The library's induction theorems are of no use to these provers, but induction over a
finite set can be had from `FS_StrictSubsetOrderingWellFounded` and `WFMin`, which take sets and
not operators: a nonempty set of counterexamples has a minimal one (`MinimalSubset`). From this
follow that the function exists (`SolutionExists`), does not depend on the order of summation
(`FoldRemoves`), and grows by the amount of an added payment (`SumAdds`).

**BillingPeriods_proofs**: `TypeCorrect`, `NeverOverlap`, `AlwaysContiguous`,
`LeasesWithHistoryStay`, `CompletedRunsBill`. The invariant says that a computed period starts
the lease or follows a record *that exists* (`PlanFollows`, stable because records are never
deleted) and that the records of a lease are more than a cycle apart (`Spaced`), both for leases
that are not `edited`. A plan that lost the race is equal to an existing period start, which the
unique key refuses (without the key two records with different ids would share their days), or
comes after all of them. For the job, `RunProgress` follows a run: a listed lease is still to
do, in hand, or has more records than when it was listed; a period was free when it was
computed, so the conflict that the loop skips means that somebody else has billed the lease.
This holds for edited leases too.

**Occupancy_proofs**: `TypeCorrect`, `SingleActiveContract`, `NoOrphans`, and, with
`disturbed = {}` inside the property, `OccupancyFollows`. The
invariant of the first group says what a flushed session holds: it is alone on its contract
(`HeldAlone`), and its row would fit the tables if it were committed now (`HeldFits`). As
long as nothing is disturbed a contract has one session (`Apart`), and what that session
read is still so (`Fresh`); the index makes a deactivation commit, with its sync, before the
activation that follows it reads the property.

**DocumentStorage_proofs**: `DocumentsStaySound` (the invariant), `FilesStayRecoverable`,
`LeftoversStayLogged`, `LiveFilesProtected`. An upload works under an id of its own
(`SessionSound`), and a staging key holds the file it was made for or nothing (`Staged`). Unless
requests overlapped or a commit was lost, a document has one request and that request's file
is where its step left it (`Kept`); unless anything at all befell it, every key of the
document is accounted for by the row and the step of the request (`Layout`). Two names
with the same base make the old and the new key equal, so every step distinguishes that case.

**Receipts_proofs**: for templates `TemplatesTyped`, `ActiveTemplatesReadable`,
`ScopesKeepTemplates`. The invariant includes that a scope has at most one active template,
which the index alone gives (`OneActivePerScope`); the theorems need that an upload works on an
id of its own (`UploadSound`), and that what an activation read is still so unless it was
overtaken (`LoadSound`, `FindSound`). `ReceiptsImplementTemplates` and
`ReceiptsImplementDocuments` show that every step of the composition is a step of each part or
leaves it alone, so the theorems about the parts carry over. `ReceiptsStaySound`,
`ReceiptsKeepParents`, `NumbersPrintedOnce` and `ReceiptsStayReadable` are about the whole: an
issuance owns its number, and its document carries that number and no receipt (`IssueSound`);
the foreign keys keep the rest (`RowsSound`).

**LoginThrottle_proofs**: `ThrottleStaysSound`, `CountersAlwaysExpire`, `GuessesStayBounded`.
The bound on wrong guesses is an account of the answers 401 *still to come*: one for each
request about to send EXPIRE, a whole round for each about to delete the counter after it has
set the lock, and what the counter leaves. Told and to come together never exceed clients times
limit (`GuessesBounded`); a lockout, a success or an expired window starts the account over.

**Accounts_proofs**: `AlwaysSound`, `NamesStayUnique`, `ReferencesStayLive`, `AccountsRemain`,
`TokensMatchPasswords`, `RevocationsBite`, `LinksMoveOnlyBlindly`. Names and references need
only what a request has fixed (`Plan`), since the keys are asked again at the commit. Tokens
need that a new password version is a stamp that nobody else has or knows (`StampsFresh`), so
that who knows the present version knows the password (`PasswordsKnown`). For revocations, what
an account has committed since and what it still can commit are counted together
(`RevocationsCounted`).

**Portfolio_proofs**: `AlwaysSound`, `ParentsKept`, `ContractStaysTrue`, `ListedMeansReadable`.
Between its checks and its commit a request can count on little (`PlanSound`): contracts
never move, an id never comes back, nobody else works on an id that is not inserted yet
(`Alone`). That is enough for the derived columns: a document that no two updates
overlapped on agrees with its contract as long as the contract is there (`FiledAgree`),
and list, read and feed decide by those columns.

**Only model-checked**: the liveness properties `SteadyWorkerBills`, `DueRecordsMarked`,
`LockEnds` and `AddressReleased`, which rest on fairness and ENABLED and are out of these
provers' reach. The violated runs are counterexamples.

## 5. Plan

Modelling is done, as far as this code has state of its own, and every safety property of the
runs is proved. Worth adding:

1. invariants of `OverdueJob` that its liveness property rests on (what a run has evaluated so
   far, as `RunProgress` for the other job), as theorems;
2. `DocumentStorage`: which keys of an overlapped document can be left behind;
3. `OccupancyMatches` and `ContractIsSourceOfTruth` with weaker conditions than `disturbed` and
   `raced`: what exactly must overlap to break them.

## 6. Not modelled

- Request parsing and error translation in the routes, pagination, filters, the dashboard
  and the filtered listing of the audit log: read-only, or decided before anything is written.
- `update_tenant`: personal data that nothing else reads. Likewise names and addresses of
  properties, dates and amounts of contracts, titles of documents.
- The content of uploads and its validation, the layout of the PDF, the HTML of a template.
- Expiry and signature of tokens: a token is a member of the set of those handed out.
- Start-up, configuration, provisioning of database and bucket, logging, the notification
  service (it only logs), migrations and scripts; the admin that `seed_admin.py` creates
  is in the initial state of `Accounts`.
- The empty packages `ai`, `analytics`, `maintenance`, `notifications`.
