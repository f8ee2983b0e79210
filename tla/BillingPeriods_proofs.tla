----------------------- MODULE BillingPeriods_proofs -----------------------
(***************************************************************************)
(* Proofs about BillingPeriods, for every set of leases and clients, every *)
(* cycle length and every length of the calendar.                          *)
(***************************************************************************)
EXTENDS BillingPeriods, FiniteSetTheorems, TLAPS

-----------------------------------------------------------------------------
(* The inductive invariant *)

\* Only finitely many records are generated, so that they can be counted.
FinitePeriods == IsFiniteSet(periods)

\* A lease whose start date nobody edits keeps it.
StartsFixed == \A l \in Leases \ edited : lease[l].start_date = StartDate[l]

\* What a generation is about to insert is the start of the lease or follows a
\* record of the lease, read at some earlier time: records are never removed.
PlanFollows ==
    \A a \in Actors : gen[a].lease_id \notin edited =>
        /\ gen[a].step = "leaseLoaded" => gen[a].date = StartDate[gen[a].lease_id]
        /\ gen[a].step = "computed" =>
              \/ gen[a].date = StartDate[gen[a].lease_id]
              \/ \E s \in periods :
                    /\ s.lease_id = gen[a].lease_id
                    /\ gen[a].date = s.period_start + CycleLength + 1

\* A record starts the lease or follows another one.
RecordFollows ==
    \A r \in periods : r.lease_id \notin edited =>
        \/ r.period_start = StartDate[r.lease_id]
        \/ \E s \in periods :
              /\ s.lease_id = r.lease_id
              /\ r.period_start = s.period_start + CycleLength + 1

\* The unique constraint: two rows of a lease never begin on the same day.
StartsUnique ==
    \A r, s \in periods :
        r.lease_id = s.lease_id /\ r.period_start = s.period_start => r = s

\* Nothing of a lease lies before its start, and two records of a lease are at
\* least a cycle apart.
Spaced ==
    /\ \A r \in periods : r.lease_id \notin edited => r.period_start >= StartDate[r.lease_id]
    /\ \A r, s \in periods :
          r.lease_id = s.lease_id /\ r.lease_id \notin edited
          /\ r.period_start < s.period_start =>
              r.period_start + CycleLength < s.period_start

IInv ==
    /\ TypeOK /\ FinitePeriods
    /\ StartsFixed /\ PlanFollows /\ RecordFollows /\ StartsUnique /\ Spaced
    /\ HistoryKeepsLease

-----------------------------------------------------------------------------
(* Type correctness *)

\* The periods of one lease can be counted.
LEMMA CountType ==
    ASSUME FinitePeriods, NEW l \in Leases
    PROVE  Cardinality(PeriodsOf(l)) \in Nat
<1>1. PeriodsOf(l) \subseteq periods
    BY DEF PeriodsOf
<1>2. IsFiniteSet(PeriodsOf(l))
    BY <1>1, FS_Subset DEF FinitePeriods
<1>. QED
    BY <1>2, FS_CardinalityType

\* A generation that is under way has a lease and a date.
LEMMA GenFields ==
    ASSUME TypeOK, NEW a \in Actors, gen[a].step # "idle"
    PROVE  /\ gen[a].lease_id \in Leases
           /\ gen[a].date \in Nat
           /\ gen[a].step \in {"leaseLoaded", "computed"}
<1>1. gen[a] \in GenRow
    BY DEF TypeOK
<1>2. gen[a] # IdleGen
    BY DEF IdleGen
<1>. QED
    BY <1>1, <1>2 DEF GenRow

\* Any step of a generation keeps the types of the tables it touches.
LEMMA GenTypes ==
    ASSUME TypeOK, FinitePeriods, NEW a \in Actors
    PROVE  /\ \A l \in Leases : LoadLease(a, l) => gen' \in [Actors -> GenRow]
           /\ ComputePeriod(a) => gen' \in [Actors -> GenRow]
           /\ InsertPeriod(a) => /\ gen' \in [Actors -> GenRow]
                                /\ periods' \subseteq Period
<1>1. ASSUME NEW l \in Leases, LoadLease(a, l)
      PROVE  gen' \in [Actors -> GenRow]
  <2>1. lease[l].start_date \in Nat
      BY DEF TypeOK, LeaseRow
  <2>. QED
      BY <1>1, <2>1 DEF LoadLease, TypeOK, GenRow
<1>2. ASSUME ComputePeriod(a)
      PROVE  gen' \in [Actors -> GenRow]
  <2>1. /\ gen[a].step = "leaseLoaded"
        /\ gen[a] \in [step: {"leaseLoaded", "computed"}, lease_id: Leases, date: Nat]
      BY <1>2 DEF ComputePeriod, TypeOK, GenRow, IdleGen
  <2>2. CASE gen' = [gen EXCEPT ![a].step = "computed"]
      BY <2>1, <2>2 DEF TypeOK, GenRow
  <2>3. ASSUME NEW r \in PeriodsOf(gen[a].lease_id),
               gen' = [gen EXCEPT ![a].step = "computed", ![a].date = NextStart(r)]
        PROVE  gen' \in [Actors -> GenRow]
    <3>1. NextStart(r) \in Nat
        BY CycleAssumption DEF NextStart, PeriodEnd, PeriodsOf, TypeOK, Period
    <3>. QED
        BY <2>1, <2>3, <3>1 DEF TypeOK, GenRow
  <2>. QED
      BY <1>2, <2>2, <2>3 DEF ComputePeriod
<1>3. ASSUME InsertPeriod(a)
      PROVE  gen' \in [Actors -> GenRow] /\ periods' \subseteq Period
  <2>1. gen[a].step # "idle"
      BY <1>3 DEF InsertPeriod, CanInsert
  <2>2. NewPeriod(a) \in Period
      BY <2>1, GenFields, CountType DEF NewPeriod, Period
  <2>3. IdleGen \in GenRow
      BY DEF GenRow
  <2>. QED
      BY <1>3, <2>2, <2>3 DEF InsertPeriod, TypeOK
<1>. QED
    BY <1>1, <1>2, <1>3

\* The row that is inserted has a day of its own, and so was not in the table.
LEMMA InsertIsNew ==
    ASSUME NEW a \in Actors, InsertPeriod(a)
    PROVE  /\ periods' = periods \cup {NewPeriod(a)}
           /\ \A r \in periods : r.lease_id = NewPeriod(a).lease_id =>
                                    r.period_start # NewPeriod(a).period_start
           /\ NewPeriod(a) \notin periods
           /\ periods' # periods
<1>1. periods' = periods \cup {NewPeriod(a)} /\ ~Duplicate(a)
    BY DEF InsertPeriod, CanInsert
<1>2. NewPeriod(a).lease_id = gen[a].lease_id /\ NewPeriod(a).period_start = gen[a].date
    BY DEF NewPeriod
<1>3. \A r \in periods : r.lease_id = gen[a].lease_id => r.period_start # gen[a].date
    BY <1>1 DEF Duplicate, PeriodsOf
<1>. QED
    BY <1>1, <1>2, <1>3

\* The steps that add a record.
Inserts == \E a \in Actors : InsertPeriod(a)

LEMMA PeriodsStep ==
    ASSUME [Next]_vars
    PROVE  UNCHANGED periods \/ Inserts
BY DEF Next, UserStep, JobStep, JobStops, ClientStep, ClientLoad, ClientInsert, ClientFail,
       ComputePeriod, SetLeaseStatus, DeleteLease, EditStart, JobStart, JobLoad, JobInsert, JobSkip,
       JobAbort, JobCrash, JobEnd, NextDay, Inserts, Actors, vars

LEMMA FinitenessKept ==
    ASSUME FinitePeriods, [Next]_vars
    PROVE  FinitePeriods'
<1>1. CASE UNCHANGED periods
    BY <1>1 DEF FinitePeriods
<1>2. CASE Inserts
  <2>1. PICK a \in Actors : periods' = periods \cup {NewPeriod(a)}
      BY <1>2 DEF Inserts, InsertPeriod
  <2>. QED
      BY <2>1, FS_AddElement DEF FinitePeriods
<1>. QED
    BY <1>1, <1>2, PeriodsStep

LEMMA TypesKept ==
    ASSUME TypeOK, FinitePeriods, [Next]_vars
    PROVE  TypeOK'
<1>. USE DEF TypeOK
<1>a. Job \in Actors /\ Clients \subseteq Actors
    BY DEF Actors
<1>b. IdleGen \in GenRow
    BY DEF GenRow
<1>1. ASSUME NEW c \in Clients, NEW l \in Leases, ClientLoad(c, l)
      PROVE  TypeOK'
    BY <1>1, <1>a, GenTypes DEF ClientLoad
<1>2. ASSUME NEW a \in Actors, ComputePeriod(a)
      PROVE  TypeOK'
  <2>1. gen' \in [Actors -> GenRow]
      BY <1>2, GenTypes
  <2>. QED
      BY <1>2, <2>1 DEF ComputePeriod
<1>3. ASSUME NEW c \in Clients, ClientInsert(c)
      PROVE  TypeOK'
    BY <1>3, <1>a, GenTypes DEF ClientInsert
<1>4. ASSUME NEW c \in Clients, ClientFail(c)
      PROVE  TypeOK'
    BY <1>4, <1>a, <1>b DEF ClientFail
<1>5. ASSUME NEW l \in Leases, NEW status \in LeaseStatus, SetLeaseStatus(l, status)
      PROVE  TypeOK'
    BY <1>5 DEF SetLeaseStatus, LeaseRow
<1>6. ASSUME NEW l \in Leases, DeleteLease(l)
      PROVE  TypeOK'
    BY <1>6 DEF DeleteLease, LeaseRow
<1>15. ASSUME NEW l \in Leases, NEW date \in EditedStarts, EditStart(l, date)
      PROVE  TypeOK'
    BY <1>15, DateAssumption DEF EditStart, LeaseRow
<1>7. CASE JobStart
  <2>1. [l \in Leases |-> Cardinality(PeriodsOf(l))] \in [Leases -> Nat]
      BY CountType
  <2>. QED
      BY <1>7, <2>1 DEF JobStart, JobRow
<1>8. ASSUME NEW l \in Leases, JobLoad(l)
      PROVE  TypeOK'
  <2>1. gen' \in [Actors -> GenRow]
      BY <1>8, <1>a, GenTypes DEF JobLoad
  <2>. QED
      BY <1>8, <2>1 DEF JobLoad, JobRow
<1>9. CASE JobInsert
    BY <1>9, <1>a, GenTypes DEF JobInsert
<1>10. CASE JobSkip
    BY <1>10, <1>a, <1>b DEF JobSkip
<1>11. CASE JobStops
    BY <1>11, <1>a, <1>b DEF JobStops, JobRow
<1>12. CASE JobEnd
    BY <1>12 DEF JobEnd, JobRow
<1>13. CASE NextDay
    BY <1>13 DEF NextDay
<1>14. CASE UNCHANGED vars
    BY <1>14 DEF vars
<1>. QED
    BY <1>1, <1>2, <1>3, <1>4, <1>5, <1>6, <1>7, <1>8, <1>9, <1>10, <1>11, <1>12, <1>13,
       <1>14, <1>15, <1>a
    DEF Next, UserStep, JobStep, ClientStep, JobAbort, JobCrash

-----------------------------------------------------------------------------
(* Periods of a lease *)

\* Adding a period that follows what is there, and is not there, keeps the periods
\* of a lease apart.  new either starts the lease or follows a record s; a record
\* beyond new follows one that is at least new, so it cannot be too close to new.
LEMMA InsertKeepsSpacing ==
    ASSUME TypeOK, RecordFollows, Spaced,
           NEW new \in Period,
           \A r \in periods : r.lease_id = new.lease_id => r.period_start # new.period_start,
           \/ new.period_start = StartDate[new.lease_id]
           \/ \E s \in periods : /\ s.lease_id = new.lease_id
                                 /\ new.period_start = s.period_start + CycleLength + 1,
           new.lease_id \notin edited,
           periods' = periods \cup {new}, UNCHANGED edited
    PROVE  RecordFollows' /\ Spaced'
<1>. USE CycleAssumption, DateAssumption
<1>a. \A r \in periods : r \in Period
    BY DEF TypeOK
<1>b. \A r \in Period : /\ r.lease_id \in Leases
                        /\ r.period_start \in Nat
                        /\ StartDate[r.lease_id] \in Nat
    BY DEF Period
<1>1. RecordFollows'
    BY DEF RecordFollows
<1>2. new.period_start >= StartDate[new.lease_id]
    BY <1>a, <1>b DEF Spaced
<1>3. ASSUME NEW r \in periods, r.lease_id = new.lease_id,
             r.period_start < new.period_start
      PROVE  r.period_start + CycleLength < new.period_start
  <2>1. r.period_start >= StartDate[new.lease_id]
      BY <1>3 DEF Spaced
  <2>2. PICK s \in periods : /\ s.lease_id = new.lease_id
                             /\ new.period_start = s.period_start + CycleLength + 1
      BY <1>3, <1>a, <1>b, <2>1
  <2>3. r.period_start <= s.period_start
      BY <1>3, <1>a, <1>b, <2>2 DEF Spaced
  <2>. QED
      BY <1>a, <1>b, <2>2, <2>3
<1>4. ASSUME NEW r \in periods, r.lease_id = new.lease_id,
             new.period_start < r.period_start
      PROVE  new.period_start + CycleLength < r.period_start
  <2>1. PICK u \in periods : /\ u.lease_id = r.lease_id
                             /\ r.period_start = u.period_start + CycleLength + 1
      BY <1>4, <1>2, <1>a, <1>b DEF RecordFollows
  <2>2. u.period_start # new.period_start
      BY <1>4, <2>1
  <2>3. CASE new.period_start = StartDate[new.lease_id]
      BY <1>4, <1>a, <1>b, <2>1, <2>2, <2>3 DEF Spaced
  <2>4. ASSUME NEW s \in periods, s.lease_id = new.lease_id,
               new.period_start = s.period_start + CycleLength + 1
        PROVE  new.period_start <= u.period_start
    <3>1. s.period_start < u.period_start
        BY <1>4, <1>a, <1>b, <2>1, <2>4
    <3>. QED
        BY <1>4, <1>a, <1>b, <2>1, <2>4, <3>1 DEF Spaced
  <2>5. new.period_start <= u.period_start
      BY <1>4, <1>a, <1>b, <2>1, <2>3, <2>4 DEF Spaced
  <2>. QED
      BY <1>a, <1>b, <2>1, <2>5
<1>5. Spaced'
    BY <1>2, <1>3, <1>4, <1>a, <1>b DEF Spaced
<1>. QED
    BY <1>1, <1>5

\* An edit of a start date stays recorded, and no step edits one while it adds a record.
LEMMA EditedGrows ==
    ASSUME [Next]_vars
    PROVE  edited \subseteq edited' /\ (Inserts => UNCHANGED edited)
<1>1. edited \subseteq edited'
    BY DEF Next, UserStep, JobStep, JobStops, ClientStep, ClientLoad, ClientInsert, ClientFail,
       ComputePeriod, SetLeaseStatus, DeleteLease, EditStart, JobStart, JobLoad, JobInsert,
       JobSkip, JobAbort, JobCrash, JobEnd, NextDay, vars
<1>2. ASSUME NEW a \in Actors, InsertPeriod(a) PROVE UNCHANGED edited
  <2>1. periods' # periods
      BY <1>2, InsertIsNew
  <2>. QED
      BY <2>1 DEF Next, UserStep, JobStep, JobStops, ClientStep, ClientLoad, ClientInsert,
         ClientFail, ComputePeriod, SetLeaseStatus, DeleteLease, EditStart, JobStart, JobLoad,
         JobInsert, JobSkip, JobAbort, JobCrash, JobEnd, NextDay, vars
<1>. QED
    BY <1>1, <1>2 DEF Inserts

LEMMA StartsKept ==
    ASSUME TypeOK, StartsFixed, [Next]_vars
    PROVE  StartsFixed'
<1>1. ASSUME NEW l \in Leases, NEW status, lease' = [lease EXCEPT ![l].status = status]
      PROVE  StartsFixed'
    BY <1>1, EditedGrows DEF StartsFixed, TypeOK, LeaseRow
<1>2. CASE UNCHANGED lease
    BY <1>2, EditedGrows DEF StartsFixed
<1>3. ASSUME NEW l \in Leases, NEW date \in EditedStarts, EditStart(l, date)
      PROVE  StartsFixed'
    BY <1>3 DEF EditStart, StartsFixed, TypeOK, LeaseRow
<1>. QED
    BY <1>1, <1>2, <1>3 DEF Next, UserStep, JobStep, JobStops, ClientStep, ClientLoad, ClientInsert,
       ClientFail, ComputePeriod, SetLeaseStatus, DeleteLease, EditStart, JobStart, JobLoad, JobInsert,
       JobSkip, JobAbort, JobCrash, JobEnd, NextDay, vars

\* The foreign key of billing_records: neither the insert nor the deletion of the lease
\* looks at what it read earlier.
LEMMA LeaseKept ==
    ASSUME TypeOK, HistoryKeepsLease, [Next]_vars
    PROVE  HistoryKeepsLease'
<1>a. \A r \in periods : r.lease_id \in Leases
    BY DEF TypeOK, Period
<1>1. CASE Inserts
  <2>1. PICK a \in Actors : InsertPeriod(a)
      BY <1>1 DEF Inserts
  <2>2. periods' = periods \cup {NewPeriod(a)} /\ periods' # periods
      BY <2>1, InsertIsNew
  <2>3. lease[NewPeriod(a).lease_id].status # "DELETED"
      BY <2>1 DEF InsertPeriod, CanInsert, NewPeriod
  <2>4. UNCHANGED lease
      BY <2>2 DEF Next, UserStep, JobStep, JobStops, ClientStep, ClientLoad, ClientInsert,
         ClientFail, ComputePeriod, SetLeaseStatus, DeleteLease, EditStart, JobStart, JobLoad,
         JobInsert, JobSkip, JobAbort, JobCrash, JobEnd, NextDay, vars
  <2>. QED
      BY <2>2, <2>3, <2>4 DEF HistoryKeepsLease
<1>2. ASSUME UNCHANGED periods, NEW l \in Leases, NEW status \in LeaseStatus,
             SetLeaseStatus(l, status)
      PROVE  HistoryKeepsLease'
    BY <1>2, <1>a DEF SetLeaseStatus, HistoryKeepsLease, TypeOK, LeaseRow, LeaseStatus
<1>3. ASSUME UNCHANGED periods, NEW l \in Leases, DeleteLease(l)
      PROVE  HistoryKeepsLease'
    BY <1>3, <1>a DEF DeleteLease, PeriodsOf, HistoryKeepsLease, TypeOK, LeaseRow
<1>4. ASSUME UNCHANGED periods, NEW l \in Leases, NEW date \in EditedStarts, EditStart(l, date)
      PROVE  HistoryKeepsLease'
    BY <1>4, <1>a DEF EditStart, HistoryKeepsLease, TypeOK, LeaseRow
<1>5. CASE UNCHANGED <<periods, lease>>
    BY <1>5 DEF HistoryKeepsLease
<1>. QED
    BY <1>1, <1>2, <1>3, <1>4, <1>5, PeriodsStep
    DEF Next, UserStep, JobStep, JobStops, ClientStep, ClientLoad, ClientInsert, ClientFail,
        ComputePeriod, JobStart, JobLoad, JobInsert, JobSkip, JobAbort, JobCrash, JobEnd,
        NextDay, vars

\* What a generation plans stays true as other actors add records.
LEMMA PlansKept ==
    ASSUME IInv, [Next]_vars
    PROVE  PlanFollows'
<1>. USE DEF IInv
<1>a. periods \subseteq periods'
  <2>1. Inserts => periods \subseteq periods'
      BY DEF Inserts, InsertPeriod
  <2>. QED
      BY <2>1, PeriodsStep
<1>c. edited \subseteq edited'
    BY EditedGrows
<1>b. ASSUME NEW b \in Actors,
             \A a \in Actors \ {b} : gen'[a] = gen[a],
             gen'[b] = gen[b] \/ gen'[b] = IdleGen
      PROVE  PlanFollows'
    BY <1>a, <1>b, <1>c DEF PlanFollows, IdleGen
<1>1. ASSUME NEW b \in Actors, NEW l \in Leases, LoadLease(b, l)
      PROVE  PlanFollows'
  <2>1. /\ \A a \in Actors \ {b} : gen'[a] = gen[a]
        /\ gen'[b] = [step |-> "leaseLoaded", lease_id |-> l, date |-> lease[l].start_date]
        /\ l \notin edited => lease[l].start_date = StartDate[l]
      BY <1>1 DEF LoadLease, TypeOK, StartsFixed
  <2>. QED
      BY <1>a, <1>c, <2>1 DEF PlanFollows
<1>2. ASSUME NEW b \in Actors, ComputePeriod(b)
      PROVE  PlanFollows'
  <2>1. /\ gen[b].step = "leaseLoaded"
        /\ gen[b] \in [step: {"leaseLoaded", "computed"}, lease_id: Leases, date: Nat]
        /\ gen[b].lease_id \notin edited => gen[b].date = StartDate[gen[b].lease_id]
        /\ gen \in [Actors -> GenRow]
      BY <1>2 DEF ComputePeriod, TypeOK, GenRow, IdleGen, PlanFollows
  <2>2. CASE gen' = [gen EXCEPT ![b].step = "computed"]
    <3>1. /\ \A a \in Actors \ {b} : gen'[a] = gen[a]
          /\ gen'[b].step = "computed"
          /\ gen'[b].lease_id = gen[b].lease_id
          /\ gen'[b].date = gen[b].date
        BY <2>1, <2>2
    <3>. QED
        BY <1>a, <1>c, <2>1, <3>1 DEF PlanFollows
  <2>3. ASSUME NEW r \in PeriodsOf(gen[b].lease_id),
               gen' = [gen EXCEPT ![b].step = "computed", ![b].date = NextStart(r)]
        PROVE  PlanFollows'
    <3>1. /\ \A a \in Actors \ {b} : gen'[a] = gen[a]
          /\ gen'[b].step = "computed"
          /\ gen'[b].lease_id = gen[b].lease_id
          /\ gen'[b].date = NextStart(r)
        BY <2>1, <2>3
    <3>2. /\ r \in periods'
          /\ r.lease_id = gen[b].lease_id
          /\ NextStart(r) = r.period_start + CycleLength + 1
        BY <1>a DEF PeriodsOf, NextStart, PeriodEnd
    <3>. QED
        BY <1>a, <1>c, <3>1, <3>2 DEF PlanFollows
  <2>. QED
      BY <1>2, <2>2, <2>3 DEF ComputePeriod
<1>3. ASSUME NEW b \in Actors, gen' = [gen EXCEPT ![b] = IdleGen]
      PROVE  PlanFollows'
    BY <1>3, <1>b DEF TypeOK
<1>4. CASE UNCHANGED gen
    BY <1>4, <1>a, <1>c DEF PlanFollows
<1>5. Job \in Actors /\ Clients \subseteq Actors
    BY DEF Actors
<1>. QED
    BY <1>1, <1>2, <1>3, <1>4, <1>5 DEF Next, UserStep, JobStep, JobStops, ClientStep,
       ClientLoad, ClientInsert, InsertPeriod, ClientFail, SetLeaseStatus, DeleteLease, EditStart,
       JobStart, JobLoad, JobInsert, JobSkip, JobAbort, JobCrash, JobEnd, NextDay, vars

LEMMA IInvInit == Init => IInv
<1>. SUFFICES ASSUME Init PROVE IInv
    OBVIOUS
<1>. USE DateAssumption DEF Init
<1>1. TypeOK
    BY DEF TypeOK, LeaseRow, LeaseStatus, Period, GenRow, JobRow, IdleJob
<1>2. FinitePeriods
    BY FS_EmptySet DEF FinitePeriods
<1>3. StartsFixed /\ PlanFollows
    BY DEF StartsFixed, PlanFollows, IdleGen
<1>4. RecordFollows /\ StartsUnique /\ Spaced /\ HistoryKeepsLease
    BY DEF RecordFollows, StartsUnique, Spaced, HistoryKeepsLease
<1>. QED
    BY <1>1, <1>2, <1>3, <1>4 DEF IInv

LEMMA IInvNext == IInv /\ [Next]_vars => IInv'
<1>. SUFFICES ASSUME IInv, [Next]_vars PROVE IInv'
    OBVIOUS
<1>1. TypeOK' /\ FinitePeriods'
    BY TypesKept, FinitenessKept DEF IInv
<1>2. StartsFixed' /\ PlanFollows'
    BY StartsKept, PlansKept DEF IInv
<1>3. RecordFollows' /\ Spaced'
  <2>1. CASE UNCHANGED periods
      BY <2>1, EditedGrows DEF IInv, RecordFollows, Spaced
  <2>2. CASE Inserts
    <3>1. PICK a \in Actors : InsertPeriod(a)
        BY <2>2 DEF Inserts
    <3>2. gen[a].step = "computed"
        BY <3>1 DEF InsertPeriod, CanInsert
    <3>3. NewPeriod(a) \in Period
        BY <3>2, GenFields, CountType DEF IInv, NewPeriod, Period
    <3>4. /\ NewPeriod(a).lease_id = gen[a].lease_id
          /\ NewPeriod(a).period_start = gen[a].date
        BY DEF NewPeriod
    <3>0. UNCHANGED edited
        BY <2>2, EditedGrows
    <3>5. ASSUME NewPeriod(a).lease_id \notin edited PROVE
          \/ NewPeriod(a).period_start = StartDate[NewPeriod(a).lease_id]
          \/ \E s \in periods :
                /\ s.lease_id = NewPeriod(a).lease_id
                /\ NewPeriod(a).period_start = s.period_start + CycleLength + 1
        BY <3>2, <3>4, <3>5 DEF IInv, PlanFollows
    <3>6. /\ \A r \in periods : r.lease_id = NewPeriod(a).lease_id =>
                                   r.period_start # NewPeriod(a).period_start
          /\ periods' = periods \cup {NewPeriod(a)}
        BY <3>1, InsertIsNew
    <3>7. CASE NewPeriod(a).lease_id \in edited
        BY <3>0, <3>6, <3>7 DEF IInv, RecordFollows, Spaced
    <3>. QED
        BY <3>0, <3>3, <3>5, <3>6, <3>7, InsertKeepsSpacing DEF IInv
  <2>. QED
      BY <2>1, <2>2, PeriodsStep
<1>4. HistoryKeepsLease'
    BY LeaseKept DEF IInv
<1>5. StartsUnique'
  <2>1. CASE UNCHANGED periods
      BY <2>1 DEF IInv, StartsUnique
  <2>2. CASE Inserts
    <3>1. PICK a \in Actors : InsertPeriod(a)
        BY <2>2 DEF Inserts
    <3>. QED
        BY <3>1, InsertIsNew DEF IInv, StartsUnique
  <2>. QED
      BY <2>1, <2>2, PeriodsStep
<1>. QED
    BY <1>1, <1>2, <1>3, <1>4, <1>5 DEF IInv

-----------------------------------------------------------------------------
(* A run of the job *)

Count(l) == Cardinality(PeriodsOf(l))

\* What a run has done so far: a listed lease is still to do, is being billed, or has more
\* records than when the run listed it.  A period that the job computed was free when it
\* computed it, so a conflict at the INSERT means that somebody has billed the lease since.
RunProgress ==
    /\ \A l \in Leases : job.before[l] <= Count(l)
    /\ job.todo \subseteq job.listed
    /\ job.outcome = "done" => job.todo = {}
    /\ gen[Job].step # "idle" => job.outcome = "running"
    /\ job.outcome \in {"running", "done"} =>
          \A l \in job.listed \ job.todo :
              Count(l) > job.before[l] \/ (gen[Job].step # "idle" /\ gen[Job].lease_id = l)
    /\ gen[Job].step = "computed" /\ Duplicate(Job) =>
          Count(gen[Job].lease_id) > job.before[gen[Job].lease_id]

\* A record more counts for its lease and for no other.
LEMMA InsertCounts ==
    ASSUME FinitePeriods, NEW a \in Actors, InsertPeriod(a), NEW l \in Leases
    PROVE  Count(l)' = Count(l) + (IF gen[a].lease_id = l THEN 1 ELSE 0)
<1>1. periods' = periods \cup {NewPeriod(a)} /\ NewPeriod(a) \notin periods
    BY InsertIsNew
<1>2. NewPeriod(a).lease_id = gen[a].lease_id
    BY DEF NewPeriod
<1>3. PeriodsOf(l) \subseteq periods /\ IsFiniteSet(PeriodsOf(l)) /\ Count(l) \in Nat
    BY FS_Subset, CountType DEF FinitePeriods, PeriodsOf, Count
<1>4. CASE gen[a].lease_id = l
  <2>1. PeriodsOf(l)' = PeriodsOf(l) \cup {NewPeriod(a)} /\ NewPeriod(a) \notin PeriodsOf(l)
      BY <1>1, <1>2, <1>4 DEF PeriodsOf
  <2>2. Cardinality(PeriodsOf(l) \cup {NewPeriod(a)}) = Cardinality(PeriodsOf(l)) + 1
      BY <1>3, <2>1, FS_AddElement
  <2>. QED
      BY <1>4, <2>1, <2>2 DEF Count
<1>5. CASE gen[a].lease_id # l
  <2>1. PeriodsOf(l)' = PeriodsOf(l)
      BY <1>1, <1>2, <1>5 DEF PeriodsOf
  <2>2. Count(l)' = Count(l)
      BY <2>1 DEF Count
  <2>. QED
      BY <1>3, <1>5, <2>2
<1>. QED
    BY <1>4, <1>5

\* Records are never removed.
LEMMA CountsGrow ==
    ASSUME FinitePeriods, [Next]_vars, NEW l \in Leases
    PROVE  Count(l) \in Nat /\ Count(l)' \in Nat /\ Count(l) <= Count(l)'
<1>1. Count(l) \in Nat
    BY CountType DEF Count
<1>2. CASE UNCHANGED periods
    BY <1>1, <1>2 DEF Count, PeriodsOf
<1>3. CASE Inserts
    BY <1>1, <1>3, InsertCounts DEF Inserts
<1>. QED
    BY <1>2, <1>3, PeriodsStep

\* The period after the latest record of a lease is free when it is computed.
LEMMA ComputedFree ==
    ASSUME TypeOK, NEW a \in Actors, ComputePeriod(a)
    PROVE  ~Duplicate(a)' /\ gen'[a].lease_id = gen[a].lease_id /\ gen'[a].step = "computed"
<1>1. /\ gen[a].step = "leaseLoaded"
      /\ gen[a] \in [step: {"leaseLoaded", "computed"}, lease_id: Leases, date: Nat]
      /\ gen \in [Actors -> GenRow] /\ periods' = periods
    BY DEF ComputePeriod, TypeOK, GenRow, IdleGen
<1>2. CASE PeriodsOf(gen[a].lease_id) = {} /\ gen' = [gen EXCEPT ![a].step = "computed"]
  <2>1. gen'[a].lease_id = gen[a].lease_id /\ gen'[a].step = "computed"
      BY <1>1, <1>2
  <2>. QED
      BY <1>1, <1>2, <2>1 DEF Duplicate, PeriodsOf
<1>3. ASSUME NEW r \in PeriodsOf(gen[a].lease_id), IsLatest(r),
             gen' = [gen EXCEPT ![a].step = "computed", ![a].date = NextStart(r)]
      PROVE  ~Duplicate(a)' /\ gen'[a].lease_id = gen[a].lease_id /\ gen'[a].step = "computed"
  <2>1. /\ gen'[a].lease_id = gen[a].lease_id /\ gen'[a].step = "computed"
        /\ gen'[a].date = NextStart(r)
      BY <1>1, <1>3
  <2>2. ASSUME NEW s \in periods, s.lease_id = gen[a].lease_id PROVE s.period_start < NextStart(r)
    <3>1. s \in Period /\ r \in Period /\ r.lease_id = gen[a].lease_id
        BY DEF TypeOK, PeriodsOf
    <3>2. PeriodEnd(s) <= PeriodEnd(r)
        BY <1>3, <2>2, <3>1 DEF IsLatest, PeriodsOf
    <3>3. s.period_start \in Nat /\ r.period_start \in Nat
        BY <3>1 DEF Period
    <3>. QED
        BY <3>2, <3>3, CycleAssumption DEF PeriodEnd, NextStart
  <2>3. ASSUME Duplicate(a)' PROVE FALSE
    <3>1. PICK s \in periods : s.lease_id = gen[a].lease_id /\ s.period_start = NextStart(r)
        BY <1>1, <2>1, <2>3 DEF Duplicate, PeriodsOf
    <3>2. s.period_start \in Nat
        BY <3>1 DEF TypeOK, Period
    <3>. QED
        BY <2>2, <3>1, <3>2
  <2>. QED
      BY <2>1, <2>3
<1>. QED
    BY <1>2, <1>3 DEF ComputePeriod

\* The steps of everybody but the job.
LEMMA OthersKeepProgress ==
    ASSUME TypeOK, FinitePeriods, RunProgress, [Next]_vars, UNCHANGED job, gen'[Job] = gen[Job]
    PROVE  RunProgress'
<1>1. \A l \in Leases : Count(l) \in Nat /\ Count(l)' \in Nat /\ Count(l) <= Count(l)' /\ job.before[l] \in Nat
    BY CountsGrow DEF TypeOK, JobRow
<1>2. job.listed \subseteq Leases
    BY DEF TypeOK, JobRow
<1>3. ASSUME gen[Job].step = "computed", Duplicate(Job)', NEW k \in Leases, k = gen[Job].lease_id
      PROVE  Count(k)' > job.before[k]
  <2>1. CASE Duplicate(Job)
    <3>1. Count(k) > job.before[k]
        BY <1>3, <2>1 DEF RunProgress
    <3>. QED
        BY <1>1, <3>1
  <2>2. CASE ~Duplicate(Job)
    <3>1. PICK r \in periods' : r.lease_id = k /\ r \notin periods
        BY <1>3, <2>2 DEF Duplicate, PeriodsOf
    <3>2. PICK a \in Actors : InsertPeriod(a)
        BY <3>1, PeriodsStep DEF Inserts
    <3>3. r = NewPeriod(a)
        BY <3>1, <3>2, InsertIsNew
    <3>4. gen[a].lease_id = k
        BY <3>1, <3>3 DEF NewPeriod
    <3>5. Count(k)' = Count(k) + 1
        BY <3>2, <3>4, InsertCounts
    <3>6. job.before[k] <= Count(k)
        BY DEF RunProgress
    <3>. QED
        BY <1>1, <3>5, <3>6
  <2>. QED
      BY <2>1, <2>2
<1>4. \A l \in Leases : job'.before[l] <= Count(l)'
    BY <1>1 DEF RunProgress
<1>5. job'.outcome \in {"running", "done"} =>
          \A l \in job'.listed \ job'.todo :
              Count(l)' > job'.before[l] \/ (gen'[Job].step # "idle" /\ gen'[Job].lease_id = l)
  <2>1. SUFFICES ASSUME job.outcome \in {"running", "done"}, NEW l \in job.listed \ job.todo
                 PROVE  Count(l)' > job.before[l] \/ (gen[Job].step # "idle" /\ gen[Job].lease_id = l)
      OBVIOUS
  <2>2. Count(l) > job.before[l] \/ (gen[Job].step # "idle" /\ gen[Job].lease_id = l)
      BY <2>1 DEF RunProgress
  <2>. QED
      BY <1>1, <1>2, <2>1, <2>2
<1>6. gen'[Job].step = "computed" /\ Duplicate(Job)' =>
          \E k \in Leases : k = gen'[Job].lease_id /\ Count(k)' > job'.before[k]
  <2>1. gen[Job].step = "computed" => gen[Job].lease_id \in Leases
      BY GenFields DEF Actors
  <2>. QED
      BY <1>3, <2>1
<1>. QED
    BY <1>4, <1>5, <1>6 DEF RunProgress

LEMMA ProgressKept ==
    ASSUME TypeOK, FinitePeriods, RunProgress, [Next]_vars
    PROVE  RunProgress'
<1>a. Job \in Actors /\ Job \notin Clients /\ gen \in [Actors -> GenRow]
    BY ActorAssumption DEF Actors, TypeOK
<1>b. \A l \in Leases : Count(l) \in Nat /\ Count(l)' \in Nat /\ Count(l) <= Count(l)' /\ job.before[l] \in Nat
    BY CountsGrow DEF TypeOK, JobRow
<1>c. job \in JobRow /\ job.listed \subseteq Leases /\ job.todo \subseteq Leases
    BY DEF TypeOK, JobRow
<1>d. ASSUME UNCHANGED periods PROVE \A l : Count(l)' = Count(l)
    BY <1>d DEF Count, PeriodsOf
<1>1. ASSUME NEW c \in Clients, ClientStep(c) PROVE RunProgress'
  <2>1. gen'[Job] = gen[Job] /\ UNCHANGED job
      BY <1>1, <1>a DEF ClientStep, ClientLoad, LoadLease, ComputePeriod, ClientInsert, InsertPeriod, ClientFail
  <2>. QED
      BY <2>1, OthersKeepProgress
<1>2. CASE UNCHANGED <<gen, job>>
    BY <1>2, OthersKeepProgress
<1>3. CASE JobStart
  <2>1. UNCHANGED <<periods, gen>> /\ gen[Job].step = "idle"
      BY <1>3 DEF JobStart, RunProgress
  <2>2. /\ job'.todo = job'.listed /\ job'.outcome = "running"
        /\ \A l \in Leases : job'.before[l] = Count(l)
      BY <1>3 DEF JobStart, Count
  <2>3. \A l \in Leases : job'.before[l] <= Count(l)'
      BY <1>b, <2>2
  <2>. QED
      BY <2>1, <2>2, <2>3 DEF RunProgress
<1>4. ASSUME NEW l \in Leases, JobLoad(l) PROVE RunProgress'
  <2>1. /\ gen[Job].step = "idle" /\ gen'[Job].step = "leaseLoaded" /\ gen'[Job].lease_id = l
        /\ job'.todo = job.todo \ {l} /\ job'.listed = job.listed /\ job'.before = job.before
        /\ job'.outcome = "running" /\ job.outcome = "running" /\ UNCHANGED periods
      BY <1>4, <1>a, <1>c DEF JobLoad, LoadLease, JobRow
  <2>2. \A k \in Leases : job'.before[k] <= Count(k)'
      BY <1>d, <2>1 DEF RunProgress
  <2>3. \A k \in job'.listed \ job'.todo : Count(k)' > job'.before[k] \/ (gen'[Job].step # "idle" /\ gen'[Job].lease_id = k)
      BY <1>d, <2>1 DEF RunProgress
  <2>. QED
      BY <2>1, <2>2, <2>3 DEF RunProgress
<1>5. CASE ComputePeriod(Job)
  <2>1. ~Duplicate(Job)' /\ gen'[Job].lease_id = gen[Job].lease_id /\ gen'[Job].step = "computed"
      BY <1>5, <1>a, ComputedFree
  <2>2. UNCHANGED <<periods, job>> /\ gen[Job].step = "leaseLoaded"
      BY <1>5 DEF ComputePeriod
  <2>3. \A k \in Leases : job'.before[k] <= Count(k)'
      BY <1>d, <2>2 DEF RunProgress
  <2>4. job'.outcome \in {"running", "done"} =>
          \A k \in job'.listed \ job'.todo : Count(k)' > job'.before[k] \/ (gen'[Job].step # "idle" /\ gen'[Job].lease_id = k)
      BY <1>d, <2>1, <2>2 DEF RunProgress
  <2>. QED
      BY <2>1, <2>2, <2>3, <2>4 DEF RunProgress
<1>6. ASSUME JobInsert \/ JobSkip PROVE RunProgress'
  <2>1. gen[Job].step = "computed" /\ UNCHANGED job /\ gen'[Job].step = "idle"
      BY <1>6, <1>a DEF JobInsert, InsertPeriod, CanInsert, JobSkip, IdleGen
  <2>2. gen[Job].lease_id \in Leases
      BY <1>a, <2>1, GenFields
  <2>3. \A l \in Leases : l = gen[Job].lease_id => Count(l)' > job.before[l]
    <3>1. CASE JobInsert
      <4>1. \A l \in Leases : Count(l)' = Count(l) + (IF gen[Job].lease_id = l THEN 1 ELSE 0)
          BY <1>a, <3>1, InsertCounts DEF JobInsert
      <4>. QED
          BY <1>b, <4>1 DEF RunProgress
    <3>2. CASE JobSkip
      <4>1. \A l \in Leases : l = gen[Job].lease_id => Count(l) > job.before[l]
          BY <2>1, <3>2 DEF JobSkip, RunProgress
      <4>. QED
          BY <1>b, <4>1
    <3>. QED
        BY <1>6, <3>1, <3>2
  <2>4. \A l \in Leases : job'.before[l] <= Count(l)'
      BY <1>b, <2>1 DEF RunProgress
  <2>5. job'.outcome \in {"running", "done"} => \A l \in job'.listed \ job'.todo : Count(l)' > job'.before[l]
    <3>1. SUFFICES ASSUME job.outcome \in {"running", "done"}, NEW l \in job.listed \ job.todo
                   PROVE  Count(l)' > job.before[l]
        BY <2>1
    <3>2. l \in Leases /\ (Count(l) > job.before[l] \/ gen[Job].lease_id = l)
        BY <1>c, <3>1 DEF RunProgress
    <3>. QED
        BY <1>b, <2>3, <3>2
  <2>. QED
      BY <2>1, <2>4, <2>5 DEF RunProgress
<1>7. CASE JobStops
  <2>1. /\ gen'[Job].step = "idle" /\ job'.outcome = "aborted" /\ job'.todo = {} /\ job'.listed = job.listed
        /\ job'.before = job.before /\ UNCHANGED periods
      BY <1>7, <1>a, <1>c DEF JobStops, JobRow, IdleGen
  <2>2. \A k \in Leases : job'.before[k] <= Count(k)'
      BY <1>d, <2>1 DEF RunProgress
  <2>. QED
      BY <2>1, <2>2 DEF RunProgress
<1>8. CASE JobEnd
  <2>1. /\ gen'[Job].step = "idle" /\ gen[Job].step = "idle" /\ job.todo = {} /\ job'.todo = {} /\ job'.listed = job.listed
        /\ job'.before = job.before /\ job.outcome = "running" /\ job'.outcome = "done" /\ UNCHANGED periods
      BY <1>8, <1>c DEF JobEnd, JobRow
  <2>2. \A k \in Leases : job'.before[k] <= Count(k)'
      BY <1>d, <2>1 DEF RunProgress
  <2>3. \A k \in job'.listed \ job'.todo : Count(k)' > job'.before[k]
      BY <1>d, <2>1 DEF RunProgress
  <2>. QED
      BY <2>1, <2>2, <2>3 DEF RunProgress
<1>. QED
    BY <1>1, <1>2, <1>3, <1>4, <1>5, <1>6, <1>7, <1>8
    DEF Next, UserStep, JobStep, SetLeaseStatus, DeleteLease, EditStart, JobAbort, JobCrash, NextDay, vars

\* No run has begun.
LEMMA ProgressInit == Init => RunProgress
<1>1. SUFFICES ASSUME Init PROVE RunProgress
    OBVIOUS
<1>2. gen[Job].step = "idle" /\ job = IdleJob /\ FinitePeriods
    BY <1>1, FS_EmptySet DEF Init, Actors, IdleGen, FinitePeriods
<1>3. \A l \in Leases : job.before[l] <= Count(l)
    BY <1>2, CountType DEF IdleJob, Count
<1>. QED
    BY <1>2, <1>3 DEF RunProgress, IdleJob

-----------------------------------------------------------------------------
(* Theorems *)

\* The leases, records, generations, job and calendar always have their types.
THEOREM TypeCorrect == Spec => []TypeOK
<1>1. IInv => TypeOK
    BY DEF IInv
<1>. QED
    BY IInvInit, IInvNext, <1>1, PTL DEF Spec

\* No day of a lease is billed twice, for any number of clients generating records
\* of any number of leases next to the job, while the start date is not edited: rows are
\* told apart by their id, so a period inserted twice would count as an overlap.
THEOREM NeverOverlap == Spec => []NoOverlap
<1>1. IInv => NoOverlap
  <2>. SUFFICES ASSUME IInv, NEW r \in periods, NEW s \in periods,
                       r.lease_id = s.lease_id, r.lease_id \notin edited, r # s
                PROVE  ~Overlap(r, s)
      BY DEF NoOverlap
  <2>1. r \in Period /\ s \in Period
      BY DEF IInv, TypeOK
  <2>2. r.period_start \in Nat /\ s.period_start \in Nat
      BY <2>1 DEF Period
  <2>3. r.period_start # s.period_start
      BY DEF IInv, StartsUnique
  <2>. QED
      BY <2>2, <2>3, CycleAssumption DEF IInv, Spaced, Overlap, PeriodEnd
<1>. QED
    BY IInvInit, IInvNext, <1>1, PTL DEF Spec

\* No day between two records of a lease goes unbilled: every record starts the lease
\* or begins the day after another record of the lease ends.
THEOREM AlwaysContiguous == Spec => []Contiguous
<1>1. IInv => Contiguous
    BY DEF IInv, RecordFollows, Contiguous, PeriodsOf, PeriodEnd
<1>. QED
    BY IInvInit, IInvNext, <1>1, PTL DEF Spec

\* A lease with billing records is never deleted: a deletion that listed no records and
\* a generation that had loaded the lease cannot both commit.
THEOREM LeasesWithHistoryStay == Spec => []HistoryKeepsLease
<1>1. IInv => HistoryKeepsLease
    BY DEF IInv
<1>. QED
    BY IInvInit, IInvNext, <1>1, PTL DEF Spec

\* A run of generate_due_billing_records that ends normally has moved every lease it listed
\* forward by a period: counting a conflict as skipped never leaves a lease unbilled, for
\* any number of clients that bill the same leases, and also when start dates are edited.
THEOREM CompletedRunsBill == Spec => []CompletedRunBills
<1>1. IInv /\ RunProgress => CompletedRunBills
    BY DEF RunProgress, CompletedRunBills, Count
<1>2. IInv /\ RunProgress /\ [Next]_vars => RunProgress'
    BY ProgressKept DEF IInv
<1>. QED
    BY IInvInit, IInvNext, ProgressInit, <1>1, <1>2, PTL DEF Spec
=============================================================================
