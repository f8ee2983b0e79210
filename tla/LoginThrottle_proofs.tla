-------------------------- MODULE LoginThrottle_proofs --------------------------
(***************************************************************************)
(* What LoginThrottle promises for any number of requests and any limits.  *)
(*                                                                         *)
(* The bound on guesses needs an account of the 401 answers still to come  *)
(* until a lockout, a success or an expired window starts it over: one of  *)
(* every request between the INCR of the first failure and its EXPIRE; as  *)
(* many as the limit of every request that has locked and not yet deleted  *)
(* the failure counter, since its DEL starts the counter over; and what    *)
(* the counter leaves.                                                     *)
(***************************************************************************)
EXTENDS LoginThrottle, FiniteSetTheorems, TLAPS

Max == LOGIN_MAX_FAILED_ATTEMPTS

\* Requests at a step.  T is the table of requests, in this state or in the next.
At(T, step) == {c \in Clients : T[c].step = step}

\* The answers still to come at EXPIRE, at DEL and from the counter.  With a limit of 1 the
\* request at EXPIRE locks instead of answering.
Expiring(T) == IF Max = 1 THEN 0 ELSE Cardinality(At(T, "expire_fail"))
Deleting(T) == Cardinality(At(T, "delete_fail")) * Max
Left(T, count) == IF At(T, "delete_fail") = Clients \/ count >= Max THEN 0 ELSE Max - 1 - count

GuessesBounded == told + Expiring(tx) + Deleting(tx) + Left(tx, fail.count) <= Cardinality(Clients) * Max

\* A lockout knows its cycle.
CyclesCounted == \A c \in Clients : tx[c].step \in {"expire_lockcount", "set_lock"} => tx[c].cycle >= 1

ThrottleSound == CountersExpire /\ CyclesCounted /\ GuessesBounded

-----------------------------------------------------------------------------
(* Numbers *)

\* 2 ^ n counts the subsets of a set with n members.
LEMMA PowerTyped == ASSUME NEW n \in Nat PROVE 2 ^ n \in Nat
<1>1. IsFiniteSet(1..n) /\ Cardinality(1..n) = n
    BY FS_Interval
<1>2. IsFiniteSet(SUBSET (1..n)) /\ Cardinality(SUBSET (1..n)) = 2 ^ n
    BY <1>1, FS_SUBSET, Zenon
<1>. QED
    BY <1>2, FS_CardinalityType

\* No lockout is longer than LOGIN_LOCKOUT_MAX_SECONDS.
LEMMA DurationBounded ==
    ASSUME NEW cycle \in Nat, cycle >= 1
    PROVE  Duration(cycle) \in Nat /\ Duration(cycle) <= LOGIN_LOCKOUT_MAX_SECONDS
<1>1. 2 ^ (cycle - 1) \in Nat
    BY PowerTyped
<1>. QED
    BY <1>1, ThrottleAssumption DEF Duration, Seconds

LEMMA ProductBound == ASSUME NEW k \in Nat, NEW m \in Nat, k >= 1, m >= 1 PROVE k + m <= k * m + 1
OBVIOUS

LEMMA SpareBound ==
    ASSUME NEW d \in Nat, NEW e \in Nat, NEW n \in Nat, NEW m \in Nat, m >= 1, d < n, d + e <= n
    PROVE  e + d * m + (m - 1) <= n * m
<1>1. PICK k \in Nat : n = d + k /\ k >= 1
    <2>1. n - d \in Nat /\ n = d + (n - d) /\ n - d >= 1
        OBVIOUS
    <2>. QED
        BY <2>1
<1>2. n * m = d * m + k * m /\ d * m \in Nat /\ k * m \in Nat
    BY <1>1
<1>3. k + m <= k * m + 1
    BY <1>1, ProductBound
<1>. QED
    BY <1>1, <1>2, <1>3

LEMMA LimitTyped == Max \in Nat /\ Max >= 1 /\ Cardinality(Clients) \in Nat /\ IsFiniteSet(Clients)
BY ThrottleAssumption, FS_CardinalityType DEF Max

-----------------------------------------------------------------------------
(* Counting requests *)

LEMMA AtCounted ==
    ASSUME NEW T, NEW step
    PROVE  /\ IsFiniteSet(At(T, step)) /\ Cardinality(At(T, step)) \in Nat
           /\ Cardinality(At(T, step)) <= Cardinality(Clients)
           /\ At(T, step) # Clients => Cardinality(At(T, step)) < Cardinality(Clients)
<1>1. At(T, step) \in SUBSET Clients
    BY DEF At
<1>2. /\ IsFiniteSet(At(T, step)) /\ Cardinality(At(T, step)) <= Cardinality(Clients)
      /\ Cardinality(Clients) = Cardinality(At(T, step)) => Clients = At(T, step)
    BY <1>1, LimitTyped, FS_Subset, Zenon
<1>3. Cardinality(At(T, step)) \in Nat
    BY <1>2, FS_CardinalityType
<1>. QED
    BY <1>2, <1>3, LimitTyped

LEMMA TwoCounted ==
    ASSUME NEW T
    PROVE  Cardinality(At(T, "delete_fail")) + Cardinality(At(T, "expire_fail")) <= Cardinality(Clients)
<1>. DEFINE D == At(T, "delete_fail")  E == At(T, "expire_fail")
<1>1. D \cap E = {} /\ D \cup E \in SUBSET Clients
    BY DEF At
<1>2. IsFiniteSet(D) /\ IsFiniteSet(E) /\ Cardinality(D) \in Nat /\ Cardinality(E) \in Nat
    BY AtCounted
<1>. HIDE DEF D, E
<1>3. Cardinality(D \cup E) = Cardinality(D) + Cardinality(E)
    <2>1. Cardinality(D \cup E) = Cardinality(D) + Cardinality(E) - Cardinality(D \cap E)
        BY <1>2, FS_Union
    <2>2. Cardinality(D \cap E) = 0
        BY <1>1, FS_EmptySet
    <2>. QED
        BY <1>2, <2>1, <2>2
<1>4. Cardinality(D \cup E) <= Cardinality(Clients)
    BY <1>1, LimitTyped, FS_Subset
<1>. QED
    BY <1>3, <1>4 DEF D, E

LEMMA WeightsTyped ==
    ASSUME NEW T, NEW count \in Nat
    PROVE  Expiring(T) \in Nat /\ Deleting(T) \in Nat /\ Left(T, count) \in Nat
<1>1. Expiring(T) \in Nat
    BY AtCounted DEF Expiring
<1>2. Deleting(T) \in Nat
    <2>1. Cardinality(At(T, "delete_fail")) \in Nat /\ Max \in Nat
        BY AtCounted, LimitTyped
    <2>. QED
        BY <2>1 DEF Deleting
<1>3. Left(T, count) \in Nat
    BY LimitTyped DEF Left
<1>. QED
    BY <1>1, <1>2, <1>3

\* After a lockout, a success or an expired window there is room for all answers to come.
LEMMA FreshBound ==
    ASSUME NEW T, NEW count \in Nat
    PROVE  Expiring(T) + Deleting(T) + Left(T, count) <= Cardinality(Clients) * Max
<1>. DEFINE d == Cardinality(At(T, "delete_fail"))  e == Cardinality(At(T, "expire_fail"))  n == Cardinality(Clients)
<1>1. d \in Nat /\ e \in Nat /\ n \in Nat /\ d <= n /\ d + e <= n /\ Max \in Nat /\ Max >= 1
    BY AtCounted, TwoCounted, LimitTyped
<1>2. At(T, "delete_fail") # Clients => d < n
    BY AtCounted
<1>3. At(T, "delete_fail") = Clients => d = n
    OBVIOUS
<1>4. Deleting(T) = d * Max
    BY DEF Deleting
<1>5. Expiring(T) \in Nat /\ Expiring(T) <= e
    BY <1>1 DEF Expiring
<1>. HIDE DEF d, e, n
<1>6. CASE At(T, "delete_fail") = Clients
    <2>1. Left(T, count) = 0
        BY <1>6 DEF Left
    <2>2. Expiring(T) = 0 /\ d = n
        BY <1>1, <1>3, <1>5, <1>6
    <2>3. n * Max \in Nat
        BY <1>1
    <2>4. Expiring(T) + Deleting(T) + Left(T, count) = n * Max
        BY <1>4, <2>1, <2>2, <2>3
    <2>. QED
        BY <2>3, <2>4 DEF n
<1>7. CASE At(T, "delete_fail") # Clients
    <2>1. Left(T, count) \in Nat /\ Left(T, count) <= Max - 1
        BY <1>1, WeightsTyped DEF Left
    <2>2. d < n
        BY <1>2, <1>7
    <2>3. e + d * Max + (Max - 1) <= n * Max
        BY <1>1, <2>2, SpareBound
    <2>4. d * Max \in Nat /\ n * Max \in Nat
        BY <1>1
    <2>5. Expiring(T) + Deleting(T) + Left(T, count) <= n * Max
        BY <1>1, <1>4, <1>5, <2>1, <2>3, <2>4
    <2>. QED
        BY <2>5 DEF n
<1>. QED
    BY <1>6, <1>7

-----------------------------------------------------------------------------
(* One request moves *)

Moved(c, step) ==
    tx' \in [Clients -> Request] /\ tx'[c].step = step /\ \A k \in Clients \ {c} : tx'[k] = tx[k]

LEMMA GotoMoves ==
    ASSUME TypeOK, NEW c \in Clients,
           NEW step \in {"idle", "expire_ip", "check", "verify", "record", "expire_fail", "lock",
                         "expire_lockcount", "set_lock", "delete_fail", "success"},
           Goto(c, step)
    PROVE  Moved(c, step) /\ tx'[c].cycle = tx[c].cycle
BY DEF TypeOK, Goto, Moved, Request

LEMMA EndMoves ==
    ASSUME TypeOK, NEW c \in Clients, End(c)
    PROVE  Moved(c, "idle")
BY DEF TypeOK, End, Moved, Request, Idle

LEMMA AtMoves ==
    ASSUME NEW c \in Clients, NEW step, NEW st, Moved(c, step)
    PROVE  /\ (tx[c].step = st <=> step = st) => At(tx', st) = At(tx, st)
           /\ tx[c].step = st /\ step # st => Cardinality(At(tx, st)) = Cardinality(At(tx', st)) + 1
           /\ tx[c].step # st /\ step = st => Cardinality(At(tx', st)) = Cardinality(At(tx, st)) + 1
<1>1. (tx[c].step = st <=> step = st) => At(tx', st) = At(tx, st)
    BY DEF At, Moved
<1>2. ASSUME tx[c].step = st, step # st PROVE Cardinality(At(tx, st)) = Cardinality(At(tx', st)) + 1
    <2>1. At(tx', st) = At(tx, st) \ {c} /\ c \in At(tx, st)
        BY <1>2 DEF At, Moved
    <2>2. IsFiniteSet(At(tx, st)) /\ Cardinality(At(tx, st)) \in Nat
        BY AtCounted
    <2>3. Cardinality(At(tx, st) \ {c}) = Cardinality(At(tx, st)) - 1
        BY <2>1, <2>2, FS_RemoveElement
    <2>. QED
        BY <2>1, <2>2, <2>3
<1>3. ASSUME tx[c].step # st, step = st PROVE Cardinality(At(tx', st)) = Cardinality(At(tx, st)) + 1
    <2>1. At(tx', st) = At(tx, st) \cup {c} /\ c \notin At(tx, st)
        BY <1>3 DEF At, Moved
    <2>2. IsFiniteSet(At(tx, st))
        BY AtCounted
    <2>. QED
        BY <2>1, <2>2, FS_AddElement
<1>. QED
    BY <1>1, <1>2, <1>3

\* What a move does to the answers still to come.
LEMMA ExpiringMoves ==
    ASSUME NEW c \in Clients, NEW step, Moved(c, step)
    PROVE  /\ (tx[c].step = "expire_fail" <=> step = "expire_fail") => Expiring(tx') = Expiring(tx)
           /\ tx[c].step = "expire_fail" /\ step # "expire_fail" =>
                Expiring(tx) = Expiring(tx') + (IF Max = 1 THEN 0 ELSE 1)
           /\ tx[c].step # "expire_fail" /\ step = "expire_fail" =>
                Expiring(tx') = Expiring(tx) + (IF Max = 1 THEN 0 ELSE 1)
BY AtMoves DEF Expiring

LEMMA DeletingMoves ==
    ASSUME NEW c \in Clients, NEW step, Moved(c, step)
    PROVE  /\ (tx[c].step = "delete_fail" <=> step = "delete_fail") => Deleting(tx') = Deleting(tx)
           /\ tx[c].step = "delete_fail" /\ step # "delete_fail" => Deleting(tx) = Deleting(tx') + Max
<1>1. (tx[c].step = "delete_fail" <=> step = "delete_fail") => Deleting(tx') = Deleting(tx)
    BY AtMoves DEF Deleting
<1>2. ASSUME tx[c].step = "delete_fail", step # "delete_fail" PROVE Deleting(tx) = Deleting(tx') + Max
    <2>. DEFINE a == Cardinality(At(tx', "delete_fail"))  b == Cardinality(At(tx, "delete_fail"))
    <2>1. b = a + 1
        BY <1>2, AtMoves
    <2>2. a \in Nat /\ Max \in Nat
        BY AtCounted, LimitTyped
    <2>3. Deleting(tx) = b * Max /\ Deleting(tx') = a * Max
        BY DEF Deleting
    <2>. HIDE DEF a, b
    <2>4. (a + 1) * Max = a * Max + Max
        BY <2>2
    <2>. QED
        BY <2>1, <2>3, <2>4
<1>. QED
    BY <1>1, <1>2

\* A request that is not at DEL can use what the counter leaves.
LEMMA LeftOf ==
    ASSUME NEW c \in Clients, NEW T, T[c].step # "delete_fail", NEW count \in Nat
    PROVE  Left(T, count) = IF count >= Max THEN 0 ELSE Max - 1 - count
<1>1. At(T, "delete_fail") # Clients
    BY DEF At
<1>. QED
    BY <1>1 DEF Left

Bound == Cardinality(Clients) * Max

LEMMA BoundTyped == Bound \in Nat
<1>1. Cardinality(Clients) \in Nat /\ Max \in Nat
    BY LimitTyped
<1>. QED
    BY <1>1 DEF Bound

\* A move between other steps, or out of the steps with answers to come.
LEMMA QuietBound ==
    ASSUME TypeOK, GuessesBounded, NEW c \in Clients, NEW step, Moved(c, step), step \notin {"expire_fail", "delete_fail"},
           told' = told, fail'.count = fail.count
    PROVE  GuessesBounded'
<1>1. /\ told \in Nat /\ fail.count \in Nat /\ Max \in Nat /\ Max >= 1 /\ Bound \in Nat
      /\ told + Expiring(tx) + Deleting(tx) + Left(tx, fail.count) <= Bound
    BY LimitTyped, BoundTyped DEF TypeOK, Key, GuessesBounded, Bound
<1>2. /\ Expiring(tx) \in Nat /\ Deleting(tx) \in Nat /\ Left(tx, fail.count) \in Nat
      /\ Expiring(tx') \in Nat /\ Deleting(tx') \in Nat /\ Left(tx', fail.count) \in Nat
    BY <1>1, WeightsTyped
<1>3. Expiring(tx') <= Expiring(tx)
    BY <1>2, ExpiringMoves
<1>4. tx'[c].step # "delete_fail"
    BY DEF Moved
<1>5. Left(tx', fail.count) = IF fail.count >= Max THEN 0 ELSE Max - 1 - fail.count
    BY <1>1, <1>4, LeftOf
<1>6. Deleting(tx') + Left(tx', fail.count) <= Deleting(tx) + Left(tx, fail.count)
    <2>1. CASE tx[c].step = "delete_fail"
        <3>1. Deleting(tx) = Deleting(tx') + Max
            BY <2>1, DeletingMoves
        <3>2. Left(tx', fail.count) <= Max
            BY <1>1, <1>5
        <3>. QED
            BY <1>1, <1>2, <3>1, <3>2
    <2>2. CASE tx[c].step # "delete_fail"
        <3>1. Deleting(tx) = Deleting(tx')
            BY <2>2, DeletingMoves
        <3>2. Left(tx, fail.count) = IF fail.count >= Max THEN 0 ELSE Max - 1 - fail.count
            BY <1>1, <2>2, LeftOf
        <3>. QED
            BY <1>2, <1>5, <3>1, <3>2
    <2>. QED
        BY <2>1, <2>2
<1>7. told + Expiring(tx') + Deleting(tx') + Left(tx', fail.count) <= Bound
    BY <1>1, <1>2, <1>3, <1>6
<1>. QED
    BY <1>7 DEF GuessesBounded, Bound

\* A lockout, a success or an expired window starts over.
LEMMA FreshStart ==
    ASSUME told' = 0, fail'.count \in Nat
    PROVE  GuessesBounded'
<1>1. Expiring(tx') + Deleting(tx') + Left(tx', fail'.count) <= Bound
    BY FreshBound DEF Bound
<1>2. Expiring(tx') \in Nat /\ Deleting(tx') \in Nat /\ Left(tx', fail'.count) \in Nat
    BY WeightsTyped
<1>. QED
    BY <1>1, <1>2 DEF GuessesBounded, Bound

\* The counter is incremented and nobody is answered yet, or one more is.
LEMMA RecordBound ==
    ASSUME TypeOK, GuessesBounded, NEW c \in Clients, RecordFailure(c)
    PROVE  GuessesBounded'
<1>. DEFINE n == fail.count
<1>1. /\ told \in Nat /\ n \in Nat /\ Max \in Nat /\ Max >= 1 /\ Bound \in Nat
      /\ told + Expiring(tx) + Deleting(tx) + Left(tx, n) <= Bound
    BY LimitTyped, BoundTyped DEF TypeOK, Key, GuessesBounded, Bound
<1>2. /\ tx[c].step = "record" /\ fail' = Incr(fail, Max)
      /\ IF n + 1 = 1 THEN Goto(c, "expire_fail") /\ told' = told ELSE AfterIncr(c, n + 1)
    BY DEF RecordFailure, Max
<1>3. fail'.count = IF n < Max THEN n + 1 ELSE n
    BY <1>2 DEF Incr, TypeOK, Key
<1>4. fail'.count \in Nat
    BY <1>1, <1>3
<1>5. /\ Expiring(tx) \in Nat /\ Deleting(tx) \in Nat
      /\ Expiring(tx') \in Nat /\ Deleting(tx') \in Nat
    BY <1>1, WeightsTyped
<1>6. Left(tx, n) = IF n >= Max THEN 0 ELSE Max - 1 - n
    BY <1>1, <1>2, LeftOf
<1>7. ASSUME NEW step, Moved(c, step), step # "delete_fail"
      PROVE  /\ Deleting(tx') = Deleting(tx)
             /\ Left(tx', fail'.count) = IF fail'.count >= Max THEN 0 ELSE Max - 1 - fail'.count
    <2>1. tx'[c].step # "delete_fail"
        BY <1>7 DEF Moved
    <2>. QED
        BY <1>2, <1>4, <1>7, <2>1, DeletingMoves, LeftOf
<1>8. told' + Expiring(tx') + Deleting(tx') + Left(tx', fail'.count) <= Bound
    <2>1. CASE n = 0
        <3>1. Moved(c, "expire_fail") /\ told' = told
            BY <1>1, <1>2, <2>1, GotoMoves
        <3>2. Expiring(tx') = Expiring(tx) + (IF Max = 1 THEN 0 ELSE 1)
            BY <1>2, <3>1, ExpiringMoves
        <3>3. Left(tx, n) = Max - 1 /\ Left(tx', fail'.count) = IF Max = 1 THEN 0 ELSE Max - 2
            BY <1>1, <1>3, <1>6, <1>7, <2>1, <3>1
        <3>4. Deleting(tx') = Deleting(tx)
            BY <1>7, <3>1
        <3>. QED
            BY <1>1, <1>5, <3>1, <3>2, <3>3, <3>4
    <2>2. CASE n # 0 /\ n + 1 < Max
        <3>1. Moved(c, "idle") /\ told' = told + 1
            BY <1>1, <1>2, <2>2, EndMoves DEF AfterIncr, Refuse, Max
        <3>2. Expiring(tx') = Expiring(tx)
            BY <1>2, <3>1, ExpiringMoves
        <3>3. Left(tx, n) = Max - 1 - n /\ Left(tx', fail'.count) = Max - 2 - n
            BY <1>1, <1>3, <1>6, <1>7, <2>2, <3>1
        <3>4. Deleting(tx') = Deleting(tx)
            BY <1>7, <3>1
        <3>. QED
            BY <1>1, <1>5, <3>1, <3>2, <3>3, <3>4, <2>2
    <2>3. CASE n # 0 /\ n + 1 >= Max
        <3>1. Moved(c, "lock") /\ told' = told
            BY <1>1, <1>2, <2>3, GotoMoves DEF AfterIncr, Max
        <3>2. Expiring(tx') = Expiring(tx)
            BY <1>2, <3>1, ExpiringMoves
        <3>3. Left(tx, n) = 0 /\ Left(tx', fail'.count) = 0
            BY <1>1, <1>3, <1>6, <1>7, <2>3, <3>1
        <3>4. Deleting(tx') = Deleting(tx)
            BY <1>7, <3>1
        <3>. QED
            BY <1>1, <1>5, <3>1, <3>2, <3>3, <3>4
    <2>. QED
        BY <1>1, <2>1, <2>2, <2>3
<1>. QED
    BY <1>8 DEF GuessesBounded, Bound

LEMMA ExpireBound ==
    ASSUME TypeOK, GuessesBounded, NEW c \in Clients, ExpireFail(c)
    PROVE  GuessesBounded'
<1>. DEFINE n == fail.count
<1>1. /\ told \in Nat /\ n \in Nat /\ Max \in Nat /\ Max >= 1 /\ Bound \in Nat
      /\ told + Expiring(tx) + Deleting(tx) + Left(tx, n) <= Bound
    BY LimitTyped, BoundTyped DEF TypeOK, Key, GuessesBounded, Bound
<1>2. tx[c].step = "expire_fail" /\ fail' = Expire(fail, LOGIN_FAILURE_WINDOW_SECONDS) /\ AfterIncr(c, 1)
    BY DEF ExpireFail
<1>3. fail'.count = n
    BY <1>2 DEF Expire, TypeOK, Key
<1>4. CASE Max = 1
    <2>1. Moved(c, "lock") /\ told' = told
        BY <1>2, <1>4, GotoMoves DEF AfterIncr, Max
    <2>. QED
        BY <1>3, <2>1, QuietBound
<1>5. CASE Max # 1
    <2>1. Moved(c, "idle") /\ told' = told + 1
        BY <1>1, <1>2, <1>5, EndMoves DEF AfterIncr, Refuse, Max
    <2>2. Expiring(tx) = Expiring(tx') + 1
        BY <1>2, <1>5, <2>1, ExpiringMoves
    <2>3. Deleting(tx') = Deleting(tx)
        BY <1>2, <2>1, DeletingMoves
    <2>4. tx'[c].step # "delete_fail" /\ tx[c].step # "delete_fail"
        BY <1>2, <2>1 DEF Moved
    <2>5. Left(tx', n) = Left(tx, n)
        BY <1>1, <2>4, LeftOf
    <2>6. Expiring(tx') \in Nat /\ Deleting(tx) \in Nat /\ Left(tx, n) \in Nat
        BY <1>1, WeightsTyped
    <2>7. told' + Expiring(tx') + Deleting(tx') + Left(tx', n) <= Bound
        BY <1>1, <2>1, <2>2, <2>3, <2>5, <2>6
    <2>. QED
        BY <1>3, <2>7 DEF GuessesBounded, Bound
<1>. QED
    BY <1>4, <1>5

LEMMA DeleteBound ==
    ASSUME TypeOK, GuessesBounded, NEW c \in Clients, DeleteFail(c)
    PROVE  GuessesBounded'
<1>1. /\ told \in Nat /\ fail.count \in Nat /\ Max \in Nat /\ Max >= 1 /\ Bound \in Nat
      /\ told + Expiring(tx) + Deleting(tx) + Left(tx, fail.count) <= Bound
    BY LimitTyped, BoundTyped DEF TypeOK, Key, GuessesBounded, Bound
<1>2. tx[c].step = "delete_fail" /\ fail'.count = 0 /\ Moved(c, "idle") /\ told' = told + 1
    BY EndMoves DEF DeleteFail, Refuse, Absent
<1>3. Expiring(tx') = Expiring(tx)
    BY <1>2, ExpiringMoves
<1>4. Deleting(tx) = Deleting(tx') + Max
    BY <1>2, DeletingMoves
<1>5. Left(tx', 0) = Max - 1
    <2>1. tx'[c].step # "delete_fail"
        BY <1>2 DEF Moved
    <2>2. Left(tx', 0) = IF 0 >= Max THEN 0 ELSE Max - 1 - 0
        BY <2>1, LeftOf
    <2>. QED
        BY <1>1, <2>2
<1>6. Expiring(tx) \in Nat /\ Deleting(tx') \in Nat /\ Left(tx, fail.count) \in Nat
    BY <1>1, WeightsTyped
<1>7. told' + Expiring(tx') + Deleting(tx') + Left(tx', 0) <= Bound
    BY <1>1, <1>2, <1>3, <1>4, <1>5, <1>6
<1>. QED
    BY <1>2, <1>7 DEF GuessesBounded, Bound

\* A step of a request keeps the account of the answers to come.
LEMMA LoginBound ==
    ASSUME TypeOK, GuessesBounded, NEW c \in Clients, Login(c) \/ Abort(c)
    PROVE  GuessesBounded'
<1>1. fail.count \in Nat /\ tx \in [Clients -> Request]
    BY DEF TypeOK, Key
<1>2. CASE LoginWithoutIp(c)
    <2>1. Moved(c, "check")
        BY <1>2, GotoMoves DEF LoginWithoutIp
    <2>. QED
        BY <1>2, <2>1, QuietBound DEF LoginWithoutIp, redis
<1>3. CASE CheckIp(c)
    <2>1. CASE Goto(c, "expire_ip")
        <3>1. Moved(c, "expire_ip")
            BY <2>1, GotoMoves
        <3>. QED
            BY <1>3, <3>1, QuietBound DEF CheckIp
    <2>2. CASE Goto(c, "check")
        <3>1. Moved(c, "check")
            BY <2>2, GotoMoves
        <3>. QED
            BY <1>3, <3>1, QuietBound DEF CheckIp
    <2>3. CASE UNCHANGED tx
        <3>1. Moved(c, "idle")
            BY <1>1, <1>3, <2>3 DEF CheckIp, Moved
        <3>. QED
            BY <1>3, <3>1, QuietBound DEF CheckIp
    <2>. QED
        BY <1>3, <2>1, <2>2, <2>3 DEF CheckIp
<1>4. CASE ExpireIp(c)
    <2>1. Moved(c, "check")
        BY <1>4, GotoMoves DEF ExpireIp
    <2>. QED
        BY <1>4, <2>1, QuietBound DEF ExpireIp
<1>5. CASE CheckLock(c)
    <2>1. Moved(c, "idle") \/ Moved(c, "verify")
        BY <1>5, GotoMoves, EndMoves DEF CheckLock
    <2>. QED
        BY <1>5, <2>1, QuietBound DEF CheckLock, redis
<1>6. CASE Verify(c)
    <2>1. Moved(c, "record") \/ Moved(c, "success")
        BY <1>6, GotoMoves DEF Verify
    <2>. QED
        BY <1>6, <2>1, QuietBound DEF Verify, redis
<1>7. CASE CountLockout(c)
    <2>1. Moved(c, "expire_lockcount")
        <3>1. Incr(lockcount, MaxCycle).count \in Nat
            BY ThrottleAssumption DEF Incr, TypeOK, Key
        <3>. QED
            BY <1>1, <1>7, <3>1 DEF CountLockout, Moved, Request
    <2>. QED
        BY <1>7, <2>1, QuietBound DEF CountLockout
<1>8. CASE ExpireLockcount(c)
    <2>1. Moved(c, "set_lock")
        BY <1>8, GotoMoves DEF ExpireLockcount
    <2>. QED
        BY <1>8, <2>1, QuietBound DEF ExpireLockcount
<1>9. CASE Abort(c)
    <2>1. Moved(c, "idle")
        BY <1>9, EndMoves DEF Abort
    <2>. QED
        BY <1>9, <2>1, QuietBound DEF Abort, redis
<1>10. CASE SetLock(c)
    BY <1>1, <1>10, FreshStart DEF SetLock
<1>11. CASE RecordSuccess(c)
    BY <1>11, FreshStart DEF RecordSuccess, Absent
<1>. QED
    BY <1>2, <1>3, <1>4, <1>5, <1>6, <1>7, <1>8, <1>9, <1>10, <1>11, RecordBound, ExpireBound, DeleteBound DEF Login

\* A second passes: an expired window starts the account over.
LEMMA TickBound ==
    ASSUME TypeOK, GuessesBounded, Tick
    PROVE  GuessesBounded'
<1>1. fail \in Key
    BY DEF TypeOK
<1>2. CASE fail.ttl = 1
    BY <1>2, FreshStart DEF Tick, Older, Absent
<1>3. CASE fail.ttl # 1
    <2>1. fail'.count = fail.count
        BY <1>1, <1>3 DEF Tick, Older, Key
    <2>2. told' = told /\ tx' = tx
        BY <1>3 DEF Tick
    <2>. QED
        BY <2>1, <2>2 DEF GuessesBounded
<1>. QED
    BY <1>2, <1>3

-----------------------------------------------------------------------------
(* Keys and their time to live *)

KeyOK(key) == key \in Key /\ (key.count = 0 => key.ttl = 0)

\* A counter without a time to live has a request about to set one, or lost it.
Awaited(key, cut, name, T, st) ==
    key.count > 0 /\ key.ttl = 0 => name \in cut \/ \E c \in Clients : T[c].step = st

LEMMA CountersParts ==
    CountersExpire <=>
        /\ KeyOK(fail) /\ KeyOK(lock) /\ KeyOK(lockcount) /\ KeyOK(ip)
        /\ tx \in [Clients -> Request] /\ told \in Nat /\ severed \subseteq {"fail", "ip", "lockcount"}
        /\ lock.ttl <= LOGIN_LOCKOUT_MAX_SECONDS
        /\ Awaited(fail, severed, "fail", tx, "expire_fail")
        /\ Awaited(ip, severed, "ip", tx, "expire_ip")
        /\ Awaited(lockcount, severed, "lockcount", tx, "expire_lockcount")
BY DEF CountersExpire, TypeOK, KeyOK, Awaited

LEMMA NextCountersParts ==
    CountersExpire' <=>
        /\ KeyOK(fail') /\ KeyOK(lock') /\ KeyOK(lockcount') /\ KeyOK(ip')
        /\ tx' \in [Clients -> Request] /\ told' \in Nat /\ severed' \subseteq {"fail", "ip", "lockcount"}
        /\ lock'.ttl <= LOGIN_LOCKOUT_MAX_SECONDS
        /\ Awaited(fail', severed', "fail", tx', "expire_fail")
        /\ Awaited(ip', severed', "ip", tx', "expire_ip")
        /\ Awaited(lockcount', severed', "lockcount", tx', "expire_lockcount")
BY DEF CountersExpire, TypeOK, KeyOK, Awaited

\* What INCR, EXPIRE, DEL and a second do to a key.
LEMMA KeyCommands ==
    ASSUME NEW key, KeyOK(key), NEW limit \in Nat, NEW seconds \in Nat \ {0}
    PROVE  /\ KeyOK(Absent) /\ Absent.count = 0
           /\ KeyOK(Incr(key, limit))
           /\ Incr(key, limit).ttl = key.ttl
           /\ limit # 0 => Incr(key, limit).count >= 1
           /\ KeyOK(Expire(key, seconds)) /\ ~(Expire(key, seconds).count > 0 /\ Expire(key, seconds).ttl = 0)
           /\ KeyOK(Older(key)) /\ Older(key).ttl <= key.ttl
           /\ Older(key).count > 0 /\ Older(key).ttl = 0 => Older(key) = key
<1>1. KeyOK(Absent) /\ Absent.count = 0
    BY DEF Absent, KeyOK, Key
<1>2. KeyOK(Incr(key, limit)) /\ Incr(key, limit).ttl = key.ttl /\ (limit # 0 => Incr(key, limit).count >= 1)
    BY DEF Incr, KeyOK, Key
<1>3. KeyOK(Expire(key, seconds)) /\ ~(Expire(key, seconds).count > 0 /\ Expire(key, seconds).ttl = 0)
    BY DEF Expire, KeyOK, Key
<1>4. KeyOK(Older(key)) /\ Older(key).ttl <= key.ttl /\ (Older(key).count > 0 /\ Older(key).ttl = 0 => Older(key) = key)
    <2>1. CASE key.ttl = 1
        BY <1>1, <2>1 DEF Older, Absent
    <2>2. CASE key.ttl = 0
        BY <2>2 DEF Older, KeyOK, Key
    <2>3. CASE key.ttl \notin {0, 1}
        BY <2>3 DEF Older, KeyOK, Key
    <2>. QED
        BY <2>1, <2>2, <2>3
<1>. QED
    BY <1>1, <1>2, <1>3, <1>4

\* A request that does not leave st leaves a counter awaited as it was.
LEMMA AwaitedKept ==
    ASSUME NEW c \in Clients, NEW step, Moved(c, step), NEW key, NEW name, NEW st,
           tx[c].step # st \/ step = st, name \in severed => name \in severed',
           Awaited(key, severed, name, tx, st)
    PROVE  Awaited(key, severed', name, tx', st)
BY DEF Awaited, Moved

\* The request at st awaits the counter, whatever the key.
LEMMA AwaitedBy ==
    ASSUME NEW c \in Clients, NEW step, Moved(c, step), NEW key, NEW name
    PROVE  Awaited(key, severed', name, tx', step)
BY DEF Awaited, Moved

-----------------------------------------------------------------------------
(* The inductive step *)

\* What a step of a request does to the table of requests.
LEMMA LoginMoves ==
    ASSUME TypeOK, NEW c \in Clients, Login(c) \/ Abort(c)
    PROVE  \E step : Moved(c, step)
<1>1. tx \in [Clients -> Request]
    BY DEF TypeOK
<1>2. ASSUME UNCHANGED tx PROVE Moved(c, tx[c].step)
    BY <1>1, <1>2 DEF Moved
<1>3. CASE LoginWithoutIp(c) \/ CheckIp(c) \/ ExpireIp(c) \/ CheckLock(c) \/ Verify(c)
    BY <1>2, <1>3, GotoMoves, EndMoves DEF LoginWithoutIp, CheckIp, ExpireIp, CheckLock, Verify
<1>4. CASE RecordFailure(c) \/ ExpireFail(c)
    BY <1>4, GotoMoves, EndMoves DEF RecordFailure, ExpireFail, AfterIncr, Refuse
<1>5. CASE CountLockout(c)
    <2>1. Incr(lockcount, MaxCycle).count \in Nat
        BY ThrottleAssumption DEF Incr, TypeOK, Key
    <2>. QED
        BY <1>1, <1>5, <2>1 DEF CountLockout, Moved, Request
<1>6. CASE ExpireLockcount(c)
    BY <1>6, GotoMoves DEF ExpireLockcount
<1>7. CASE SetLock(c)
    BY <1>1, <1>7 DEF SetLock, Moved, Request, Idle
<1>8. CASE DeleteFail(c) \/ RecordSuccess(c) \/ Abort(c)
    BY <1>8, EndMoves DEF DeleteFail, Refuse, RecordSuccess, Abort
<1>. QED
    BY <1>3, <1>4, <1>5, <1>6, <1>7, <1>8 DEF Login

\* Keys stay typed and no lockout is too long.
LEMMA LoginKeys ==
    ASSUME CountersExpire, CyclesCounted, NEW c \in Clients, Login(c) \/ Abort(c)
    PROVE  /\ KeyOK(fail') /\ KeyOK(lock') /\ KeyOK(lockcount') /\ KeyOK(ip')
           /\ told' \in Nat /\ severed' \subseteq {"fail", "ip", "lockcount"}
           /\ lock'.ttl <= LOGIN_LOCKOUT_MAX_SECONDS
<1>1. /\ KeyOK(fail) /\ KeyOK(lock) /\ KeyOK(lockcount) /\ KeyOK(ip)
      /\ tx \in [Clients -> Request] /\ told \in Nat /\ severed \subseteq {"fail", "ip", "lockcount"}
      /\ lock.ttl <= LOGIN_LOCKOUT_MAX_SECONDS
    BY CountersParts
<1>2. /\ LOGIN_MAX_FAILED_ATTEMPTS \in Nat /\ LOGIN_IP_LIMIT + 1 \in Nat /\ MaxCycle \in Nat
      /\ LOGIN_FAILURE_WINDOW_SECONDS \in Nat \ {0} /\ LOGIN_LOCKOUT_MAX_SECONDS \in Nat \ {0}
      /\ LOGIN_IP_WINDOW_SECONDS \in Nat \ {0}
    BY ThrottleAssumption DEF Seconds, MaxCycle
<1>3. CASE LoginWithoutIp(c) \/ CheckLock(c) \/ Verify(c) \/ Abort(c)
    <2>1. severed' \subseteq {"fail", "ip", "lockcount"}
        BY <1>1, <1>3 DEF LoginWithoutIp, CheckLock, Verify, Abort
    <2>. QED
        BY <1>1, <1>3, <2>1 DEF LoginWithoutIp, CheckLock, Verify, Abort, redis
<1>4. CASE CheckIp(c)
    <2>1. KeyOK(ip')
        BY <1>1, <1>2, <1>4, KeyCommands DEF CheckIp
    <2>. QED
        BY <1>1, <1>4, <2>1 DEF CheckIp
<1>5. CASE ExpireIp(c)
    <2>1. KeyOK(ip')
        BY <1>1, <1>2, <1>5, KeyCommands DEF ExpireIp
    <2>. QED
        BY <1>1, <1>5, <2>1 DEF ExpireIp
<1>6. CASE RecordFailure(c)
    <2>1. KeyOK(fail') /\ told' \in Nat
        BY <1>1, <1>2, <1>6, KeyCommands DEF RecordFailure, AfterIncr, Refuse
    <2>. QED
        BY <1>1, <1>6, <2>1 DEF RecordFailure
<1>7. CASE ExpireFail(c)
    <2>1. KeyOK(fail') /\ told' \in Nat
        <3>1. KeyOK(fail')
            BY <1>1, <1>2, <1>7, KeyCommands DEF ExpireFail
        <3>2. told' \in Nat
            BY <1>1, <1>7 DEF ExpireFail, AfterIncr, Refuse
        <3>. QED
            BY <3>1, <3>2
    <2>. QED
        BY <1>1, <1>7, <2>1 DEF ExpireFail
<1>8. CASE CountLockout(c)
    <2>1. KeyOK(lockcount')
        BY <1>1, <1>2, <1>8, KeyCommands DEF CountLockout
    <2>. QED
        BY <1>1, <1>8, <2>1 DEF CountLockout
<1>9. CASE ExpireLockcount(c)
    <2>1. KeyOK(lockcount')
        BY <1>1, <1>2, <1>9, KeyCommands DEF ExpireLockcount
    <2>. QED
        BY <1>1, <1>9, <2>1 DEF ExpireLockcount
<1>10. CASE SetLock(c)
    <2>1. tx[c].cycle \in Nat /\ tx[c].cycle >= 1
        BY <1>1, <1>10 DEF SetLock, CyclesCounted, Request
    <2>2. Duration(tx[c].cycle) \in Nat /\ Duration(tx[c].cycle) <= LOGIN_LOCKOUT_MAX_SECONDS
        BY <2>1, DurationBounded
    <2>3. KeyOK(lock') /\ lock'.ttl <= LOGIN_LOCKOUT_MAX_SECONDS
        BY <1>10, <2>2 DEF SetLock, KeyOK, Key
    <2>. QED
        BY <1>1, <1>10, <2>3 DEF SetLock
<1>11. CASE DeleteFail(c) \/ RecordSuccess(c)
    <2>1. KeyOK(Absent) /\ Absent.ttl <= LOGIN_LOCKOUT_MAX_SECONDS
        BY <1>2 DEF KeyOK, Absent, Key
    <2>2. told' \in Nat
        BY <1>1, <1>11 DEF DeleteFail, RecordSuccess, Refuse
    <2>3. severed' \subseteq {"fail", "ip", "lockcount"}
        BY <1>1, <1>11 DEF DeleteFail, RecordSuccess
    <2>. QED
        BY <1>1, <1>11, <2>1, <2>2, <2>3 DEF DeleteFail, RecordSuccess
<1>. QED
    BY <1>3, <1>4, <1>5, <1>6, <1>7, <1>8, <1>9, <1>10, <1>11 DEF Login

\* The failure counter stays awaited: its EXPIRE follows the INCR that made it.
LEMMA FailAwaited ==
    ASSUME CountersExpire, NEW c \in Clients, Login(c) \/ Abort(c)
    PROVE  Awaited(fail', severed', "fail", tx', "expire_fail")
<1>1. TypeOK /\ KeyOK(fail) /\ Awaited(fail, severed, "fail", tx, "expire_fail")
    BY CountersParts DEF CountersExpire
<1>2. PICK step : Moved(c, step)
    BY <1>1, LoginMoves
<1>3. /\ LOGIN_MAX_FAILED_ATTEMPTS \in Nat \ {0}
      /\ LOGIN_FAILURE_WINDOW_SECONDS \in Nat \ {0}
    BY ThrottleAssumption DEF Seconds
<1>4. CASE RecordFailure(c)
    <2>1. CASE fail.count = 0
        <3>1. Moved(c, "expire_fail")
            BY <1>1, <1>4, <2>1, GotoMoves DEF RecordFailure
        <3>. QED
            BY <3>1, AwaitedBy
    <2>2. CASE fail.count # 0
        <3>1. fail'.ttl = fail.ttl
            BY <1>1, <1>3, <1>4, KeyCommands DEF RecordFailure
        <3>2. fail.count > 0
            BY <1>1, <2>2 DEF KeyOK, Key
        <3>3. Awaited(fail, severed', "fail", tx', "expire_fail")
            BY <1>1, <1>2, <1>4, AwaitedKept DEF RecordFailure
        <3>. QED
            BY <3>1, <3>2, <3>3 DEF Awaited
    <2>. QED
        BY <2>1, <2>2
<1>5. CASE ExpireFail(c)
    <2>1. ~(fail'.count > 0 /\ fail'.ttl = 0)
        BY <1>1, <1>3, <1>5, KeyCommands DEF ExpireFail
    <2>. QED
        BY <2>1 DEF Awaited
<1>6. CASE DeleteFail(c) \/ RecordSuccess(c)
    <2>1. fail'.count = 0
        BY <1>6 DEF DeleteFail, RecordSuccess, Absent
    <2>. QED
        BY <2>1 DEF Awaited
<1>7. CASE Abort(c)
    <2>1. fail' = fail /\ severed \subseteq severed'
        BY <1>7 DEF Abort, redis
    <2>2. CASE tx[c].step = "expire_fail"
        <3>1. fail.count > 0 /\ fail.ttl = 0 => "fail" \in severed'
            BY <1>7, <2>2 DEF Abort
        <3>. QED
            BY <2>1, <3>1 DEF Awaited
    <2>3. CASE tx[c].step # "expire_fail"
        BY <1>1, <1>2, <2>1, <2>3, AwaitedKept
    <2>. QED
        BY <2>2, <2>3
<1>8. CASE LoginWithoutIp(c) \/ CheckIp(c) \/ ExpireIp(c) \/ CheckLock(c) \/ Verify(c) \/ CountLockout(c)
           \/ ExpireLockcount(c) \/ SetLock(c)
    <2>1. fail' = fail /\ tx[c].step # "expire_fail" /\ ("fail" \in severed => "fail" \in severed')
        BY <1>8 DEF LoginWithoutIp, CheckIp, ExpireIp, CheckLock, Verify, CountLockout, ExpireLockcount, SetLock, redis
    <2>. QED
        BY <1>1, <1>2, <2>1, AwaitedKept
<1>. QED
    BY <1>4, <1>5, <1>6, <1>7, <1>8 DEF Login

\* So does the counter of the address.
LEMMA IpAwaited ==
    ASSUME CountersExpire, NEW c \in Clients, Login(c) \/ Abort(c)
    PROVE  Awaited(ip', severed', "ip", tx', "expire_ip")
<1>1. TypeOK /\ KeyOK(ip) /\ Awaited(ip, severed, "ip", tx, "expire_ip")
    BY CountersParts DEF CountersExpire
<1>2. PICK step : Moved(c, step)
    BY <1>1, LoginMoves
<1>3. LOGIN_IP_LIMIT \in Nat \ {0} /\ LOGIN_IP_LIMIT + 1 \in Nat /\ LOGIN_IP_WINDOW_SECONDS \in Nat \ {0}
    BY ThrottleAssumption DEF Seconds
<1>4. CASE CheckIp(c)
    <2>1. CASE ip.count = 0
        <3>1. Moved(c, "expire_ip")
            BY <1>1, <1>3, <1>4, <2>1, GotoMoves DEF CheckIp
        <3>. QED
            BY <3>1, AwaitedBy
    <2>2. CASE ip.count # 0
        <3>1. ip'.ttl = ip.ttl
            BY <1>1, <1>3, <1>4, KeyCommands DEF CheckIp
        <3>2. ip.count > 0
            BY <1>1, <2>2 DEF KeyOK, Key
        <3>3. Awaited(ip, severed', "ip", tx', "expire_ip")
            BY <1>1, <1>2, <1>4, AwaitedKept DEF CheckIp
        <3>. QED
            BY <3>1, <3>2, <3>3 DEF Awaited
    <2>. QED
        BY <2>1, <2>2
<1>5. CASE ExpireIp(c)
    <2>1. ~(ip'.count > 0 /\ ip'.ttl = 0)
        BY <1>1, <1>3, <1>5, KeyCommands DEF ExpireIp
    <2>. QED
        BY <2>1 DEF Awaited
<1>6. CASE Abort(c)
    <2>1. ip' = ip /\ severed \subseteq severed'
        BY <1>6 DEF Abort, redis
    <2>2. CASE tx[c].step = "expire_ip"
        <3>1. ip.count > 0 /\ ip.ttl = 0 => "ip" \in severed'
            BY <1>6, <2>2 DEF Abort
        <3>. QED
            BY <2>1, <3>1 DEF Awaited
    <2>3. CASE tx[c].step # "expire_ip"
        BY <1>1, <1>2, <2>1, <2>3, AwaitedKept
    <2>. QED
        BY <2>2, <2>3
<1>7. CASE LoginWithoutIp(c) \/ CheckLock(c) \/ Verify(c) \/ CountLockout(c) \/ ExpireLockcount(c) \/ SetLock(c)
           \/ RecordFailure(c) \/ ExpireFail(c) \/ DeleteFail(c) \/ RecordSuccess(c)
    <2>1. ip' = ip /\ tx[c].step # "expire_ip" /\ ("ip" \in severed => "ip" \in severed')
        BY <1>7 DEF LoginWithoutIp, CheckLock, Verify, CountLockout, ExpireLockcount, SetLock, RecordFailure, ExpireFail,
                    DeleteFail, RecordSuccess, redis
    <2>. QED
        BY <1>1, <1>2, <2>1, AwaitedKept
<1>. QED
    BY <1>4, <1>5, <1>6, <1>7 DEF Login

\* And the counter of lockouts.
LEMMA LockcountAwaited ==
    ASSUME CountersExpire, NEW c \in Clients, Login(c) \/ Abort(c)
    PROVE  Awaited(lockcount', severed', "lockcount", tx', "expire_lockcount")
<1>1. TypeOK /\ KeyOK(lockcount) /\ Awaited(lockcount, severed, "lockcount", tx, "expire_lockcount")
    BY CountersParts DEF CountersExpire
<1>2. PICK step : Moved(c, step)
    BY <1>1, LoginMoves
<1>3. LOGIN_LOCKOUT_MAX_SECONDS \in Nat \ {0}
    BY ThrottleAssumption DEF Seconds
<1>4. CASE CountLockout(c)
    <2>1. tx'[c].step = "expire_lockcount"
        BY <1>1, <1>4 DEF CountLockout, TypeOK
    <2>. QED
        BY <2>1 DEF Awaited
<1>5. CASE ExpireLockcount(c)
    <2>1. ~(lockcount'.count > 0 /\ lockcount'.ttl = 0)
        BY <1>1, <1>3, <1>5, KeyCommands DEF ExpireLockcount
    <2>. QED
        BY <2>1 DEF Awaited
<1>6. CASE Abort(c)
    <2>1. lockcount' = lockcount /\ severed \subseteq severed'
        BY <1>6 DEF Abort, redis
    <2>2. CASE tx[c].step = "expire_lockcount"
        <3>1. lockcount.ttl = 0 => "lockcount" \in severed'
            BY <1>6, <2>2 DEF Abort
        <3>. QED
            BY <2>1, <3>1 DEF Awaited
    <2>3. CASE tx[c].step # "expire_lockcount"
        BY <1>1, <1>2, <2>1, <2>3, AwaitedKept
    <2>. QED
        BY <2>2, <2>3
<1>7. CASE LoginWithoutIp(c) \/ CheckIp(c) \/ ExpireIp(c) \/ CheckLock(c) \/ Verify(c) \/ SetLock(c)
           \/ RecordFailure(c) \/ ExpireFail(c) \/ DeleteFail(c) \/ RecordSuccess(c)
    <2>1. /\ lockcount' = lockcount /\ tx[c].step # "expire_lockcount"
          /\ "lockcount" \in severed => "lockcount" \in severed'
        BY <1>7 DEF LoginWithoutIp, CheckIp, ExpireIp, CheckLock, Verify, SetLock, RecordFailure, ExpireFail,
                    DeleteFail, RecordSuccess, redis
    <2>. QED
        BY <1>1, <1>2, <2>1, AwaitedKept
<1>. QED
    BY <1>4, <1>5, <1>6, <1>7 DEF Login

\* The cycle of a lockout is what INCR answered, at least 1, and it is kept until the lock is set.
LEMMA CyclesKept ==
    ASSUME CountersExpire, CyclesCounted, NEW c \in Clients, Login(c) \/ Abort(c)
    PROVE  CyclesCounted'
<1>1. TypeOK /\ KeyOK(lockcount) /\ MaxCycle \in Nat /\ MaxCycle # 0 /\ 1 \in Nat \ {0}
    BY CountersParts, ThrottleAssumption DEF CountersExpire, Seconds, MaxCycle
<1>2. PICK step : Moved(c, step)
    BY <1>1, LoginMoves
<1>3. tx'[c].step \in {"expire_lockcount", "set_lock"} => tx'[c].cycle >= 1
    <2>1. CASE CountLockout(c)
        <3>1. Incr(lockcount, MaxCycle).count >= 1
            BY <1>1, KeyCommands
        <3>2. tx'[c].cycle = Incr(lockcount, MaxCycle).count
            BY <1>1, <2>1 DEF CountLockout, TypeOK
        <3>. QED
            BY <3>1, <3>2
    <2>2. CASE ExpireLockcount(c)
        BY <1>1, <2>2, GotoMoves DEF ExpireLockcount, CyclesCounted
    <2>3. CASE CheckIp(c)
        BY <1>1, <2>3, GotoMoves DEF CheckIp, Moved, CyclesCounted
    <2>4. CASE LoginWithoutIp(c) \/ ExpireIp(c) \/ CheckLock(c) \/ Verify(c)
        BY <1>1, <2>4, GotoMoves, EndMoves DEF LoginWithoutIp, ExpireIp, CheckLock, Verify, Moved
    <2>5. CASE RecordFailure(c) \/ ExpireFail(c)
        BY <1>1, <2>5, GotoMoves, EndMoves DEF RecordFailure, ExpireFail, AfterIncr, Refuse, Moved
    <2>6. CASE SetLock(c)
        BY <1>1, <2>6 DEF SetLock, TypeOK, Idle
    <2>7. CASE DeleteFail(c) \/ RecordSuccess(c) \/ Abort(c)
        BY <1>1, <2>7, EndMoves DEF DeleteFail, Refuse, RecordSuccess, Abort, Moved
    <2>. QED
        BY <2>1, <2>2, <2>3, <2>4, <2>5, <2>6, <2>7 DEF Login
<1>. QED
    BY <1>2, <1>3 DEF CyclesCounted, Moved

\* A second ages every key and takes no counter's request away.
LEMMA TickKeeps ==
    ASSUME CountersExpire, Tick
    PROVE  CountersExpire'
<1>1. /\ KeyOK(fail) /\ KeyOK(lock) /\ KeyOK(lockcount) /\ KeyOK(ip)
      /\ tx \in [Clients -> Request] /\ told \in Nat /\ severed \subseteq {"fail", "ip", "lockcount"}
      /\ lock.ttl <= LOGIN_LOCKOUT_MAX_SECONDS /\ LOGIN_LOCKOUT_MAX_SECONDS \in Nat
      /\ Awaited(fail, severed, "fail", tx, "expire_fail")
      /\ Awaited(ip, severed, "ip", tx, "expire_ip")
      /\ Awaited(lockcount, severed, "lockcount", tx, "expire_lockcount")
    BY CountersParts, ThrottleAssumption DEF Seconds
<1>2. ASSUME NEW key, KeyOK(key)
      PROVE  /\ KeyOK(Older(key)) /\ Older(key).ttl <= key.ttl
             /\ Older(key).count > 0 /\ Older(key).ttl = 0 => Older(key) = key
    <2>1. 1 \in Nat \ {0}
        OBVIOUS
    <2>. QED
        BY <1>2, <2>1, KeyCommands
<1>3. /\ fail' = Older(fail) /\ lock' = Older(lock) /\ lockcount' = Older(lockcount) /\ ip' = Older(ip)
      /\ tx' = tx /\ severed' = severed /\ told' \in Nat
    BY <1>1 DEF Tick
<1>4. KeyOK(fail') /\ KeyOK(lock') /\ KeyOK(lockcount') /\ KeyOK(ip')
    BY <1>1, <1>2, <1>3
<1>5. lock'.ttl <= LOGIN_LOCKOUT_MAX_SECONDS
    <2>1. lock'.ttl <= lock.ttl /\ lock'.ttl \in Nat /\ lock.ttl \in Nat
        BY <1>1, <1>2, <1>3, <1>4 DEF KeyOK, Key
    <2>. QED
        BY <1>1, <2>1
<1>6. Awaited(fail', severed', "fail", tx', "expire_fail")
    BY <1>1, <1>2, <1>3 DEF Awaited
<1>7. Awaited(ip', severed', "ip", tx', "expire_ip")
    BY <1>1, <1>2, <1>3 DEF Awaited
<1>8. Awaited(lockcount', severed', "lockcount", tx', "expire_lockcount")
    BY <1>1, <1>2, <1>3 DEF Awaited
<1>. QED
    BY <1>1, <1>3, <1>4, <1>5, <1>6, <1>7, <1>8, NextCountersParts

LEMMA InitSound == Init => ThrottleSound
<1>1. SUFFICES ASSUME Init PROVE ThrottleSound
    OBVIOUS
<1>2. LOGIN_LOCKOUT_MAX_SECONDS \in Nat
    BY ThrottleAssumption DEF Seconds
<1>3. KeyOK(Absent) /\ Absent.count = 0 /\ Absent.ttl = 0
    BY DEF KeyOK, Absent, Key
<1>4. CountersExpire
    <2>1. tx \in [Clients -> Request]
        BY <1>1 DEF Init, Request, Idle
    <2>. QED
        BY <1>1, <1>2, <1>3, <2>1, CountersParts DEF Init, Awaited
<1>5. CyclesCounted
    BY <1>1 DEF Init, CyclesCounted, Idle
<1>6. GuessesBounded
    <2>1. told = 0 /\ fail.count = 0
        BY <1>1 DEF Init, Absent
    <2>2. Expiring(tx) + Deleting(tx) + Left(tx, 0) <= Bound
        BY FreshBound DEF Bound
    <2>3. Expiring(tx) \in Nat /\ Deleting(tx) \in Nat /\ Left(tx, 0) \in Nat
        BY WeightsTyped
    <2>. QED
        BY <2>1, <2>2, <2>3 DEF GuessesBounded, Bound
<1>. QED
    BY <1>4, <1>5, <1>6 DEF ThrottleSound

LEMMA NextSound == ThrottleSound /\ [Next]_vars => ThrottleSound'
<1>1. SUFFICES ASSUME ThrottleSound, [Next]_vars PROVE ThrottleSound'
    OBVIOUS
<1>2. TypeOK /\ CountersExpire /\ CyclesCounted /\ GuessesBounded
    BY <1>1 DEF ThrottleSound, CountersExpire
<1>3. CASE Tick
    <2>1. CyclesCounted'
        BY <1>2, <1>3 DEF Tick, CyclesCounted
    <2>. QED
        BY <1>2, <1>3, <2>1, TickKeeps, TickBound DEF ThrottleSound
<1>4. ASSUME NEW c \in Clients, Login(c) \/ Abort(c) PROVE ThrottleSound'
    <2>1. CountersExpire'
        <3>1. tx' \in [Clients -> Request]
            BY <1>2, <1>4, LoginMoves DEF Moved
        <3>. QED
            BY <1>2, <1>4, <3>1, LoginKeys, FailAwaited, IpAwaited, LockcountAwaited, NextCountersParts
    <2>2. CyclesCounted'
        BY <1>2, <1>4, CyclesKept
    <2>3. GuessesBounded'
        BY <1>2, <1>4, LoginBound
    <2>. QED
        BY <2>1, <2>2, <2>3 DEF ThrottleSound
<1>5. CASE UNCHANGED vars
    BY <1>2, <1>5 DEF vars, ThrottleSound, CountersExpire, TypeOK, CyclesCounted, GuessesBounded
<1>. QED
    BY <1>1, <1>3, <1>4, <1>5 DEF Next

-----------------------------------------------------------------------------
(* Theorems *)

\* For any number of overlapping requests and any limits, whatever Redis error or restart
\* cuts one off: the account of the 401 answers of record_failure and _lock to come holds.
THEOREM ThrottleStaysSound == Spec => []ThrottleSound
BY InitSound, NextSound, PTL DEF Spec

\* A counter of the throttles without a time to live is about to get one or lost its EXPIRE
\* to an error, and no lockout is longer than LOGIN_LOCKOUT_MAX_SECONDS.
THEOREM CountersAlwaysExpire == Spec => []CountersExpire
<1>1. ThrottleSound => CountersExpire
    BY DEF ThrottleSound
<1>. QED
    BY <1>1, ThrottleStaysSound, PTL

\* Since the last lockout, successful login or expired window, at most
\* LOGIN_MAX_FAILED_ATTEMPTS wrong passwords for each request that can be open at the same
\* time were answered with 401.
THEOREM GuessesStayBounded == Spec => []GuessBound
<1>1. ThrottleSound => GuessBound
    <2>1. SUFFICES ASSUME ThrottleSound PROVE GuessBound
        OBVIOUS
    <2>2. told \in Nat /\ fail.count \in Nat
        BY <2>1 DEF ThrottleSound, CountersExpire, TypeOK, Key
    <2>3. Expiring(tx) \in Nat /\ Deleting(tx) \in Nat /\ Left(tx, fail.count) \in Nat
        BY <2>2, WeightsTyped
    <2>4. told + Expiring(tx) + Deleting(tx) + Left(tx, fail.count) <= Bound
        BY <2>1 DEF ThrottleSound, GuessesBounded, Bound
    <2>5. told <= Bound
        BY <2>2, <2>3, <2>4, BoundTyped
    <2>. QED
        BY <2>5 DEF GuessBound, Bound, Max
<1>. QED
    BY <1>1, ThrottleStaysSound, PTL
=================================================================================
