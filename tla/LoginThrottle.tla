--------------------------- MODULE LoginThrottle ---------------------------
(***************************************************************************)
(* The throttles in front of POST /auth/login (AuthService.login,          *)
(* LoginAttemptRepository, IpRateLimitRepository) for one identifier and   *)
(* one source address.                                                     *)
(*                                                                         *)
(* Their state is four Redis keys with a time to live.  Every step below   *)
(* is one Redis command, or the check of the credentials between them:     *)
(* another request, the clock, a Redis error or the end of the process can *)
(* come between any two.  Identifiers do not share keys.                   *)
(***************************************************************************)
EXTENDS Naturals, FiniteSets

CONSTANTS
    Clients,                        \* login requests that can be open at the same time
    LOGIN_MAX_FAILED_ATTEMPTS,
    LOGIN_FAILURE_WINDOW_SECONDS,
    LOGIN_LOCKOUT_BASE_SECONDS,
    LOGIN_LOCKOUT_MAX_SECONDS,
    LOGIN_IP_LIMIT,                 \* requests of one address in a window
    LOGIN_IP_WINDOW_SECONDS

Seconds ==
    {LOGIN_FAILURE_WINDOW_SECONDS, LOGIN_LOCKOUT_BASE_SECONDS, LOGIN_LOCKOUT_MAX_SECONDS,
     LOGIN_IP_WINDOW_SECONDS}

ASSUME ThrottleAssumption ==
    /\ IsFiniteSet(Clients)
    /\ Seconds \subseteq Nat \ {0}
    /\ LOGIN_MAX_FAILED_ATTEMPTS \in Nat \ {0}
    /\ LOGIN_IP_LIMIT \in Nat \ {0}

VARIABLES
    fail,       \* login:fail:{identifier}
    lock,       \* login:lock:{identifier}
    lockcount,  \* login:lockcount:{identifier}
    ip,         \* ratelimit:login:{ip}
    tx,         \* the request of each client
    told,       \* history: 401 answers since a lock was set, a login succeeded or the
                \* window of fail ran out, whichever was last
    severed     \* history: keys whose EXPIRE was never sent

redis == <<fail, lock, lockcount, ip>>
vars == <<fail, lock, lockcount, ip, tx, told, severed>>

-----------------------------------------------------------------------------
(* Redis keys.  ttl = 0 with count > 0 is a key that does not expire. *)

Key == [count: Nat, ttl: Nat]
Absent == [count |-> 0, ttl |-> 0]

\* INCR.  Counts from limit on are not told apart.
Incr(key, limit) == IF key.count < limit THEN [key EXCEPT !.count = @ + 1] ELSE key
Expire(key, seconds) == IF key.count = 0 THEN key ELSE [key EXCEPT !.ttl = seconds]
Older(key) == IF key.ttl = 1 THEN Absent ELSE IF key.ttl = 0 THEN key ELSE [key EXCEPT !.ttl = @ - 1]

\* cycle: what INCR of lockcount answered.
Request ==
    [step: {"idle", "expire_ip", "check", "verify", "record", "expire_fail", "lock",
            "expire_lockcount", "set_lock", "delete_fail", "success"},
     cycle: Nat]
Idle == [step |-> "idle", cycle |-> 0]

Goto(c, step) == tx' = [tx EXCEPT ![c].step = step]
End(c) == tx' = [tx EXCEPT ![c] = Idle]

\* A 401 answer, which ends the request.
Refuse(c) == End(c) /\ told' = told + 1

-----------------------------------------------------------------------------
(* login: the two checks *)

\* A request without a source address skips the rate limit.
LoginWithoutIp(c) ==
    /\ tx[c].step = "idle"
    /\ Goto(c, "check")
    /\ UNCHANGED <<redis, told, severed>>

\* Bug: a refused request starts the window over.
CheckIpRenewing(c) ==
    LET count == ip.count + 1 IN
    /\ tx[c].step = "idle"
    /\ ip' = IF count <= LOGIN_IP_LIMIT + 1 THEN Incr(ip, LOGIN_IP_LIMIT + 1)
             ELSE Expire(ip, LOGIN_IP_WINDOW_SECONDS)
    /\ \/ count = 1 /\ Goto(c, "expire_ip")
       \/ count \in 2..LOGIN_IP_LIMIT /\ Goto(c, "check")
       \/ count > LOGIN_IP_LIMIT /\ UNCHANGED tx
    /\ UNCHANGED <<fail, lock, lockcount, told, severed>>

\* IpRateLimitRepository.check: INCR.  Over the limit the request ends with 429.
CheckIp(c) ==
    LET count == ip.count + 1 IN
    /\ tx[c].step = "idle"
    /\ ip' = Incr(ip, LOGIN_IP_LIMIT + 1)
    /\ \/ count = 1 /\ Goto(c, "expire_ip")
       \/ count \in 2..LOGIN_IP_LIMIT /\ Goto(c, "check")
       \/ count > LOGIN_IP_LIMIT /\ UNCHANGED tx
    /\ UNCHANGED <<fail, lock, lockcount, told, severed>>

ExpireIp(c) ==
    /\ tx[c].step = "expire_ip"
    /\ ip' = Expire(ip, LOGIN_IP_WINDOW_SECONDS)
    /\ Goto(c, "check")
    /\ UNCHANGED <<fail, lock, lockcount, told, severed>>

\* Bug: an attempt during a lockout starts the lockout over.
CheckLockExtending(c) ==
    /\ tx[c].step = "check"
    /\ \/ lock.ttl > 0 /\ lock' = Expire(lock, LOGIN_LOCKOUT_BASE_SECONDS) /\ End(c)
       \/ lock.ttl = 0 /\ lock' = lock /\ Goto(c, "verify")
    /\ UNCHANGED <<fail, lockcount, ip, told, severed>>

\* get_lock_status: TTL.  While the identifier is locked the request ends with 429.
CheckLock(c) ==
    /\ tx[c].step = "check"
    /\ \/ lock.ttl > 0 /\ End(c)
       \/ lock.ttl = 0 /\ Goto(c, "verify")
    /\ UNCHANGED <<redis, told, severed>>

\* The user is looked up and the password verified.
Verify(c) ==
    /\ tx[c].step = "verify"
    /\ Goto(c, "record") \/ Goto(c, "success")
    /\ UNCHANGED <<redis, told, severed>>

-----------------------------------------------------------------------------
(* record_failure and _lock *)

\* Bug: the attempt that reaches the limit does not lock.
AfterIncrLenient(c, count) ==
    IF count <= LOGIN_MAX_FAILED_ATTEMPTS
    THEN Refuse(c)
    ELSE Goto(c, "lock") /\ UNCHANGED told

AfterIncr(c, count) ==
    IF count < LOGIN_MAX_FAILED_ATTEMPTS
    THEN Refuse(c)
    ELSE Goto(c, "lock") /\ UNCHANGED told

RecordFailure(c) ==
    LET count == fail.count + 1 IN
    /\ tx[c].step = "record"
    /\ fail' = Incr(fail, LOGIN_MAX_FAILED_ATTEMPTS)
    /\ IF count = 1 THEN Goto(c, "expire_fail") /\ UNCHANGED told ELSE AfterIncr(c, count)
    /\ UNCHANGED <<lock, lockcount, ip, severed>>

\* Bug: the counter gets no time to live.
ExpireFailNever(c) ==
    /\ tx[c].step = "expire_fail"
    /\ AfterIncr(c, 1)
    /\ UNCHANGED <<redis, severed>>

ExpireFail(c) ==
    /\ tx[c].step = "expire_fail"
    /\ fail' = Expire(fail, LOGIN_FAILURE_WINDOW_SECONDS)
    /\ severed' = severed \ {"fail"}
    /\ AfterIncr(c, 1)
    /\ UNCHANGED <<lock, lockcount, ip>>

\* From this cycle on every lockout is the longest, as the base is at least 1.
MaxCycle == LOGIN_LOCKOUT_MAX_SECONDS

CountLockout(c) ==
    LET counted == Incr(lockcount, MaxCycle) IN
    /\ tx[c].step = "lock"
    /\ lockcount' = counted
    /\ tx' = [tx EXCEPT ![c] = [step |-> "expire_lockcount", cycle |-> counted.count]]
    /\ UNCHANGED <<fail, lock, ip, told, severed>>

ExpireLockcount(c) ==
    /\ tx[c].step = "expire_lockcount"
    /\ lockcount' = Expire(lockcount, LOGIN_LOCKOUT_MAX_SECONDS)
    /\ severed' = severed \ {"lockcount"}
    /\ Goto(c, "set_lock")
    /\ UNCHANGED <<fail, lock, ip, told>>

Duration(cycle) ==
    LET doubled == LOGIN_LOCKOUT_BASE_SECONDS * 2 ^ (cycle - 1)
    IN  IF doubled < LOGIN_LOCKOUT_MAX_SECONDS THEN doubled ELSE LOGIN_LOCKOUT_MAX_SECONDS

SetLock(c) ==
    /\ tx[c].step = "set_lock"
    /\ lock' = [count |-> 1, ttl |-> Duration(tx[c].cycle)]
    /\ told' = 0
    /\ tx' = [tx EXCEPT ![c] = [Idle EXCEPT !.step = "delete_fail"]]
    /\ UNCHANGED <<fail, lockcount, ip, severed>>

DeleteFail(c) ==
    /\ tx[c].step = "delete_fail"
    /\ fail' = Absent
    /\ severed' = severed \ {"fail"}
    /\ Refuse(c)
    /\ UNCHANGED <<lock, lockcount, ip>>

\* record_success: one DEL of both keys, and the token is issued.
RecordSuccess(c) ==
    /\ tx[c].step = "success"
    /\ fail' = Absent
    /\ lock' = Absent
    /\ told' = 0
    /\ severed' = severed \ {"fail"}
    /\ End(c)
    /\ UNCHANGED <<lockcount, ip>>

-----------------------------------------------------------------------------

\* A RedisError (503 to the caller) or the end of the process: no further command.
Abort(c) ==
    /\ tx[c].step # "idle"
    /\ End(c)
    /\ severed' = severed
           \cup {key \in {"ip"} : tx[c].step = "expire_ip" /\ ip.count > 0 /\ ip.ttl = 0}
           \cup {key \in {"fail"} : tx[c].step = "expire_fail" /\ fail.count > 0 /\ fail.ttl = 0}
           \cup {key \in {"lockcount"} : tx[c].step = "expire_lockcount" /\ lockcount.ttl = 0}
    /\ UNCHANGED <<redis, told>>

Tick ==
    /\ fail' = Older(fail)
    /\ lock' = Older(lock)
    /\ lockcount' = Older(lockcount)
    /\ ip' = Older(ip)
    /\ told' = IF fail.ttl = 1 THEN 0 ELSE told
    /\ UNCHANGED <<tx, severed>>

Init ==
    /\ fail = Absent /\ lock = Absent /\ lockcount = Absent /\ ip = Absent
    /\ tx = [c \in Clients |-> Idle]
    /\ told = 0
    /\ severed = {}

Login(c) ==
    \/ LoginWithoutIp(c) \/ CheckIp(c) \/ ExpireIp(c) \/ CheckLock(c) \/ Verify(c)
    \/ RecordFailure(c) \/ ExpireFail(c)
    \/ CountLockout(c) \/ ExpireLockcount(c) \/ SetLock(c) \/ DeleteFail(c)
    \/ RecordSuccess(c)

Next == Tick \/ \E c \in Clients : Login(c) \/ Abort(c)

\* A request that has begun goes on: its next command returns or raises.
Proceed(c) == tx[c].step # "idle" /\ (Login(c) \/ Abort(c))

Spec ==
    /\ Init /\ [][Next]_vars
    /\ WF_vars(Tick)
    /\ \A c \in Clients : WF_vars(Proceed(c))

-----------------------------------------------------------------------------
(* Properties *)

\* Keys and requests hold values of their types; an absent key has no time to live.
TypeOK ==
    /\ \A key \in {fail, lock, lockcount, ip} : key \in Key /\ (key.count = 0 => key.ttl = 0)
    /\ tx \in [Clients -> Request]
    /\ told \in Nat
    /\ severed \subseteq {"fail", "ip", "lockcount"}

\* However requests overlap and whatever fails, a caller is told of at most this many wrong
\* passwords since the last lockout, successful login or expired window, whichever came
\* last.  It does not bound the guesses between two lockouts: fewer than the limit in each
\* window go on for ever.
GuessBound == told <= Cardinality(Clients) * LOGIN_MAX_FAILED_ATTEMPTS

\* Keys and requests hold values of their types, an absent key having no time to live; no
\* lockout is longer than the longest; and a counter without a time to live is about to
\* get one, unless the request that should have set it was cut off.
CountersExpire ==
    /\ TypeOK
    /\ lock.ttl <= LOGIN_LOCKOUT_MAX_SECONDS
    /\ fail.count > 0 /\ fail.ttl = 0
           => "fail" \in severed \/ \E c \in Clients : tx[c].step = "expire_fail"
    /\ ip.count > 0 /\ ip.ttl = 0
           => "ip" \in severed \/ \E c \in Clients : tx[c].step = "expire_ip"
    /\ lockcount.count > 0 /\ lockcount.ttl = 0
           => "lockcount" \in severed \/ \E c \in Clients : tx[c].step = "expire_lockcount"

\* A lockout ends, whatever is tried during it.
LockEnds == lock.count > 0 ~> lock.count = 0

\* An address over its limit is let through again, unless the one EXPIRE of its window
\* was never sent.
AddressReleased == ip.count > LOGIN_IP_LIMIT ~> (ip.count = 0 \/ "ip" \in severed)
=============================================================================
