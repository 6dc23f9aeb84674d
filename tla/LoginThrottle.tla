--------------------------- MODULE LoginThrottle ----------------------------
(***************************************************************************)
(* Guessing one account's password: the login handler of routers/auth.py   *)
(* over the Redis counters of core/rate_limit.py.                          *)
(*                                                                         *)
(* Every Redis command is a step of its own and logins overlap, so an      *)
(* attempt may have passed the lock's check long before the lock is set.   *)
(* With Redis down each command raises and the limiter lets the attempt    *)
(* through.  Time is not counted: windows, the lock and the memory of      *)
(* failures run out when they do, the lock (60 s) not between two          *)
(* consecutive commands of one attempt.                                    *)
(***************************************************************************)
EXTENDS Naturals, FiniteSets

CONSTANTS
    Clients,      \* concurrent login attempts, each from a source address
    Ip,           \* the address of a client
    Threshold,    \* LOCKOUT_THRESHOLD
    PerIp,        \* LOGIN_PER_IP.max_attempts
    MaxWrong,     \* bound: wrong passwords presented between two resets
    MaxOutages    \* bound: failures of Redis

ASSUME LimitsAssumption == Threshold \in Nat \ {0} /\ {PerIp, MaxWrong, MaxOutages} \subseteq Nat
ASSUME ClientsAssumption == IsFiniteSet(Clients) /\ DOMAIN Ip = Clients

Ips == {Ip[c] : c \in Clients}
Places == {"idle", "throttled", "verify", "count", "lock", "unfail", "succeed", "reset"}

VARIABLES
    at,        \* where each attempt is
    attempts,  \* ratelimit:login-ip, in the current window
    failures,  \* login-fail: consecutive failures
    locked,    \* login-lock
    up,        \* whether Redis answers
    outages,   \* failures of Redis so far
    wrong      \* history: wrong passwords since the run was last forgotten

throttleVars == <<at, attempts, failures, locked, up, outages, wrong>>
Goto(c, place) == at' = [at EXCEPT ![c] = place]

-----------------------------------------------------------------------------
(* rate_limit.check: count the attempt, refuse it past the limit. *)
Throttle(c) ==
    /\ at[c] = "idle"
    /\ attempts' = IF up THEN [attempts EXCEPT ![Ip[c]] = IF @ > PerIp THEN @ ELSE @ + 1]
                   ELSE attempts
    /\ Goto(c, IF up /\ attempts[Ip[c]] >= PerIp THEN "idle" ELSE "throttled")
    /\ UNCHANGED <<failures, locked, up, outages, wrong>>

\* rate_limit.assert_not_locked
AssertNotLocked(c) ==
    /\ at[c] = "throttled"
    /\ Goto(c, IF up /\ locked THEN "idle" ELSE "verify")
    /\ UNCHANGED <<attempts, failures, locked, up, outages, wrong>>

VerifyWrong(c) ==
    /\ at[c] = "verify" /\ wrong < MaxWrong
    /\ wrong' = wrong + 1
    /\ Goto(c, "count")
    /\ UNCHANGED <<attempts, failures, locked, up, outages>>

VerifyRight(c) ==
    /\ at[c] = "verify"
    /\ Goto(c, "succeed")
    /\ UNCHANGED <<attempts, failures, locked, up, outages, wrong>>

\* record_login_failure: INCR, then SET and DELETE if that reached the threshold.
Count(c) ==
    /\ at[c] = "count"
    /\ failures' = IF up THEN failures + 1 ELSE failures
    /\ Goto(c, IF up /\ failures + 1 >= Threshold THEN "lock" ELSE "idle")
    /\ UNCHANGED <<attempts, locked, up, outages, wrong>>

Lock(c) ==
    /\ at[c] = "lock"
    /\ locked' = (up \/ locked)
    /\ Goto(c, IF up THEN "unfail" ELSE "idle")
    /\ UNCHANGED <<attempts, failures, up, outages, wrong>>

ForgetRun(c) ==
    /\ at[c] = "unfail"
    /\ failures' = IF up THEN 0 ELSE failures
    /\ Goto(c, "idle")
    /\ UNCHANGED <<attempts, locked, up, outages, wrong>>

\* clear_login_failures, then reset of the source's counter.
ClearLoginFailures(c) ==
    /\ at[c] = "succeed"
    /\ failures' = IF up THEN 0 ELSE failures
    /\ wrong' = IF up THEN 0 ELSE wrong
    /\ Goto(c, "reset")
    /\ UNCHANGED <<attempts, locked, up, outages>>

Reset(c) ==
    /\ at[c] = "reset"
    /\ attempts' = IF up THEN [attempts EXCEPT ![Ip[c]] = 0] ELSE attempts
    /\ Goto(c, "idle")
    /\ UNCHANGED <<failures, locked, up, outages, wrong>>

-----------------------------------------------------------------------------
WindowEnds ==
    /\ \E i \in Ips : attempts[i] > 0 /\ attempts' = [attempts EXCEPT ![i] = 0]
    /\ UNCHANGED <<at, failures, locked, up, outages, wrong>>

LockExpires ==
    /\ locked /\ \A c \in Clients : at[c] \notin {"lock", "unfail"}
    /\ locked' = FALSE /\ wrong' = 0
    /\ UNCHANGED <<at, attempts, failures, up, outages>>

MemoryExpires ==
    /\ failures > 0 /\ \A c \in Clients : at[c] \notin {"lock", "unfail"}
    /\ failures' = 0 /\ wrong' = 0
    /\ UNCHANGED <<at, attempts, locked, up, outages>>

RedisFails ==
    /\ up /\ outages < MaxOutages
    /\ up' = FALSE /\ outages' = outages + 1
    /\ UNCHANGED <<at, attempts, failures, locked, wrong>>

RedisReturns ==
    /\ ~up /\ up' = TRUE
    /\ UNCHANGED <<at, attempts, failures, locked, outages, wrong>>

ThrottleInit ==
    /\ at = [c \in Clients |-> "idle"]
    /\ attempts = [i \in Ips |-> 0]
    /\ failures = 0 /\ locked = FALSE
    /\ up = TRUE /\ outages = 0 /\ wrong = 0

ThrottleNext ==
    \/ \E c \in Clients :
          \/ Throttle(c) \/ AssertNotLocked(c) \/ VerifyWrong(c) \/ VerifyRight(c)
          \/ Count(c) \/ Lock(c) \/ ForgetRun(c) \/ ClearLoginFailures(c) \/ Reset(c)
    \/ WindowEnds \/ LockExpires \/ MemoryExpires \/ RedisFails \/ RedisReturns

ThrottleSpec == ThrottleInit /\ [][ThrottleNext]_throttleVars

-----------------------------------------------------------------------------
ThrottleTyped ==
    /\ at \in [Clients -> Places]
    /\ attempts \in [Ips -> 0 .. PerIp + 1]
    /\ failures \in Nat /\ wrong \in 0 .. MaxWrong
    /\ {locked, up} \subseteq BOOLEAN /\ outages \in 0 .. MaxOutages

(* Concurrency buys a guesser at most one extra guess per attempt in flight: *)
(* while Redis answers, a run of wrong passwords ends in a lock after the    *)
(* threshold and the attempts that had already passed the lock's check.      *)
GuessesBounded ==
    outages = 0 => wrong <= Threshold - 1 + Cardinality(Clients)
=============================================================================
