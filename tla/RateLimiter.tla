---------------------------- MODULE RateLimiter ----------------------------
(***************************************************************************)
(* redisCheckRate, which auth_server (logins, 10 a minute) and msg_server  *)
(* (messages, 30 a minute; friend requests, 20 an hour) each have: a       *)
(* counter in Redis per key, incremented at every attempt, and an expiry   *)
(* that whoever brought the counter to 1 sets with a second command.       *)
(*                                                                         *)
(* Time goes by in seconds.  A key with an expiry of n seconds goes at     *)
(* some point of the n-th second after this one, whatever happened before  *)
(* or after it in the two seconds.                                         *)
(***************************************************************************)
EXTENDS Naturals

CONSTANTS
    Key,        \* rate:<key>
    Thread,     \* requests in the handlers that check a rate
    MaxCount,   \* attempts permitted
    Window,     \* seconds until a counter expires
    Faults,     \* which faults may happen
    None,       \* no key, no expiry
    MaxTries    \* bound: a counter stops there

ASSUME RateAssumption ==
    /\ MaxCount \in Nat \ {0}
    /\ Window \in Nat \ {0}
    /\ MaxTries \in Nat
    /\ None \notin Key \cup Nat

VARIABLES
    redis,      \* TRUE until the connection g_redis is broken
    counter,    \* of each key: its count, and the seconds it has left, if any
    checking,   \* the key each thread has created and not yet given an expiry
    granted,    \* history: of each key and s, the attempts permitted in this second
                \* and the s seconds before it
    abandoned   \* history: the keys whose EXPIRE was lost

rvars == <<redis, counter, checking, granted, abandoned>>

Ago == 0 .. Window - 1

NoCounter == [n |-> 0, left |-> None]

RTypeOK ==
    /\ redis \in BOOLEAN
    /\ counter \in [Key -> [n : Nat, left : (0 .. Window) \cup {None}]]
    /\ checking \in [Thread -> Key \cup {None}]
    /\ granted \in [Key -> [Ago -> Nat]]
    /\ abandoned \in SUBSET Key

RInit ==
    /\ redis = TRUE
    /\ counter = [k \in Key |-> NoCounter]
    /\ checking = [t \in Thread |-> None]
    /\ granted = [k \in Key |-> [s \in Ago |-> 0]]
    /\ abandoned = {}

-----------------------------------------------------------------------------
\* Slip: the limit is compared with the count before the attempt.
PermittedLate(k) == counter[k].n <= MaxCount

\* The answer to an attempt made now.
Permitted(k) == counter[k].n + 1 <= MaxCount

\* Slip: GET and SET instead of INCR, and SET takes the expiry away.
RateSet(t, k) ==
    /\ checking[t] = None
    /\ redis
    /\ counter[k].n < MaxTries
    /\ counter' = [counter EXCEPT ![k] = [n |-> @.n + 1, left |-> None]]
    /\ checking' = [checking EXCEPT ![t] = IF counter[k].n = 0 THEN k ELSE None]
    /\ granted' = [granted EXCEPT ![k] = IF Permitted(k) THEN [s \in Ago |-> @[s] + 1] ELSE @]
    /\ UNCHANGED <<redis, abandoned>>

\* INCR, which creates the key if there is none.  Without Redis there is no
\* such step, and every attempt is permitted.
RateIncr(t, k) ==
    /\ checking[t] = None
    /\ redis
    /\ counter[k].n < MaxTries
    /\ counter' = [counter EXCEPT ![k].n = @ + 1]
    /\ checking' = [checking EXCEPT ![t] = IF counter[k].n = 0 THEN k ELSE None]
    /\ granted' = [granted EXCEPT ![k] = IF Permitted(k) THEN [s \in Ago |-> @[s] + 1] ELSE @]
    /\ UNCHANGED <<redis, abandoned>>

\* Slip: the expiry is set a second late.
RateExpireLate(t) ==
    /\ checking[t] # None
    /\ IF redis
       THEN counter' = [counter EXCEPT ![checking[t]].left = Window + 1] /\ UNCHANGED abandoned
       ELSE abandoned' = abandoned \cup {checking[t]} /\ UNCHANGED counter
    /\ checking' = [checking EXCEPT ![t] = None]
    /\ UNCHANGED <<redis, granted>>

\* EXPIRE, by the thread whose INCR returned 1.
RateExpire(t) ==
    /\ checking[t] # None
    /\ IF redis
       THEN counter' = [counter EXCEPT ![checking[t]].left = Window] /\ UNCHANGED abandoned
       ELSE abandoned' = abandoned \cup {checking[t]} /\ UNCHANGED counter
    /\ checking' = [checking EXCEPT ![t] = None]
    /\ UNCHANGED <<redis, granted>>

\* The key goes, in the last second it has left.
CounterExpires(k) ==
    /\ counter[k].left = 0
    /\ counter' = [counter EXCEPT ![k] = NoCounter]
    /\ UNCHANGED <<redis, checking, granted, abandoned>>

RedisBreaks ==
    /\ "redis" \in Faults
    /\ redis
    /\ redis' = FALSE
    /\ UNCHANGED <<counter, checking, granted, abandoned>>

\* The process is killed and started again, with a new connection.
Restart ==
    /\ "crash" \in Faults
    /\ redis' = TRUE
    /\ checking' = [t \in Thread |-> None]
    /\ abandoned' = abandoned \cup {k \in Key : \E t \in Thread : checking[t] = k}
    /\ UNCHANGED <<counter, granted>>

\* A second ends.  What was to expire in it has expired.
Tick ==
    /\ \A k \in Key : counter[k].left # 0
    /\ counter' = [k \in Key |-> [counter[k] EXCEPT !.left = IF @ = None THEN None ELSE @ - 1]]
    /\ granted' = [k \in Key |-> [s \in Ago |-> IF s = 0 THEN 0 ELSE granted[k][s - 1]]]
    /\ UNCHANGED <<redis, checking, abandoned>>

RNext ==
    \/ \E t \in Thread : RateExpire(t) \/ \E k \in Key : RateIncr(t, k)
    \/ \E k \in Key : CounterExpires(k)
    \/ Tick
    \/ RedisBreaks
    \/ Restart

RSpec == RInit /\ [][RNext]_rvars

\* Threads go on, time goes by and Redis lets keys expire.
RFairness ==
    /\ WF_rvars(Tick)
    /\ \A t \in Thread : WF_rvars(RateExpire(t))
    /\ \A k \in Key : WF_rvars(CounterExpires(k))

RFairSpec == RSpec /\ RFairness

-----------------------------------------------------------------------------
\* A counter that has no expiry is about to get one from the one thread that
\* created it, unless the process died or lost Redis between the two commands.
NoImmortalCounter ==
    \A k \in Key \ abandoned : (counter[k].n > 0 /\ counter[k].left = None) =>
        \E t \in Thread : /\ checking[t] = k
                          /\ \A r \in Thread \ {t} : checking[r] # k

\* A fixed window lets more than MaxCount attempts through when they straddle
\* its end.  How many more: in no Window consecutive seconds are 2 * MaxCount
\* attempts permitted, however late an EXPIRE comes.  (Attempts made without
\* Redis are not counted by anybody.)
AtMostTwiceTheLimit ==
    \A k \in Key : granted[k][Window - 1] < 2 * MaxCount

\* A user who has reached the limit is permitted again some time, unless the
\* expiry of the counter was lost.
LimitEnds ==
    \A k \in Key : (counter[k].n >= MaxCount) ~> (k \in abandoned \/ Permitted(k))
=============================================================================
