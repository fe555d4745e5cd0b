------------------------------ MODULE History ------------------------------
(***************************************************************************)
(* What two users see of what they said to each other: a message goes into *)
(* the queue of BatchPersist and, with two more commands, into a sorted    *)
(* set in Redis that expires some time after the last of them.  The        *)
(* history is read from the set if there is one, and from MySQL if not.    *)
(*                                                                         *)
(* The set expires in seconds; its left counts them down, and the key goes *)
(* at some point of the last.  A history is read here with a limit it does *)
(* not reach, as the browser does with its 50, so that order and pages     *)
(* play no part.  All messages are between the same two users.             *)
(***************************************************************************)
EXTENDS BatchPersist

CONSTANTS
    Ttl,        \* seconds until the set expires (7200)
    None        \* no expiry

ASSUME HistoryAssumption ==
    /\ Ttl \in Nat \ {0}
    /\ None \notin Nat

VARIABLES
    redis,      \* TRUE until the connection g_redis is broken
    cache,      \* the set chat:msgs:<a>:<b>
    left,       \* the seconds it has left, if it expires
    caching,    \* how far the handler of each message is
    since,      \* history: for how long a message has been cached, while less than Ttl
    immortal    \* history: the EXPIRE of the set was lost

hvars == <<redis, cache, left, caching, since, immortal>>

HTypeOK ==
    /\ BTypeOK
    /\ redis \in BOOLEAN
    /\ cache \subseteq Msg
    /\ left \in (0 .. Ttl) \cup {None}
    /\ caching \in [Msg -> {"no", "zadd", "expire"}]
    /\ since \in [Msg -> (0 .. Ttl - 1) \cup {None}]
    /\ immortal \in BOOLEAN

HInit ==
    /\ BInit
    /\ redis = TRUE
    /\ cache = {}
    /\ left = None
    /\ caching = [m \in Msg |-> "no"]
    /\ since = [m \in Msg |-> None]
    /\ immortal = FALSE

-----------------------------------------------------------------------------
(* The handler that accepts a message. *)

Step(m, next) == caching' = [caching EXCEPT ![m] = next]

SendMessage(m) ==
    /\ Enqueue(m)
    /\ Step(m, "zadd")
    /\ UNCHANGED <<redis, cache, left, since, immortal>>

\* redisCacheMsg: ZADD, which creates the set if there is none ...
ZAdd(m) ==
    /\ caching[m] = "zadd"
    /\ cache' = IF redis THEN cache \cup {m} ELSE cache
    /\ Step(m, "expire")
    /\ UNCHANGED <<bvars, redis, left, since, immortal>>

\* Slip: EXPIRE comes before ZADD, and finds no set for the first message.
ExpireFirst(m) ==
    /\ caching[m] = "expire"
    /\ left' = IF redis /\ cache \ {m} # {} THEN Ttl ELSE left
    /\ since' = [since EXCEPT ![m] = IF redis /\ m \in cache THEN 0 ELSE None]
    /\ immortal' = (~redis /\ (immortal \/ (cache # {} /\ left = None)))
    /\ Step(m, "no")
    /\ UNCHANGED <<bvars, redis, cache>>

\* Slip: an expiry that is set is not renewed.
ExpireOnce(m) ==
    /\ caching[m] = "expire"
    /\ left' = IF redis /\ cache # {} /\ left = None THEN Ttl ELSE left
    /\ since' = [since EXCEPT ![m] = IF redis /\ m \in cache THEN 0 ELSE None]
    /\ immortal' = (~redis /\ (immortal \/ (cache # {} /\ left = None)))
    /\ Step(m, "no")
    /\ UNCHANGED <<bvars, redis, cache>>

\* ... and EXPIRE, which does nothing if the set has gone meanwhile.
Expire(m) ==
    /\ caching[m] = "expire"
    /\ left' = IF redis /\ cache # {} THEN Ttl ELSE left
    /\ since' = [since EXCEPT ![m] = IF redis /\ m \in cache THEN 0 ELSE None]
    /\ immortal' = (~redis /\ (immortal \/ (cache # {} /\ left = None)))
    /\ Step(m, "no")
    /\ UNCHANGED <<bvars, redis, cache>>

-----------------------------------------------------------------------------
(* Time and faults. *)

CacheExpires ==
    /\ left = 0
    /\ cache' = {}
    /\ left' = None
    /\ UNCHANGED <<bvars, redis, caching, since, immortal>>

\* A second ends.  The set has expired if it was the last.
Tick ==
    /\ cache # {}
    /\ left # 0
    /\ left' = IF left = None THEN None ELSE left - 1
    /\ since' = [m \in Msg |-> IF since[m] = None \/ since[m] + 1 = Ttl
                               THEN None ELSE since[m] + 1]
    /\ UNCHANGED <<bvars, redis, cache, caching, immortal>>

RedisBreaks ==
    /\ "redis" \in Faults
    /\ redis
    /\ redis' = FALSE
    /\ UNCHANGED <<bvars, cache, left, caching, since, immortal>>

\* msg_server is killed and started again, with a new connection to Redis.
Restart ==
    /\ Crash
    /\ redis' = TRUE
    /\ caching' = [m \in Msg |-> "no"]
    /\ immortal' = (immortal \/ (cache # {} /\ left = None))
    /\ UNCHANGED <<cache, left, since>>

\* The thread that writes to MySQL knows nothing of the cache.
Persist ==
    /\ TooFew \/ Swap \/ DbServer \/ EndOfCall \/ Requeue
    /\ UNCHANGED hvars

HNext ==
    \/ \E m \in Msg : SendMessage(m) \/ ZAdd(m) \/ Expire(m)
    \/ CacheExpires
    \/ Tick
    \/ RedisBreaks
    \/ Restart
    \/ Persist

HSpec == HInit /\ [][HNext]_<<bvars, hvars>>

\* The thread that writes to MySQL wakes up again and again, and a call ends,
\* well or badly.  (The call has no deadline: that it ends is up to gRPC and
\* db_server.)  Handlers go on, time goes by and keys expire.
HFairness ==
    /\ WF_<<bvars, hvars>>(Swap /\ UNCHANGED hvars)
    /\ WF_<<bvars, hvars>>((DbServer \/ EndOfCall) /\ UNCHANGED hvars)
    /\ WF_<<bvars, hvars>>(Requeue /\ UNCHANGED hvars)
    /\ \A m \in Msg : WF_<<bvars, hvars>>(ZAdd(m) \/ Expire(m))
    /\ WF_<<bvars, hvars>>(CacheExpires)
    /\ WF_<<bvars, hvars>>(Tick)

HFairSpec == HSpec /\ HFairness

-----------------------------------------------------------------------------
redisGetCachedMsgs == IF redis THEN cache ELSE {}

\* Rows without content belong to nobody.
getMessagesBetween == ToSet(db) \cap Msg

\* The set, or the table if the set is empty or cannot be read.
GetHistoryMessages == IF redisGetCachedMsgs # {} THEN redisGetCachedMsgs ELSE getMessagesBetween

\* Once a message has been cached it is in the history for Ttl seconds, whatever
\* other messages do to the expiry of the set, and also before it is in the
\* table: unless Redis cannot be read, when the history is the table alone.
RecentIsShown ==
    \A m \in Msg : since[m] # None =>
        m \in GetHistoryMessages \/ (~redis /\ m \notin ToSet(db))

\* A set without an expiry has a handler that is about to set one, unless the
\* EXPIRE was lost: nobody leaves a set behind that hides the table for ever.
CacheWillExpire ==
    (cache # {} /\ left = None /\ ~immortal) => \E m \in Msg : caching[m] = "expire"

\* While there is a set, older messages are not shown although the table has
\* them.  That ends some time after the last message, unless a lost EXPIRE has
\* left a set that never expires.
HiddenOnlyForAWhile == \A m \in Msg : (m \in ToSet(db)) ~> (m \in GetHistoryMessages \/ immortal)
=============================================================================
