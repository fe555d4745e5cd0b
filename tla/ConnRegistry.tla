---------------------------- MODULE ConnRegistry ----------------------------
(***************************************************************************)
(* The WebSocket side of msg_server: the threads of ws_session, the map    *)
(* g_online_connections from a user to the stream of one of his sessions,  *)
(* g_conns_mutex, and the presence key "online:<user>" kept in Redis.      *)
(*                                                                         *)
(* A session stands for the `ws` object of one ws_session thread.  The     *)
(* object lives on the stack of its thread, the map holds its bare         *)
(* address, and the memory is used again after the thread has returned: a  *)
(* member of Session is such an address and may serve many threads, one    *)
(* after the other.                                                        *)
(*                                                                         *)
(* Every handler that reaches another user's stream (a message, an ack, a  *)
(* friend request, a typing hint) does it in the same way: it takes        *)
(* g_conns_mutex, looks the user up, and writes while it still holds the   *)
(* mutex.  PushBegin and PushEnd are that critical section; it is two      *)
(* steps because the write blocks for as long as the client's socket does. *)
(*                                                                         *)
(* A Redis command takes effect in one step, or not at all once the single *)
(* connection of the process is broken: nothing ever reconnects it.        *)
(***************************************************************************)
CONSTANTS
    User,       \* user ids
    Session,    \* addresses of the `ws` objects of ws_session threads
    Worker,     \* threads of the gRPC server that run MsgService handlers
    Faults,     \* which faults of the environment may happen
    None        \* no user, no session

ASSUME ConstantsAssumption ==
    /\ None \notin User \cup Session \cup Worker
    /\ Session \cap Worker = {}

VARIABLES
    listener,   \* TRUE while ws_listen is in its accept loop
    pc,         \* where each ws_session thread is
    user,       \* local variable user_id of each thread
    conns,      \* g_online_connections
    push,       \* who holds g_conns_mutex around a write, and to which stream
    redis,      \* TRUE until the connection g_redis is broken
    online,     \* the users with a key online:<user> in Redis
    orphan      \* history: the users whose key no ws_session is due to delete

vars == <<listener, pc, user, conns, push, redis, online, orphan>>

Thread == Session \cup Worker

(***************************************************************************)
(* The stages of ws_session, in order.  "none" is a thread that has not    *)
(* started or has returned; "drain" stands for the frames sent between the *)
(* registration and the main loop, "loop" for the main read loop.          *)
(***************************************************************************)
Stage == {"none", "auth", "setOnline", "register", "drain", "loop",
          "erase", "delOnline", "close"}

\* The stages in which the thread's own stream may be in the map.
Registered == {"drain", "loop", "erase"}

\* The stages in which the thread is still going to delete the presence key.
Announced == {"register", "drain", "loop", "erase", "delOnline"}

NoPush == [by |-> None, to |-> None, on |-> None]

MutexFree == push = NoPush

TypeOK ==
    /\ listener \in BOOLEAN
    /\ pc \in [Session -> Stage]
    /\ user \in [Session -> User \cup {None}]
    /\ conns \in [User -> Session \cup {None}]
    /\ push \in {NoPush} \cup [by : Thread, to : User, on : Session \cup {None}]
    /\ redis \in BOOLEAN
    /\ online \in SUBSET User
    /\ orphan \in SUBSET User

Init ==
    /\ listener = TRUE
    /\ pc = [s \in Session |-> "none"]
    /\ user = [s \in Session |-> None]
    /\ conns = [u \in User |-> None]
    /\ push = NoPush
    /\ redis = TRUE
    /\ online = {}
    /\ orphan = {}

-----------------------------------------------------------------------------
(* Redis commands on the presence key. *)

\* SET online:<u> 1 EX 30
redisSetOnline(u) == online' = IF redis THEN online \cup {u} ELSE online

\* The same command by a session of u, which will delete the key when it ends.
redisSetOwnOnline(u) ==
    redisSetOnline(u) /\ orphan' = IF redis THEN orphan \ {u} ELSE orphan

\* DEL online:<u>.  When the command is lost, the key stays until it expires.
redisDelOnline(u) ==
    IF redis
    THEN online' = online \ {u} /\ orphan' = orphan \ {u}
    ELSE online' = online /\ orphan' = orphan \cup ({u} \cap online)

\* The 30 seconds of the key have passed since the last SET.
ExpireOnline(u) ==
    /\ u \in online
    /\ online' = online \ {u}
    /\ orphan' = orphan \ {u}
    /\ UNCHANGED <<listener, pc, user, conns, push, redis>>

-----------------------------------------------------------------------------
(* ws_listen and ws_session. *)

Goto(s, stage) == pc' = [pc EXCEPT ![s] = stage]

Accept(s) ==
    /\ listener
    /\ pc[s] = "none"
    /\ Goto(s, "auth")
    /\ UNCHANGED <<listener, user, conns, push, redis, online, orphan>>

\* accept, or remote_endpoint on a socket whose peer is already gone (or that
\* has been moved from, the order of the arguments being unspecified), throws:
\* the handler is outside the loop.
ListenerStops ==
    /\ "listener" \in Faults
    /\ listener
    /\ listener' = FALSE
    /\ UNCHANGED <<pc, user, conns, push, redis, online, orphan>>

\* The client leaves before it has authenticated.
AuthHangup(s) ==
    /\ pc[s] = "auth"
    /\ Goto(s, "none")
    /\ UNCHANGED <<listener, user, conns, push, redis, online, orphan>>

\* An auth frame carries a token auth_server accepts for u.  Every other frame
\* is answered with an error and leaves the thread where it is.
Authenticate(s, u) ==
    /\ pc[s] = "auth"
    /\ user' = [user EXCEPT ![s] = u]
    /\ Goto(s, "setOnline")
    /\ UNCHANGED <<listener, conns, push, redis, online, orphan>>

AnnounceOnline(s) ==
    /\ pc[s] = "setOnline"
    /\ redisSetOwnOnline(user[s])
    /\ Goto(s, "register")
    /\ UNCHANGED <<listener, user, conns, push, redis>>

Register(s) ==
    /\ pc[s] = "register"
    /\ MutexFree
    /\ conns' = [conns EXCEPT ![user[s]] = s]
    /\ Goto(s, "drain")
    /\ UNCHANGED <<listener, user, push, redis, online, orphan>>

EnterLoop(s) ==
    /\ pc[s] = "drain"
    /\ Goto(s, "loop")
    /\ UNCHANGED <<listener, user, conns, push, redis, online, orphan>>

\* The thread is blocked in ws.read of the main loop.
Reading(s) == pc[s] = "loop" /\ push.by # s

Ping(s) ==
    /\ Reading(s)
    /\ redisSetOwnOnline(user[s])
    /\ UNCHANGED <<listener, pc, user, conns, push, redis>>

Hangup(s) ==
    /\ Reading(s)
    /\ Goto(s, "erase")
    /\ UNCHANGED <<listener, user, conns, push, redis, online, orphan>>

\* Slip: the map is changed without the lock.
EraseUnlocked(s) ==
    /\ pc[s] = "erase"
    /\ conns' = [conns EXCEPT ![user[s]] = None]
    /\ Goto(s, "delOnline")
    /\ UNCHANGED <<listener, user, push, redis, online, orphan>>

\* Slip: a thread that finds the mutex taken goes on without its erase.
EraseIfFree(s) ==
    /\ pc[s] = "erase"
    /\ conns' = IF MutexFree THEN [conns EXCEPT ![user[s]] = None] ELSE conns
    /\ Goto(s, "delOnline")
    /\ UNCHANGED <<listener, user, push, redis, online, orphan>>

\* Slip: the thread waits until its own stream is the one in the map.
EraseOwn(s) ==
    /\ pc[s] = "erase"
    /\ MutexFree
    /\ conns[user[s]] = s
    /\ conns' = [conns EXCEPT ![user[s]] = None]
    /\ Goto(s, "delOnline")
    /\ UNCHANGED <<listener, user, push, redis, online, orphan>>

\* The entry of the user goes, whichever session it points to.
Erase(s) ==
    /\ pc[s] = "erase"
    /\ MutexFree
    /\ conns' = [conns EXCEPT ![user[s]] = None]
    /\ Goto(s, "delOnline")
    /\ UNCHANGED <<listener, user, push, redis, online, orphan>>

\* Slip: the key is left to its expiry when the user has another session.
WithdrawIfLast(s) ==
    /\ pc[s] = "delOnline"
    /\ IF \E r \in Session \ {s} : user[r] = user[s]
       THEN UNCHANGED <<online, orphan>>
       ELSE redisDelOnline(user[s])
    /\ Goto(s, "close")
    /\ UNCHANGED <<listener, user, conns, push, redis>>

WithdrawOnline(s) ==
    /\ pc[s] = "delOnline"
    /\ redisDelOnline(user[s])
    /\ Goto(s, "close")
    /\ UNCHANGED <<listener, user, conns, push, redis>>

\* The thread returns and `ws` is destroyed.
Return(s) ==
    /\ pc[s] = "close"
    /\ user' = [user EXCEPT ![s] = None]
    /\ Goto(s, "none")
    /\ UNCHANGED <<listener, conns, push, redis, online, orphan>>

-----------------------------------------------------------------------------
(* Writing to somebody's stream under g_conns_mutex. *)

PushBegin(t, u) ==
    /\ MutexFree
    /\ t \in Session => pc[t] = "loop"
    /\ push' = [by |-> t, to |-> u, on |-> conns[u]]
    /\ UNCHANGED <<listener, pc, user, conns, redis, online, orphan>>

\* Slip: the lock is released, what was found under it is kept.
PushEndKeeping(t) ==
    /\ push.by = t
    /\ push' = [push EXCEPT !.by = None]
    /\ UNCHANGED <<listener, pc, user, conns, redis, online, orphan>>

PushEnd(t) ==
    /\ push.by = t
    /\ push' = NoPush
    /\ UNCHANGED <<listener, pc, user, conns, redis, online, orphan>>

-----------------------------------------------------------------------------
(* The two presence calls of MsgService, and the faults. *)

RegisterOnline(u) ==
    /\ redisSetOnline(u)
    /\ orphan' = IF redis /\ u \notin online THEN orphan \cup {u} ELSE orphan
    /\ UNCHANGED <<listener, pc, user, conns, push, redis>>

UnregisterOnline(u) ==
    /\ redis
    /\ redisDelOnline(u)
    /\ UNCHANGED <<listener, pc, user, conns, push, redis>>

\* The TCP connection to Redis fails, or unsynchronised use of the context by
\* two threads leaves an error in it: every later command returns NULL.
RedisBreaks ==
    /\ "redis" \in Faults
    /\ redis
    /\ redis' = FALSE
    /\ UNCHANGED <<listener, pc, user, conns, push, online, orphan>>

\* msg_server is killed and started again: the threads and the map are gone,
\* the keys in Redis are not.
Restart ==
    /\ "crash" \in Faults
    /\ listener' = TRUE
    /\ pc' = [s \in Session |-> "none"]
    /\ user' = [s \in Session |-> None]
    /\ conns' = [u \in User |-> None]
    /\ push' = NoPush
    /\ redis' = TRUE
    /\ orphan' = online
    /\ UNCHANGED online

-----------------------------------------------------------------------------
SessionStep(s) ==
    \/ Accept(s)
    \/ AuthHangup(s)
    \/ \E u \in User : Authenticate(s, u)
    \/ AnnounceOnline(s)
    \/ Register(s)
    \/ EnterLoop(s)
    \/ Ping(s)
    \/ Hangup(s)
    \/ Erase(s)
    \/ WithdrawOnline(s)
    \/ Return(s)

PushStep(t) == (\E u \in User : PushBegin(t, u)) \/ PushEnd(t)

RpcStep(u) == "rpc" \in Faults /\ (RegisterOnline(u) \/ UnregisterOnline(u))

Next ==
    \/ \E s \in Session : SessionStep(s)
    \/ \E t \in Thread : PushStep(t)
    \/ \E u \in User : RpcStep(u) \/ ExpireOnline(u)
    \/ ListenerStops
    \/ RedisBreaks
    \/ Restart

Spec == Init /\ [][Next]_vars

-----------------------------------------------------------------------------
(* Safety. *)

\* An entry of g_online_connections is the stream of a thread that has
\* registered for that very user and has not yet run its clean-up: the map
\* never holds the address of a stream that was destroyed, nor of one whose
\* memory has since been taken by a session of somebody else.  (The clean-up
\* erases by user, so with two sessions of a user it is the first to leave
\* that removes the entry, and the second one's erase finds nothing.)
NoDanglingConnection ==
    \A u \in User : conns[u] # None =>
        /\ user[conns[u]] = u
        /\ pc[conns[u]] \in Registered

\* While a handler writes to the stream it found, that stream stays alive and
\* stays the addressee's: the owner cannot get past its clean-up, because the
\* erase needs the mutex the writer holds.
WriteHitsLiveStream ==
    push.on # None =>
        /\ user[push.on] = push.to
        /\ pc[push.on] \in Registered

\* A presence key always has somebody who will remove it: a session of the
\* user that has announced itself and not yet withdrawn, unless the key was
\* left behind by a RegisterOnline call, a killed process or a lost DEL, and
\* only the 30 second expiry removes it.  With two sessions of one user, and
\* pings of the one between the clean-up steps of the other, no key outlives
\* them both.
OnlineIsBacked ==
    \A u \in online \ orphan :
        \E s \in Session : user[s] = u /\ pc[s] \in Announced

-----------------------------------------------------------------------------
(* Liveness. *)

\* A session whose client has left is cleaned up to its last step, however
\* many handlers of other threads compete for g_conns_mutex: no thread leaves
\* with the mutex, and none waits for it while it holds it.
DepartedIsCleanedUp ==
    \A t \in Session : pc[t] = "erase" ~> pc[t] = "none"
=============================================================================
