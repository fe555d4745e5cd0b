------------------------------ MODULE Delivery ------------------------------
(***************************************************************************)
(* How a chat message travels through msg_server: the handlers of          *)
(* SendMessage (gRPC) and send_msg (WebSocket), the Redis list             *)
(* offline_msg:<user>, and the two places that empty it, the login of a    *)
(* session and PullOfflineMessages.  The threads, the map and the presence *)
(* keys are those of ConnRegistry: a step here takes the step of the       *)
(* registry it contains, and every behaviour is one of the registry.       *)
(*                                                                         *)
(* A handler reads the presence key, and later, under g_conns_mutex, looks *)
(* the stream up and writes, or else appends to the list; whatever came of *)
(* it, it acknowledges.  Whoever empties a list does it with two commands, *)
(* LRANGE and DEL, and hands over what it read after the DEL.              *)
(*                                                                         *)
(* Rate limit, history cache, message id and persistence queue have no     *)
(* bearing on where the message goes and are left out here, and so are the *)
(* friend requests, which take the same route with a list of their own.    *)
(***************************************************************************)
EXTENDS ConnRegistry, SequencesExt

CONSTANTS
    Msg,        \* messages, as records with the fields id, from and to
    MaxInbox    \* bound: no restart once a user has been given so many

ASSUME MsgAssumption ==
    /\ \A m \in Msg : m.from \in User /\ m.to \in User
    /\ MaxInbox \in Nat

VARIABLES
    task,       \* what each thread is doing
    offline,    \* the list offline_msg:<u> of every user
    inbox,      \* what the clients of every user have been given
    sent,       \* the messages a handler has accepted
    exposed,    \* history: messages that met a condition known to lose them
    twice       \* history: users whose list two pops may both have read

dvars == <<task, offline, inbox, sent, exposed, twice>>

Idle == [op |-> "idle"]

Sending(m, at) == [op |-> "send", msg |-> m, at |-> at]

Popping(u, at, got) == [op |-> "pop", of |-> u, at |-> at, got |-> got]

SendAt(t, at) == task[t].op = "send" /\ task[t].at = at

PopAt(t, at) == task[t].op = "pop" /\ task[t].at = at

DTypeOK ==
    /\ \A t \in Thread :
        \/ task[t] = Idle
        \/ \E m \in sent : \E at \in {"check", "push", "pushing", "store", "ack", "acking"} :
               task[t] = Sending(m, at)
        \/ \E u \in User : \E at \in {"lrange", "del", "emit"} :
               task[t] = Popping(u, at, task[t].got) /\ task[t].got \in Seq(sent)
    /\ DOMAIN task = Thread
    /\ offline \in [User -> Seq(sent)]
    /\ inbox \in [User -> Seq(sent)]
    /\ sent \subseteq Msg
    /\ exposed \subseteq sent
    /\ twice \subseteq User

DInit ==
    /\ Init
    /\ task = [t \in Thread |-> Idle]
    /\ offline = [u \in User |-> <<>>]
    /\ inbox = [u \in User |-> <<>>]
    /\ sent = {}
    /\ exposed = {}
    /\ twice = {}

Do(t, next) == task' = [task EXCEPT ![t] = next]

Hand(u, msgs) == inbox' = [inbox EXCEPT ![u] = @ \o msgs]

\* Whether a write reaches the client: a failed one is ignored by its handler.
Written == IF "write" \in Faults THEN BOOLEAN ELSE {TRUE}

-----------------------------------------------------------------------------
(* Sending: SendMessage by a gRPC thread, send_msg by a session thread.  A *)
(* session sends as its user; the request of SendMessage names the sender. *)

SendBegin(t, m) ==
    /\ task[t] = Idle
    /\ m \notin sent
    /\ t \in Session => pc[t] = "loop" /\ user[t] = m.from
    /\ sent' = sent \cup {m}
    /\ Do(t, Sending(m, "check"))
    /\ UNCHANGED <<vars, offline, inbox, exposed, twice>>

redisIsOnline(u) == redis /\ u \in online

CheckOnline(t) ==
    /\ SendAt(t, "check")
    /\ LET m == task[t].msg
       IN  Do(t, Sending(m, IF redisIsOnline(m.to) THEN "push" ELSE "store"))
    /\ UNCHANGED <<vars, offline, inbox, sent, exposed, twice>>

\* Slip: the sender's stream is looked up, as for the ack.
PushLockSender(t) ==
    /\ SendAt(t, "push")
    /\ PushBegin(t, task[t].msg.from)
    /\ Do(t, Sending(task[t].msg, "pushing"))
    /\ UNCHANGED <<offline, inbox, sent, exposed, twice>>

PushLock(t) ==
    /\ SendAt(t, "push")
    /\ PushBegin(t, task[t].msg.to)
    /\ Do(t, Sending(task[t].msg, "pushing"))
    /\ UNCHANGED <<offline, inbox, sent, exposed, twice>>

\* Slip: the message is stored as well, until an acknowledgement that never comes.
PushWriteAndStore(t, ok) ==
    /\ SendAt(t, "pushing")
    /\ LET m == task[t].msg
       IN  /\ IF push.on # None /\ ok THEN Hand(user[push.on], <<m>>) ELSE UNCHANGED inbox
           /\ offline' = [offline EXCEPT ![m.to] = Append(@, m)]
           /\ Do(t, Sending(m, "ack"))
    /\ PushEnd(t)
    /\ UNCHANGED <<sent, exposed, twice>>

\* The message is given to whoever is behind the stream.  Without a stream, or
\* when the write fails, it goes nowhere.
PushWrite(t, ok) ==
    /\ SendAt(t, "pushing")
    /\ LET m == task[t].msg
       IN  /\ IF push.on # None /\ ok
              THEN Hand(user[push.on], <<m>>) /\ UNCHANGED exposed
              ELSE exposed' = exposed \cup {m} /\ UNCHANGED inbox
           /\ Do(t, Sending(m, "ack"))
    /\ PushEnd(t)
    /\ UNCHANGED <<offline, sent, twice>>

\* RPUSH.  It is lost when Redis is, and a pop that has read the list and has
\* not deleted it yet will delete this message with it.
Store(t) ==
    /\ SendAt(t, "store")
    /\ LET m == task[t].msg
       IN  /\ offline' = IF redis THEN [offline EXCEPT ![m.to] = Append(@, m)]
                                  ELSE offline
           /\ exposed' = IF ~redis \/ \E r \in Thread : PopAt(r, "del") /\ task[r].of = m.to
                         THEN exposed \cup {m}
                         ELSE exposed
           /\ Do(t, Sending(m, "ack"))
    /\ UNCHANGED <<vars, inbox, sent, twice>>

\* A session acknowledges on its own stream and needs no lock for it.
AckOwn(s) ==
    /\ s \in Session
    /\ SendAt(s, "ack")
    /\ Do(s, Idle)
    /\ UNCHANGED <<vars, offline, inbox, sent, exposed, twice>>

\* Slip: the ack waits for the sender to be connected.
AckLockConnected(w) ==
    /\ w \in Worker
    /\ SendAt(w, "ack")
    /\ conns[task[w].msg.from] # None
    /\ PushBegin(w, task[w].msg.from)
    /\ Do(w, Sending(task[w].msg, "acking"))
    /\ UNCHANGED <<offline, inbox, sent, exposed, twice>>

\* A gRPC thread looks the sender's stream up, if there is one.
AckLock(w) ==
    /\ w \in Worker
    /\ SendAt(w, "ack")
    /\ PushBegin(w, task[w].msg.from)
    /\ Do(w, Sending(task[w].msg, "acking"))
    /\ UNCHANGED <<offline, inbox, sent, exposed, twice>>

AckWrite(w) ==
    /\ SendAt(w, "acking")
    /\ PushEnd(w)
    /\ Do(w, Idle)
    /\ UNCHANGED <<offline, inbox, sent, exposed, twice>>

-----------------------------------------------------------------------------
(* Emptying a list: redisPopOfflineMsgs, called by a session that has just *)
(* registered its stream and by PullOfflineMessages.                       *)

\* Slip: the list is popped for the user id of before the authentication.
LogInEarly(s) ==
    /\ Register(s)
    /\ Do(s, Popping(None, "lrange", <<>>))
    /\ UNCHANGED <<offline, inbox, sent, exposed, twice>>

LogIn(s) ==
    /\ Register(s)
    /\ Do(s, Popping(user[s], "lrange", <<>>))
    /\ UNCHANGED <<offline, inbox, sent, exposed, twice>>

PullOfflineMessages(w, u) ==
    /\ "pull" \in Faults
    /\ w \in Worker
    /\ task[w] = Idle
    /\ Do(w, Popping(u, "lrange", <<>>))
    /\ UNCHANGED <<vars, offline, inbox, sent, exposed, twice>>

\* LRANGE 0 -1: a lost command reads as an empty list.
PopRead(t) ==
    /\ PopAt(t, "lrange")
    /\ LET u == task[t].of
       IN  /\ Do(t, Popping(u, "del", IF redis THEN offline[u] ELSE <<>>))
           /\ twice' = IF \E r \in Thread : PopAt(r, "del") /\ task[r].of = u
                       THEN twice \cup {u}
                       ELSE twice
    /\ UNCHANGED <<vars, offline, inbox, sent, exposed>>

\* DEL: a lost command leaves the list to be read again.
PopDelete(t) ==
    /\ PopAt(t, "del")
    /\ LET u == task[t].of
       IN  /\ offline' = IF redis THEN [offline EXCEPT ![u] = <<>>] ELSE offline
           /\ twice' = IF redis THEN twice ELSE twice \cup {u}
           /\ Do(t, Popping(u, "emit", task[t].got))
    /\ UNCHANGED <<vars, inbox, sent, exposed>>

\* Slip: a session that has lost its place in the map to a newer one is silent.
EmitIfMapped(t, ok) ==
    /\ PopAt(t, "emit")
    /\ CASE t \notin Session -> Hand(task[t].of, task[t].got)
         [] t \in Session /\ conns[user[t]] = t -> Hand(user[t], task[t].got)
         [] OTHER -> UNCHANGED inbox
    /\ IF t \in Session THEN EnterLoop(t) ELSE UNCHANGED vars
    /\ Do(t, Idle)
    /\ UNCHANGED <<offline, sent, exposed, twice>>

\* The session writes what it has read to its own stream and enters its main
\* loop; the RPC returns it to the caller.  A failed write is ignored.
Emit(t, ok) ==
    /\ PopAt(t, "emit")
    /\ LET got == task[t].got
       IN  IF ok
           THEN Hand(IF t \in Session THEN user[t] ELSE task[t].of, got) /\ UNCHANGED exposed
           ELSE exposed' = exposed \cup ToSet(got) /\ UNCHANGED inbox
    /\ IF t \in Session THEN EnterLoop(t) ELSE UNCHANGED vars
    /\ Do(t, Idle)
    /\ UNCHANGED <<offline, sent, twice>>

-----------------------------------------------------------------------------
(* The other steps of the registry. *)

\* The messages a thread has in its hands: neither given out nor stored.
InHand(t) ==
    CASE task[t].op = "send" /\ task[t].at \in {"check", "push", "pushing", "store"} ->
             {task[t].msg}
      [] task[t].op = "pop" -> ToSet(task[t].got)
      [] OTHER -> {}

DPing(s) == task[s] = Idle /\ Ping(s) /\ UNCHANGED dvars

\* Slip: a read error returns at once, as it does before the authentication.
DHangupAbrupt(s) ==
    /\ task[s] = Idle
    /\ pc[s] = "loop"
    /\ Goto(s, "none")
    /\ user' = [user EXCEPT ![s] = None]
    /\ UNCHANGED <<listener, conns, push, redis, online, orphan>>
    /\ UNCHANGED dvars

DHangup(s) == task[s] = Idle /\ Hangup(s) /\ UNCHANGED dvars

\* The steps of a thread's life that touch no message.
Lifecycle(s) ==
    /\ \/ Accept(s)
       \/ AuthHangup(s)
       \/ \E u \in User : Authenticate(s, u)
       \/ AnnounceOnline(s)
       \/ Erase(s)
       \/ WithdrawOnline(s)
       \/ Return(s)
    /\ UNCHANGED dvars

\* Messages whose DEL was lost come back after every restart: hence the bound.
DRestart ==
    /\ \A u \in User : Len(inbox[u]) < MaxInbox
    /\ Restart
    /\ task' = [t \in Thread |-> Idle]
    /\ exposed' = exposed \cup UNION {InHand(t) : t \in Thread}
    /\ UNCHANGED <<offline, inbox, sent, twice>>

\* The end of ws_listen, which only keeps new sessions out, is left out here.
Environment ==
    /\ \/ \E u \in User : RpcStep(u) \/ ExpireOnline(u)
       \/ RedisBreaks
    /\ UNCHANGED dvars

-----------------------------------------------------------------------------
SendStep(t) ==
    \/ CheckOnline(t)
    \/ PushLock(t)
    \/ \E ok \in Written : PushWrite(t, ok)
    \/ Store(t)
    \/ AckOwn(t)
    \/ AckLock(t)
    \/ AckWrite(t)

PopStep(t) ==
    \/ PopRead(t)
    \/ PopDelete(t)
    \/ \E ok \in Written : Emit(t, ok)

DNext ==
    \/ \E t \in Thread, m \in Msg : SendBegin(t, m)
    \/ \E t \in Thread : SendStep(t) \/ PopStep(t)
    \/ \E w \in Worker, u \in User : PullOfflineMessages(w, u)
    \/ \E s \in Session : LogIn(s) \/ DPing(s) \/ DHangup(s) \/ Lifecycle(s)
    \/ Environment
    \/ DRestart

DSpec == DInit /\ [][DNext]_<<vars, dvars>>

(***************************************************************************)
(* What the scheduling grants.  A thread that is not waiting for its       *)
(* client and can run again and again does run: nothing weaker lets a      *)
(* waiter get g_conns_mutex while others take it in turns.  A write ends,  *)
(* that is, the client at the other side reads its socket or drops it.     *)
(* Nobody has to connect, ping, send or hang up.                           *)
(***************************************************************************)
HandlerRuns(t) ==
    \/ SendStep(t)
    \/ PopStep(t)
    \/ t \in Session /\ LogIn(t)
    \/ t \in Session /\ pc[t] \in {"setOnline", "erase", "delOnline", "close"} /\ Lifecycle(t)

DFairness == \A t \in Thread : SF_<<vars, dvars>>(HandlerRuns(t))

DFairSpec == DSpec /\ DFairness

-----------------------------------------------------------------------------
(* Safety. *)

\* Whatever a user's clients are given was addressed to that user: addresses of
\* streams are used again by sessions of others, lists are popped by threads
\* that may serve anybody, and still no message reaches a third user.
NoMisdelivery ==
    \A u \in User : \A m \in ToSet(inbox[u]) : m.to = u

\* An accepted message is with its addressee, in the addressee's list or in
\* the hands of a thread, unless it met one of the conditions that lose it:
\* the presence key was there and the stream was not, the list was between
\* LRANGE and DEL when it was appended, a write failed, Redis was broken, or
\* the process was killed with the message in its hands.
NoUnexplainedLoss ==
    \A m \in sent \ exposed :
        \/ m \in ToSet(inbox[m.to]) \cup ToSet(offline[m.to])
        \/ \E t \in Thread : m \in InHand(t)

\* A message is given out once, and not kept for later as well, unless two
\* pops of the list overlapped or a DEL was lost.
OnceUnlessPopsOverlap ==
    \A u \in User \ twice : IsInjective(inbox[u] \o offline[u])

\* proto/msg.proto: a message is pushed to a user who is online and stored in
\* Redis for one who is not.
PushedOrStored ==
    \A m \in sent :
        \/ m \in ToSet(inbox[m.to]) \cup ToSet(offline[m.to])
        \/ \E t \in Thread : m \in InHand(t)

-----------------------------------------------------------------------------
(* Delivery implements Mailbox. *)

Given == {m \in sent : m \in ToSet(inbox[m.to])}

\* Stored, or in the hands of a thread.
Waiting ==
    {m \in sent \ Given : m \in ToSet(offline[m.to]) \/ \E t \in Thread : m \in InHand(t)}

Box == INSTANCE Mailbox
           WITH Mail <- Msg, waiting <- Waiting, given <- Given,
                lost <- (sent \ Given) \ Waiting, atRisk <- exposed

\* Every handler's step is one of a mailbox: a message waits in a list or in
\* the hands of some thread until its addressee has it, it is never taken back,
\* never lost without a cause, and never turns up again once it is lost, also
\* when two threads have the same message in their hands.
KeepsMail == Box!MSpec

-----------------------------------------------------------------------------
(* Liveness. *)

NeedsMutex(t) ==
    \/ SendAt(t, "push")
    \/ t \in Worker /\ SendAt(t, "ack")
    \/ t \in Session /\ pc[t] \in {"register", "erase"}

HasWork(t) ==
    \/ task[t] # Idle
    \/ t \in Session /\ pc[t] \in {"setOnline", "register", "erase", "delOnline", "close"}

CanRun(t) == HasWork(t) /\ (NeedsMutex(t) => MutexFree)

\* A thread that can go on again and again does go on: the fairness of the
\* handlers with its guard written out.  It holds because a waiter lacks nothing
\* but the mutex, and a thread at work lacks nothing.
HandlersRun ==
    \A t \in Thread : <>[]~CanRun(t) \/ []<><<HandlerRuns(t)>>_<<vars, dvars>>

\* A handler that has accepted a message gets to its end.
SendCompletes ==
    \A t \in Thread : task[t].op = "send" ~> task[t] = Idle

\* A message that waits in the list when its addressee logs in is given to a
\* client of the addressee, unless it met a condition that loses it.
StoredReachesUser ==
    \A t \in Session, m \in Msg :
        (pc[t] = "register" /\ user[t] = m.to /\ m \in ToSet(offline[m.to]))
            ~> (m \in ToSet(inbox[m.to]) \cup exposed)
=============================================================================
