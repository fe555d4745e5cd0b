--------------------------- MODULE DeliveryProofs ---------------------------
(***************************************************************************)
(* Theorems about Delivery, for any users, streams, threads and messages:  *)
(* it implements ConnRegistry, so that what is proved of the registry      *)
(* holds here, and no message reaches anybody but its addressee.           *)
(*                                                                         *)
(* The second needs the first: the client that is given a message is the   *)
(* one behind the stream under the write, and that this is the addressee   *)
(* is an invariant of the registry.                                        *)
(***************************************************************************)
EXTENDS Delivery, ConnRegistryProofs

\* The messages a user may be given.
AddressedTo(u) == {m \in Msg : m.to = u}

SendStage == {"check", "push", "pushing", "store", "ack", "acking"}

PopStage == {"lrange", "del", "emit"}

Task ==
    {Idle}
        \cup [op : {"send"}, msg : Msg, at : SendStage]
        \cup [op : {"pop"}, of : User, at : PopStage, got : Seq(Msg)]

\* The thread that is pushing holds the mutex, for the addressee.
PusherHolds ==
    \A t \in Thread : SendAt(t, "pushing") =>
        push.by = t /\ push.to = task[t].msg.to

\* A session pops the list of its own user, before its main loop.
PopperOwns ==
    \A s \in Session : task[s].op = "pop" =>
        pc[s] = "drain" /\ user[s] = task[s].of

\* What a thread has read from a list is addressed to the user of the list.
ReadIsAddressed ==
    \A t \in Thread : task[t].op = "pop" =>
        task[t].got \in Seq(AddressedTo(task[t].of))

StoredIsAddressed ==
    /\ offline \in [User -> Seq(Msg)]
    /\ \A u \in User : offline[u] \in Seq(AddressedTo(u))

GivenIsAddressed ==
    /\ inbox \in [User -> Seq(Msg)]
    /\ \A u \in User : inbox[u] \in Seq(AddressedTo(u))

DIInv ==
    /\ IInv
    /\ task \in [Thread -> Task]
    /\ PusherHolds
    /\ PopperOwns
    /\ ReadIsAddressed
    /\ StoredIsAddressed
    /\ GivenIsAddressed

-----------------------------------------------------------------------------
(* Delivery implements ConnRegistry: with the registry's variables as they *)
(* are, every step of a handler is a step of the registry or none.         *)

\* A thread in the send handler has a message, one in a pop a user.
LEMMA TaskFields ==
    ASSUME task \in [Thread -> Task], NEW t \in Thread
    PROVE  /\ task[t].op = "send" => task[t].msg \in Msg
           /\ task[t].op = "pop" => task[t].of \in User /\ task[t].got \in Seq(Msg)
BY DEF Task, Idle

\* A step of the send handler pushes, or leaves the registry alone.
LEMMA SendRefines ==
    ASSUME task \in [Thread -> Task], NEW t \in Thread, SendStep(t)
    PROVE  [Next]_vars
<1>1. CASE PushLock(t)
  BY <1>1, TaskFields, MsgAssumption DEF PushLock, SendAt, PushStep, Next
<1>2. CASE \E ok \in Written : PushWrite(t, ok)
  BY <1>2 DEF PushWrite, PushStep, Next
<1>3. CASE AckLock(t)
  BY <1>3, TaskFields, MsgAssumption DEF AckLock, SendAt, PushStep, Next
<1>4. CASE AckWrite(t)
  BY <1>4 DEF AckWrite, PushStep, Next
<1>5. CASE CheckOnline(t) \/ Store(t) \/ AckOwn(t)
  BY <1>5 DEF CheckOnline, Store, AckOwn
<1>6. QED BY <1>1, <1>2, <1>3, <1>4, <1>5 DEF SendStep

\* So does a step of a pop, which ends with the session's entry into its loop.
LEMMA PopRefines ==
    ASSUME NEW t \in Thread, PopStep(t)
    PROVE  [Next]_vars
<1>1. CASE PopRead(t) \/ PopDelete(t)
  BY <1>1 DEF PopRead, PopDelete
<1>2. ASSUME NEW ok \in Written, Emit(t, ok) PROVE [Next]_vars
  BY <1>2 DEF Emit, SessionStep, Next
<1>3. QED BY <1>1, <1>2 DEF PopStep

LEMMA StepRefines ==
    ASSUME task \in [Thread -> Task], [DNext]_<<vars, dvars>>
    PROVE  [Next]_vars
<1>1. ASSUME NEW t \in Thread, NEW m \in Msg, SendBegin(t, m) PROVE [Next]_vars
  BY <1>1 DEF SendBegin
<1>2. ASSUME NEW w \in Worker, NEW u \in User, PullOfflineMessages(w, u)
      PROVE  [Next]_vars
  BY <1>2 DEF PullOfflineMessages
<1>3. ASSUME NEW s \in Session, LogIn(s) \/ DPing(s) \/ DHangup(s) \/ Lifecycle(s)
      PROVE  [Next]_vars
  BY <1>3 DEF LogIn, DPing, DHangup, Lifecycle, SessionStep, Next
<1>4. CASE Environment
  BY <1>4 DEF Environment, Next
<1>5. CASE DRestart
  BY <1>5 DEF DRestart, Next
<1>6. CASE UNCHANGED <<vars, dvars>>
  BY <1>6
<1>7. QED
  BY <1>1, <1>2, <1>3, <1>4, <1>5, <1>6, SendRefines, PopRefines DEF DNext

-----------------------------------------------------------------------------
(* The rest of the invariant, step by step. *)

DRest ==
    /\ task \in [Thread -> Task]
    /\ PusherHolds
    /\ PopperOwns
    /\ ReadIsAddressed
    /\ StoredIsAddressed
    /\ GivenIsAddressed

LEMMA DIInvIs == DIInv <=> IInv /\ DRest
BY DEF DIInv, DRest

\* Joining and extending sequences over a set.
LEMMA ConcatInSeq ==
    ASSUME NEW S, NEW s \in Seq(S), NEW t \in Seq(S)
    PROVE  s \o t \in Seq(S)
OBVIOUS

LEMMA AppendInSeq ==
    ASSUME NEW S, NEW s \in Seq(S), NEW e \in S
    PROVE  Append(s, e) \in Seq(S) /\ <<e>> \in Seq(S)
OBVIOUS

\* What is addressed to a user is messages.
LEMMA SeqAddressed ==
    ASSUME NEW u, NEW s \in Seq(AddressedTo(u))
    PROVE  s \in Seq(Msg)
<1>1. s \in [1 .. Len(s) -> AddressedTo(u)] /\ Len(s) \in Nat
  OBVIOUS
<1>2. s \in [1 .. Len(s) -> Msg]
  BY <1>1 DEF AddressedTo
<1>3. QED BY <1>1, <1>2

\* Giving msgs to u keeps every inbox to what is addressed to its user.
LEMMA HandKeeps ==
    ASSUME GivenIsAddressed, NEW u \in User, NEW msgs \in Seq(AddressedTo(u)),
           Hand(u, msgs)
    PROVE  GivenIsAddressed'
<1>1. inbox[u] \o msgs \in Seq(AddressedTo(u))
  BY ConcatInSeq DEF GivenIsAddressed
<1>2. inbox[u] \o msgs \in Seq(Msg)
  BY <1>1, SeqAddressed
<1>3. inbox' = [inbox EXCEPT ![u] = inbox[u] \o msgs]
  BY DEF Hand
<1>4. (inbox \in [User -> Seq(Msg)])'
  BY <1>2, <1>3 DEF GivenIsAddressed
<1>5. ASSUME NEW v \in User PROVE inbox'[v] \in Seq(AddressedTo(v))
  BY <1>1, <1>3 DEF GivenIsAddressed
<1>6. QED BY <1>4, <1>5 DEF GivenIsAddressed, AddressedTo

\* What thread t does next is some task, and the other threads' tasks stay.
LEMMA DoKeeps ==
    ASSUME task \in [Thread -> Task], NEW t \in Thread, NEW next \in Task, Do(t, next)
    PROVE  /\ (task \in [Thread -> Task])'
           /\ task'[t] = next
           /\ \A r \in Thread \ {t} : task'[r] = task[r]
BY DEF Do

\* The members of Task that a handler writes.
LEMMA Tasks ==
    /\ Idle \in Task
    /\ \A m \in Msg, at \in SendStage : Sending(m, at) \in Task
    /\ \A u \in User, at \in PopStage, got \in Seq(Msg) : Popping(u, at, got) \in Task
BY DEF Task, Sending, Popping

\* A step of t that leaves streams, lists and inboxes alone, and takes t to a
\* task that is neither a push nor a pop.
LEMMA QuietStepKeeps ==
    ASSUME DIInv, NEW t \in Thread, NEW next \in Task, Do(t, next),
           next = Idle \/ \E m \in Msg, at \in SendStage \ {"pushing"} : next = Sending(m, at),
           UNCHANGED <<pc, user, offline, inbox>>,
           \/ UNCHANGED push
           \/ MutexFree /\ \E u \in User : PushBegin(t, u)
           \/ PushEnd(t)
    PROVE  DRest'
<1>1. /\ (task \in [Thread -> Task])'
      /\ task'[t] = next
      /\ \A r \in Thread \ {t} : task'[r] = task[r]
  BY DoKeeps DEF DIInv
<1>2. ~SendAt(t, "pushing")' /\ task'[t].op # "pop"
  BY <1>1 DEF Idle, Sending, SendAt
<1>3. PusherHolds'
  <2>1. SUFFICES ASSUME NEW r \in Thread \ {t}, SendAt(r, "pushing")'
                 PROVE  push'.by = r /\ push'.to = task'[r].msg.to
    BY <1>2 DEF PusherHolds
  <2>2. push.by = r /\ push.to = task[r].msg.to
    BY <1>1, <2>1 DEF DIInv, PusherHolds, SendAt
  <2>3. push' = push
    BY <2>1, <2>2, ConstantsAssumption DEF PushBegin, PushEnd, MutexFree, NoPush, Thread
  <2>4. QED BY <1>1, <2>1, <2>2, <2>3
<1>4. PopperOwns' /\ ReadIsAddressed'
  BY <1>1, <1>2 DEF DIInv, PopperOwns, ReadIsAddressed, Thread, AddressedTo
<1>5. StoredIsAddressed' /\ GivenIsAddressed'
  BY DEF DIInv, StoredIsAddressed, GivenIsAddressed, AddressedTo
<1>6. QED BY <1>1, <1>3, <1>4, <1>5 DEF DRest

LEMMA SendBeginKeeps ==
    ASSUME DIInv, NEW t \in Thread, NEW m \in Msg, SendBegin(t, m)
    PROVE  DRest'
<1>1. Sending(m, "check") \in Task /\ Do(t, Sending(m, "check"))
  BY Tasks DEF SendBegin, SendStage
<1>2. UNCHANGED <<pc, user, push, offline, inbox>>
  BY DEF SendBegin, vars
<1>3. QED BY <1>1, <1>2, QuietStepKeeps DEF SendStage

\* The steps of the send handler, the appending and the pushing one apart.
LEMMA CheckAndAckKeep ==
    ASSUME DIInv, NEW t \in Thread, CheckOnline(t) \/ AckOwn(t) \/ AckLock(t) \/ AckWrite(t)
    PROVE  DRest'
<1>1. CASE CheckOnline(t)
  <2>1. task[t].msg \in Msg
    BY <1>1, TaskFields DEF CheckOnline, SendAt, DIInv
  <2>2. PICK at \in {"push", "store"} : Do(t, Sending(task[t].msg, at))
    BY <1>1 DEF CheckOnline
  <2>3. UNCHANGED <<pc, user, push, offline, inbox>>
    BY <1>1 DEF CheckOnline, vars
  <2>4. QED BY <2>1, <2>2, <2>3, Tasks, QuietStepKeeps DEF SendStage
<1>2. CASE AckOwn(t)
  <2>1. Do(t, Idle) /\ UNCHANGED <<pc, user, push, offline, inbox>>
    BY <1>2 DEF AckOwn, vars
  <2>2. QED BY <2>1, Tasks, QuietStepKeeps
<1>3. CASE AckLock(t)
  <2>1. task[t].msg \in Msg
    BY <1>3, TaskFields DEF AckLock, SendAt, DIInv
  <2>2. /\ Do(t, Sending(task[t].msg, "acking"))
        /\ PushBegin(t, task[t].msg.from)
        /\ MutexFree
        /\ UNCHANGED <<pc, user, offline, inbox>>
    BY <1>3 DEF AckLock, PushBegin
  <2>3. QED BY <2>1, <2>2, Tasks, MsgAssumption, QuietStepKeeps DEF SendStage
<1>4. CASE AckWrite(t)
  <2>1. Do(t, Idle) /\ PushEnd(t) /\ UNCHANGED <<pc, user, offline, inbox>>
    BY <1>4 DEF AckWrite, PushEnd
  <2>2. QED BY <2>1, Tasks, QuietStepKeeps
<1>5. QED BY <1>1, <1>2, <1>3, <1>4

LEMMA PushLockKeeps ==
    ASSUME DIInv, NEW t \in Thread, PushLock(t)
    PROVE  DRest'
<1>1. task[t].msg \in Msg
  BY TaskFields DEF PushLock, SendAt, DIInv
<1>2. /\ (task \in [Thread -> Task])'
      /\ task'[t] = Sending(task[t].msg, "pushing")
      /\ \A r \in Thread \ {t} : task'[r] = task[r]
  BY <1>1, Tasks, DoKeeps DEF PushLock, SendStage, DIInv
<1>3. /\ push = NoPush
      /\ push'.by = t /\ push'.to = task[t].msg.to
      /\ UNCHANGED <<pc, user, offline, inbox>>
  BY DEF PushLock, PushBegin, MutexFree
<1>4. \A r \in Thread : ~SendAt(r, "pushing")
  BY <1>3, ConstantsAssumption DEF DIInv, PusherHolds, NoPush, Thread
<1>5. PusherHolds'
  BY <1>2, <1>3, <1>4 DEF PusherHolds, SendAt, Sending
<1>6. PopperOwns' /\ ReadIsAddressed'
  BY <1>2, <1>3 DEF DIInv, PopperOwns, ReadIsAddressed, Sending, Thread, AddressedTo
<1>7. StoredIsAddressed' /\ GivenIsAddressed'
  BY <1>3 DEF DIInv, StoredIsAddressed, GivenIsAddressed, AddressedTo
<1>8. QED BY <1>2, <1>5, <1>6, <1>7 DEF DRest

\* The message is given to the user of the stream under the write, and that is
\* its addressee: an invariant of the registry.
LEMMA PushWriteKeeps ==
    ASSUME DIInv, NEW t \in Thread, NEW ok \in Written, PushWrite(t, ok)
    PROVE  DRest'
<1> DEFINE m == task[t].msg
<1>1. m \in Msg /\ m.to \in User
  BY TaskFields, MsgAssumption DEF PushWrite, SendAt, DIInv
<1>2. /\ (task \in [Thread -> Task])'
      /\ task'[t] = Sending(m, "ack")
      /\ \A r \in Thread \ {t} : task'[r] = task[r]
  BY <1>1, Tasks, DoKeeps DEF PushWrite, SendStage, DIInv
<1>3. push.by = t /\ push.to = m.to /\ UNCHANGED <<pc, user, offline>>
  BY DEF PushWrite, PushEnd, DIInv, PusherHolds
<1>4. PusherHolds'
  BY <1>2, <1>3 DEF DIInv, PusherHolds, SendAt, Sending
<1>5. PopperOwns' /\ ReadIsAddressed'
  BY <1>2, <1>3 DEF DIInv, PopperOwns, ReadIsAddressed, Sending, Thread, AddressedTo
<1>6. GivenIsAddressed'
  <2>1. CASE push.on # None /\ ok
    <3>1. user[push.on] = m.to
      BY <1>3, <2>1, IInvImplies DEF DIInv, WriteHitsLiveStream
    <3>2. Hand(m.to, <<m>>)
      BY <2>1, <3>1 DEF PushWrite
    <3>3. <<m>> \in Seq(AddressedTo(m.to))
      BY <1>1 DEF AddressedTo
    <3>4. QED BY <1>1, <3>2, <3>3, HandKeeps DEF DIInv
  <2>2. CASE ~(push.on # None /\ ok)
    BY <2>2 DEF PushWrite, DIInv, GivenIsAddressed, AddressedTo
  <2>3. QED BY <2>1, <2>2
<1>7. StoredIsAddressed'
  BY <1>3 DEF DIInv, StoredIsAddressed, AddressedTo
<1>8. QED BY <1>2, <1>4, <1>5, <1>6, <1>7 DEF DRest

LEMMA StoreKeeps ==
    ASSUME DIInv, NEW t \in Thread, Store(t)
    PROVE  DRest'
<1> DEFINE m == task[t].msg
<1>1. m \in Msg /\ m.to \in User
  BY TaskFields, MsgAssumption DEF Store, SendAt, DIInv
<1>2. /\ (task \in [Thread -> Task])'
      /\ task'[t] = Sending(m, "ack")
      /\ \A r \in Thread \ {t} : task'[r] = task[r]
  BY <1>1, Tasks, DoKeeps DEF Store, SendStage, DIInv
<1>3. UNCHANGED <<pc, user, push, inbox>>
  BY DEF Store, vars
<1>4. PusherHolds' /\ PopperOwns' /\ ReadIsAddressed'
  BY <1>2, <1>3 DEF DIInv, PusherHolds, PopperOwns, ReadIsAddressed, SendAt, Sending,
                    Thread, AddressedTo
<1>5. StoredIsAddressed'
  <2>1. CASE redis
    <3>1. offline' = [offline EXCEPT ![m.to] = Append(offline[m.to], m)]
      BY <2>1 DEF Store
    <3>2. m \in AddressedTo(m.to)
      BY <1>1 DEF AddressedTo
    <3>3. offline[m.to] \in Seq(AddressedTo(m.to))
      BY <1>1 DEF DIInv, StoredIsAddressed
    <3>4. Append(offline[m.to], m) \in Seq(AddressedTo(m.to))
      BY <3>2, <3>3, AppendInSeq
    <3>5. Append(offline[m.to], m) \in Seq(Msg)
      BY <3>4, SeqAddressed
    <3>6. (offline \in [User -> Seq(Msg)])'
      BY <3>1, <3>5 DEF DIInv, StoredIsAddressed
    <3>7. ASSUME NEW v \in User PROVE offline'[v] \in Seq(AddressedTo(v))
      BY <3>1, <3>4 DEF DIInv, StoredIsAddressed
    <3>8. QED BY <3>6, <3>7 DEF StoredIsAddressed, AddressedTo
  <2>2. CASE ~redis
    BY <2>2 DEF Store, DIInv, StoredIsAddressed, AddressedTo
  <2>3. QED BY <2>1, <2>2
<1>6. GivenIsAddressed'
  BY <1>3 DEF DIInv, GivenIsAddressed, AddressedTo
<1>7. QED BY <1>2, <1>4, <1>5, <1>6 DEF DRest

\* A step that takes t to a pop of the list of u, with what was read from it.
LEMMA PoppingKeeps ==
    ASSUME DIInv, NEW t \in Thread, NEW u \in User, NEW at \in PopStage,
           NEW got \in Seq(AddressedTo(u)), Do(t, Popping(u, at, got)),
           t \in Session => pc'[t] = "drain" /\ user[t] = u,
           \A r \in Session \ {t} : pc'[r] = pc[r],
           UNCHANGED <<user, push, inbox>>,
           StoredIsAddressed'
    PROVE  DRest'
<1>1. /\ (task \in [Thread -> Task])'
      /\ task'[t] = Popping(u, at, got)
      /\ \A r \in Thread \ {t} : task'[r] = task[r]
  BY SeqAddressed, Tasks, DoKeeps DEF DIInv
<1>2. PusherHolds'
  BY <1>1 DEF DIInv, PusherHolds, SendAt, Popping
<1>3. PopperOwns'
  BY <1>1 DEF DIInv, PopperOwns, Popping, Thread
<1>4. ReadIsAddressed'
  BY <1>1 DEF DIInv, ReadIsAddressed, Popping, AddressedTo
<1>5. GivenIsAddressed'
  BY DEF DIInv, GivenIsAddressed, AddressedTo
<1>6. QED BY <1>1, <1>2, <1>3, <1>4, <1>5 DEF DRest

LEMMA EmptyInSeq ==
    ASSUME NEW S
    PROVE  <<>> \in Seq(S)
OBVIOUS

LEMMA LogInKeeps ==
    ASSUME DIInv, NEW s \in Session, LogIn(s)
    PROVE  DRest'
<1>1. pc[s] = "register" /\ pc' = [pc EXCEPT ![s] = "drain"]
  BY DEF LogIn, Register, Goto
<1>2. user[s] \in User
  BY <1>1 DEF DIInv, IInv, KnownUser
<1>3. pc'[s] = "drain" /\ \A r \in Session \ {s} : pc'[r] = pc[r]
  BY <1>1 DEF DIInv, IInv, TypeOK
<1>4. UNCHANGED <<user, push, offline, inbox>> /\ Do(s, Popping(user[s], "lrange", <<>>))
  BY DEF LogIn, Register
<1>5. StoredIsAddressed'
  BY <1>4 DEF DIInv, StoredIsAddressed, AddressedTo
<1>6. "lrange" \in PopStage /\ <<>> \in Seq(AddressedTo(user[s])) /\ s \in Thread
  BY EmptyInSeq DEF PopStage, Thread
<1>7. QED BY <1>2, <1>3, <1>4, <1>5, <1>6, PoppingKeeps

LEMMA PullKeeps ==
    ASSUME DIInv, NEW w \in Worker, NEW u \in User, PullOfflineMessages(w, u)
    PROVE  DRest'
<1>1. UNCHANGED <<pc, user, push, offline, inbox>> /\ Do(w, Popping(u, "lrange", <<>>))
  BY DEF PullOfflineMessages, vars
<1>2. StoredIsAddressed'
  BY <1>1 DEF DIInv, StoredIsAddressed, AddressedTo
<1>3. "lrange" \in PopStage /\ <<>> \in Seq(AddressedTo(u)) /\ w \in Thread /\ w \notin Session
  BY EmptyInSeq, ConstantsAssumption DEF PopStage, Thread
<1>4. QED BY <1>1, <1>2, <1>3, PoppingKeeps

\* LRANGE reads what is addressed to the user of the list, and DEL keeps it.
LEMMA PopReadDeleteKeep ==
    ASSUME DIInv, NEW t \in Thread, PopRead(t) \/ PopDelete(t)
    PROVE  DRest'
<1> DEFINE u == task[t].of
<1>1. task[t].op = "pop" /\ u \in User
  BY TaskFields DEF PopRead, PopDelete, PopAt, DIInv
<1>2. UNCHANGED <<pc, user, push, inbox>>
  BY DEF PopRead, PopDelete, vars
<1>3. t \in Session => pc'[t] = "drain" /\ user[t] = u
  BY <1>1, <1>2 DEF DIInv, PopperOwns
<1>4. CASE PopRead(t)
  <2>1. PICK got \in {offline[u], <<>>} : Do(t, Popping(u, "del", got))
    BY <1>4 DEF PopRead
  <2>2. got \in Seq(AddressedTo(u))
    BY <1>1, <2>1, EmptyInSeq DEF DIInv, StoredIsAddressed
  <2>3. StoredIsAddressed'
    BY <1>4 DEF PopRead, DIInv, StoredIsAddressed, AddressedTo
  <2>4. QED BY <1>1, <1>2, <1>3, <2>1, <2>2, <2>3, PoppingKeeps DEF PopStage
<1>5. CASE PopDelete(t)
  <2>1. Do(t, Popping(u, "emit", task[t].got))
    BY <1>5 DEF PopDelete
  <2>2. task[t].got \in Seq(AddressedTo(u))
    BY <1>1 DEF DIInv, ReadIsAddressed
  <2>3. offline' = [offline EXCEPT ![u] = <<>>] \/ offline' = offline
    BY <1>5 DEF PopDelete
  <2>4. StoredIsAddressed'
    BY <1>1, <2>3, EmptyInSeq DEF DIInv, StoredIsAddressed, AddressedTo
  <2>5. QED BY <1>1, <1>2, <1>3, <2>1, <2>2, <2>4, PoppingKeeps DEF PopStage
<1>6. QED BY <1>4, <1>5

LEMMA EmitKeeps ==
    ASSUME DIInv, NEW t \in Thread, NEW ok \in Written, Emit(t, ok)
    PROVE  DRest'
<1> DEFINE u == task[t].of
<1>1. task[t].op = "pop" /\ u \in User /\ task[t].got \in Seq(AddressedTo(u))
  BY TaskFields DEF Emit, PopAt, DIInv, ReadIsAddressed
<1>2. t \in Session => user[t] = u
  BY <1>1 DEF DIInv, PopperOwns
<1>3. /\ (task \in [Thread -> Task])'
      /\ task'[t] = Idle
      /\ \A r \in Thread \ {t} : task'[r] = task[r]
  BY Tasks, DoKeeps DEF Emit, DIInv
<1>4. /\ UNCHANGED <<user, push, offline>>
      /\ \A r \in Session \ {t} : pc'[r] = pc[r]
  BY DEF Emit, EnterLoop, Goto, vars, DIInv, IInv, TypeOK
<1>5. PusherHolds'
  BY <1>3, <1>4 DEF DIInv, PusherHolds, SendAt, Idle
<1>6. PopperOwns' /\ ReadIsAddressed'
  BY <1>3, <1>4 DEF DIInv, PopperOwns, ReadIsAddressed, Idle, Thread, AddressedTo
<1>7. StoredIsAddressed'
  BY <1>4 DEF DIInv, StoredIsAddressed, AddressedTo
<1>8. GivenIsAddressed'
  <2>1. CASE ok
    <3>1. Hand(u, task[t].got)
      BY <2>1, <1>2 DEF Emit
    <3>2. QED BY <1>1, <3>1, HandKeeps DEF DIInv
  <2>2. CASE ~ok
    BY <2>2 DEF Emit, DIInv, GivenIsAddressed, AddressedTo
  <2>3. QED BY <2>1, <2>2
<1>9. QED BY <1>3, <1>5, <1>6, <1>7, <1>8 DEF DRest

\* A step of the registry alone disturbs no message if it leaves the mutex and
\* the sessions that are popping alone.
LEMMA RegistryOnlyKeeps ==
    ASSUME DIInv, UNCHANGED dvars, UNCHANGED push,
           \A s \in Session : task[s].op = "pop" => pc'[s] = pc[s] /\ user'[s] = user[s]
    PROVE  DRest'
<1>1. UNCHANGED <<task, offline, inbox>>
  BY DEF dvars
<1>2. QED
  BY <1>1 DEF DIInv, DRest, PusherHolds, PopperOwns, ReadIsAddressed, StoredIsAddressed,
              GivenIsAddressed, SendAt, AddressedTo

LEMMA SessionKeeps ==
    ASSUME DIInv, NEW s \in Session, DPing(s) \/ DHangup(s) \/ Lifecycle(s)
    PROVE  DRest'
<1>1. UNCHANGED dvars /\ UNCHANGED push
  BY DEF DPing, Ping, DHangup, Hangup, Lifecycle, Accept, AuthHangup, Authenticate,
         AnnounceOnline, Erase, WithdrawOnline, Return
<1>2. \A r \in Session \ {s} : pc'[r] = pc[r] /\ user'[r] = user[r]
  BY DEF DPing, Ping, DHangup, Hangup, Lifecycle, Accept, AuthHangup, Authenticate,
         AnnounceOnline, Erase, WithdrawOnline, Return, Goto, DIInv, IInv, TypeOK
<1>3. pc[s] # "drain"
  BY DEF DPing, Ping, DHangup, Hangup, Reading, Lifecycle, Accept, AuthHangup, Authenticate,
         AnnounceOnline, Erase, WithdrawOnline, Return
<1>4. task[s].op # "pop"
  BY <1>3 DEF DIInv, PopperOwns
<1>5. QED BY <1>1, <1>2, <1>4, RegistryOnlyKeeps

LEMMA EnvironmentKeeps ==
    ASSUME DIInv, Environment
    PROVE  DRest'
<1>1. UNCHANGED dvars /\ UNCHANGED <<pc, user, push>>
  BY DEF Environment, RpcStep, RegisterOnline, UnregisterOnline, ExpireOnline, RedisBreaks
<1>2. QED BY <1>1, RegistryOnlyKeeps

LEMMA RestartKeeps ==
    ASSUME DIInv, DRestart
    PROVE  DRest'
<1>1. task' = [t \in Thread |-> Idle] /\ UNCHANGED <<offline, inbox>>
  BY DEF DRestart
<1>2. (task \in [Thread -> Task])' /\ \A t \in Thread : task'[t].op = "idle"
  BY <1>1, Tasks DEF Idle
<1>3. PusherHolds' /\ PopperOwns' /\ ReadIsAddressed'
  BY <1>2 DEF PusherHolds, PopperOwns, ReadIsAddressed, SendAt, Thread
<1>4. StoredIsAddressed' /\ GivenIsAddressed'
  BY <1>1 DEF DIInv, StoredIsAddressed, GivenIsAddressed, AddressedTo
<1>5. QED BY <1>2, <1>3, <1>4 DEF DRest

-----------------------------------------------------------------------------
(* The invariant and the theorems. *)

LEMMA DInitEstablishes == DInit => DIInv
<1> SUFFICES ASSUME DInit PROVE DIInv
  OBVIOUS
<1>1. IInv
  BY InitEstablishes DEF DInit
<1>2. (task \in [Thread -> Task]) /\ \A t \in Thread : task[t].op = "idle"
  BY Tasks DEF DInit, Idle
<1>3. PusherHolds /\ PopperOwns /\ ReadIsAddressed
  BY <1>2 DEF PusherHolds, PopperOwns, ReadIsAddressed, SendAt, Thread
<1>4. StoredIsAddressed /\ GivenIsAddressed
  BY EmptyInSeq DEF DInit, StoredIsAddressed, GivenIsAddressed
<1>5. QED BY <1>1, <1>2, <1>3, <1>4 DEF DIInv

LEMMA DNextKeeps == DIInv /\ [DNext]_<<vars, dvars>> => DIInv'
<1> SUFFICES ASSUME DIInv, [DNext]_<<vars, dvars>> PROVE DIInv'
  OBVIOUS
<1>1. IInv'
  BY StepRefines, NextKeeps DEF DIInv
<1>2. DRest'
  <2>1. CASE \E t \in Thread, m \in Msg : SendBegin(t, m)
    BY <2>1, SendBeginKeeps
  <2>2. ASSUME NEW t \in Thread, SendStep(t) PROVE DRest'
    BY <2>2, CheckAndAckKeep, PushLockKeeps, PushWriteKeeps, StoreKeeps DEF SendStep
  <2>3. ASSUME NEW t \in Thread, PopStep(t) PROVE DRest'
    BY <2>3, PopReadDeleteKeep, EmitKeeps DEF PopStep
  <2>4. CASE \E w \in Worker, u \in User : PullOfflineMessages(w, u)
    BY <2>4, PullKeeps
  <2>5. CASE \E s \in Session : LogIn(s) \/ DPing(s) \/ DHangup(s) \/ Lifecycle(s)
    BY <2>5, LogInKeeps, SessionKeeps
  <2>6. CASE Environment
    BY <2>6, EnvironmentKeeps
  <2>7. CASE DRestart
    BY <2>7, RestartKeeps
  <2>8. CASE UNCHANGED <<vars, dvars>>
    BY <2>8, RegistryOnlyKeeps DEF vars
  <2>9. QED BY <2>1, <2>2, <2>3, <2>4, <2>5, <2>6, <2>7, <2>8 DEF DNext
<1>3. QED
  BY <1>1, <1>2 DEF DIInv, DRest

THEOREM DInductive == DSpec => []DIInv
BY DInitEstablishes, DNextKeeps, PTL DEF DSpec

\* Every behaviour of the handlers is one of the connection registry: what is
\* true of all its behaviours is true while messages are sent and popped.
THEOREM DeliveryImplementsRegistry == DSpec => Spec
<1>1. DInit => Init
  BY DEF DInit
<1>2. DIInv /\ [DNext]_<<vars, dvars>> => [Next]_vars
  BY StepRefines DEF DIInv
<1>3. QED BY <1>1, <1>2, DInductive, PTL DEF DSpec, Spec

\* While messages are sent, a push is to a living stream of the addressee.
THEOREM DeliveryWritesHitLiveStreams == DSpec => []WriteHitsLiveStream
BY DeliveryImplementsRegistry, WritesHitLiveStreams, PTL

\* No client is given a message that is addressed to another user, for any
\* number of sessions, threads and messages, and with every fault.
THEOREM NobodyGetsForeignMessages == DSpec => []NoMisdelivery
<1>1. DIInv => NoMisdelivery
  <2>1. SUFFICES ASSUME DIInv, NEW u \in User, NEW m \in ToSet(inbox[u])
                 PROVE  m.to = u
    BY DEF NoMisdelivery
  <2>2. inbox[u] \in Seq(AddressedTo(u))
    BY <2>1 DEF DIInv, GivenIsAddressed
  <2>3. m \in AddressedTo(u)
    BY <2>1, <2>2 DEF ToSet
  <2>4. QED BY <2>3 DEF AddressedTo
<1>2. QED BY <1>1, DInductive, PTL
=============================================================================
