------------------------- MODULE ConnRegistryProofs -------------------------
(***************************************************************************)
(* Theorems about ConnRegistry, for any sets of users, stream addresses    *)
(* and gRPC threads.  The three safety invariants are proved from one      *)
(* inductive invariant, IInv.  They are not inductive alone: that a stream *)
(* being written to is alive needs that it is still the one in the map,    *)
(* which nobody may change while the mutex is held; that the map holds no  *)
(* dead stream needs that a thread past the authentication has a user.     *)
(***************************************************************************)
EXTENDS ConnRegistry, TLAPS

\* A thread that got past the authentication knows who its user is.
KnownUser == \A s \in Session : pc[s] \notin {"none", "auth"} => user[s] \in User

\* The stream being written to is still what the map holds for the addressee.
PushedIsMapped == push.on # None => conns[push.to] = push.on

\* A session thread inside a push is in its main loop: it neither cleans up
\* nor returns with the mutex in its hands.
HolderIsInLoop == push.by \in Session => pc[push.by] = "loop"

IInv ==
    /\ TypeOK
    /\ KnownUser
    /\ HolderIsInLoop
    /\ PushedIsMapped
    /\ NoDanglingConnection
    /\ OnlineIsBacked

-----------------------------------------------------------------------------
\* What the invariant gives for the safety properties.
THEOREM IInvImplies == IInv => TypeOK /\ NoDanglingConnection
                                 /\ WriteHitsLiveStream /\ OnlineIsBacked
<1>1. ASSUME IInv PROVE WriteHitsLiveStream
  <2>1. SUFFICES ASSUME push.on # None
                 PROVE user[push.on] = push.to /\ pc[push.on] \in Registered
    BY DEF WriteHitsLiveStream
  <2>2. push.to \in User /\ conns[push.to] = push.on
    BY <1>1, <2>1 DEF IInv, TypeOK, NoPush, PushedIsMapped
  <2>3. QED BY <1>1, <2>1, <2>2 DEF IInv, NoDanglingConnection
<1>2. QED BY <1>1 DEF IInv

\* No session runs, nothing is mapped and nobody is online.
LEMMA InitEstablishes == Init => IInv
BY ConstantsAssumption
DEF Init, IInv, TypeOK, KnownUser, HolderIsInLoop, PushedIsMapped,
    NoDanglingConnection, OnlineIsBacked, NoPush, Stage, Thread

\* Every step of a ws_session thread keeps the invariant.
LEMMA SessionStepKeeps ==
    ASSUME IInv, NEW s \in Session, SessionStep(s)
    PROVE  IInv'
<1> USE DEF IInv, Goto, KnownUser, HolderIsInLoop, PushedIsMapped,
            NoDanglingConnection, OnlineIsBacked
<1>1. CASE Accept(s)
  BY <1>1 DEF Accept, TypeOK, Stage, Registered, Announced
<1>2. CASE AuthHangup(s)
  BY <1>2 DEF AuthHangup, TypeOK, Stage, Registered, Announced
<1>3. ASSUME NEW u \in User, Authenticate(s, u) PROVE IInv'
  BY <1>3 DEF Authenticate, TypeOK, Stage, Registered, Announced
<1>4. CASE AnnounceOnline(s)
  BY <1>4 DEF AnnounceOnline, redisSetOwnOnline, redisSetOnline, TypeOK, Stage,
              Registered, Announced
<1>5. CASE Register(s)
  BY <1>5, ConstantsAssumption
  DEF Register, MutexFree, NoPush, TypeOK, Stage, Registered, Announced
<1>6. CASE EnterLoop(s)
  BY <1>6 DEF EnterLoop, TypeOK, Stage, Registered, Announced
<1>7. CASE Ping(s)
  BY <1>7 DEF Ping, Reading, redisSetOwnOnline, redisSetOnline, TypeOK, Stage,
              Registered, Announced
<1>8. CASE Hangup(s)
  BY <1>8 DEF Hangup, Reading, TypeOK, Stage, Registered, Announced
<1>9. CASE Erase(s)
  BY <1>9, ConstantsAssumption
  DEF Erase, MutexFree, NoPush, TypeOK, Stage, Registered, Announced
<1>10. CASE WithdrawOnline(s)
  BY <1>10 DEF WithdrawOnline, redisDelOnline, TypeOK, Stage, Registered, Announced
<1>11. CASE Return(s)
  BY <1>11 DEF Return, TypeOK, Stage, Registered, Announced
<1>12. QED
  BY <1>1, <1>2, <1>3, <1>4, <1>5, <1>6, <1>7, <1>8, <1>9, <1>10, <1>11
  DEF SessionStep

\* The steps of a handler that writes to somebody's stream keep it.
LEMMA PushStepKeeps ==
    ASSUME IInv, NEW t \in Thread, PushStep(t)
    PROVE  IInv'
<1> USE DEF IInv, KnownUser, HolderIsInLoop, PushedIsMapped,
            NoDanglingConnection, OnlineIsBacked, TypeOK, NoPush
<1>1. ASSUME NEW u \in User, PushBegin(t, u) PROVE IInv'
  BY <1>1 DEF PushBegin, MutexFree
<1>2. CASE PushEnd(t)
  BY <1>2, ConstantsAssumption DEF PushEnd
<1>3. QED BY <1>1, <1>2 DEF PushStep

\* So do the presence calls, the expiry of a key and the faults.
LEMMA OtherStepKeeps ==
    ASSUME IInv,
           \/ \E u \in User : RpcStep(u) \/ ExpireOnline(u)
           \/ ListenerStops
           \/ RedisBreaks
           \/ Restart
    PROVE  IInv'
<1> USE DEF IInv, TypeOK, KnownUser, HolderIsInLoop, PushedIsMapped,
            NoDanglingConnection, OnlineIsBacked
<1>1. ASSUME NEW u \in User, RegisterOnline(u) PROVE IInv'
  BY <1>1 DEF RegisterOnline, redisSetOnline
<1>2. ASSUME NEW u \in User, UnregisterOnline(u) PROVE IInv'
  BY <1>2 DEF UnregisterOnline, redisDelOnline
<1>3. ASSUME NEW u \in User, ExpireOnline(u) PROVE IInv'
  BY <1>3 DEF ExpireOnline
<1>4. CASE ListenerStops
  BY <1>4 DEF ListenerStops
<1>5. CASE RedisBreaks
  BY <1>5 DEF RedisBreaks
<1>6. CASE Restart
  BY <1>6, ConstantsAssumption DEF Restart, NoPush, Stage, Thread
<1>7. QED BY <1>1, <1>2, <1>3, <1>4, <1>5, <1>6 DEF RpcStep

\* IInv is inductive.
LEMMA NextKeeps == IInv /\ [Next]_vars => IInv'
<1>1. ASSUME IInv, Next PROVE IInv'
  BY <1>1, SessionStepKeeps, PushStepKeeps, OtherStepKeeps DEF Next
<1>2. ASSUME IInv, UNCHANGED vars PROVE IInv'
  BY <1>2
  DEF vars, IInv, TypeOK, KnownUser, HolderIsInLoop, PushedIsMapped,
      NoDanglingConnection, OnlineIsBacked
<1>3. QED BY <1>1, <1>2

\* The inductive invariant holds of every run of the msg_server.
THEOREM Inductive == Spec => []IInv
BY InitEstablishes, NextKeeps, PTL DEF Spec

\* The variables of the registry keep their types: users, streams and stages
\* are what the code says they are, and the mutex has at most one holder.
THEOREM TypeCorrect == Spec => []TypeOK
BY Inductive, IInvImplies, PTL

\* g_online_connections never holds a stream that was destroyed or whose
\* memory now serves somebody else, for any number of sessions of a user.
THEOREM NoDangling == Spec => []NoDanglingConnection
BY Inductive, IInvImplies, PTL

\* A write under g_conns_mutex goes to a living stream of the addressee from
\* the lookup to the end of the write.
THEOREM WritesHitLiveStreams == Spec => []WriteHitsLiveStream
BY Inductive, IInvImplies, PTL

\* A presence key that no RPC, restart or lost DEL left behind belongs to a
\* session that will still delete it.
THEOREM OnlineBacked == Spec => []OnlineIsBacked
BY Inductive, IInvImplies, PTL
=============================================================================
