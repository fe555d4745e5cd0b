--------------------------- MODULE FriendsProofs ---------------------------
(***************************************************************************)
(* Proofs about Friends, for any users, handlers and number of requests.   *)
(***************************************************************************)
EXTENDS Friends, TLAPS

\* A handler that has found who sent a request found it in the request.
FriendIsSender ==
    \A t \in Thread : (At(t, "update") /\ task[t].friend # None) =>
        /\ task[t].id \in DOMAIN requests
        /\ requests[task[t].id].from = task[t].friend
        /\ requests[task[t].id].to = task[t].user
        /\ task[t].accept => task[t].id \in consented

ConsentedIds == consented \subseteq DOMAIN requests

\* Some request between the two was accepted.
Asked(u, v) == \E i \in consented : Between(i, u, v)

BefriendAsked ==
    \A t \in Thread : At(t, "befriend") => Asked(task[t].user, task[t].friend)

RowsAsked == \A u, v \in User : <<u, v>> \in rows => Asked(u, v)

\* The rows that a handler has written when it comes to a step, as long as it
\* met one failure at most.
RowsOfStep(h) ==
    /\ h.step = 1 => h.faults = 0
    /\ h.step = 2 => h.faults = 0 /\ <<h.user, h.friend>> \in rows
    /\ (h.step \in {3, 4} /\ h.faults = 0) => Both(h.user, h.friend) \subseteq rows
    /\ (h.step = 4 /\ h.faults = 1) => <<h.friend, h.user>> \in rows

StepsWritten == \A t \in Thread : At(t, "befriend") => RowsOfStep(task[t])

DamagedIsMutual == \A u, v \in User : <<u, v>> \in damaged => <<v, u>> \in damaged

RowsMutual ==
    \A u, v \in User : <<u, v>> \in rows =>
        <<v, u>> \in rows \/ Befriending(u, v) \/ <<u, v>> \in damaged

FTypeInv == FTypeOK /\ FriendIsSender /\ ConsentedIds

FriendsInv ==
    /\ FTypeInv
    /\ BefriendAsked /\ RowsAsked
    /\ StepsWritten /\ DamagedIsMutual /\ RowsMutual
    /\ ConsentMakesFriends

-----------------------------------------------------------------------------
\* What is known of a handler by the name of its operation.
LEMMA TaskFields ==
    ASSUME FTypeOK, NEW t \in Thread
    PROVE  /\ At(t, "update") => /\ task[t].user \in User /\ task[t].id \in Named
                                 /\ task[t].accept \in BOOLEAN
                                 /\ task[t].friend \in User \cup {None}
           /\ At(t, "befriend") =>
                /\ task[t] \in [op : {"befriend"}, user : User, friend : User,
                                step : 1 .. 4, faults : 0 .. 2]
                /\ task[t].user \in User /\ task[t].friend \in User
                /\ task[t].step \in 1 .. 4 /\ task[t].faults \in 0 .. 2
<1>1. task[t] \in Task
    BY DEF FTypeOK
<1> QED
    BY <1>1 DEF Task, At, Idle

\* The initial states.
LEMMA FInitInv == FInit => FriendsInv
<1> SUFFICES ASSUME FInit PROVE FriendsInv
    OBVIOUS
<1>1. FTypeOK
  <2>1. requests \in Seq(Request) /\ Len(requests) <= MaxRequests
      BY FriendsAssumption DEF FInit
  <2> QED
      BY <2>1 DEF FInit, FTypeOK, Task
<1>2. \A t \in Thread : ~At(t, "update") /\ ~At(t, "befriend")
    BY DEF FInit, At, Idle
<1> QED
    BY <1>1, <1>2 DEF FInit, FriendsInv, ConsentMakesFriends, FTypeInv,
        FriendIsSender, ConsentedIds, BefriendAsked, RowsAsked, StepsWritten, DamagedIsMutual,
        RowsMutual

\* What a new status leaves of the requests.
LEMMA StatusChange ==
    ASSUME FTypeOK, NEW id \in DOMAIN requests, NEW new \in {Accepted, Rejected},
           requests' = [requests EXCEPT ![id].status = new]
    PROVE  /\ requests' \in Seq(Request) /\ Len(requests') = Len(requests)
           /\ DOMAIN requests' = DOMAIN requests
           /\ \A i \in DOMAIN requests :
                requests'[i].from = requests[i].from /\ requests'[i].to = requests[i].to
<1>1. requests \in Seq(Request)
    BY DEF FTypeOK
<1>2. requests[id] \in Request
    BY <1>1
<1>3. [requests[id] EXCEPT !.status = new] \in Request
    BY <1>2 DEF Request
<1>4. requests' = [requests EXCEPT ![id] = [requests[id] EXCEPT !.status = new]]
    OBVIOUS
<1>5. [requests[id] EXCEPT !.status = new].from = requests[id].from
        /\ [requests[id] EXCEPT !.status = new].to = requests[id].to
    BY <1>2 DEF Request
<1> HIDE DEF Request
<1>6. requests' \in Seq(Request) /\ Len(requests') = Len(requests)
    BY <1>1, <1>3, <1>4
<1>7. DOMAIN requests' = DOMAIN requests
    BY <1>4
<1>8. ASSUME NEW i \in DOMAIN requests
      PROVE  requests'[i].from = requests[i].from /\ requests'[i].to = requests[i].to
  <2>1. CASE i = id
      BY <1>4, <1>5, <2>1
  <2>2. CASE i # id
      BY <1>4, <2>2
  <2> QED
      BY <2>1, <2>2
<1> QED
    BY <1>6, <1>7, <1>8

\* Requests are added and get another status, no more.
LEMMA RequestsStay ==
    ASSUME FTypeInv, [FNext]_fvars
    PROVE  /\ requests' \in Seq(Request) /\ Len(requests') <= MaxRequests
           /\ DOMAIN requests \subseteq DOMAIN requests'
           /\ \A i \in DOMAIN requests :
                requests'[i].from = requests[i].from /\ requests'[i].to = requests[i].to
<1> USE FriendsAssumption DEF FTypeInv
<1>a. requests \in Seq(Request) /\ Len(requests) <= MaxRequests
    BY DEF FTypeOK
<1>1. CASE requests' = requests
    BY <1>1, <1>a
<1>2. ASSUME NEW u \in User, NEW v \in User, Len(requests) < MaxRequests,
             requests' = Append(requests, [from |-> u, to |-> v, status |-> Pending])
      PROVE  /\ requests' \in Seq(Request) /\ Len(requests') <= MaxRequests
             /\ DOMAIN requests \subseteq DOMAIN requests'
             /\ \A i \in DOMAIN requests : requests'[i] = requests[i]
  <2> DEFINE new == [from |-> u, to |-> v, status |-> Pending]
  <2>1. new \in Request
      BY DEF Request
  <2> HIDE DEF new
  <2>2. requests' = Append(requests, new)
      BY <1>2 DEF new
  <2>3. /\ Append(requests, new) \in Seq(Request)
        /\ Len(Append(requests, new)) = Len(requests) + 1
        /\ \A i \in 1 .. Len(requests) : Append(requests, new)[i] = requests[i]
      BY <1>a, <2>1
  <2>4. Len(requests) \in Nat /\ DOMAIN requests = 1 .. Len(requests)
      BY <1>a
  <2>5. DOMAIN requests' = 1 .. Len(requests) + 1
      BY <2>2, <2>3
  <2> QED
      BY <1>2, <2>2, <2>3, <2>4, <2>5
<1>3. ASSUME NEW t \in Thread, UpdateStatus(t), requests' # requests
      PROVE  \E id \in DOMAIN requests, new \in {Accepted, Rejected} :
                requests' = [requests EXCEPT ![id].status = new]
    BY <1>3 DEF UpdateStatus
<1>4. ASSUME NEW t \in Thread, NEW u \in User, NEW v \in User, SendFriendRequest(t, u, v)
      PROVE  \/ requests' = requests
             \/ /\ Len(requests) < MaxRequests
                /\ requests' = Append(requests, [from |-> u, to |-> v, status |-> Pending])
    BY <1>4 DEF SendFriendRequest
<1>5. \/ requests' = requests
      \/ \E t \in Thread : UpdateStatus(t)
      \/ \E t \in Thread, u, v \in User : SendFriendRequest(t, u, v)
    BY DEF FNext, fvars, HandleFriendRequest, InsertRow, Crash
<1> QED
    BY <1>1, <1>2, <1>3, <1>4, <1>5, <1>a, StatusChange

\* The next step of a handler that writes rows.
LEMMA StepRecord ==
    ASSUME NEW h \in [op : {"befriend"}, user : User, friend : User, step : 1 .. 4, faults : 0 .. 2],
           NEW n \in 1 .. 4, NEW f \in 0 .. 2
    PROVE  LET after == [h EXCEPT !.step = n, !.faults = f]
           IN  /\ after \in [op : {"befriend"}, user : User, friend : User,
                             step : 1 .. 4, faults : 0 .. 2]
               /\ after.op = "befriend" /\ after.user = h.user /\ after.friend = h.friend
               /\ after.step = n /\ after.faults = f
OBVIOUS

\* Handlers, ids and tables keep their types.
LEMMA FTypeKept ==
    ASSUME FTypeInv, [FNext]_fvars
    PROVE  FTypeInv'
<1> USE FriendsAssumption
<1>a. FTypeOK /\ FriendIsSender /\ ConsentedIds
    BY DEF FTypeInv
<1>b. /\ requests' \in Seq(Request) /\ Len(requests') <= MaxRequests
      /\ DOMAIN requests \subseteq DOMAIN requests'
      /\ \A i \in DOMAIN requests :
            requests'[i].from = requests[i].from /\ requests'[i].to = requests[i].to
    BY RequestsStay
<1>c. DOMAIN requests' \subseteq RequestId /\ DOMAIN requests \subseteq RequestId
  <2>1. Len(requests) \in Nat /\ DOMAIN requests = 1 .. Len(requests)
      BY <1>a DEF FTypeOK
  <2>2. Len(requests') \in Nat /\ DOMAIN requests' = 1 .. Len(requests')
      BY <1>b
  <2> QED
      BY <1>a, <1>b, <2>1, <2>2 DEF FTypeOK, RequestId
\* Another task of one handler, and nothing else but requests.
<1>d. ASSUME NEW t \in Thread, NEW next \in Task, Do(t, next),
             (next.op = "update" /\ next.friend # None) =>
                 /\ next.id \in DOMAIN requests
                 /\ requests[next.id].from = next.friend
                 /\ requests[next.id].to = next.user
                 /\ next.accept => next.id \in consented',
             consented \subseteq consented'
      PROVE  /\ task' \in [Thread -> Task] /\ FriendIsSender'
  <2>1. task' \in [Thread -> Task] /\ task'[t] = next /\ \A r \in Thread \ {t} : task'[r] = task[r]
      BY <1>a, <1>d DEF Do, FTypeOK
  <2>3. FriendIsSender'
    <3> SUFFICES ASSUME NEW r \in Thread, At(r, "update")', task'[r].friend # None
                 PROVE  /\ task'[r].id \in DOMAIN requests'
                        /\ requests'[task'[r].id].from = task'[r].friend
                        /\ requests'[task'[r].id].to = task'[r].user
                        /\ task'[r].accept => task'[r].id \in consented'
        BY DEF FriendIsSender
    <3>1. CASE r = t
        BY <1>b, <1>d, <2>1, <3>1 DEF At
    <3>2. CASE r # t
        BY <1>a, <1>b, <1>d, <2>1, <3>2 DEF FriendIsSender, At
    <3> QED
        BY <3>1, <3>2
  <2> QED
      BY <2>1, <2>3
<1>e. ASSUME UNCHANGED task, consented \subseteq consented' PROVE FriendIsSender'
    BY <1>a, <1>b, <1>e DEF FriendIsSender, At
<1>g. Idle \in Task /\ Idle.op = "idle"
    BY DEF Idle, Task
<1>1. ASSUME NEW t \in Thread, NEW u \in User, NEW v \in User, SendFriendRequest(t, u, v)
      PROVE  FTypeInv'
  <2>1. UNCHANGED <<rows, task, consented, blind, damaged>>
      BY <1>1 DEF SendFriendRequest
  <2> QED
      BY <1>a, <1>b, <1>e, <2>1 DEF FTypeInv, FTypeOK, ConsentedIds
<1>3. ASSUME NEW t \in Thread, NEW u \in User, NEW id \in Named, NEW accept \in BOOLEAN,
             HandleFriendRequest(t, u, id, accept)
      PROVE  FTypeInv'
  <2>1. /\ UNCHANGED <<requests, rows, damaged>>
        /\ consented' = IF accept /\ id \in DOMAIN requests /\ requests[id].to = u
                        THEN consented \cup {id} ELSE consented
      BY <1>3 DEF HandleFriendRequest
  <2>2. PICK friend \in {FriendOf(u, id), None} :
             /\ Do(t, [op |-> "update", user |-> u, id |-> id, accept |-> accept, friend |-> friend])
             /\ blind' = IF accept /\ friend # FriendOf(u, id) THEN blind \cup {id} ELSE blind
      BY <1>3 DEF HandleFriendRequest
  <2>3. FriendOf(u, id) # None => /\ id \in DOMAIN requests /\ requests[id].to = u
                                  /\ requests[id].from = FriendOf(u, id)
      BY DEF FriendOf, getFriendRequestsByUser
  <2>5. friend \in User \cup {None}
    <3>1. CASE FriendOf(u, id) # None
      <4>1. requests \in Seq(Request) /\ id \in DOMAIN requests
          BY <1>a, <2>3, <3>1 DEF FTypeOK
      <4>2. requests[id] \in Request
          BY <4>1
      <4> QED
          BY <2>2, <2>3, <3>1, <4>2 DEF Request
    <3>2. CASE FriendOf(u, id) = None
        BY <2>2, <3>2
    <3> QED
        BY <3>1, <3>2
  <2> DEFINE next == [op |-> "update", user |-> u, id |-> id, accept |-> accept, friend |-> friend]
  <2>6. next \in Task
      BY <2>5 DEF Task
  <2>7. /\ next.op = "update" /\ next.user = u /\ next.id = id
        /\ next.accept = accept /\ next.friend = friend
      OBVIOUS
  <2>8. next.friend # None => /\ next.id \in DOMAIN requests
                              /\ requests[next.id].from = next.friend
                              /\ requests[next.id].to = next.user
                              /\ next.accept => next.id \in consented'
      BY <2>1, <2>2, <2>3, <2>7
  <2>9. task' \in [Thread -> Task] /\ FriendIsSender'
    <3>1. Do(t, next) /\ consented \subseteq consented'
        BY <2>1, <2>2
    <3> HIDE DEF next
    <3> QED
        BY <1>d, <2>6, <2>8, <3>1
  <2>10. consented' \subseteq DOMAIN requests'
      BY <1>a, <1>b, <2>1 DEF ConsentedIds
  <2>11. blind' \subseteq RequestId
      BY <1>a, <1>c, <2>2, <2>3 DEF FTypeOK
  <2> QED
      BY <1>a, <1>b, <1>c, <2>1, <2>9, <2>10, <2>11 DEF FTypeInv, FTypeOK, ConsentedIds
<1>4. ASSUME NEW t \in Thread, UpdateStatus(t) PROVE FTypeInv'
  <2> DEFINE next == IF task[t].accept /\ task[t].friend # None
                     THEN [op |-> "befriend", user |-> task[t].user, friend |-> task[t].friend,
                           step |-> 1, faults |-> 0]
                     ELSE Idle
  <2>1. UNCHANGED <<rows, consented, blind, damaged>> /\ Do(t, next) /\ At(t, "update")
      BY <1>4 DEF UpdateStatus
  <2>2. next \in Task /\ next.op \in {"befriend", "idle"}
    <3>1. CASE task[t].accept /\ task[t].friend # None
        BY <1>a, <2>1, <3>1, TaskFields DEF Task
    <3>2. CASE ~(task[t].accept /\ task[t].friend # None)
        BY <1>g, <3>2
    <3> QED
        BY <3>1, <3>2
  <2>3. task' \in [Thread -> Task] /\ FriendIsSender'
    <3> HIDE DEF next
    <3> QED
        BY <1>d, <2>1, <2>2
  <2> QED
      BY <1>a, <1>b, <2>1, <2>3 DEF FTypeInv, FTypeOK, ConsentedIds
<1>5. ASSUME NEW t \in Thread, InsertRow(t) PROVE FTypeInv'
  <2> DEFINE h == task[t]
  <2>1. UNCHANGED <<requests, consented, blind>> /\ At(t, "befriend")
      BY <1>5 DEF InsertRow
  <2>2. h \in [op : {"befriend"}, user : User, friend : User, step : 1 .. 4, faults : 0 .. 2]
      BY <1>a, <2>1, TaskFields
  <2>3. PICK ok \in BOOLEAN :
           LET next == After(h, ok)
               faults == IF ok \/ h.faults = 2 THEN h.faults ELSE h.faults + 1
           IN  /\ rows' = IF ok THEN rows \cup {RowOf(h)} ELSE rows
               /\ Do(t, IF next = 5 THEN Idle ELSE [h EXCEPT !.step = next, !.faults = faults])
               /\ damaged' = IF next = 5 /\ faults > 1 THEN damaged \cup Both(h.user, h.friend)
                             ELSE damaged
      BY <1>5 DEF InsertRow
  <2>4. rows' \subseteq User \X User /\ damaged' \subseteq User \X User
      BY <1>a, <2>2, <2>3 DEF FTypeOK, RowOf, Both
  <2>5. After(h, ok) \in 2 .. 5
      BY <2>2 DEF After
  <2>6. (IF ok \/ h.faults = 2 THEN h.faults ELSE h.faults + 1) \in 0 .. 2
      BY <2>2
  <2> DEFINE after == [h EXCEPT !.step = After(h, ok),
                                !.faults = IF ok \/ h.faults = 2 THEN h.faults ELSE h.faults + 1]
             next == IF After(h, ok) = 5 THEN Idle ELSE after
  <2>7. After(h, ok) # 5 => after \in Task /\ after.op = "befriend"
    <3> SUFFICES ASSUME After(h, ok) # 5 PROVE after \in Task /\ after.op = "befriend"
        OBVIOUS
    <3>1. After(h, ok) \in 1 .. 4
        BY <2>5
    <3>2. /\ after \in [op : {"befriend"}, user : User, friend : User, step : 1 .. 4, faults : 0 .. 2]
          /\ after.op = "befriend"
        BY <2>2, <2>6, <3>1, StepRecord
    <3> QED
        BY <3>2 DEF Task
  <2>8. next \in Task /\ next.op \in {"befriend", "idle"}
      BY <1>g, <2>7
  <2>9. task' \in [Thread -> Task] /\ FriendIsSender'
    <3>1. Do(t, next)
        BY <2>3
    <3> HIDE DEF next
    <3> QED
        BY <1>d, <2>1, <2>8, <3>1
  <2> QED
      BY <1>a, <1>b, <2>1, <2>4, <2>9 DEF FTypeInv, FTypeOK, ConsentedIds
<1>7. CASE Crash
  <2>1. UNCHANGED <<requests, rows, consented, blind>>
        /\ task' = [t \in Thread |-> Idle]
      BY <1>7 DEF Crash
  <2>2. \A t \in Thread : ~At(t, "update")'
      BY <2>1 DEF At, Idle
  <2>3. task' \in [Thread -> Task] /\ FriendIsSender'
      BY <1>g, <2>1, <2>2 DEF FriendIsSender
  <2>4. damaged' \subseteq User \X User
    <3>1. ASSUME NEW t \in Thread,
                 At(t, "befriend") \/ (At(t, "update") /\ task[t].friend # None)
          PROVE  Both(task[t].user, task[t].friend) \subseteq User \X User
        BY <1>a, <3>1, TaskFields DEF Both
    <3> QED
      <4> DEFINE hit == {r \in Thread :
                            \/ At(r, "befriend")
                            \/ At(r, "update") /\ task[r].accept /\ task[r].friend # None}
      <4>1. damaged' = damaged \cup UNION {Both(task[r].user, task[r].friend) : r \in hit}
          BY <1>7 DEF Crash
      <4>2. damaged \subseteq User \X User
          BY <1>a DEF FTypeOK
      <4>3. ASSUME NEW pair \in damaged' PROVE pair \in User \X User
        <5>1. CASE pair \in damaged
            BY <4>2, <5>1
        <5>2. CASE pair \notin damaged
          <6>1. PICK r \in hit : pair \in Both(task[r].user, task[r].friend)
              BY <4>1, <4>3, <5>2
          <6>2. r \in Thread /\ (At(r, "befriend") \/ (At(r, "update") /\ task[r].friend # None))
              OBVIOUS
          <6>3. Both(task[r].user, task[r].friend) \subseteq User \X User
              BY <3>1, <6>2
          <6> QED
              BY <6>1, <6>3
        <5> QED
            BY <5>1, <5>2
      <4> QED
          BY <4>3
  <2> QED
      BY <1>a, <1>b, <2>1, <2>3, <2>4 DEF FTypeInv, FTypeOK, ConsentedIds
<1>8. CASE UNCHANGED fvars
    BY <1>a, <1>b, <1>e, <1>8 DEF fvars, FTypeInv, FTypeOK, ConsentedIds
<1> QED
    BY <1>1, <1>3, <1>4, <1>5, <1>7, <1>8 DEF FNext

-----------------------------------------------------------------------------
\* What one statement for a friendship does: it adds one of the two rows, and
\* after the last statement both are there, or two of them have failed.
LEMMA InsertRowEffect ==
    ASSUME FTypeInv, StepsWritten, NEW t \in Thread, InsertRow(t)
    PROVE  /\ UNCHANGED <<requests, consented, blind>>
           /\ At(t, "befriend") /\ task[t].user \in User /\ task[t].friend \in User
           /\ \A r \in Thread \ {t} : task'[r] = task[r]
           /\ \E row \in Both(task[t].user, task[t].friend) : rows' \in {rows, rows \cup {row}}
           /\ damaged' \in {damaged, damaged \cup Both(task[t].user, task[t].friend)}
           /\ \/ /\ task'[t] = Idle
                 /\ \/ Both(task[t].user, task[t].friend) \subseteq rows'
                    \/ Both(task[t].user, task[t].friend) \subseteq damaged'
              \/ /\ At(t, "befriend")'
                 /\ task'[t].user = task[t].user /\ task'[t].friend = task[t].friend
                 /\ RowsOfStep(task[t])'
<1> DEFINE h == task[t]
           pair == Both(h.user, h.friend)
<1>1. FTypeOK /\ At(t, "befriend")
    BY DEF InsertRow, FTypeInv
<1>2. /\ h \in [op : {"befriend"}, user : User, friend : User, step : 1 .. 4, faults : 0 .. 2]
      /\ h.user \in User /\ h.friend \in User /\ h.step \in 1 .. 4 /\ h.faults \in 0 .. 2
    BY <1>1, TaskFields
<1>3. RowsOfStep(h)
    BY <1>1 DEF StepsWritten
<1>4. PICK ok \in BOOLEAN :
         LET next == After(h, ok)
             faults == IF ok \/ h.faults = 2 THEN h.faults ELSE h.faults + 1
         IN  /\ rows' = IF ok THEN rows \cup {RowOf(h)} ELSE rows
             /\ Do(t, IF next = 5 THEN Idle ELSE [h EXCEPT !.step = next, !.faults = faults])
             /\ damaged' = IF next = 5 /\ faults > 1 THEN damaged \cup pair ELSE damaged
    BY DEF InsertRow
<1> DEFINE next == After(h, ok)
           faults == IF ok \/ h.faults = 2 THEN h.faults ELSE h.faults + 1
           after == [h EXCEPT !.step = next, !.faults = faults]
<1>5. next \in 2 .. 5 /\ faults \in 0 .. 2
    BY <1>2 DEF After
<1>6. RowOf(h) \in pair
    BY DEF RowOf, Both
<1>7. task \in [Thread -> Task] /\ task' = [task EXCEPT ![t] = IF next = 5 THEN Idle ELSE after]
    BY <1>1, <1>4 DEF Do, FTypeOK
<1>8. /\ \A r \in Thread \ {t} : task'[r] = task[r]
      /\ task'[t] = IF next = 5 THEN Idle ELSE after
    BY <1>7
<1>9. \E row \in pair : rows' \in {rows, rows \cup {row}}
    BY <1>4, <1>6
<1>10. damaged' \in {damaged, damaged \cup pair}
    BY <1>4
<1>11. CASE next = 5
  <2>1. task'[t] = Idle
      BY <1>8, <1>11
  <2>2. h.step \in {3, 4} /\ (h.step = 3 => ~ok)
      BY <1>2, <1>11 DEF After
  <2>3. faults > 1 => pair \subseteq damaged'
      BY <1>4, <1>11
  <2>4. ASSUME faults <= 1 PROVE pair \subseteq rows'
    <3>1. CASE h.faults = 0
        BY <1>3, <1>4, <2>2, <3>1 DEF RowsOfStep
    <3>2. CASE h.faults # 0
      <4>1. ok /\ h.faults = 1 /\ h.step = 4
          BY <1>2, <2>2, <2>4, <3>2
      <4>2. <<h.friend, h.user>> \in rows /\ RowOf(h) = <<h.user, h.friend>>
          BY <1>3, <4>1 DEF RowsOfStep, RowOf
      <4> QED
          BY <1>4, <4>1, <4>2 DEF Both
    <3> QED
        BY <3>1, <3>2
  <2>5. faults > 1 \/ faults <= 1
      BY <1>5
  <2>6. task'[t] = Idle /\ (pair \subseteq rows' \/ pair \subseteq damaged')
      BY <2>1, <2>3, <2>4, <2>5
  <2> QED
      BY <1>1, <1>2, <1>8, <1>9, <1>10, <2>6 DEF InsertRow
<1>12. CASE next # 5
  <2>1. next \in 1 .. 4
      BY <1>5, <1>12
  <2>2. /\ after.op = "befriend" /\ after.user = h.user /\ after.friend = h.friend
        /\ after.step = next /\ after.faults = faults
    <3> HIDE DEF next, faults
    <3> QED
        BY <1>2, <1>5, <2>1, StepRecord
  <2>3. task'[t] = after
      BY <1>8, <1>12
  <2>4. /\ next = 1 => faults = 0
        /\ next = 2 => faults = 0 /\ <<h.user, h.friend>> \in rows'
        /\ (next \in {3, 4} /\ faults = 0) => pair \subseteq rows'
        /\ (next = 4 /\ faults = 1) => <<h.friend, h.user>> \in rows'
    <3>1. CASE h.step = 1
      <4>1. /\ h.faults = 0 /\ RowOf(h) = <<h.user, h.friend>>
            /\ next = IF ok THEN 2 ELSE 3
            /\ faults = IF ok THEN 0 ELSE 1
          BY <1>3, <3>1 DEF RowsOfStep, RowOf, After
      <4> HIDE DEF next, faults
      <4> QED
          BY <1>4, <4>1
    <3>2. CASE h.step = 2
      <4>1. /\ h.faults = 0 /\ RowOf(h) = <<h.friend, h.user>> /\ <<h.user, h.friend>> \in rows
            /\ next = 3
            /\ faults = IF ok THEN 0 ELSE 1
          BY <1>3, <3>2 DEF RowsOfStep, RowOf, After
      <4>2. faults = 0 => pair \subseteq rows'
          BY <1>4, <4>1 DEF Both
      <4> HIDE DEF next, faults
      <4> QED
          BY <4>1, <4>2
    <3>3. CASE h.step = 3
      <4>1. RowOf(h) = <<h.friend, h.user>> /\ ok /\ next = 4 /\ faults = h.faults
          BY <1>12, <3>3 DEF RowOf, After
      <4>2. h.faults = 0 => pair \subseteq rows
          BY <1>3, <3>3 DEF RowsOfStep
      <4>3. rows \subseteq rows' /\ <<h.friend, h.user>> \in rows'
          BY <1>4, <4>1
      <4> HIDE DEF next, faults
      <4> QED
          BY <4>1, <4>2, <4>3
    <3>4. CASE h.step = 4
        BY <1>12, <3>4 DEF After
    <3> QED
        BY <1>2, <3>1, <3>2, <3>3, <3>4
  <2>5. At(t, "befriend")' /\ task'[t].user = h.user /\ task'[t].friend = h.friend
      BY <2>2, <2>3 DEF At
  <2>6. RowsOfStep(task[t])'
    <3> HIDE DEF next, faults, after
    <3> QED
        BY <2>2, <2>3, <2>4 DEF RowsOfStep
  <2> QED
      BY <1>1, <1>2, <1>8, <1>9, <1>10, <2>5, <2>6 DEF InsertRow
<1> QED
    BY <1>11, <1>12

\* What the other steps do to the handlers that write rows: one may begin.
LEMMA OtherSteps ==
    ASSUME FTypeInv, [FNext]_fvars, ~Crash, \A t \in Thread : ~InsertRow(t)
    PROVE  /\ UNCHANGED <<rows, damaged>>
           /\ \A r \in Thread : At(r, "befriend") => task'[r] = task[r]
           /\ \A r \in Thread : At(r, "befriend")' =>
                \/ task'[r] = task[r]
                \/ /\ At(r, "update") /\ task[r].friend # None /\ task[r].accept
                   /\ task'[r] = [op |-> "befriend", user |-> task[r].user,
                                  friend |-> task[r].friend, step |-> 1, faults |-> 0]
<1>a. task \in [Thread -> Task]
    BY DEF FTypeInv, FTypeOK
<1>b. ASSUME NEW t \in Thread, NEW next, Do(t, next), ~At(t, "befriend"), UNCHANGED <<rows, damaged>>,
             next.op # "befriend"
      PROVE  /\ \A r \in Thread : At(r, "befriend") => task'[r] = task[r]
             /\ \A r \in Thread : At(r, "befriend")' => task'[r] = task[r]
    BY <1>a, <1>b DEF Do, At
<1>1. ASSUME NEW t \in Thread, NEW u \in User, NEW v \in User, SendFriendRequest(t, u, v)
      PROVE  /\ UNCHANGED <<rows, damaged>>
             /\ \A r \in Thread : At(r, "befriend") => task'[r] = task[r]
             /\ \A r \in Thread : At(r, "befriend")' => task'[r] = task[r]
    BY <1>1 DEF SendFriendRequest, At
<1>3. ASSUME NEW t \in Thread, NEW u \in User, NEW id \in Named, NEW accept \in BOOLEAN,
             HandleFriendRequest(t, u, id, accept)
      PROVE  /\ UNCHANGED <<rows, damaged>>
             /\ \A r \in Thread : At(r, "befriend") => task'[r] = task[r]
             /\ \A r \in Thread : At(r, "befriend")' => task'[r] = task[r]
  <2>1. UNCHANGED <<rows, damaged>> /\ ~At(t, "befriend")
      BY <1>3 DEF HandleFriendRequest, At
  <2>2. PICK friend : Do(t, [op |-> "update", user |-> u, id |-> id, accept |-> accept,
                             friend |-> friend])
      BY <1>3 DEF HandleFriendRequest
  <2> DEFINE next == [op |-> "update", user |-> u, id |-> id, accept |-> accept, friend |-> friend]
  <2>3. next.op # "befriend"
      OBVIOUS
  <2> HIDE DEF next
  <2>4. Do(t, next)
      BY <2>2 DEF next
  <2> QED
      BY <1>b, <2>1, <2>3, <2>4
<1>4. ASSUME NEW t \in Thread, UpdateStatus(t)
      PROVE  /\ UNCHANGED <<rows, damaged>>
             /\ \A r \in Thread : At(r, "befriend") => task'[r] = task[r]
             /\ \A r \in Thread : At(r, "befriend")' =>
                    \/ task'[r] = task[r]
                    \/ /\ At(r, "update") /\ task[r].friend # None /\ task[r].accept
                       /\ task'[r] = [op |-> "befriend", user |-> task[r].user,
                                      friend |-> task[r].friend, step |-> 1, faults |-> 0]
  <2>1. UNCHANGED <<rows, damaged>> /\ At(t, "update") /\ ~At(t, "befriend")
      BY <1>4 DEF UpdateStatus, At
  <2>2. CASE task[t].accept /\ task[t].friend # None
    <3>1. Do(t, [op |-> "befriend", user |-> task[t].user, friend |-> task[t].friend,
                 step |-> 1, faults |-> 0])
        BY <1>4, <2>2 DEF UpdateStatus
    <3>2. /\ task'[t] = [op |-> "befriend", user |-> task[t].user, friend |-> task[t].friend,
                         step |-> 1, faults |-> 0]
          /\ \A r \in Thread \ {t} : task'[r] = task[r]
        BY <1>a, <3>1 DEF Do
    <3> QED
        BY <2>1, <2>2, <3>2 DEF At
  <2>3. CASE ~(task[t].accept /\ task[t].friend # None)
    <3>1. Do(t, Idle)
        BY <1>4, <2>3 DEF UpdateStatus
    <3> QED
        BY <1>b, <2>1, <3>1 DEF Idle
  <2> QED
      BY <2>2, <2>3
<1>5. CASE UNCHANGED <<rows, damaged, task>>
    BY <1>5 DEF At
<1> QED
    BY <1>1, <1>3, <1>4, <1>5 DEF FNext, fvars

\* Consent is not taken back, and what was asked for stays asked for.
LEMMA AskedStays ==
    ASSUME FTypeInv, [FNext]_fvars
    PROVE  /\ consented \subseteq consented'
           /\ \A u, v \in User : Asked(u, v) => Asked(u, v)'
<1>1. consented \subseteq consented'
    BY DEF FNext, fvars, SendFriendRequest, HandleFriendRequest, UpdateStatus, InsertRow,
        Crash
<1> QED
    BY <1>1, RequestsStay DEF Asked, Between, Both

\* Who writes rows after a step, wrote them before, or begins with an accepted
\* request.
LEMMA Befrienders ==
    ASSUME FriendsInv, [FNext]_fvars, NEW r \in Thread, At(r, "befriend")'
    PROVE  \/ At(r, "befriend") /\ task'[r] = task[r]
           \/ /\ At(r, "befriend")
              /\ task'[r].user = task[r].user /\ task'[r].friend = task[r].friend
              /\ RowsOfStep(task[r])'
           \/ /\ At(r, "update") /\ task[r].friend # None /\ task[r].accept
              /\ task'[r] = [op |-> "befriend", user |-> task[r].user,
                             friend |-> task[r].friend, step |-> 1, faults |-> 0]
<1>a. FTypeInv /\ StepsWritten
    BY DEF FriendsInv
<1>1. ASSUME NEW t \in Thread, InsertRow(t), t # r
      PROVE  At(r, "befriend") /\ task'[r] = task[r]
  <2>1. task'[r] = task[r]
      BY <1>a, <1>1, InsertRowEffect
  <2> QED
      BY <2>1 DEF At
<1>2. CASE InsertRow(r)
  <2>1. task'[r] # Idle
      BY DEF At, Idle
  <2> QED
      BY <1>a, <1>2, <2>1, InsertRowEffect
<1>3. CASE Crash
    BY <1>3 DEF Crash, At, Idle
<1>4. CASE ~Crash /\ \A t \in Thread : ~InsertRow(t)
  <2>1. \/ task'[r] = task[r]
        \/ /\ At(r, "update") /\ task[r].friend # None /\ task[r].accept
           /\ task'[r] = [op |-> "befriend", user |-> task[r].user,
                          friend |-> task[r].friend, step |-> 1, faults |-> 0]
      BY <1>a, <1>4, OtherSteps
  <2> QED
      BY <2>1 DEF At
<1> QED
    BY <1>1, <1>2, <1>3, <1>4

\* What a step adds to the rows was asked for.
LEMMA ConsentKept ==
    ASSUME FriendsInv, [FNext]_fvars
    PROVE  BefriendAsked' /\ RowsAsked'
<1>a. FTypeInv /\ BefriendAsked /\ RowsAsked /\ FriendIsSender /\ StepsWritten
    BY DEF FriendsInv, FTypeInv
<1>b. \A u, v \in User : Asked(u, v) => Asked(u, v)'
    BY <1>a, AskedStays
<1>c. \A t \in Thread : At(t, "befriend") => task[t].user \in User /\ task[t].friend \in User
    BY <1>a, TaskFields DEF FTypeInv
<1>1. BefriendAsked'
  <2> SUFFICES ASSUME NEW r \in Thread, At(r, "befriend")'
               PROVE  Asked(task[r].user, task[r].friend)'
      BY DEF BefriendAsked
  <2>1. CASE At(r, "befriend") /\ task'[r].user = task[r].user /\ task'[r].friend = task[r].friend
    <3>1. Asked(task[r].user, task[r].friend) /\ task[r].user \in User /\ task[r].friend \in User
        BY <1>a, <1>c, <2>1 DEF BefriendAsked
    <3>2. PICK u \in User, v \in User : u = task[r].user /\ v = task[r].friend /\ Asked(u, v)'
        BY <1>b, <3>1
    <3> QED
        BY <2>1, <3>2
  <2>2. CASE /\ At(r, "update") /\ task[r].friend # None /\ task[r].accept
             /\ task'[r] = [op |-> "befriend", user |-> task[r].user,
                            friend |-> task[r].friend, step |-> 1, faults |-> 0]
    <3>1. /\ task[r].id \in DOMAIN requests /\ task[r].id \in consented
          /\ requests[task[r].id].from = task[r].friend
          /\ requests[task[r].id].to = task[r].user
        BY <1>a, <2>2 DEF FriendIsSender
    <3>2. task[r].user \in User /\ task[r].friend \in User
        BY <1>a, <2>2, TaskFields DEF FTypeInv
    <3>3. Asked(task[r].user, task[r].friend)
        BY <3>1 DEF Asked, Between, Both
    <3>4. PICK u \in User, v \in User : u = task[r].user /\ v = task[r].friend /\ Asked(u, v)'
        BY <1>b, <3>2, <3>3
    <3>5. task'[r].user = task[r].user /\ task'[r].friend = task[r].friend
        BY <2>2
    <3> QED
        BY <3>4, <3>5
  <2> QED
      BY <2>1, <2>2, Befrienders
<1>2. RowsAsked'
  <2>1. CASE rows' = rows
      BY <1>a, <1>b, <2>1 DEF RowsAsked
  <2>2. ASSUME NEW t \in Thread, InsertRow(t) PROVE RowsAsked'
    <3> DEFINE u == task[t].user
               v == task[t].friend
    <3>1. u \in User /\ v \in User /\ Asked(u, v)
        BY <1>a, <1>c, <2>2 DEF InsertRow, BefriendAsked
    <3>2. Asked(v, u)
        BY <3>1 DEF Asked, Between, Both
    <3>3. \E row \in Both(u, v) : rows' \in {rows, rows \cup {row}}
        BY <1>a, <2>2, InsertRowEffect
    <3>4. ASSUME NEW x \in User, NEW y \in User, <<x, y>> \in rows'
          PROVE  Asked(x, y)
        BY <1>a, <3>1, <3>2, <3>3, <3>4 DEF RowsAsked, Both
    <3> QED
        BY <1>b, <3>4 DEF RowsAsked
  <2>3. CASE Crash
      BY <2>1, <2>3 DEF Crash
  <2> QED
      BY <1>a, <2>1, <2>2, <2>3, OtherSteps
<1> QED
    BY <1>1, <1>2

\* Rows and damaged pairs never get fewer.
LEMMA RowsGrow ==
    ASSUME FriendsInv, [FNext]_fvars
    PROVE  rows \subseteq rows' /\ damaged \subseteq damaged'
<1>a. FTypeInv /\ StepsWritten
    BY DEF FriendsInv
<1>1. ASSUME NEW t \in Thread, InsertRow(t) PROVE rows \subseteq rows' /\ damaged \subseteq damaged'
    BY <1>a, <1>1, InsertRowEffect
<1>2. CASE Crash
    BY <1>2 DEF Crash
<1> QED
    BY <1>a, <1>1, <1>2, OtherSteps

\* A handler at its statements has written the rows of the steps behind it.
LEMMA StepsWrittenKept ==
    ASSUME FriendsInv, [FNext]_fvars
    PROVE  StepsWritten'
<1> SUFFICES ASSUME NEW r \in Thread, At(r, "befriend")' PROVE RowsOfStep(task[r])'
    BY DEF StepsWritten
<1>1. CASE At(r, "befriend") /\ task'[r] = task[r]
  <2>1. RowsOfStep(task[r]) /\ rows \subseteq rows'
      BY <1>1, RowsGrow DEF FriendsInv, StepsWritten
  <2> QED
      BY <1>1, <2>1 DEF RowsOfStep
<1>2. CASE task'[r] = [op |-> "befriend", user |-> task[r].user,
                       friend |-> task[r].friend, step |-> 1, faults |-> 0]
  <2>1. task'[r].step = 1 /\ task'[r].faults = 0
      BY <1>2
  <2> QED
      BY <2>1 DEF RowsOfStep
<1> QED
    BY <1>1, <1>2, Befrienders

\* A handler at its statements goes on, or has left two rows or none, or was
\* hit: what becomes of a pair that somebody is adding to each other.
LEMMA BefriendingEnds ==
    ASSUME FriendsInv, [FNext]_fvars, NEW u \in User, NEW v \in User, Befriending(u, v)
    PROVE  Befriending(u, v)' \/ Both(u, v) \subseteq rows' \/ Both(u, v) \subseteq damaged'
<1>a. FTypeInv /\ StepsWritten
    BY DEF FriendsInv
<1>b. PICK r \in Thread : At(r, "befriend") /\ <<task[r].user, task[r].friend>> \in Both(u, v)
    BY DEF Befriending
<1>c. Both(task[r].user, task[r].friend) = Both(u, v)
    BY <1>b DEF Both
<1>1. CASE task'[r] = task[r]
    BY <1>1, <1>b DEF Befriending, At
<1>2. CASE InsertRow(r)
  <2>1. \/ Both(task[r].user, task[r].friend) \subseteq rows'
        \/ Both(task[r].user, task[r].friend) \subseteq damaged'
        \/ /\ At(r, "befriend")'
           /\ task'[r].user = task[r].user /\ task'[r].friend = task[r].friend
      BY <1>a, <1>2, InsertRowEffect
  <2> QED
      BY <1>b, <1>c, <2>1 DEF Befriending
<1>3. CASE Crash
  <2>1. Both(task[r].user, task[r].friend) \subseteq damaged'
      BY <1>3, <1>b DEF Crash
  <2> QED
      BY <1>c, <2>1
<1>4. ASSUME NEW t \in Thread, InsertRow(t), t # r PROVE task'[r] = task[r]
    BY <1>a, <1>4, InsertRowEffect
<1> QED
    BY <1>1, <1>2, <1>3, <1>4, <1>a, <1>b, OtherSteps

\* Two rows, or somebody who is at them, or too many failures.
LEMMA MutualKept ==
    ASSUME FriendsInv, [FNext]_fvars
    PROVE  RowsMutual' /\ DamagedIsMutual'
<1>a. /\ FTypeInv /\ StepsWritten /\ RowsMutual /\ DamagedIsMutual
      /\ rows \subseteq rows' /\ damaged \subseteq damaged'
    BY RowsGrow DEF FriendsInv
<1>b. ASSUME NEW x \in User, NEW y \in User, Befriending(x, y)
      PROVE  <<y, x>> \in rows' \/ Befriending(x, y)' \/ <<x, y>> \in damaged'
    BY <1>b, BefriendingEnds DEF Both
<1>1. RowsMutual'
  <2> SUFFICES ASSUME NEW x \in User, NEW y \in User, <<x, y>> \in rows'
               PROVE  <<y, x>> \in rows' \/ Befriending(x, y)' \/ <<x, y>> \in damaged'
      BY DEF RowsMutual
  <2>1. CASE <<x, y>> \in rows
      BY <1>a, <1>b, <2>1 DEF RowsMutual
  <2>2. CASE <<x, y>> \notin rows
    <3>1. PICK t \in Thread : InsertRow(t)
        BY <1>a, <2>2, OtherSteps DEF Crash
    <3>2. At(t, "befriend") /\ \E row \in Both(task[t].user, task[t].friend) : rows' \in {rows, rows \cup {row}}
        BY <1>a, <3>1, InsertRowEffect
    <3>3. <<x, y>> \in Both(task[t].user, task[t].friend)
        BY <2>2, <3>2
    <3>4. <<task[t].user, task[t].friend>> \in Both(x, y)
        BY <3>3 DEF Both
    <3> QED
        BY <1>b, <3>2, <3>4 DEF Befriending
  <2> QED
      BY <2>1, <2>2
<1>2. DamagedIsMutual'
  <2>1. CASE damaged' = damaged
      BY <1>a, <2>1 DEF DamagedIsMutual
  <2>2. ASSUME NEW t \in Thread, InsertRow(t) PROVE DamagedIsMutual'
    <3>1. damaged' \in {damaged, damaged \cup Both(task[t].user, task[t].friend)}
        BY <1>a, <2>2, InsertRowEffect
    <3> QED
        BY <1>a, <3>1 DEF DamagedIsMutual, Both
  <2>3. CASE Crash
    <3> DEFINE hit == {r \in Thread :
                          \/ At(r, "befriend")
                          \/ At(r, "update") /\ task[r].accept /\ task[r].friend # None}
               added == UNION {Both(task[r].user, task[r].friend) : r \in hit}
    <3>1. damaged' = damaged \cup added
        BY <2>3 DEF Crash
    <3>2. ASSUME NEW x, NEW y, <<x, y>> \in added PROVE <<y, x>> \in added
      <4>1. PICK r \in hit : <<x, y>> \in Both(task[r].user, task[r].friend)
          BY <3>2
      <4>2. <<y, x>> \in Both(task[r].user, task[r].friend)
          BY <4>1 DEF Both
      <4> QED
          BY <4>2
    <3> QED
        BY <1>a, <3>1, <3>2 DEF DamagedIsMutual
  <2> QED
      BY <1>a, <2>1, <2>2, <2>3, OtherSteps
<1> QED
    BY <1>1, <1>2

\* A handler that is going to update the status of a request does so, unless
\* the process ends.
LEMMA UpdaterGoesOn ==
    ASSUME FTypeInv, [FNext]_fvars, NEW r \in Thread, At(r, "update"), ~Crash
    PROVE  task'[r] = task[r] \/ UpdateStatus(r)
<1>1. ASSUME NEW t \in Thread, NEW next, Do(t, next), t # r PROVE task'[r] = task[r]
    BY <1>1 DEF Do, FTypeInv, FTypeOK
<1>2. ASSUME NEW t \in Thread, NEW u \in User, NEW v \in User, SendFriendRequest(t, u, v)
      PROVE  task'[r] = task[r]
    BY <1>2 DEF SendFriendRequest
<1>4. ASSUME NEW t \in Thread, NEW u \in User, NEW id \in Named, NEW accept \in BOOLEAN,
             HandleFriendRequest(t, u, id, accept)
      PROVE  task'[r] = task[r]
  <2>1. t # r
      BY <1>4 DEF HandleFriendRequest, At
  <2>2. \E friend : Do(t, [op |-> "update", user |-> u, id |-> id, accept |-> accept,
                           friend |-> friend])
      BY <1>4 DEF HandleFriendRequest
  <2> QED
      BY <1>1, <2>1, <2>2
<1>5. ASSUME NEW t \in Thread, UpdateStatus(t), t # r PROVE task'[r] = task[r]
    BY <1>1, <1>5 DEF UpdateStatus
<1>6. ASSUME NEW t \in Thread, InsertRow(t) PROVE task'[r] = task[r]
  <2>1. t # r
      BY <1>6 DEF InsertRow, At
  <2> QED
      BY <1>1, <1>6, <2>1 DEF InsertRow
<1> QED
    BY <1>2, <1>4, <1>5, <1>6 DEF FNext, fvars

\* An accepted request leads on to the rows.
LEMMA ConsentMakesFriendsKept ==
    ASSUME FriendsInv, [FNext]_fvars
    PROVE  ConsentMakesFriends'
<1>a. /\ FTypeInv /\ FTypeOK /\ FriendIsSender /\ ConsentedIds /\ ConsentMakesFriends
      /\ rows \subseteq rows' /\ damaged \subseteq damaged'
    BY RowsGrow DEF FriendsInv, FTypeInv
<1>b. /\ DOMAIN requests \subseteq DOMAIN requests'
      /\ \A i \in DOMAIN requests :
            requests'[i].from = requests[i].from /\ requests'[i].to = requests[i].to
    BY <1>a, RequestsStay
<1>c. ASSUME NEW i \in DOMAIN requests PROVE requests[i].from \in User /\ requests[i].to \in User
  <2>1. requests \in Seq(Request)
      BY <1>a DEF FTypeOK
  <2>2. requests[i] \in Request
      BY <2>1
  <2> QED
      BY <2>2 DEF Request
<1> SUFFICES ASSUME NEW i \in consented', i \notin blind'
             PROVE  \/ Befriended(i)'
                    \/ Accepting(i)'
                    \/ Befriending(requests[i].from, requests[i].to)'
    BY DEF ConsentMakesFriends
<1>d. blind \subseteq blind'
    BY DEF FNext, fvars, SendFriendRequest, HandleFriendRequest, UpdateStatus, InsertRow,
        Crash
<1>1. CASE i \in consented
  <2>1. i \in DOMAIN requests /\ i \notin blind
      BY <1>1, <1>a, <1>d DEF ConsentedIds
  <2> DEFINE u == requests[i].from
             v == requests[i].to
  <2>2. u \in User /\ v \in User /\ requests'[i].from = u /\ requests'[i].to = v /\ i \in DOMAIN requests'
      BY <1>b, <1>c, <2>1
  <2>3. ASSUME Both(u, v) \subseteq rows' \/ Both(u, v) \cap damaged' # {}
        PROVE  Befriended(i)'
      BY <2>2, <2>3 DEF Befriended
  <2>4. CASE Befriended(i)
      BY <1>a, <2>3, <2>4 DEF Befriended
  <2>5. CASE Befriending(u, v)
    <3>1. Befriending(u, v)' \/ Both(u, v) \subseteq rows' \/ Both(u, v) \subseteq damaged'
        BY <2>2, <2>5, BefriendingEnds
    <3>2. Both(u, v) # {}
        BY DEF Both
    <3>3. Befriending(u, v)' => Befriending(requests[i].from, requests[i].to)'
        BY <2>2 DEF Befriending
    <3> QED
        BY <2>3, <3>1, <3>2, <3>3
  <2>6. CASE Accepting(i)
    <3>1. PICK r \in Thread : /\ At(r, "update") /\ task[r].id = i /\ task[r].friend # None
                              /\ task[r].accept
        BY <2>6 DEF Accepting
    <3>2. task[r].friend = u /\ task[r].user = v
        BY <1>a, <3>1 DEF FriendIsSender
    <3>3. CASE task'[r] = task[r]
        BY <3>1, <3>3 DEF Accepting, At
    <3>4. CASE Crash
      <4>1. Both(task[r].user, task[r].friend) \subseteq damaged'
          BY <3>1, <3>4 DEF Crash
      <4>2. <<u, v>> \in Both(u, v) /\ <<u, v>> \in damaged'
          BY <3>2, <4>1 DEF Both
      <4> QED
          BY <2>3, <4>2
    <3>5. CASE UpdateStatus(r)
      <4>1. task' = [task EXCEPT ![r] = [op |-> "befriend", user |-> task[r].user,
                                         friend |-> task[r].friend, step |-> 1, faults |-> 0]]
          BY <3>1, <3>5 DEF UpdateStatus, Do
      <4>2. task'[r] = [op |-> "befriend", user |-> v, friend |-> u, step |-> 1, faults |-> 0]
          BY <1>a, <3>2, <4>1 DEF FTypeOK
      <4>3. At(r, "befriend")' /\ task'[r].user = v /\ task'[r].friend = u
          BY <4>2 DEF At
      <4>4. <<v, u>> \in Both(requests'[i].from, requests'[i].to)
          BY <2>2 DEF Both
      <4> QED
          BY <4>3, <4>4 DEF Befriending
    <3> QED
        BY <1>a, <3>1, <3>3, <3>4, <3>5, UpdaterGoesOn
  <2> QED
      BY <1>1, <1>a, <2>1, <2>4, <2>5, <2>6 DEF ConsentMakesFriends
<1>2. CASE i \notin consented
  <2>1. PICK t \in Thread, u \in User, id \in Named, accept \in BOOLEAN :
            HandleFriendRequest(t, u, id, accept)
      BY <1>2 DEF FNext, fvars, SendFriendRequest, UpdateStatus, InsertRow, Crash
  <2>2. i = id /\ accept /\ id \in DOMAIN requests /\ requests[id].to = u
      BY <1>2, <2>1 DEF HandleFriendRequest
  <2>3. FriendOf(u, id) # None
      BY <1>c, <2>2, FriendsAssumption DEF FriendOf, getFriendRequestsByUser
  <2>4. PICK friend \in {FriendOf(u, id), None} :
             /\ Do(t, [op |-> "update", user |-> u, id |-> id, accept |-> accept, friend |-> friend])
             /\ blind' = IF accept /\ friend # FriendOf(u, id) THEN blind \cup {id} ELSE blind
      BY <2>1 DEF HandleFriendRequest
  <2>5. friend # None
      BY <2>2, <2>3, <2>4
  <2>6. task'[t] = [op |-> "update", user |-> u, id |-> id, accept |-> accept, friend |-> friend]
      BY <1>a, <2>4 DEF Do, FTypeOK
  <2>7. At(t, "update")' /\ task'[t].id = i /\ task'[t].friend # None /\ task'[t].accept = accept
      BY <2>2, <2>5, <2>6 DEF At
  <2>8. Accepting(i)'
      BY <2>2, <2>7 DEF Accepting
  <2> QED
      BY <2>8
<1> QED
    BY <1>1, <1>2

\* Every step keeps the invariant.
LEMMA FriendsInvKept == FriendsInv /\ [FNext]_fvars => FriendsInv'
<1> SUFFICES ASSUME FriendsInv, [FNext]_fvars PROVE FriendsInv'
    OBVIOUS
<1>1. FTypeInv'
    BY FTypeKept DEF FriendsInv
<1> QED
    BY <1>1, ConsentKept, StepsWrittenKept, MutualKept, ConsentMakesFriendsKept DEF FriendsInv

\* What the rows say, said of the lists of friends.
LEMMA FriendLists ==
    FriendsInv => FTypeOK /\ NoFriendWithoutConsent /\ FriendshipIsMutual /\ ConsentMakesFriends
<1> SUFFICES ASSUME FriendsInv
             PROVE  FTypeOK /\ NoFriendWithoutConsent /\ FriendshipIsMutual /\ ConsentMakesFriends
    OBVIOUS
<1>1. FTypeOK /\ RowsAsked /\ RowsMutual
    BY DEF FriendsInv, FTypeInv
<1>2. \A u \in User : \A v \in GetFriendList(u) : v \in User /\ <<u, v>> \in rows
    BY <1>1 DEF GetFriendList, getFriendships, FTypeOK
<1>3. \A u, v \in User : <<v, u>> \in rows => u \in GetFriendList(v)
  <2>1. ASSUME NEW u \in User, NEW v \in User, <<v, u>> \in rows PROVE u \in GetFriendList(v)
    <3>1. <<v, u>> \in getFriendships(v) /\ <<v, u>>[2] = u
        BY <2>1 DEF getFriendships
    <3> QED
        BY <3>1 DEF GetFriendList
  <2> QED
      BY <2>1
<1>4. NoFriendWithoutConsent
    BY <1>1, <1>2 DEF NoFriendWithoutConsent, RowsAsked, Asked
<1>5. FriendshipIsMutual
    BY <1>1, <1>2, <1>3 DEF FriendshipIsMutual, RowsMutual
<1> QED
    BY <1>1, <1>4, <1>5 DEF FriendsInv

-----------------------------------------------------------------------------
\* Handlers work on requests that exist and on users, whatever failed before.
THEOREM FriendsTypeCorrect == FSpec => []FTypeOK
BY FInitInv, FriendsInvKept, FriendLists, PTL DEF FSpec

\* Nobody gets a friend without having asked, or having been asked and
\* accepted, for any number of users, handlers and requests, and whatever ids
\* the clients name in their answers: HandleFriendRequest takes the friend from
\* one of the requests sent to whoever answers.
THEOREM FriendsAgree == FSpec => []NoFriendWithoutConsent
BY FInitInv, FriendsInvKept, FriendLists, PTL DEF FSpec

\* The two rows of a friendship are written four times, so that any one failure
\* leaves both or is made good by the statements that follow.
THEOREM FriendsAreMutual == FSpec => []FriendshipIsMutual
BY FInitInv, FriendsInvKept, FriendLists, PTL DEF FSpec

\* An acceptance gets as far as the rows, but for the failures that the
\* property names.
THEOREM AcceptanceCounts == FSpec => []ConsentMakesFriends
BY FInitInv, FriendsInvKept, FriendLists, PTL DEF FSpec
=============================================================================
