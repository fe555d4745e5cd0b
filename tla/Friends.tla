------------------------------ MODULE Friends ------------------------------
(***************************************************************************)
(* Friend requests and friendships: msg_server handles them, over WebSocket*)
(* or for the gateway, with one call to db_server after the other, each of *)
(* which may fail, and forgets what it was doing when it is killed.        *)
(*                                                                         *)
(* A friendship is two rows, and an acceptance writes each of them twice.  *)
(* How a notification travels is the matter of Delivery: here the client   *)
(* gets it or does not.                                                    *)
(***************************************************************************)
EXTENDS Naturals, Sequences

CONSTANTS
    User,
    Thread,         \* handlers
    Faults,         \* which faults may happen
    None,           \* the id 0, of no request and of no user
    MaxRequests     \* bound: rows of friend_requests

ASSUME FriendsAssumption ==
    /\ None \notin User \cup Nat
    /\ MaxRequests \in Nat

VARIABLES
    requests,   \* the table friend_requests, by id
    rows,       \* the table friendships: pairs of user and friend
    task,       \* what each handler is at
    consented,  \* history: requests that their addressee has accepted
    blind,      \* history: accepted requests that a handler failed to look up
    damaged     \* history: pairs of which an acceptance was hit by more than one fault

fvars == <<requests, rows, task, consented, blind, damaged>>

Pending == "pending"
Accepted == "accepted"
Rejected == "rejected"

Request == [from : User, to : User, status : {Pending, Accepted, Rejected}]

RequestId == 1 .. MaxRequests

\* What a client may name: any id, of a request to itself or to somebody else,
\* of one that is still to come, or the 0 it was notified of.
Named == RequestId \cup {None}

Idle == [op |-> "idle"]

Task ==
    {Idle}
        \cup [op : {"update"}, user : User, id : Named, accept : BOOLEAN, friend : User \cup {None}]
        \cup [op : {"befriend"}, user : User, friend : User, step : 1 .. 4, faults : 0 .. 2]

FTypeOK ==
    /\ requests \in Seq(Request)
    /\ Len(requests) <= MaxRequests
    /\ rows \subseteq User \X User
    /\ task \in [Thread -> Task]
    /\ consented \subseteq RequestId
    /\ blind \subseteq RequestId
    /\ damaged \subseteq User \X User

FInit ==
    /\ requests = <<>>
    /\ rows = {}
    /\ task = [t \in Thread |-> Idle]
    /\ consented = {}
    /\ blind = {}
    /\ damaged = {}

-----------------------------------------------------------------------------
At(t, op) == task[t].op = op

Do(t, next) == task' = [task EXCEPT ![t] = next]

MayFail == "db" \in Faults

Both(u, v) == {<<u, v>>, <<v, u>>}

(* Sending a request. *)

\* SendFriendRequest, once the addressee is found, and CreateFriendRequest:
\* INSERT.  A refused INSERT is answered with OK and id 0, and the addressee is
\* notified of that.  Whoever sends has nothing else to do for the request.
SendFriendRequest(t, u, v) ==
    /\ At(t, "idle")
    /\ Len(requests) < MaxRequests
    /\ requests' = Append(requests, [from |-> u, to |-> v, status |-> Pending])
    /\ UNCHANGED <<rows, task, consented, blind, damaged>>

\* SELECT by addressee, whatever the status.
getFriendRequestsByUser(u) == {i \in DOMAIN requests : requests[i].to = u}

(* Answering a request. *)

\* Slip: the request need not be one of those sent to u.
FriendOfAny(u, id) ==
    IF id \in DOMAIN requests THEN requests[id].from ELSE None

\* Who sent the request, if it is one of those sent to u.
FriendOf(u, id) ==
    IF id \in getFriendRequestsByUser(u) THEN requests[id].from ELSE None

\* GetFriendRequestsByUser, the first call of HandleFriendRequest, for whatever
\* id the client names.  A refused SELECT is answered with OK and no rows.
HandleFriendRequest(t, u, id, accept) ==
    /\ At(t, "idle")
    /\ \E friend \in {FriendOf(u, id)} \cup (IF MayFail THEN {None} ELSE {}) :
           /\ Do(t, [op |-> "update", user |-> u, id |-> id, accept |-> accept,
                     friend |-> friend])
           /\ blind' = IF accept /\ friend # FriendOf(u, id) THEN blind \cup {id} ELSE blind
    /\ consented' = IF accept /\ id \in DOMAIN requests /\ requests[id].to = u
                    THEN consented \cup {id} ELSE consented
    /\ UNCHANGED <<requests, rows, damaged>>

\* Slip: whether the sender was found is not looked at.
BefriendAnyway(t) ==
    /\ At(t, "update")
    /\ LET h == task[t]
           new == IF h.accept THEN Accepted ELSE Rejected
       IN  /\ \/ h.id \in DOMAIN requests /\ requests' = [requests EXCEPT ![h.id].status = new]
              \/ (h.id \notin DOMAIN requests \/ MayFail) /\ UNCHANGED requests
           /\ Do(t, IF h.accept
                    THEN [op |-> "befriend", user |-> h.user, friend |-> h.friend,
                          step |-> 1, faults |-> 0]
                    ELSE Idle)
    /\ UNCHANGED <<rows, consented, blind, damaged>>

\* UpdateFriendRequestStatus, by id alone, whoever the request was sent to.
\* Its result is not looked at.
UpdateStatus(t) ==
    /\ At(t, "update")
    /\ LET h == task[t]
           new == IF h.accept THEN Accepted ELSE Rejected
       IN  /\ \/ h.id \in DOMAIN requests /\ requests' = [requests EXCEPT ![h.id].status = new]
              \/ (h.id \notin DOMAIN requests \/ MayFail) /\ UNCHANGED requests
           /\ Do(t, IF h.accept /\ h.friend # None
                    THEN [op |-> "befriend", user |-> h.user, friend |-> h.friend,
                          step |-> 1, faults |-> 0]
                    ELSE Idle)
    /\ UNCHANGED <<rows, consented, blind, damaged>>

\* The four statements of the two calls to createFriendship: the row of the
\* user and its reverse, then the other way round.
RowOf(h) == IF h.step \in {1, 4} THEN <<h.user, h.friend>> ELSE <<h.friend, h.user>>

\* Slip: what follows a failed statement or call is left out.
AfterGivingUp(h, ok) == IF ok THEN h.step + 1 ELSE 5

\* A call ends when its first statement is refused; the result of its second
\* one, like that of the call, is not looked at.
After(h, ok) == IF h.step = 1 /\ ~ok THEN 3 ELSE IF h.step = 3 /\ ~ok THEN 5 ELSE h.step + 1

\* INSERT IGNORE of one row.  A call of which only the reply is lost has done
\* its statements, and counts as if nothing had failed.  Faults are counted up
\* to two.
InsertRow(t) ==
    /\ At(t, "befriend")
    /\ LET h == task[t]
       IN  \E ok \in BOOLEAN :
               /\ ok \/ MayFail
               /\ rows' = IF ok THEN rows \cup {RowOf(h)} ELSE rows
               /\ LET next == After(h, ok)
                      faults == IF ok \/ h.faults = 2 THEN h.faults ELSE h.faults + 1
                  IN  /\ Do(t, IF next = 5 THEN Idle
                               ELSE [h EXCEPT !.step = next, !.faults = faults])
                      /\ damaged' = IF next = 5 /\ faults > 1
                                    THEN damaged \cup Both(h.user, h.friend)
                                    ELSE damaged
    /\ UNCHANGED <<requests, consented, blind>>

\* msg_server is killed and started again.
Crash ==
    /\ "crash" \in Faults
    /\ \E t \in Thread : ~At(t, "idle")
    /\ task' = [t \in Thread |-> Idle]
    /\ damaged' = damaged \cup
           UNION {Both(task[t].user, task[t].friend) :
                      t \in {r \in Thread : \/ At(r, "befriend")
                                            \/ At(r, "update") /\ task[r].accept /\ task[r].friend # None}}
    /\ UNCHANGED <<requests, rows, consented, blind>>

-----------------------------------------------------------------------------
FNext ==
    \/ \E t \in Thread :
        \/ \E u, v \in User : SendFriendRequest(t, u, v)
        \/ \E u \in User, id \in Named, accept \in BOOLEAN :
               HandleFriendRequest(t, u, id, accept)
        \/ UpdateStatus(t)
        \/ InsertRow(t)
    \/ Crash

FSpec == FInit /\ [][FNext]_fvars

-----------------------------------------------------------------------------
\* GetFriendList: what the rows of u say.
getFriendships(u) == {r \in rows : r[1] = u}

GetFriendList(u) == {r[2] : r \in getFriendships(u)}

\* Somebody is adding the two users to each other.
Befriending(u, v) ==
    \E t \in Thread : /\ At(t, "befriend")
                      /\ <<task[t].user, task[t].friend>> \in Both(u, v)

Between(i, u, v) == i \in DOMAIN requests /\ <<requests[i].from, requests[i].to>> \in Both(u, v)

\* Nobody has a friend without a request between the two that its addressee
\* has accepted, whatever ids others name in their answers.
NoFriendWithoutConsent ==
    \A u \in User : \A v \in GetFriendList(u) : \E i \in consented : Between(i, u, v)

\* Friendship is mutual: whoever is on the list of another has the other on
\* the own list, as soon as nobody is adding the two, although the two rows are
\* written by separate statements of which any one may fail.
FriendshipIsMutual ==
    \A u \in User : \A v \in GetFriendList(u) :
        u \in GetFriendList(v) \/ Befriending(u, v) \/ <<u, v>> \in damaged

\* The sender and the addressee of a request are friends, or too much went wrong.
Befriended(i) ==
    /\ i \in DOMAIN requests
    /\ LET pair == Both(requests[i].from, requests[i].to)
       IN  pair \subseteq rows \/ pair \cap damaged # {}

\* Somebody is on the way from the acceptance of i to the rows.
Accepting(i) ==
    \E t \in Thread :
        At(t, "update") /\ task[t].id = i /\ task[t].accept /\ task[t].friend # None

\* The acceptance of its addressee makes friends, unless the handler could not
\* look the request up, or met more than one failure, or was killed.
ConsentMakesFriends ==
    \A i \in consented \ blind :
        \/ Befriended(i)
        \/ Accepting(i)
        \/ Befriending(requests[i].from, requests[i].to)
=============================================================================
