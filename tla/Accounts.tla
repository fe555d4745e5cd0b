------------------------------ MODULE Accounts ------------------------------
(***************************************************************************)
(* grpc_server: accounts are rows of the table users, which it reads and   *)
(* writes through db_server one call at a time, and what it has read may   *)
(* have changed when it writes.  Tokens come from AuthServer, and the      *)
(* deletion of an account ends with a revocation there.                    *)
(*                                                                         *)
(* A request of Thread is either in grpc_server (call) or, with the rest   *)
(* of a login, a logout or a deletion, in AuthServer (task).  MySQL gives  *)
(* every row an id that no row had before.                                 *)
(***************************************************************************)
EXTENDS AuthServer

CONSTANTS
    Name,       \* user names
    Password

VARIABLES
    users,      \* the table: id, username and password
    used,       \* ids that have been given to a row
    call,       \* what each request is at in grpc_server
    begun,      \* history: the table when the request of that call began
    lockedOut,  \* history: users whose deletion has written its revocation
    late        \* history: users with a login under way at that revocation

uvars == <<users, used, call, begun, lockedOut, late>>

Row == [id : User, username : Name, password : Password]

NoCall == [op |-> "none"]

\* A change and a deletion come with a password that is to be checked (given).
Call ==
    {NoCall} \cup [op : {"insert"}, username : Name, password : Password]
        \cup [op : {"get", "update"}, id : User, given : Password, password : Password]
        \cup [op : {"delete"}, id : User, given : Password]

UTypeOK ==
    /\ ATypeOK
    /\ users \subseteq Row
    /\ used \subseteq User
    /\ call \in [Thread -> Call]
    /\ begun \in [Thread -> SUBSET Row]
    /\ lockedOut \subseteq User
    /\ late \subseteq User

UInit ==
    /\ AInit
    /\ users = {}
    /\ used = {}
    /\ call = [t \in Thread |-> NoCall]
    /\ begun = [t \in Thread |-> {}]
    /\ lockedOut = {}
    /\ late = {}

-----------------------------------------------------------------------------
Free(t) == At(t, "idle") /\ call[t] = NoCall

Calling(t, op) == call[t].op = op

\* A request begins with this call to db_server.
Begin(t, c) ==
    /\ Free(t)
    /\ call' = [call EXCEPT ![t] = c]
    /\ begun' = [begun EXCEPT ![t] = users]
    /\ UNCHANGED <<avars, users, used, lockedOut, late>>

\* It is through with its calls.
Finish(t) ==
    /\ call' = [call EXCEPT ![t] = NoCall]
    /\ begun' = [begun EXCEPT ![t] = {}]

\* SELECT by name.
Query(n) == {r \in users : r.username = n}

UserExists(n) == Query(n) # {}

\* The row of the name, if the password is right.
VerifyUser(n, p) == {r \in Query(n) : r.password = p}

\* The row that an INSERT adds.
NewRow(u, c) == [id |-> u, username |-> c.username, password |-> c.password]

(* Register. *)

CreateUser(n, p) == [op |-> "insert", username |-> n, password |-> p]

\* UserExists, where a query that fails reads as "there is none", and CreateUser.
Register(t, n, p) ==
    /\ ~UserExists(n) \/ "db" \in Faults
    /\ Begin(t, CreateUser(n, p))

\* Slip: the name is not UNIQUE in the table.
InsertAny(t) ==
    /\ Calling(t, "insert")
    /\ \E u \in User \ used :
           /\ users' = users \cup {NewRow(u, call[t])}
           /\ used' = used \cup {u}
    /\ Finish(t)
    /\ UNCHANGED <<avars, lockedOut, late>>

\* INSERT, refused if the name is there.
Insert(t) ==
    /\ Calling(t, "insert")
    /\ ~UserExists(call[t].username)
    /\ \E u \in User \ used :
           /\ users' = users \cup {NewRow(u, call[t])}
           /\ used' = used \cup {u}
    /\ Finish(t)
    /\ UNCHANGED <<avars, lockedOut, late>>

(* Login. *)

Login(t, n, p) ==
    /\ Free(t)
    /\ \E r \in VerifyUser(n, p) : CreateToken(t, r.id)
    /\ UNCHANGED uvars

(* ChangePassword. *)

\* Slip: the old password is not looked at.
ChangeUnchecked(t, n, old, new) ==
    \E r \in Query(n) : Begin(t, [op |-> "get", id |-> r.id, given |-> old, password |-> new])

ChangePassword(t, n, old, new) ==
    \E r \in VerifyUser(n, old) :
        Begin(t, [op |-> "get", id |-> r.id, given |-> old, password |-> new])

\* BatchGet, which has to find the row.
BatchGet(t) ==
    /\ Calling(t, "get")
    /\ \E r \in users : r.id = call[t].id
    /\ call' = [call EXCEPT ![t].op = "update"]
    /\ UNCHANGED <<avars, users, used, begun, lockedOut, late>>

\* BatchUpdate: UPDATE ... WHERE id.
BatchUpdate(t) ==
    /\ Calling(t, "update")
    /\ users' = {IF r.id = call[t].id
                 THEN [r EXCEPT !.password = call[t].password] ELSE r : r \in users}
    /\ Finish(t)
    /\ UNCHANGED <<avars, used, lockedOut, late>>

(* DeleteAccount. *)

\* Slip: the result of VerifyUser is not looked at, only its id.
DeleteUnchecked(t, n, p) ==
    LET ids == {r.id : r \in VerifyUser(n, p)}
    IN  \E id \in (IF ids = {} THEN {None} ELSE ids) :
            Begin(t, [op |-> "delete", id |-> id, given |-> p])

DeleteAccount(t, n, p) ==
    \E r \in VerifyUser(n, p) : Begin(t, [op |-> "delete", id |-> r.id, given |-> p])

\* BatchDelete by id, and the revocation if a row was deleted.
BatchDelete(t) ==
    /\ Calling(t, "delete")
    /\ \E r \in users : r.id = call[t].id
    /\ users' = {r \in users : r.id # call[t].id}
    /\ RevokeUserToken(t, call[t].id)
    /\ Finish(t)
    /\ UNCHANGED <<used, lockedOut, late>>

\* The statement finds nothing to do, or the call fails: before the statement
\* was executed, or after it.
DbCallFails(t) ==
    /\ call[t] # NoCall
    /\ \/ "db" \in Faults
       \/ Calling(t, "insert") /\ UserExists(call[t].username)
       \/ Calling(t, "get") /\ \A r \in users : r.id # call[t].id
       \/ Calling(t, "delete") /\ \A r \in users : r.id # call[t].id
    /\ \/ UNCHANGED users
       \/ /\ "db" \in Faults
          /\ Calling(t, "delete")
          /\ users' = {r \in users : r.id # call[t].id}
    /\ Finish(t)
    /\ UNCHANGED <<avars, used, lockedOut, late>>

(* The revocation that ends a deletion. *)

AccountStamp(t) ==
    /\ Stamp(t)
    /\ LET u == task[t].user
       IN  late' = IF task[t].token = None /\ \E r \in Thread : task[r] = Creating(u)
                   THEN late \cup {u} ELSE late
    /\ UNCHANGED <<users, used, call, begun, lockedOut>>

AccountSetRevoked(t) ==
    /\ SetRevoked(t)
    /\ lockedOut' = IF redis /\ task[t].token = None
                    THEN lockedOut \cup {task[t].user} ELSE lockedOut
    /\ UNCHANGED <<users, used, call, begun, late>>

-----------------------------------------------------------------------------
AccountStep(t) ==
    \/ \E n \in Name, p \in Password :
        \/ Register(t, n, p)
        \/ Login(t, n, p)
        \/ \E q \in Password : ChangePassword(t, n, p, q)
        \/ DeleteAccount(t, n, p)
    \/ Insert(t)
    \/ BatchGet(t)
    \/ BatchUpdate(t)
    \/ BatchDelete(t)
    \/ DbCallFails(t)
    \/ AccountStamp(t)
    \/ AccountSetRevoked(t)
    \/ /\ \/ Sign(t)
          \/ CallRevoke(t)
          \/ CallFails(t)
          \/ call[t] = NoCall /\ \E tok \in tokens : Logout(t, tok)
       /\ UNCHANGED uvars

UNext ==
    \/ \E t \in Thread : AccountStep(t)
    \/ Environment /\ UNCHANGED uvars

USpec == UInit /\ [][UNext]_<<avars, uvars>>

-----------------------------------------------------------------------------
\* Registrations look a name up and insert it in two calls, and still no two
\* rows have one name.
UniqueNames == \A r, s \in users : r.username = s.username => r = s

\* A row is changed or removed only by a request that came with the password
\* the account had when the request began, even when the account was deleted
\* and its name registered again between the check and the statement.
OwnerDecides ==
    [][\A r \in users \ users' :
        \E t \in Thread :
            /\ call[t].op \in {"update", "delete"} /\ call'[t] = NoCall
            /\ \E q \in begun[t] : q.id = r.id /\ q.password = call[t].given]_users

\* Once the revocation that ends a deletion is written, verify_jwt and the
\* revocation together refuse every token of the user.  Exceptions: the token
\* may come from a login that was past its check before the account was
\* deleted; Redis cannot be asked; a logout of the same user was under way;
\* and the very second the token expires in, for which verify_jwt accepts it
\* still and in which the revocation may end.
DeletedIsLockedOut ==
    \A tok \in tokens :
        (redis /\ tok.user \in lockedOut \ (late \cup disturbed) /\ Valid(tok)) =>
            now = Exp(tok) /\ revoked[tok.user] = None
=============================================================================
