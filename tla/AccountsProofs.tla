--------------------------- MODULE AccountsProofs ---------------------------
(***************************************************************************)
(* Proofs about Accounts, for any names, passwords, users and requests.    *)
(* What AuthServerProofs shows of AuthServer holds here as well: the steps *)
(* of Accounts are steps of AuthServer, or leave its state alone.          *)
(***************************************************************************)
EXTENDS Accounts, AuthServerProofs

accvars == <<avars, uvars>>

RowsUsed == \A r \in users : r.id \in used

\* t is going to write the revocation that ends the deletion of u.
Deleting(t, u) == At(t, "revoke") /\ task[t].token = None /\ task[t].user = u

\* u was deleted, and its revocation is under way or done.
Gone(u) == u \in lockedOut \/ \E t \in Thread : Deleting(t, u)

\* A user who was deleted has no row and never gets another.
GoneHasNoRow == \A u \in User : Gone(u) => u \in used /\ \A r \in users : r.id # u

\* A user is deleted once.
DeletedOnce ==
    \A t \in Thread, u \in User : Deleting(t, u) =>
        u \notin lockedOut /\ \A r \in Thread : Deleting(r, u) => r = t

\* The revocation that ends a deletion lives as long as a token does.
LivesLong == \A t \in Thread, u \in User : Deleting(t, u) => task[t].ttl = Lifetime

\* The revocation of u has got its stamp.
Sealed(u) == u \in lockedOut \/ \E t \in Thread : Deleting(t, u) /\ task[t].stamp # None

\* From then on nobody is logging in, unless the model has noted it.
NoLogin ==
    \A u \in User : (Sealed(u) /\ u \notin late) => \A r \in Thread : task[r] # Creating(u)

\* The stamp is at or after every token of the user.
StampCovers ==
    \A t \in Thread, tok \in tokens :
        (Deleting(t, tok.user) /\ task[t].stamp # None /\ tok.user \notin late)
            => tok.iat <= task[t].stamp

\* A token of a user who is locked out, of which nothing excepts it.
Barred(tok) == tok.user \in lockedOut \ (late \cup disturbed)

\* While verify_jwt accepts such a token, the entry that is there refuses it, and
\* whoever is going to replace the entry will write one that does.
LockedOutEntry ==
    \A tok \in tokens : (Barred(tok) /\ verify_jwt(tok)) =>
        /\ EntryFor(tok)
        /\ \A t \in Thread : (Writing(t) /\ task[t].user = tok.user) => Covers(t, tok)

DeletionInv ==
    /\ GoneHasNoRow /\ DeletedOnce /\ LivesLong
    /\ NoLogin /\ StampCovers /\ LockedOutEntry

UTables ==
    /\ users \subseteq Row /\ used \subseteq User /\ call \in [Thread -> Call]
    /\ begun \in [Thread -> SUBSET Row] /\ lockedOut \subseteq User /\ late \subseteq User

\* A change or a deletion is at work on the id that had the password it came
\* with when it began.
Verified ==
    \A t \in Thread : call[t].op \in {"get", "update", "delete"} =>
        \E q \in begun[t] : q.id = call[t].id /\ q.password = call[t].given

AccountsInv == LogoutInv /\ UTables /\ RowsUsed /\ UniqueNames /\ Verified /\ DeletionInv

-----------------------------------------------------------------------------
\* What is known of a request by the name of its call.
LEMMA CallFields ==
    ASSUME UTables, NEW t \in Thread
    PROVE  /\ Calling(t, "insert") => call[t].username \in Name /\ call[t].password \in Password
           /\ Calling(t, "get") \/ Calling(t, "update") =>
                /\ call[t] \in [op : {"get", "update"}, id : User, given : Password,
                                password : Password]
                /\ call[t].password \in Password
           /\ Calling(t, "delete") => call[t].id \in User
<1>1. call[t] \in Call
    BY DEF UTables
<1> QED
    BY <1>1 DEF Call, NoCall, Calling

\* The rows of a name, and those with a password.
LEMMA VerifiedRow ==
    ASSUME UTables, NEW n, NEW p, NEW r \in VerifyUser(n, p)
    PROVE  r \in users /\ r \in Row /\ r.id \in User /\ r.username \in Name
BY DEF UTables, VerifyUser, Query, Row

\* The requests of Accounts do to the state of AuthServer what requests of
\* AuthServer do.
LEMMA UNextRefines ==
    ASSUME UTables, [UNext]_accvars
    PROVE  [ANext]_avars
<1>1. CASE UNCHANGED accvars
    BY <1>1 DEF accvars
<1>2. CASE Environment
    BY <1>2 DEF ANext
<1>3. ASSUME NEW t \in Thread, AccountStep(t) PROVE [ANext]_avars
  <2>1. ASSUME NEW n \in Name, NEW p \in Password, Login(t, n, p) PROVE [ANext]_avars
      BY <2>1, VerifiedRow DEF Login, ANext
  <2>2. ASSUME NEW n \in Name, NEW p \in Password, NEW q \in Password,
               \/ Register(t, n, p) \/ ChangePassword(t, n, p, q) \/ DeleteAccount(t, n, p)
        PROVE  UNCHANGED avars
      BY <2>2 DEF Register, ChangePassword, DeleteAccount, Begin
  <2>3. CASE Insert(t) \/ BatchGet(t) \/ BatchUpdate(t) \/ DbCallFails(t)
      BY <2>3 DEF Insert, BatchGet, BatchUpdate, DbCallFails
  <2>4. CASE BatchDelete(t)
      BY <2>4, CallFields DEF BatchDelete, ANext
  <2>5. CASE AccountStamp(t) \/ AccountSetRevoked(t)
      BY <2>5 DEF AccountStamp, AccountSetRevoked, ANext, AuthStep
  <2>6. CASE Sign(t) \/ CallRevoke(t) \/ CallFails(t) \/ \E tok \in tokens : Logout(t, tok)
      BY <2>6 DEF ANext, AuthStep
  <2> QED
      BY <1>3, <2>1, <2>2, <2>3, <2>4, <2>5, <2>6 DEF AccountStep
<1> QED
    BY <1>1, <1>2, <1>3 DEF UNext

\* The initial states.
LEMMA UInitInv == UInit => AccountsInv
<1> SUFFICES ASSUME UInit PROVE AccountsInv
    OBVIOUS
<1>1. LogoutInv
    BY AInitInv DEF UInit
<1>2. \A t \in Thread : ~At(t, "revoke")
    BY DEF UInit, AInit, At, Idle
<1>3. UTables /\ RowsUsed /\ UniqueNames
    BY DEF UInit, UTables, RowsUsed, UniqueNames, Call
<1>5. Verified
    BY DEF UInit, Verified, NoCall
<1>4. tokens = {} /\ lockedOut = {}
    BY DEF UInit, AInit
<1> QED
    BY <1>1, <1>2, <1>3, <1>4, <1>5 DEF AccountsInv, DeletionInv, GoneHasNoRow, DeletedOnce, LivesLong, NoLogin,
        StampCovers, LockedOutEntry, Gone, Sealed, Deleting

-----------------------------------------------------------------------------
(* The tables. *)

\* An UPDATE leaves the ids and the names alone.
LEMMA UpdateKeepsNames ==
    ASSUME NEW id, NEW new \in Password,
           users \subseteq Row,
           users' = {IF r.id = id THEN [r EXCEPT !.password = new] ELSE r : r \in users}
    PROVE  /\ users' \subseteq Row
           /\ \A s \in users' : \E r \in users : /\ s.id = r.id /\ s.username = r.username
                                                 /\ s = IF r.id = id THEN [r EXCEPT !.password = new]
                                                        ELSE r
<1>1. ASSUME NEW r \in Row
      PROVE  LET s == IF r.id = id THEN [r EXCEPT !.password = new] ELSE r
             IN  s \in Row /\ s.id = r.id /\ s.username = r.username
    BY DEF Row
<1> HIDE DEF Row
<1>2. ASSUME NEW s \in users'
      PROVE  \E r \in users : s = IF r.id = id THEN [r EXCEPT !.password = new] ELSE r
    BY <1>2
<1>3. ASSUME NEW s \in users'
      PROVE  /\ s \in Row
             /\ \E r \in users : /\ s.id = r.id /\ s.username = r.username
                                 /\ s = IF r.id = id THEN [r EXCEPT !.password = new] ELSE r
  <2>1. PICK r \in users : s = IF r.id = id THEN [r EXCEPT !.password = new] ELSE r
      BY <1>2
  <2>2. s \in Row /\ s.id = r.id /\ s.username = r.username
      BY <1>1, <2>1
  <2> QED
      BY <2>1, <2>2
<1> QED
    BY <1>3

\* Steps that touch none of the tables of grpc_server.
LEMMA OtherTables ==
    ASSUME [UNext]_accvars,
           \A t \in Thread : ~Insert(t) /\ ~BatchUpdate(t) /\ ~BatchDelete(t) /\ ~DbCallFails(t)
    PROVE  users' = users /\ used' = used
<1>1. CASE UNCHANGED uvars \/ UNCHANGED accvars
    BY <1>1 DEF uvars, accvars
<1>2. ASSUME NEW t \in Thread, AccountStep(t) PROVE users' = users /\ used' = used
    BY <1>2 DEF AccountStep, Register, Login, ChangePassword, DeleteAccount, Begin, BatchGet,
        AccountStamp, AccountSetRevoked, uvars
<1> QED
    BY <1>1, <1>2 DEF UNext

\* What a step does to the rows: names stay unique, and an id is new or was
\* there.
LEMMA RowsKept ==
    ASSUME UTables, RowsUsed, UniqueNames, [UNext]_accvars
    PROVE  /\ users' \subseteq Row /\ used' \subseteq User /\ used \subseteq used'
           /\ RowsUsed' /\ UniqueNames'
           /\ \A r \in users' : r.id \in used => \E s \in users : s.id = r.id
<1>a. users \subseteq Row /\ used \subseteq User
    BY DEF UTables
<1>b. ASSUME users' \subseteq users, used' = used
      PROVE  /\ users' \subseteq Row /\ used' \subseteq User /\ used \subseteq used'
             /\ RowsUsed' /\ UniqueNames'
             /\ \A r \in users' : r.id \in used => \E s \in users : s.id = r.id
    BY <1>a, <1>b DEF RowsUsed, UniqueNames
<1>1. ASSUME NEW t \in Thread, Insert(t)
      PROVE  /\ users' \subseteq Row /\ used' \subseteq User /\ used \subseteq used'
             /\ RowsUsed' /\ UniqueNames'
             /\ \A r \in users' : r.id \in used => \E s \in users : s.id = r.id
  <2>1. PICK u \in User \ used : users' = users \cup {NewRow(u, call[t])} /\ used' = used \cup {u}
      BY <1>1 DEF Insert
  <2>2. call[t].username \in Name /\ call[t].password \in Password
      BY <1>1, CallFields DEF Insert
  <2> DEFINE new == NewRow(u, call[t])
  <2>3. new \in Row /\ new.id = u /\ new.username = call[t].username
      BY <2>2 DEF NewRow, Row
  <2>4. \A r \in users : r.username # call[t].username
      BY <1>1 DEF Insert, UserExists, Query
  <2> HIDE DEF new
  <2>5. users' = users \cup {new}
      BY <2>1 DEF new
  <2>6. UniqueNames'
      BY <2>3, <2>4, <2>5 DEF UniqueNames
  <2>7. RowsUsed'
      BY <2>1, <2>3, <2>5 DEF RowsUsed
  <2> QED
      BY <1>a, <2>1, <2>3, <2>5, <2>6, <2>7
<1>2. ASSUME NEW t \in Thread, BatchUpdate(t)
      PROVE  /\ users' \subseteq Row /\ used' \subseteq User /\ used \subseteq used'
             /\ RowsUsed' /\ UniqueNames'
             /\ \A r \in users' : r.id \in used => \E s \in users : s.id = r.id
  <2> DEFINE id == call[t].id
             new == call[t].password
  <2>1. /\ users' = {IF r.id = id THEN [r EXCEPT !.password = new] ELSE r : r \in users}
        /\ used' = used
      BY <1>2 DEF BatchUpdate
  <2>2. new \in Password
      BY <1>2, CallFields DEF BatchUpdate
  <2> HIDE DEF id, new
  <2>3. /\ users' \subseteq Row
        /\ \A s \in users' : \E r \in users : /\ s.id = r.id /\ s.username = r.username
                                              /\ s = IF r.id = id THEN [r EXCEPT !.password = new]
                                                     ELSE r
      BY <1>a, <2>1, <2>2, UpdateKeepsNames
  <2>4. UniqueNames'
    <3> SUFFICES ASSUME NEW s1 \in users', NEW s2 \in users', s1.username = s2.username
                 PROVE  s1 = s2
        BY DEF UniqueNames
    <3>1. PICK r1 \in users : /\ s1.username = r1.username
                              /\ s1 = IF r1.id = id THEN [r1 EXCEPT !.password = new] ELSE r1
        BY <2>3
    <3>2. PICK r2 \in users : /\ s2.username = r2.username
                              /\ s2 = IF r2.id = id THEN [r2 EXCEPT !.password = new] ELSE r2
        BY <2>3
    <3>3. r1 = r2
        BY <3>1, <3>2 DEF UniqueNames
    <3> QED
        BY <3>1, <3>2, <3>3
  <2>5. RowsUsed'
      BY <2>1, <2>3 DEF RowsUsed
  <2> QED
      BY <1>a, <2>1, <2>3, <2>4, <2>5
<1>3. ASSUME NEW t \in Thread, BatchDelete(t) \/ DbCallFails(t)
      PROVE  users' \subseteq users /\ used' = used
    BY <1>3 DEF BatchDelete, DbCallFails
<1> QED
    BY <1>b, <1>1, <1>2, <1>3, OtherTables

\* What a step does to the calls: one begins, goes on or ends, or all stay.
LEMMA BegunSteps ==
    ASSUME [UNext]_accvars
    PROVE  \/ call' = call /\ begun' = begun
           \/ \E t \in Thread, S \in {{}, users} : begun' = [begun EXCEPT ![t] = S]
           \/ \E t \in Thread : BatchGet(t) /\ begun' = begun
<1>1. CASE UNCHANGED uvars \/ UNCHANGED accvars
    BY <1>1 DEF uvars, accvars
<1>2. ASSUME NEW t \in Thread,
             \/ \E n \in Name, p \in Password :
                   \/ Register(t, n, p) \/ DeleteAccount(t, n, p)
                   \/ \E q \in Password : ChangePassword(t, n, p, q)
             \/ Insert(t) \/ BatchUpdate(t) \/ BatchDelete(t) \/ DbCallFails(t)
      PROVE  \E S \in {{}, users} : begun' = [begun EXCEPT ![t] = S]
    BY <1>2 DEF Register, DeleteAccount, ChangePassword, Begin, Insert, BatchUpdate, BatchDelete,
        DbCallFails, Finish
<1>3. ASSUME NEW t \in Thread, AccountStep(t),
             ~\E S \in {{}, users} : begun' = [begun EXCEPT ![t] = S]
      PROVE  begun' = begun /\ (call' = call \/ BatchGet(t))
    BY <1>2, <1>3 DEF AccountStep, Login, BatchGet, AccountStamp, AccountSetRevoked, uvars
<1> QED
    BY <1>1, <1>3 DEF UNext

\* Calls and the noted users keep their types.
LEMMA UTablesKept ==
    ASSUME ATypeOK, UTables, RowsUsed, UniqueNames, [UNext]_accvars
    PROVE  UTables'
<1>a. call \in [Thread -> Call] /\ lockedOut \subseteq User /\ late \subseteq User
    BY DEF UTables
<1>b. ASSUME NEW t \in Thread, NEW c \in Call, Begin(t, c) PROVE call' \in [Thread -> Call]
    BY <1>a, <1>b DEF Begin
<1>c. NoCall \in Call
    BY DEF Call
<1>1. call' \in [Thread -> Call]
  <2>1. ASSUME NEW t \in Thread, NEW n \in Name, NEW p \in Password, Register(t, n, p)
        PROVE  call' \in [Thread -> Call]
    <3>1. CreateUser(n, p) \in Call
        BY DEF CreateUser, Call
    <3> QED
        BY <1>b, <2>1, <3>1 DEF Register
  <2>2. ASSUME NEW t \in Thread, NEW n \in Name, NEW p \in Password, NEW q \in Password,
               ChangePassword(t, n, p, q)
        PROVE  call' \in [Thread -> Call]
    <3>1. PICK r \in VerifyUser(n, p) :
              Begin(t, [op |-> "get", id |-> r.id, given |-> p, password |-> q])
        BY <2>2 DEF ChangePassword
    <3>2. [op |-> "get", id |-> r.id, given |-> p, password |-> q] \in Call
        BY VerifiedRow DEF Call
    <3> QED
        BY <1>b, <3>1, <3>2
  <2>3. ASSUME NEW t \in Thread, NEW n \in Name, NEW p \in Password, DeleteAccount(t, n, p)
        PROVE  call' \in [Thread -> Call]
    <3>1. PICK r \in VerifyUser(n, p) : Begin(t, [op |-> "delete", id |-> r.id, given |-> p])
        BY <2>3 DEF DeleteAccount
    <3>2. [op |-> "delete", id |-> r.id, given |-> p] \in Call
        BY VerifiedRow DEF Call
    <3> QED
        BY <1>b, <3>1, <3>2
  <2>4. ASSUME NEW t \in Thread, BatchGet(t) PROVE call' \in [Thread -> Call]
    <3>1. call[t] \in [op : {"get", "update"}, id : User, given : Password, password : Password]
        BY <2>4, CallFields DEF BatchGet
    <3>2. [call[t] EXCEPT !.op = "update"] \in Call
        BY <3>1 DEF Call
    <3> QED
        BY <1>a, <2>4, <3>2 DEF BatchGet
  <2>5. ASSUME NEW t \in Thread, Insert(t) \/ BatchUpdate(t) \/ BatchDelete(t) \/ DbCallFails(t)
        PROVE  call' \in [Thread -> Call]
      BY <1>a, <1>c, <2>5 DEF Insert, BatchUpdate, BatchDelete, DbCallFails, Finish
  <2>6. ASSUME UNCHANGED call PROVE call' \in [Thread -> Call]
      BY <1>a, <2>6
  <2>7. ASSUME NEW t \in Thread, AccountStamp(t) \/ AccountSetRevoked(t) PROVE UNCHANGED call
      BY <2>7 DEF AccountStamp, AccountSetRevoked
  <2>8. ASSUME NEW t \in Thread, NEW n \in Name, NEW p \in Password, Login(t, n, p)
        PROVE  UNCHANGED call
      BY <2>8 DEF Login, uvars
  <2>9. UNCHANGED uvars \/ UNCHANGED accvars => UNCHANGED call
      BY DEF accvars, uvars
  <2> QED
      BY <2>1, <2>2, <2>3, <2>4, <2>5, <2>6, <2>7, <2>8, <2>9 DEF UNext, AccountStep
<1>2. lockedOut' \subseteq User /\ late' \subseteq User
  <2>1. ASSUME NEW t \in Thread, AccountStamp(t) \/ AccountSetRevoked(t)
        PROVE  lockedOut' \subseteq User /\ late' \subseteq User
    <3>1. task[t].user \in User
        BY <2>1, TaskKinds DEF AccountStamp, AccountSetRevoked, Stamp, SetRevoked
    <3> QED
        BY <1>a, <2>1, <3>1 DEF AccountStamp, AccountSetRevoked
  <2>2. ASSUME UNCHANGED <<lockedOut, late>> PROVE lockedOut' \subseteq User /\ late' \subseteq User
      BY <1>a, <2>2
  <2>3. ASSUME NEW t \in Thread, AccountStep(t), ~AccountStamp(t), ~AccountSetRevoked(t)
        PROVE  UNCHANGED <<lockedOut, late>>
      BY <2>3 DEF AccountStep, Register, Login, ChangePassword, DeleteAccount, Begin, Insert,
          BatchGet, BatchUpdate, BatchDelete, DbCallFails, uvars
  <2>4. UNCHANGED uvars \/ UNCHANGED accvars => UNCHANGED <<lockedOut, late>>
      BY DEF accvars, uvars
  <2> QED
      BY <2>1, <2>2, <2>3, <2>4 DEF UNext
<1>3. begun' \in [Thread -> SUBSET Row]
  <2>1. begun \in [Thread -> SUBSET Row] /\ users \in SUBSET Row
      BY DEF UTables
  <2>2. ASSUME NEW t \in Thread, NEW S \in SUBSET Row, begun' = [begun EXCEPT ![t] = S]
        PROVE  begun' \in [Thread -> SUBSET Row]
      BY <2>1, <2>2
  <2>3. begun' = begun \/ \E t \in Thread, S \in SUBSET Row : begun' = [begun EXCEPT ![t] = S]
      BY <2>1, BegunSteps
  <2> QED
      BY <2>1, <2>2, <2>3
<1> QED
    BY <1>1, <1>2, <1>3, RowsKept DEF UTables

-----------------------------------------------------------------------------
(* Deleted users. *)

\* A step that writes no revocation, gives none a stamp, and begins none of a
\* deleted account.
LEMMA QuietStep ==
    ASSUME AccountsInv,
           UNCHANGED <<now, revoked, lockedOut, late>>,
           disturbed \subseteq disturbed', used \subseteq used',
           \A r \in users' : r.id \in used => \E s \in users : s.id = r.id,
           \A t \in Thread, u \in User : Deleting(t, u)' => Deleting(t, u) /\ task'[t] = task[t],
           \A t \in Thread, u \in User :
                task'[t] = Creating(u) => task[t] = Creating(u) \/ \E s \in users : s.id = u,
           \A tok \in tokens' \ tokens : tok.user \in User /\ \E t \in Thread : task[t] = Creating(tok.user),
           \A t \in Thread, tok \in tokens :
                (/\ Writing(t)' /\ task'[t].user = tok.user
                 /\ tok.user \in lockedOut \ (late \cup disturbed') /\ verify_jwt(tok))
                => Covers(t, tok)'
    PROVE  DeletionInv'
<1>a. DeletionInv /\ RowsUsed
    BY DEF AccountsInv
<1>b. \A tok \in tokens : tok.user \in User
    BY TokenTimes DEF AccountsInv, LogoutInv, ATypeOK
<1>1. \A u \in User : Gone(u)' => Gone(u)
    BY DEF Gone
<1>2. \A u \in User : Sealed(u)' => Sealed(u)
    BY DEF Sealed
<1>3. \A u \in User : Sealed(u) => Gone(u)
    BY DEF Sealed, Gone
<1>4. GoneHasNoRow'
    BY <1>1, <1>a DEF GoneHasNoRow, DeletionInv
<1>5. DeletedOnce' /\ LivesLong'
    BY <1>a DEF DeletionInv, DeletedOnce, LivesLong
<1>6. NoLogin'
  <2> SUFFICES ASSUME NEW u \in User, Sealed(u)', u \notin late, NEW r \in Thread, task'[r] = Creating(u)
               PROVE  FALSE
      BY DEF NoLogin, Creating
  <2>1. Sealed(u) /\ Gone(u)
      BY <1>2, <1>3
  <2>2. task[r] # Creating(u)
      BY <1>a, <2>1 DEF DeletionInv, NoLogin
  <2>3. \A s \in users : s.id # u
      BY <1>a, <2>1 DEF DeletionInv, GoneHasNoRow
  <2> QED
      BY <2>2, <2>3
<1>7. ASSUME NEW tok \in tokens', tok.user \notin late, Sealed(tok.user), tok.user \in User
      PROVE  tok \in tokens
    BY <1>a, <1>7 DEF DeletionInv, NoLogin
<1>8. StampCovers'
  <2> SUFFICES ASSUME NEW t \in Thread, NEW tok \in tokens', Deleting(t, tok.user)',
                      task'[t].stamp # None, tok.user \notin late
               PROVE  tok.iat <= task'[t].stamp
      BY DEF StampCovers
  <2>1. tok.user \in User
      BY <1>b
  <2>2. Deleting(t, tok.user) /\ task'[t] = task[t]
      BY <2>1
  <2>3. tok \in tokens
      BY <1>7, <2>1, <2>2 DEF Sealed
  <2> QED
      BY <1>a, <2>2, <2>3 DEF DeletionInv, StampCovers
<1>9. LockedOutEntry'
  <2> SUFFICES ASSUME NEW tok \in tokens', tok.user \in lockedOut \ (late \cup disturbed'),
                      verify_jwt(tok)
               PROVE  /\ EntryFor(tok)
                      /\ \A t \in Thread :
                            (Writing(t)' /\ task'[t].user = tok.user) => Covers(t, tok)'
      BY DEF LockedOutEntry, Barred, EntryFor, verify_jwt, Exp
  <2>1. tok \in tokens
      BY <1>7, <1>b DEF Sealed
  <2> QED
      BY <1>a, <2>1 DEF DeletionInv, LockedOutEntry, Barred
<1> QED
    BY <1>4, <1>5, <1>6, <1>8, <1>9 DEF DeletionInv

\* A request that has not moved goes on covering the tokens of a locked out user.
LEMMA UnmovedCovers ==
    ASSUME AccountsInv, now' = now, disturbed \subseteq disturbed',
           NEW x \in Thread, task'[x] = task[x], Writing(x)',
           NEW tok \in tokens, task'[x].user = tok.user, verify_jwt(tok),
           tok.user \in lockedOut \ (late \cup disturbed')
    PROVE  Covers(x, tok)'
<1>1. /\ ATypeOK /\ now \in Nat /\ tok \in Token
    BY AuthAssumption DEF AccountsInv, LogoutInv, ATypeOK, Time
<1>2. Writing(x) /\ Barred(tok)
    BY DEF Writing, At, Barred
<1>3. Covers(x, tok)
    BY <1>2 DEF AccountsInv, DeletionInv, LockedOutEntry
<1> QED
    BY <1>1, <1>2, <1>3, StillCovers

\* Calls to db_server leave AuthServer alone.
LEMMA CallsKeepDeletionInv ==
    ASSUME AccountsInv, [UNext]_accvars, UNCHANGED <<avars, lockedOut, late>>
    PROVE  DeletionInv'
<1>1. UNCHANGED <<now, revoked, lockedOut, late, task, tokens, disturbed>>
    BY DEF avars
<1>2. /\ used \subseteq used'
      /\ \A r \in users' : r.id \in used => \E s \in users : s.id = r.id
    BY RowsKept DEF AccountsInv
<1>3. \A t \in Thread, u \in User : Deleting(t, u)' => Deleting(t, u)
    BY <1>1 DEF Deleting, At
<1> QED
    BY <1>1, <1>2, <1>3, QuietStep, UnmovedCovers

\* A login of a user who has a row.
LEMMA LoginKeepsDeletionInv ==
    ASSUME AccountsInv, NEW t \in Thread, NEW n \in Name, NEW p \in Password, Login(t, n, p)
    PROVE  DeletionInv'
<1>1. PICK r \in VerifyUser(n, p) : CreateToken(t, r.id)
    BY DEF Login
<1>2. r \in users
    BY <1>1, VerifiedRow DEF AccountsInv
<1>3. /\ UNCHANGED <<now, revoked, tokens, disturbed>> /\ UNCHANGED <<users, used, lockedOut, late>>
      /\ task' = [task EXCEPT ![t] = Creating(r.id)]
    BY <1>1 DEF CreateToken, Do, Login, uvars
<1>4. /\ task'[t] = Creating(r.id)
      /\ \A x \in Thread \ {t} : task'[x] = task[x]
    BY <1>3 DEF AccountsInv, LogoutInv, ATypeOK
<1>5. ~Writing(t)' /\ \A u : ~Deleting(t, u)'
    BY <1>4 DEF Writing, Deleting, At, Creating
<1>6. \A x \in Thread, u \in User : Deleting(x, u)' => Deleting(x, u) /\ task'[x] = task[x]
    BY <1>4, <1>5 DEF Deleting, At
<1>7. \A x \in Thread : Writing(x)' => task'[x] = task[x]
    BY <1>4, <1>5
<1>8. \A x \in Thread, u \in User :
            task'[x] = Creating(u) => task[x] = Creating(u) \/ \E s \in users : s.id = u
  <2> SUFFICES ASSUME NEW x \in Thread, NEW u \in User, task'[x] = Creating(u), task[x] # Creating(u)
               PROVE  \E s \in users : s.id = u
      OBVIOUS
  <2>1. Creating(u).user = u /\ Creating(r.id).user = r.id
      BY DEF Creating
  <2>2. r.id = u
      BY <1>4, <2>1
  <2> QED
      BY <1>2, <2>2
<1>9. \A s \in users' : s.id \in used => \E q \in users : q.id = s.id
    BY <1>3
<1> QED
    BY <1>3, <1>6, <1>7, <1>8, <1>9, QuietStep, UnmovedCovers

\* The rest of a login or of a logout.
LEMMA RequestKeepsDeletionInv ==
    ASSUME AccountsInv, NEW t \in Thread, UNCHANGED uvars,
           \/ Sign(t) \/ CallRevoke(t) \/ CallFails(t)
           \/ \E tok \in tokens : Logout(t, tok)
    PROVE  DeletionInv'
<1>a. /\ LogoutInv /\ ATypeOK /\ DeletionInv /\ UNCHANGED <<users, used, lockedOut, late>>
      /\ tokens \subseteq Token /\ now \in Nat /\ Lifetime \in Nat
    BY AuthAssumption DEF AccountsInv, LogoutInv, ATypeOK, uvars, Time
<1>b. \A s \in users' : s.id \in used => \E q \in users : q.id = s.id
    BY <1>a
<1>1. CASE Sign(t)
  <2>1. /\ UNCHANGED <<now, revoked, disturbed>> /\ task[t].op = "create"
        /\ tokens' = tokens \cup {[user |-> task[t].user, iat |-> now]}
        /\ task' = [task EXCEPT ![t] = Idle]
      BY <1>1 DEF Sign, At
  <2>2. task'[t] = Idle /\ \A x \in Thread \ {t} : task'[x] = task[x]
      BY <1>a, <2>1 DEF ATypeOK
  <2>3. \A x \in Thread, u \in User : Deleting(x, u)' => Deleting(x, u) /\ task'[x] = task[x]
      BY <2>2 DEF Deleting, At, Idle
  <2>4. \A x \in Thread : Writing(x)' => task'[x] = task[x]
      BY <2>2 DEF Writing, At, Idle
  <2>5. \A x \in Thread, u \in User : task'[x] = Creating(u) => task[x] = Creating(u)
      BY <2>2 DEF Creating, Idle
  <2>6. \E u \in User : task[t] = Creating(u)
    <3>1. task[t] \in AuthTask
        BY <1>a DEF ATypeOK
    <3> QED
        BY <2>1, <3>1 DEF AuthTask, Idle, LoggingOut
  <2>7. PICK u \in User : task[t] = Creating(u)
      BY <2>6
  <2>8. task[t].user = u
      BY <2>7 DEF Creating
  <2>9. \A tok \in tokens' \ tokens : tok.user \in User /\ \E x \in Thread : task[x] = Creating(tok.user)
      BY <2>1, <2>7, <2>8
  <2> QED
      BY <1>a, <1>b, <2>1, <2>3, <2>4, <2>5, <2>9, QuietStep, UnmovedCovers
<1>2. CASE CallFails(t)
  <2>1. UNCHANGED <<now, revoked, disturbed, tokens>> /\ task' = [task EXCEPT ![t] = Idle]
      BY <1>2 DEF CallFails, Do
  <2>2. task'[t] = Idle /\ \A x \in Thread \ {t} : task'[x] = task[x]
      BY <1>a, <2>1 DEF ATypeOK
  <2>3. \A x \in Thread, u \in User : Deleting(x, u)' => Deleting(x, u) /\ task'[x] = task[x]
      BY <2>2 DEF Deleting, At, Idle
  <2>4. \A x \in Thread : Writing(x)' => task'[x] = task[x]
      BY <2>2 DEF Writing, At, Idle
  <2>5. \A x \in Thread, u \in User : task'[x] = Creating(u) => task[x] = Creating(u)
      BY <2>2 DEF Creating, Idle
  <2> QED
      BY <1>a, <1>b, <2>1, <2>3, <2>4, <2>5, QuietStep, UnmovedCovers
<1>3. CASE CallRevoke(t)
  <2> DEFINE own == task[t].token
             ttl == IF Exp(own) > now THEN Exp(own) - now ELSE 1
             next == Revoking(own.user, ttl, own, None)
  <2>1. /\ At(t, "logout") /\ own \in Token /\ own.user = task[t].user
      BY <1>3, <1>a, TaskKinds DEF CallRevoke
  <2>2. own # None
    <3>1. own \in [user : User, iat : Nat]
        BY <2>1 DEF Token, Time
    <3> QED
        BY <3>1, AuthAssumption
  <2>3. UNCHANGED <<now, revoked, disturbed, tokens>> /\ task' = [task EXCEPT ![t] = next]
      BY <1>3 DEF CallRevoke, Do
  <2>4. task'[t] = next /\ \A x \in Thread \ {t} : task'[x] = task[x]
      BY <1>a, <2>3 DEF ATypeOK
  <2>5. next.op = "revoke" /\ next.user = task[t].user /\ next.token = own
      BY <2>1 DEF Revoking
  <2>6. \A x \in Thread, u \in User : Deleting(x, u)' => Deleting(x, u) /\ task'[x] = task[x]
      BY <2>2, <2>4, <2>5 DEF Deleting, At
  <2>7. ASSUME NEW tok \in tokens, task'[t].user = tok.user, verify_jwt(tok),
               tok.user \in lockedOut \ (late \cup disturbed')
        PROVE  Covers(t, tok)'
    <3>1. Writing(t) /\ Barred(tok) /\ task[t].user = tok.user
        BY <2>1, <2>3, <2>4, <2>5, <2>7 DEF Writing, Barred
    <3>2. tok.iat <= own.iat
        BY <1>a, <2>1, <2>7, <3>1 DEF Covers, DeletionInv, LockedOutEntry
    <3>3. Exp(own) \in Nat /\ Exp(tok) \in Nat /\ Exp(tok) <= Exp(own)
        BY <1>a, <2>1, <3>2, TokenTimes DEF Exp
    <3>4. Exp(tok) <= now \/ Exp(tok) <= now + ttl
        BY <1>a, <3>3
    <3>5. ~At(t, "logout")' /\ task'[t].stamp = None /\ task'[t].ttl = ttl
        BY <2>4 DEF At, Revoking
    <3> QED
        BY <2>3, <3>4, <3>5 DEF Covers, Exp
  <2>9. \A x \in Thread, tok \in tokens :
            (/\ Writing(x)' /\ task'[x].user = tok.user
             /\ tok.user \in lockedOut \ (late \cup disturbed') /\ verify_jwt(tok))
            => Covers(x, tok)'
      BY <2>3, <2>4, <2>7, UnmovedCovers
  <2>8. \A x \in Thread, u \in User : task'[x] = Creating(u) => task[x] = Creating(u)
    <3>1. \A u : next # Creating(u)
      <4>1. \A u : Creating(u).op = "create"
          BY DEF Creating
      <4> HIDE DEF next
      <4> QED
          BY <2>5, <4>1
    <3> QED
        BY <2>4, <3>1
  <2> QED
      BY <1>a, <1>b, <2>3, <2>6, <2>8, <2>9, QuietStep
<1>4. ASSUME NEW new \in tokens, Logout(t, new) PROVE DeletionInv'
  <2> DEFINE next == LoggingOut(new)
  <2>1. /\ UNCHANGED <<now, revoked, tokens>> /\ task' = [task EXCEPT ![t] = next] /\ Valid(new)
        /\ disturbed' = IF redis THEN disturbed ELSE disturbed \cup {new.user}
      BY <1>4 DEF Logout
  <2>2. task'[t] = next /\ \A x \in Thread \ {t} : task'[x] = task[x]
      BY <1>a, <2>1 DEF ATypeOK
  <2>3. next.op = "logout" /\ next.user = new.user
      BY DEF LoggingOut
  <2>4. \A x \in Thread, u \in User : Deleting(x, u)' => Deleting(x, u) /\ task'[x] = task[x]
      BY <2>2, <2>3 DEF Deleting, At
  <2>5. \A x \in Thread, u \in User : task'[x] = Creating(u) => task[x] = Creating(u)
    <3>1. \A u : next # Creating(u)
      <4>1. \A u : Creating(u).op = "create"
          BY DEF Creating
      <4> HIDE DEF next
      <4> QED
          BY <2>3, <4>1
    <3> QED
        BY <2>2, <3>1
  \* A logout of a locked out user begins, if at all, with a token that is as
  \* young as any.
  <2>6. ASSUME NEW tok \in tokens, new.user = tok.user, verify_jwt(tok),
               tok.user \in lockedOut \ (late \cup disturbed')
        PROVE  tok.iat <= new.iat
    <3>1. redis /\ Barred(tok)
        BY <2>1, <2>6 DEF Barred
    <3>2. EntryFor(tok)
        BY <1>a, <2>6, <3>1 DEF DeletionInv, LockedOutEntry
    <3>3. verify_jwt(new) /\ ~is_token_revoked(new)
        BY <2>1 DEF Valid
    <3>4. tok \in Token /\ tok.user \in User /\ tok.iat \in Nat /\ new.iat \in Nat
        BY <1>a, TokenTimes
    <3>5. CASE revoked[tok.user] = None
        BY <1>a, <3>2, <3>3, <3>4, <3>5 DEF EntryFor, verify_jwt, Exp
    <3>6. CASE revoked[tok.user] # None
      <4>1. revoked[tok.user].stamp \in Nat
          BY <1>a, <3>4, <3>6 DEF ATypeOK, Time
      <4>2. ~(new.iat <= revoked[tok.user].stamp)
          BY <2>6, <3>1, <3>3, <3>6 DEF is_token_revoked
      <4> QED
          BY <3>2, <3>4, <3>6, <4>1, <4>2 DEF EntryFor
    <3> QED
        BY <3>5, <3>6
  <2>7. \A x \in Thread, tok \in tokens :
            (/\ Writing(x)' /\ task'[x].user = tok.user
             /\ tok.user \in lockedOut \ (late \cup disturbed') /\ verify_jwt(tok))
            => Covers(x, tok)'
    <3> SUFFICES ASSUME NEW x \in Thread, NEW tok \in tokens, Writing(x)', verify_jwt(tok),
                        task'[x].user = tok.user, tok.user \in lockedOut \ (late \cup disturbed')
                 PROVE  Covers(x, tok)'
        OBVIOUS
    <3>1. CASE x = t
      <4>1. At(t, "logout")' /\ task'[t].token = new
          BY <2>2 DEF At, LoggingOut
      <4>2. tok.iat <= new.iat
          BY <2>2, <2>3, <2>6, <3>1
      <4> QED
          BY <3>1, <4>1, <4>2 DEF Covers
    <3>2. CASE x # t
        BY <2>1, <2>2, <3>2, UnmovedCovers
    <3> QED
        BY <3>1, <3>2
  <2> QED
      BY <1>a, <1>b, <2>1, <2>4, <2>5, <2>7, QuietStep
<1> QED
    BY <1>1, <1>2, <1>3, <1>4

\* The deletion of a row begins a revocation that lives as long as a token.
LEMMA BatchDeleteKeepsDeletionInv ==
    ASSUME AccountsInv, NEW t \in Thread, BatchDelete(t)
    PROVE  DeletionInv'
<1> DEFINE u == call[t].id
           next == Revoking(u, Lifetime, None, None)
<1>a. ATypeOK /\ DeletionInv /\ UTables /\ RowsUsed
    BY DEF AccountsInv, LogoutInv
<1>1. u \in User /\ u \in used /\ \E r \in users : r.id = u
    BY <1>a, CallFields DEF BatchDelete, RowsUsed
<1>2. ~Gone(u)
    BY <1>1, <1>a DEF DeletionInv, GoneHasNoRow
<1>3. /\ UNCHANGED <<now, redis, tokens, revoked, loggedOut, disturbed, used, lockedOut, late>>
      /\ users' = {r \in users : r.id # u}
      /\ task' = [task EXCEPT ![t] = next]
    BY DEF BatchDelete, RevokeUserToken, Do
<1>4. task'[t] = next /\ \A x \in Thread \ {t} : task'[x] = task[x]
    BY <1>a, <1>3 DEF ATypeOK
<1>5. /\ next.op = "revoke" /\ next.user = u /\ next.ttl = Lifetime
      /\ next.token = None /\ next.stamp = None
    BY DEF Revoking
<1> HIDE DEF next
<1>6. \A x \in Thread, v \in User :
        Deleting(x, v)' <=> (x = t /\ v = u) \/ (x # t /\ Deleting(x, v))
    BY <1>4, <1>5 DEF Deleting, At
<1>7. \A v \in User : Gone(v)' => v = u \/ Gone(v)
    BY <1>3, <1>6 DEF Gone
<1>8. \A v \in User : Sealed(v)' => Sealed(v)
    BY <1>3, <1>4, <1>5, <1>6 DEF Sealed
<1>9. GoneHasNoRow'
    BY <1>a, <1>1, <1>3, <1>7 DEF GoneHasNoRow, DeletionInv
<1>10. DeletedOnce'
  <2>1. u \notin lockedOut /\ \A x \in Thread : ~Deleting(x, u)
      BY <1>2 DEF Gone
  <2> QED
      BY <1>a, <1>3, <1>6, <2>1 DEF DeletedOnce, DeletionInv
<1>11. LivesLong'
    BY <1>a, <1>4, <1>5, <1>6 DEF LivesLong, DeletionInv
<1>12. NoLogin'
  <2>1. \A v : next # Creating(v)
    <3>1. \A v : Creating(v).op = "create"
        BY DEF Creating
    <3> QED
        BY <1>5, <3>1
  <2> QED
      BY <1>a, <1>3, <1>4, <1>8, <2>1 DEF NoLogin, DeletionInv, Creating
<1>13. \A tok \in tokens : tok.user \in User
    BY <1>a, TokenTimes DEF ATypeOK
<1>14. StampCovers'
    BY <1>a, <1>3, <1>4, <1>5, <1>6, <1>13 DEF StampCovers, DeletionInv
<1>15. LockedOutEntry'
  <2> SUFFICES ASSUME NEW tok \in tokens, Barred(tok), verify_jwt(tok)
               PROVE  /\ EntryFor(tok)
                      /\ \A x \in Thread :
                            (Writing(x)' /\ task'[x].user = tok.user) => Covers(x, tok)'
      BY <1>3 DEF LockedOutEntry, Barred, EntryFor, verify_jwt, Exp
  <2>1. tok.user # u
      BY <1>2 DEF Gone, Barred
  <2>2. \A x \in Thread : task'[x].user = tok.user => task'[x] = task[x]
      BY <1>4, <1>5, <2>1
  <2>3. EntryFor(tok)
      BY <1>a DEF LockedOutEntry, DeletionInv
  <2> QED
      BY <1>3, <2>2, <2>3, UnmovedCovers DEF Barred
<1> QED
    BY <1>9, <1>10, <1>11, <1>12, <1>14, <1>15 DEF DeletionInv

\* A revocation gets its stamp, after every token that there is.
LEMMA AccountStampKeepsDeletionInv ==
    ASSUME AccountsInv, NEW t \in Thread, AccountStamp(t)
    PROVE  DeletionInv'
<1> DEFINE w == task[t].user
           next == [task[t] EXCEPT !.stamp = now]
<1>a. ATypeOK /\ DeletionInv /\ SignedBefore
    BY DEF AccountsInv, LogoutInv
<1>1. w \in User /\ At(t, "revoke") /\ task[t].stamp = None
    BY <1>a, TaskKinds DEF AccountStamp, Stamp
<1>2. /\ UNCHANGED <<now, redis, tokens, revoked, loggedOut, disturbed, users, used, lockedOut>>
      /\ task' = [task EXCEPT ![t] = next]
      /\ late' = IF task[t].token = None /\ \E r \in Thread : task[r] = Creating(w)
                 THEN late \cup {w} ELSE late
    BY DEF AccountStamp, Stamp, Do
<1>3. task'[t] = next /\ \A x \in Thread \ {t} : task'[x] = task[x]
    BY <1>a, <1>2 DEF ATypeOK
<1>4. /\ next.op = "revoke" /\ next.user = w /\ next.ttl = task[t].ttl
      /\ next.token = task[t].token /\ next.stamp = now
    BY <1>a, <1>1, TaskKinds DEF At
<1> HIDE DEF next
<1>5. \A x \in Thread, v \in User : Deleting(x, v)' <=> Deleting(x, v)
    BY <1>1, <1>3, <1>4 DEF Deleting, At
<1>6. ASSUME NEW tok \in tokens, Barred(tok)', verify_jwt(tok), w = tok.user
      PROVE  Covers(t, tok)'
  <2>1. tok.iat <= now
      BY <1>a DEF SignedBefore
  <2>2. Barred(tok) /\ Writing(t)
      BY <1>1, <1>2, <1>6 DEF Barred, Writing
  <2>3. Exp(tok) <= now \/ Exp(tok) <= now + task[t].ttl
      BY <1>a, <1>1, <1>6, <2>2 DEF DeletionInv, LockedOutEntry, Covers, At
  <2>4. ~At(t, "logout")' /\ now' = now
      BY <1>2, <1>3, <1>4 DEF At
  <2> QED
      BY <1>3, <1>4, <2>1, <2>3, <2>4 DEF Covers, Exp
<1>7. \A v \in User : Gone(v)' => Gone(v)
    BY <1>2, <1>5 DEF Gone
<1>8. \A v \in User : Sealed(v)' => Sealed(v) \/ (v = w /\ task[t].token = None)
    BY <1>2, <1>3, <1>4, <1>5 DEF Sealed, Deleting
<1>9. GoneHasNoRow' /\ DeletedOnce' /\ LivesLong'
    BY <1>a, <1>2, <1>3, <1>4, <1>5, <1>7 DEF GoneHasNoRow, DeletedOnce, LivesLong, DeletionInv
<1>10. NoLogin'
  <2> SUFFICES ASSUME NEW v \in User, Sealed(v)', v \notin late', NEW r \in Thread,
                      task'[r] = Creating(v)
               PROVE  FALSE
      BY DEF NoLogin, Creating
  <2>1. r # t /\ task[r] = Creating(v)
    <3>1. next # Creating(v)
      <4>1. Creating(v).op = "create"
          BY DEF Creating
      <4> QED
          BY <1>4, <4>1
    <3> QED
        BY <1>3, <3>1
  <2>2. ~Sealed(v)
      BY <1>a, <1>2, <2>1 DEF NoLogin, DeletionInv
  <2> QED
      BY <1>2, <1>8, <2>1, <2>2
<1>11. \A tok \in tokens : tok.user \in User /\ tok.iat <= now
    BY <1>a, TokenTimes DEF ATypeOK, SignedBefore
<1>12. StampCovers'
  <2> SUFFICES ASSUME NEW x \in Thread, NEW tok \in tokens, Deleting(x, tok.user)',
                      task'[x].stamp # None, tok.user \notin late'
               PROVE  tok.iat <= task'[x].stamp
      BY <1>2 DEF StampCovers
  <2>1. CASE x = t
      BY <1>3, <1>4, <1>11, <2>1
  <2>2. CASE x # t
      BY <1>a, <1>2, <1>3, <1>5, <1>11, <2>2 DEF StampCovers, DeletionInv
  <2> QED
      BY <2>1, <2>2
<1>13. LockedOutEntry'
  <2> SUFFICES ASSUME NEW tok \in tokens, Barred(tok)', verify_jwt(tok)
               PROVE  /\ EntryFor(tok)
                      /\ \A x \in Thread :
                            (Writing(x)' /\ task'[x].user = tok.user) => Covers(x, tok)'
      BY <1>2 DEF LockedOutEntry, EntryFor, verify_jwt, Exp
  <2>1. Barred(tok)
      BY <1>2 DEF Barred
  <2>2. EntryFor(tok)
      BY <1>a, <2>1 DEF LockedOutEntry, DeletionInv
  <2>3. ASSUME NEW x \in Thread, Writing(x)', task'[x].user = tok.user PROVE Covers(x, tok)'
    <3>1. CASE x = t
        BY <1>3, <1>4, <1>6, <2>3, <3>1
    <3>2. CASE x # t
        BY <1>2, <1>3, <2>1, <2>3, <3>2, UnmovedCovers DEF Barred
    <3> QED
        BY <3>1, <3>2
  <2> QED
      BY <2>2, <2>3
<1> QED
    BY <1>9, <1>10, <1>12, <1>13 DEF DeletionInv

\* A revocation is written: a logout's, of a user who is not locked out while
\* a token lives, or the one that ends a deletion.
LEMMA AccountSetRevokedKeepsDeletionInv ==
    ASSUME AccountsInv, NEW t \in Thread, AccountSetRevoked(t)
    PROVE  DeletionInv'
<1> DEFINE w == task[t].user
<1> USE AuthAssumption
<1>a. /\ ATypeOK /\ DeletionInv /\ SignedBefore /\ now \in Nat /\ Lifetime \in Nat
      /\ tokens \subseteq Token
    BY DEF AccountsInv, LogoutInv, ATypeOK, Time
<1>1. /\ w \in User /\ At(t, "revoke") /\ task[t].stamp # None
      /\ task[t].stamp \in Nat /\ task[t].ttl \in Nat
    BY <1>a, TaskKinds DEF AccountSetRevoked, SetRevoked, Time
<1>2. /\ UNCHANGED <<now, redis, tokens, users, used, late>>
      /\ task' = [task EXCEPT ![t] = Idle]
      /\ revoked' = IF redis
                    THEN [revoked EXCEPT ![w] = [stamp |-> task[t].stamp,
                                                 until |-> now + task[t].ttl]]
                    ELSE revoked
      /\ disturbed' = IF UnderWay(t, w) THEN disturbed \cup {w} ELSE disturbed
      /\ lockedOut' = IF redis /\ task[t].token = None THEN lockedOut \cup {w} ELSE lockedOut
    BY DEF AccountSetRevoked, SetRevoked
<1>3. task'[t] = Idle /\ \A x \in Thread \ {t} : task'[x] = task[x]
    BY <1>a, <1>2 DEF ATypeOK
<1>4. \A x \in Thread, v \in User :
        Deleting(x, v)' => x # t /\ Deleting(x, v) /\ task'[x] = task[x]
    BY <1>3 DEF Deleting, At, Idle
<1>5. \A x \in Thread : Writing(x)' => x # t /\ Writing(x) /\ task'[x] = task[x]
    BY <1>3 DEF Writing, At, Idle
<1>6. \A v \in User : v \in lockedOut' => v \in lockedOut \/ (v = w /\ redis /\ Deleting(t, w))
    BY <1>1, <1>2 DEF Deleting
<1>7. \A v \in User : Gone(v)' => Gone(v)
    BY <1>4, <1>6 DEF Gone
<1>8. \A v \in User : Sealed(v)' => Sealed(v)
    BY <1>1, <1>4, <1>6 DEF Sealed
<1>9. GoneHasNoRow' /\ LivesLong'
    BY <1>a, <1>2, <1>4, <1>7 DEF GoneHasNoRow, LivesLong, DeletionInv
<1>10. DeletedOnce'
    BY <1>a, <1>4, <1>6 DEF DeletedOnce, DeletionInv
<1>11. NoLogin'
  <2>1. \A x \in Thread, v \in User : task'[x] = Creating(v) => task[x] = Creating(v)
      BY <1>3 DEF Creating, Idle
  <2> QED
      BY <1>a, <1>2, <1>8, <2>1 DEF NoLogin, DeletionInv, Creating
<1>12. \A tok \in tokens : tok.user \in User /\ tok.iat <= now /\ tok.iat \in Nat /\ Exp(tok) \in Nat
    BY <1>a, TokenTimes DEF SignedBefore
<1>13. StampCovers'
    BY <1>a, <1>2, <1>4, <1>12 DEF StampCovers, DeletionInv
<1>14. LockedOutEntry'
  <2> SUFFICES ASSUME NEW tok \in tokens, Barred(tok)', verify_jwt(tok)
               PROVE  /\ EntryFor(tok)'
                      /\ \A x \in Thread :
                            (Writing(x)' /\ task'[x].user = tok.user) => Covers(x, tok)'
      BY <1>2 DEF LockedOutEntry, verify_jwt, Exp
  <2>1. tok.user \in lockedOut' /\ tok.user \notin late \cup disturbed \cup disturbed'
      BY <1>2 DEF Barred
  <2>2. ASSUME tok.user = w, redis, tok.iat <= task[t].stamp, Exp(tok) <= now + task[t].ttl
        PROVE  EntryFor(tok)'
    <3>1. revoked'[w] = [stamp |-> task[t].stamp, until |-> now + task[t].ttl]
        BY <1>a, <1>1, <1>2, <2>2 DEF ATypeOK
    <3>2. [stamp |-> task[t].stamp, until |-> now + task[t].ttl] \in [stamp : Nat, until : Nat]
        BY <1>a, <1>1
    <3>3. revoked'[w] # None
        BY <3>1, <3>2
    <3>4. revoked'[w].stamp = task[t].stamp /\ revoked'[w].until = now + task[t].ttl
        BY <3>1
    <3> QED
        BY <1>2, <2>2, <3>3, <3>4 DEF EntryFor, Exp
  <2>3. CASE tok.user \in lockedOut
    <3>1. Barred(tok)
        BY <2>1, <2>3 DEF Barred
    <3>2. EntryFor(tok) /\ \A x \in Thread : (Writing(x) /\ task[x].user = tok.user) => Covers(x, tok)
        BY <1>a, <3>1 DEF LockedOutEntry, DeletionInv
    <3>3. \A x \in Thread : (Writing(x)' /\ task'[x].user = tok.user) => Covers(x, tok)'
        BY <1>2, <1>5, <2>1, <2>3, UnmovedCovers
    <3>4. CASE tok.user = w /\ redis
      <4>1. ~At(t, "logout") /\ Covers(t, tok)
          BY <1>1, <3>2, <3>4 DEF At, Writing
      <4>2. tok.iat <= task[t].stamp /\ Exp(tok) <= now + task[t].ttl
          BY <1>a, <1>1, <1>12, <4>1 DEF Covers, verify_jwt
      <4> QED
          BY <2>2, <3>3, <3>4, <4>2
    <3>5. CASE tok.user # w \/ ~redis
      <4>1. revoked'[tok.user] = revoked[tok.user]
          BY <1>a, <1>2, <1>12, <3>5 DEF ATypeOK
      <4> QED
          BY <1>2, <3>2, <3>3, <4>1 DEF EntryFor, Exp
    <3> QED
        BY <3>4, <3>5
  <2>4. CASE tok.user \notin lockedOut
    <3>1. tok.user = w /\ redis /\ Deleting(t, w)
        BY <1>6, <1>12, <2>1, <2>4
    <3>2. tok.iat <= task[t].stamp /\ task[t].ttl = Lifetime
        BY <1>a, <1>1, <2>1, <3>1 DEF DeletionInv, StampCovers, LivesLong
    <3>3. Exp(tok) <= now + Lifetime
        BY <1>a, <1>12 DEF Exp
    <3>4. ~UnderWay(t, w)
        BY <1>2, <2>1, <3>1
    <3>5. \A x \in Thread : Writing(x)' => task'[x].user # w
        BY <1>5, <3>4 DEF UnderWay, Writing
    <3> QED
        BY <2>2, <3>1, <3>2, <3>3, <3>5
  <2> QED
      BY <2>3, <2>4
<1> QED
    BY <1>9, <1>10, <1>11, <1>13, <1>14 DEF DeletionInv

\* Time and faults.
LEMMA EnvironmentKeepsDeletionInv ==
    ASSUME AccountsInv, Environment, UNCHANGED uvars
    PROVE  DeletionInv'
<1>a. /\ ATypeOK /\ DeletionInv /\ UNCHANGED <<users, used, lockedOut, late>>
      /\ now \in Nat /\ tokens \subseteq Token
    BY AuthAssumption DEF AccountsInv, LogoutInv, ATypeOK, Time, uvars
<1>b. \A s \in users' : s.id \in used => \E q \in users : q.id = s.id
    BY <1>a
<1>c. \A tok \in tokens : tok.user \in User /\ Exp(tok) \in Nat
    BY <1>a, TokenTimes
<1>1. ASSUME NEW u \in User, RevocationExpires(u) PROVE DeletionInv'
  <2>1. /\ UNCHANGED <<now, redis, tokens, task, loggedOut, disturbed>>
        /\ revoked[u] # None /\ revoked[u].until = now
        /\ revoked' = [revoked EXCEPT ![u] = None]
      BY <1>1 DEF RevocationExpires
  <2>2. /\ GoneHasNoRow' /\ DeletedOnce' /\ LivesLong' /\ NoLogin' /\ StampCovers'
      BY <1>a, <2>1 DEF DeletionInv, GoneHasNoRow, DeletedOnce, LivesLong, NoLogin, StampCovers, Gone,
          Sealed, Deleting, At, Creating
  <2>3. LockedOutEntry'
    <3> SUFFICES ASSUME NEW tok \in tokens, Barred(tok), verify_jwt(tok)
                 PROVE  /\ EntryFor(tok)'
                        /\ \A x \in Thread :
                              (Writing(x) /\ task[x].user = tok.user) => Covers(x, tok)'
        BY <1>a, <2>1 DEF LockedOutEntry, Barred, verify_jwt, Exp, Writing, At
    <3>1. EntryFor(tok) /\ \A x \in Thread : (Writing(x) /\ task[x].user = tok.user) => Covers(x, tok)
        BY <1>a DEF LockedOutEntry, DeletionInv
    <3>2. \A x \in Thread : Covers(x, tok) => Covers(x, tok)'
        BY <2>1 DEF Covers, At, Exp
    <3>3. CASE tok.user = u
      <4>1. ~(now < Exp(tok)) /\ revoked'[u] = None
          BY <1>a, <1>c, <2>1, <3>1, <3>3 DEF EntryFor, ATypeOK
      <4> QED
          BY <2>1, <3>1, <3>2, <3>3, <4>1 DEF EntryFor, Exp
    <3>4. CASE tok.user # u
      <4>1. revoked'[tok.user] = revoked[tok.user]
          BY <1>a, <1>c, <2>1, <3>4 DEF ATypeOK
      <4> QED
          BY <2>1, <3>1, <3>2, <4>1 DEF EntryFor, Exp
    <3> QED
        BY <3>3, <3>4
  <2> QED
      BY <2>2, <2>3 DEF DeletionInv
<1>2. CASE Tick
  <2>1. now' = now + 1 /\ UNCHANGED <<redis, tokens, revoked, task, loggedOut, disturbed>>
      BY <1>2 DEF Tick
  <2>2. /\ GoneHasNoRow' /\ DeletedOnce' /\ LivesLong' /\ NoLogin' /\ StampCovers'
      BY <1>a, <2>1 DEF DeletionInv, GoneHasNoRow, DeletedOnce, LivesLong, NoLogin, StampCovers, Gone,
          Sealed, Deleting, At, Creating
  <2>3. \A tok \in tokens : verify_jwt(tok)' => now < Exp(tok) /\ verify_jwt(tok)
      BY <1>a, <1>c, <2>1 DEF verify_jwt, Exp
  <2>4. LockedOutEntry'
    <3> SUFFICES ASSUME NEW tok \in tokens, Barred(tok), verify_jwt(tok)'
                 PROVE  /\ EntryFor(tok)'
                        /\ \A x \in Thread :
                              (Writing(x) /\ task[x].user = tok.user) => Covers(x, tok)'
        BY <1>a, <2>1 DEF LockedOutEntry, Barred, Writing, At
    <3>1. EntryFor(tok) /\ \A x \in Thread : (Writing(x) /\ task[x].user = tok.user) => Covers(x, tok)
        BY <1>a, <2>3 DEF LockedOutEntry, DeletionInv
    <3>2. EntryFor(tok)'
        BY <2>1, <2>3, <3>1 DEF EntryFor, Exp
    <3>3. \A x \in Thread : (Writing(x) /\ Covers(x, tok)) => Covers(x, tok)'
        BY <1>a, <2>1, StillCovers
    <3> QED
        BY <3>1, <3>2, <3>3
  <2> QED
      BY <2>2, <2>4 DEF DeletionInv
<1>3. CASE RedisBreaks
  <2>1. UNCHANGED <<now, tokens, revoked, task, disturbed>>
      BY <1>3 DEF RedisBreaks
  <2>2. \A x \in Thread, u \in User : Deleting(x, u)' => Deleting(x, u)
      BY <2>1 DEF Deleting, At
  <2> QED
      BY <1>a, <1>b, <2>1, <2>2, QuietStep, UnmovedCovers
<1>4. CASE AuthRestart
  <2>1. /\ UNCHANGED <<now, tokens, revoked, disturbed>>
        /\ task' = [t \in Thread |-> IF At(t, "revoke") THEN Idle ELSE task[t]]
      BY <1>4 DEF AuthRestart
  <2>2. \A x \in Thread : task'[x] = Idle \/ task'[x] = task[x]
      BY <2>1
  <2>3. \A x \in Thread, u \in User : Deleting(x, u)' => Deleting(x, u) /\ task'[x] = task[x]
      BY <2>2 DEF Deleting, At, Idle
  <2>4. \A x \in Thread : Writing(x)' => task'[x] = task[x]
      BY <2>2 DEF Writing, At, Idle
  <2>5. \A x \in Thread, u \in User : task'[x] = Creating(u) => task[x] = Creating(u)
      BY <2>2 DEF Creating, Idle
  <2> QED
      BY <1>a, <1>b, <2>1, <2>3, <2>4, <2>5, QuietStep, UnmovedCovers
<1> QED
    BY <1>1, <1>2, <1>3, <1>4 DEF Environment

\* What a request verified stands: its id and its password go with it from call
\* to call, and so does the table it began with.
LEMMA VerifiedKept ==
    ASSUME UTables, Verified, [UNext]_accvars
    PROVE  Verified'
<1>a. call \in [Thread -> Call] /\ begun \in [Thread -> SUBSET Row]
    BY DEF UTables
<1>b. ASSUME UNCHANGED <<call, begun>> PROVE Verified'
    BY <1>b DEF Verified
<1>c. ASSUME NEW t \in Thread, NEW c, Begin(t, c),
             c.op \in {"get", "update", "delete"} =>
                \E q \in users : q.id = c.id /\ q.password = c.given
      PROVE  Verified'
  <2>1. /\ call'[t] = c /\ begun'[t] = users
        /\ \A x \in Thread \ {t} : call'[x] = call[x] /\ begun'[x] = begun[x]
      BY <1>a, <1>c DEF Begin
  <2> QED
      BY <1>c, <2>1 DEF Verified
<1>d. ASSUME NEW t \in Thread, Finish(t) PROVE Verified'
  <2>1. /\ call'[t] = NoCall
        /\ \A x \in Thread \ {t} : call'[x] = call[x] /\ begun'[x] = begun[x]
      BY <1>a, <1>d DEF Finish
  <2> QED
      BY <2>1 DEF Verified, NoCall
<1>1. ASSUME NEW t \in Thread, NEW n \in Name, NEW p \in Password, Register(t, n, p)
      PROVE  Verified'
    BY <1>c, <1>1 DEF Register, CreateUser
<1>2. ASSUME NEW t \in Thread, NEW n \in Name, NEW p \in Password, NEW q \in Password,
             ChangePassword(t, n, p, q)
      PROVE  Verified'
  <2>1. PICK r \in VerifyUser(n, p) :
            Begin(t, [op |-> "get", id |-> r.id, given |-> p, password |-> q])
      BY <1>2 DEF ChangePassword
  <2>2. r \in users /\ r.password = p
      BY DEF VerifyUser, Query
  <2> QED
      BY <1>c, <2>1, <2>2
<1>3. ASSUME NEW t \in Thread, NEW n \in Name, NEW p \in Password, DeleteAccount(t, n, p)
      PROVE  Verified'
  <2>1. PICK r \in VerifyUser(n, p) : Begin(t, [op |-> "delete", id |-> r.id, given |-> p])
      BY <1>3 DEF DeleteAccount
  <2>2. r \in users /\ r.password = p
      BY DEF VerifyUser, Query
  <2> QED
      BY <1>c, <2>1, <2>2
<1>4. ASSUME NEW t \in Thread, BatchGet(t) PROVE Verified'
  <2>1. call[t] \in [op : {"get", "update"}, id : User, given : Password, password : Password]
      BY <1>4, CallFields DEF BatchGet
  <2>2. /\ call'[t] = [call[t] EXCEPT !.op = "update"] /\ begun' = begun
        /\ \A x \in Thread \ {t} : call'[x] = call[x]
      BY <1>a, <1>4 DEF BatchGet
  <2>3. call'[t].id = call[t].id /\ call'[t].given = call[t].given /\ call[t].op = "get"
      BY <1>4, <2>1, <2>2 DEF BatchGet, Calling
  <2>4. \E q \in begun'[t] : q.id = call'[t].id /\ q.password = call'[t].given
      BY <2>2, <2>3 DEF Verified
  <2>5. ASSUME NEW x \in Thread \ {t}, call'[x].op \in {"get", "update", "delete"}
        PROVE  \E q \in begun'[x] : q.id = call'[x].id /\ q.password = call'[x].given
      BY <2>2, <2>5 DEF Verified
  <2> QED
      BY <2>4, <2>5 DEF Verified
<1>5. ASSUME NEW t \in Thread, Insert(t) \/ BatchUpdate(t) \/ BatchDelete(t) \/ DbCallFails(t)
      PROVE  Verified'
    BY <1>d, <1>5 DEF Insert, BatchUpdate, BatchDelete, DbCallFails
<1>6. ASSUME NEW t \in Thread, AccountStamp(t) \/ AccountSetRevoked(t) PROVE Verified'
    BY <1>b, <1>6 DEF AccountStamp, AccountSetRevoked
<1>7. ASSUME NEW t \in Thread, NEW n \in Name, NEW p \in Password, Login(t, n, p) PROVE Verified'
    BY <1>b, <1>7 DEF Login, uvars
<1>8. UNCHANGED uvars \/ UNCHANGED accvars => Verified'
    BY <1>b DEF accvars, uvars
<1> QED
    BY <1>1, <1>2, <1>3, <1>4, <1>5, <1>6, <1>7, <1>8 DEF UNext, AccountStep

\* Every step keeps the invariant.
LEMMA AccountsInvKept == AccountsInv /\ [UNext]_accvars => AccountsInv'
<1> SUFFICES ASSUME AccountsInv, [UNext]_accvars PROVE AccountsInv'
    OBVIOUS
<1>1. LogoutInv /\ ATypeOK /\ UTables /\ RowsUsed /\ UniqueNames /\ Verified
    BY DEF AccountsInv, LogoutInv
<1>2. LogoutInv'
    BY <1>1, UNextRefines, ANextKeepsLogoutInv
<1>3. UTables' /\ RowsUsed' /\ UniqueNames' /\ Verified'
    BY <1>1, UTablesKept, RowsKept, VerifiedKept
<1>4. DeletionInv'
  <2>1. UNCHANGED accvars => UNCHANGED <<avars, lockedOut, late>>
      BY DEF accvars, uvars
  <2>2. ASSUME NEW t \in Thread,
               \/ \E n \in Name, p \in Password :
                    \/ Register(t, n, p)
                    \/ \E q \in Password : ChangePassword(t, n, p, q)
                    \/ DeleteAccount(t, n, p)
               \/ Insert(t) \/ BatchGet(t) \/ BatchUpdate(t) \/ DbCallFails(t)
        PROVE  UNCHANGED <<avars, lockedOut, late>>
      BY <2>2 DEF Register, ChangePassword, DeleteAccount, Begin, Insert, BatchGet, BatchUpdate,
          DbCallFails
  <2>3. ASSUME NEW t \in Thread, AccountStep(t) PROVE DeletionInv'
      BY <2>2, <2>3, CallsKeepDeletionInv, LoginKeepsDeletionInv, RequestKeepsDeletionInv,
         BatchDeleteKeepsDeletionInv, AccountStampKeepsDeletionInv,
         AccountSetRevokedKeepsDeletionInv DEF AccountStep
  <2> QED
      BY <2>1, <2>3, CallsKeepDeletionInv, EnvironmentKeepsDeletionInv DEF UNext
<1> QED
    BY <1>2, <1>3, <1>4 DEF AccountsInv

\* What the invariant says of the properties.
LEMMA AccountsInvShows ==
    AccountsInv => UTypeOK /\ UniqueNames /\ DeletedIsLockedOut /\ LoggedOutStaysOut
<1> SUFFICES ASSUME AccountsInv
             PROVE  UTypeOK /\ UniqueNames /\ DeletedIsLockedOut /\ LoggedOutStaysOut
    OBVIOUS
<1>1. UTypeOK /\ UniqueNames
    BY DEF AccountsInv, LogoutInv, UTables, UTypeOK
<1>2. DeletedIsLockedOut
  <2> SUFFICES ASSUME NEW tok \in tokens, redis, Barred(tok), Valid(tok)
               PROVE  now = Exp(tok) /\ revoked[tok.user] = None
      BY DEF DeletedIsLockedOut, Barred
  <2>1. verify_jwt(tok) /\ ~is_token_revoked(tok)
      BY DEF Valid
  <2>2. EntryFor(tok)
      BY <2>1 DEF AccountsInv, DeletionInv, LockedOutEntry
  <2>3. now \in Nat /\ Exp(tok) \in Nat
      BY AuthAssumption, TokenTimes DEF AccountsInv, LogoutInv, ATypeOK, Time
  <2> QED
      BY <2>1, <2>2, <2>3 DEF EntryFor, is_token_revoked, verify_jwt
<1> QED
    BY <1>1, <1>2, LogoutInvRefuses DEF AccountsInv

-----------------------------------------------------------------------------
\* Rows, calls and requests keep their types.
THEOREM AccountsTypeCorrect == USpec => []UTypeOK
BY UInitInv, AccountsInvKept, AccountsInvShows, PTL DEF USpec, accvars

\* No two rows have one name, for any number of registrations at a time: the
\* column is UNIQUE, and nothing changes a name.
THEOREM NamesAreUnique == USpec => []UniqueNames
BY UInitInv, AccountsInvKept, AccountsInvShows, PTL DEF USpec, accvars

\* A step that changes or removes a row is the statement of a change or of a
\* deletion that has verified the id of that row.
LEMMA StatementIsOwners ==
    ASSUME UTables, Verified, [UNext]_accvars, NEW r \in users, r \notin users'
    PROVE  \E t \in Thread :
              /\ call[t].op \in {"update", "delete"} /\ call'[t] = NoCall
              /\ \E q \in begun[t] : q.id = r.id /\ q.password = call[t].given
<1>1. PICK t \in Thread : Insert(t) \/ BatchUpdate(t) \/ BatchDelete(t) \/ DbCallFails(t)
    BY OtherTables
<1>2. call'[t] = NoCall
    BY <1>1 DEF UTables, Insert, BatchUpdate, BatchDelete, DbCallFails, Finish
<1>3. ~Insert(t)
    BY DEF Insert
<1>4. CASE BatchDelete(t) \/ DbCallFails(t)
  <2>1. call[t].op = "delete" /\ call[t].id = r.id
      BY <1>4 DEF BatchDelete, DbCallFails, Calling
  <2> QED
      BY <1>2, <2>1 DEF Verified
<1>5. CASE BatchUpdate(t)
  <2>1. call[t].op = "update" /\ call[t].id = r.id
      BY <1>5 DEF BatchUpdate, Calling
  <2> QED
      BY <1>2, <2>1 DEF Verified
<1> QED
    BY <1>1, <1>3, <1>4, <1>5

\* Whoever changes or deletes an account came with the password it had when the
\* request began, for any number of accounts, names and requests at a time: the
\* id that was verified goes with the request, and nobody else gets that id.
THEOREM AccountsAreTheOwners == USpec => OwnerDecides
<1>1. AccountsInv /\ [UNext]_accvars =>
          [\A r \in users \ users' :
              \E t \in Thread :
                  /\ call[t].op \in {"update", "delete"} /\ call'[t] = NoCall
                  /\ \E q \in begun[t] : q.id = r.id /\ q.password = call[t].given]_users
    BY StatementIsOwners DEF AccountsInv
<1> QED
    BY <1>1, UInitInv, AccountsInvKept, PTL DEF USpec, accvars, OwnerDecides

\* A deletion that has written its revocation is final for the tokens of the
\* user: it is stamped after all of them, lives until the second in which the
\* last of them expires, and nobody can log in any more.
THEOREM DeletionIsFinal == USpec => []DeletedIsLockedOut
BY UInitInv, AccountsInvKept, AccountsInvShows, PTL DEF USpec, accvars

\* With accounts that come and go, auth_server still is what AuthServer says,
\* so that what is proved of it alone holds of the two together.
THEOREM AccountsRefineAuthServer == USpec => ASpec
<1>1. UInit => AInit
    BY DEF UInit
<1>2. AccountsInv => UTables
    BY DEF AccountsInv
<1>3. UTables /\ [UNext]_accvars => [ANext]_avars
    BY UNextRefines
<1> QED
    BY <1>1, <1>2, <1>3, UInitInv, AccountsInvKept, PTL DEF USpec, ASpec, accvars

\* A logout is final up to the last second, too, while accounts come and go.
THEOREM LogoutIsFinalWithAccounts == USpec => []LoggedOutStaysOut
BY AccountsRefineAuthServer, LogoutIsFinal
=============================================================================
