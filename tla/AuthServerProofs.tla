-------------------------- MODULE AuthServerProofs --------------------------
(***************************************************************************)
(* Proofs about AuthServer, for any users, requests and lifetime of tokens.*)
(***************************************************************************)
EXTENDS AuthServer, TLAPS

\* A token that is given out was signed in the past.
SignedBefore == \A tok \in tokens : tok.iat <= now

\* A request that is going to write a revocation.
Writing(t) == At(t, "logout") \/ At(t, "revoke")

\* What the revocation that t will write does for tok, a token of its user:
\* it ends no earlier than tok, and its stamp is at or after tok's.
Covers(t, tok) ==
    IF At(t, "logout")
    THEN tok.iat <= task[t].token.iat
    ELSE /\ Exp(tok) <= now \/ Exp(tok) <= now + task[t].ttl
         /\ task[t].stamp = None \/ tok.iat <= task[t].stamp

\* The same of the entry that is there; and there is one, until the second in
\* which tok expires.
EntryFor(tok) ==
    /\ now < Exp(tok) => revoked[tok.user] # None
    /\ revoked[tok.user] # None => /\ tok.iat <= revoked[tok.user].stamp
                                  /\ Exp(tok) <= revoked[tok.user].until

\* A logout covers the token it is for.
CoversOwn ==
    \A t \in Thread : (Writing(t) /\ task[t].token # None) =>
        /\ task[t].token \in tokens
        /\ task[t].token.user = task[t].user
        /\ Covers(t, task[t].token)

\* Whoever is going to replace the entry of a user covers all the tokens of
\* that user that are logged out already and that verify_jwt accepts still ...
CoversEarlier ==
    \A t \in Thread, tok \in loggedOut :
        (Writing(t) /\ task[t].user = tok.user /\ tok.user \notin disturbed /\ verify_jwt(tok))
            => Covers(t, tok)

\* ... as does the entry that is there.
EntryCovers ==
    \A tok \in loggedOut : (tok.user \notin disturbed /\ verify_jwt(tok)) => EntryFor(tok)

LogoutInv == ATypeOK /\ SignedBefore /\ CoversOwn /\ CoversEarlier /\ EntryCovers

-----------------------------------------------------------------------------
\* What is known of a request by the name of its operation.
LEMMA TaskKinds ==
    ASSUME ATypeOK, NEW t \in Thread
    PROVE  /\ At(t, "create") => task[t].user \in User
           /\ At(t, "logout") => task[t].user \in User /\ task[t].token \in Token
                                   /\ task[t].token.user = task[t].user
           /\ At(t, "revoke") =>
                /\ task[t] \in [op : {"revoke"}, user : User, ttl : Nat,
                                token : Token \cup {None}, stamp : Time \cup {None}]
                /\ task[t].user \in User /\ task[t].ttl \in Nat
                /\ task[t].token \in Token \cup {None}
                /\ task[t].stamp \in Time \cup {None}
<1>1. task[t] \in AuthTask
    BY DEF ATypeOK
<1>2. CASE task[t] = Idle
    BY <1>2 DEF At, Idle
<1>3. ASSUME NEW u \in User, task[t] = Creating(u)
      PROVE  task[t].op = "create" /\ task[t].user \in User
    BY <1>3 DEF Creating
<1>4. ASSUME NEW tok \in Token, task[t] = LoggingOut(tok)
      PROVE  /\ task[t].op = "logout"
             /\ task[t].user \in User /\ task[t].token \in Token
             /\ task[t].token.user = task[t].user
    BY <1>4 DEF LoggingOut, Token
<1>5. CASE task[t] \in [op : {"revoke"}, user : User, ttl : Nat, token : Token \cup {None},
                        stamp : Time \cup {None}]
    BY <1>5 DEF At
<1> QED
    BY <1>1, <1>2, <1>3, <1>4, <1>5 DEF AuthTask, At

\* Time of a token.
LEMMA TokenTimes ==
    \A tok \in Token : tok.iat \in Nat /\ tok.iat \in Time /\ tok.user \in User /\ Exp(tok) \in Nat
BY AuthAssumption DEF Token, Time, Exp

\* The initial states.
LEMMA AInitInv == AInit => LogoutInv
BY AuthAssumption
DEF AInit, LogoutInv, ATypeOK, SignedBefore, CoversOwn, CoversEarlier, EntryCovers, EntryFor,
    Writing, At, Idle, AuthTask, Time

\* Types are kept by every step.
LEMMA ANextKeepsTypes ==
    ASSUME ATypeOK, CoversOwn, [ANext]_avars
    PROVE  ATypeOK'
<1> USE AuthAssumption
<1>a. now \in Nat /\ MaxTime \in Nat
    BY DEF ATypeOK, Time
<1>b. ASSUME NEW t \in Thread, NEW next \in AuthTask, Do(t, next)
      PROVE  ATypeOK'
    BY <1>b DEF Do, ATypeOK
<1>1. ASSUME NEW t \in Thread, NEW u \in User, CreateToken(t, u) PROVE ATypeOK'
  <2>1. Creating(u) \in AuthTask
      BY DEF AuthTask
  <2> QED
      BY <1>1, <1>b, <2>1 DEF CreateToken
<1>2. ASSUME NEW t \in Thread, NEW u \in User, RevokeUserToken(t, u) PROVE ATypeOK'
  <2>1. Revoking(u, Lifetime, None, None) \in AuthTask
      BY DEF AuthTask, Revoking
  <2> QED
      BY <1>2, <1>b, <2>1 DEF RevokeUserToken
<1>3. ASSUME NEW t \in Thread, Sign(t) PROVE ATypeOK'
  <2>1. [user |-> task[t].user, iat |-> now] \in Token
      BY <1>3, TaskKinds DEF Sign, Token, ATypeOK
  <2> QED
      BY <1>3, <2>1 DEF Sign, ATypeOK, AuthTask
<1>4. ASSUME NEW t \in Thread, NEW tok \in tokens, Logout(t, tok) PROVE ATypeOK'
  <2>1. LoggingOut(tok) \in AuthTask /\ tok.user \in User
      BY TokenTimes DEF ATypeOK, AuthTask
  <2> QED
      BY <1>4, <2>1 DEF Logout, ATypeOK
<1>5. ASSUME NEW t \in Thread, CallRevoke(t) PROVE ATypeOK'
  <2> DEFINE tok == task[t].token
             ttl == IF Exp(tok) > now THEN Exp(tok) - now ELSE 1
  <2>1. tok \in Token /\ tok.user \in User /\ Exp(tok) \in Nat
      BY <1>5, TaskKinds, TokenTimes DEF CallRevoke
  <2>2. ttl \in Nat
      BY <1>a, <2>1
  <2>3. Revoking(tok.user, ttl, tok, None) \in AuthTask
      BY <2>1, <2>2 DEF AuthTask, Revoking
  <2> QED
      BY <1>5, <1>b, <2>3 DEF CallRevoke
<1>6. ASSUME NEW t \in Thread, Stamp(t) PROVE ATypeOK'
  <2>1. [task[t] EXCEPT !.stamp = now] \in AuthTask
      BY <1>6, TaskKinds DEF Stamp, AuthTask, ATypeOK
  <2> QED
      BY <1>6, <1>b, <2>1 DEF Stamp
<1>7. ASSUME NEW t \in Thread, SetRevoked(t) PROVE ATypeOK'
  <2> DEFINE e == [stamp |-> task[t].stamp, until |-> now + task[t].ttl]
  <2>1. e \in [stamp : Time, until : Nat] /\ task[t].user \in User
      BY <1>7, <1>a, TaskKinds DEF SetRevoked
  <2>2. revoked' \in [User -> {None} \cup [stamp : Time, until : Nat]]
      BY <1>7, <2>1 DEF SetRevoked, ATypeOK
  <2>3. loggedOut' \subseteq tokens'
      BY <1>7 DEF SetRevoked, ATypeOK, CoversOwn, Writing
  <2> QED
      BY <1>7, <2>1, <2>2, <2>3 DEF SetRevoked, ATypeOK, AuthTask
<1>8. ASSUME NEW t \in Thread, CallFails(t) PROVE ATypeOK'
    BY <1>8, <1>b DEF CallFails, AuthTask
<1>9. ASSUME NEW u \in User, RevocationExpires(u) PROVE ATypeOK'
    BY <1>9 DEF RevocationExpires, ATypeOK
<1>10. CASE Tick
  <2>1. now + 1 \in Time
      BY <1>10, <1>a DEF Tick, ATypeOK, Time
  <2> QED
      BY <1>10, <2>1 DEF Tick, ATypeOK
<1>11. CASE RedisBreaks
    BY <1>11 DEF RedisBreaks, ATypeOK
<1>12. CASE AuthRestart
    BY <1>12 DEF AuthRestart, ATypeOK, AuthTask
<1>13. CASE UNCHANGED avars
    BY <1>13 DEF avars, ATypeOK
<1> QED
    BY <1>1, <1>2, <1>3, <1>4, <1>5, <1>6, <1>7, <1>8, <1>9, <1>10, <1>11, <1>12, <1>13
    DEF ANext, AuthStep, Environment

-----------------------------------------------------------------------------
\* A request that has not moved covers what it covered, also later.
LEMMA StillCovers ==
    ASSUME ATypeOK, now' \in Nat, now <= now',
           NEW r \in Thread, task'[r] = task[r], Writing(r),
           NEW tok \in Token, Covers(r, tok)
    PROVE  Covers(r, tok)'
<1>1. now \in Nat /\ Exp(tok) \in Nat
    BY TokenTimes, AuthAssumption DEF ATypeOK, Time
<1>2. CASE At(r, "logout")
    BY <1>2 DEF Covers, At
<1>3. CASE At(r, "revoke")
  <2>1. task[r].ttl \in Nat
      BY <1>3, TaskKinds
  <2> QED
      BY <1>1, <1>3, <2>1 DEF Covers, At, Exp, verify_jwt
<1> QED
    BY <1>2, <1>3 DEF Writing

\* A step of one request that leaves clock, entries and history alone keeps
\* the invariant if what the request is to write now covers what it has to.
LEMMA OneMoves ==
    ASSUME LogoutInv, NEW t \in Thread, NEW next, task' = [task EXCEPT ![t] = next],
           UNCHANGED <<now, revoked, loggedOut>>, ATypeOK',
           SignedBefore', tokens \subseteq tokens', disturbed \subseteq disturbed',
           Writing(t)' => /\ next.token # None =>
                               /\ next.token \in tokens' /\ next.token.user = next.user
                               /\ Covers(t, next.token)'
                         /\ \A tok \in loggedOut :
                               (next.user = tok.user /\ tok.user \notin disturbed'
                                  /\ verify_jwt(tok)) => Covers(t, tok)'
    PROVE  LogoutInv'
<1> USE DEF LogoutInv
<1>1. task'[t] = next /\ \A r \in Thread \ {t} : task'[r] = task[r]
    BY DEF ATypeOK
<1>2. now' = now /\ now \in Nat /\ loggedOut \subseteq Token /\ tokens \subseteq Token
    BY AuthAssumption DEF ATypeOK, Time
<1>3. \A r \in Thread \ {t} : Writing(r)' => Writing(r)
    BY <1>1 DEF Writing, At
<1>4. \A r \in Thread \ {t}, tok \in Token : (Writing(r) /\ Covers(r, tok)) => Covers(r, tok)'
    BY <1>1, <1>2, StillCovers
<1>5. CoversOwn'
  <2> SUFFICES ASSUME NEW r \in Thread, Writing(r)', task'[r].token # None
               PROVE  /\ task'[r].token \in tokens'
                      /\ task'[r].token.user = task'[r].user
                      /\ Covers(r, task[r].token)'
      BY DEF CoversOwn
  <2>1. CASE r = t
      BY <1>1, <2>1
  <2>2. CASE r # t
    <3>1. /\ task[r].token \in tokens
          /\ task[r].token.user = task[r].user
          /\ Covers(r, task[r].token)
        BY <1>1, <1>3, <2>2 DEF CoversOwn
    <3> QED
        BY <1>1, <1>2, <1>3, <1>4, <2>2, <3>1
  <2> QED
      BY <2>1, <2>2
<1>6. CoversEarlier'
  <2> SUFFICES ASSUME NEW r \in Thread, NEW tok \in loggedOut, Writing(r)',
                      task'[r].user = tok.user, tok.user \notin disturbed', verify_jwt(tok)
               PROVE  Covers(r, tok)'
      BY <1>2 DEF CoversEarlier, Exp, verify_jwt
  <2>1. CASE r = t
      BY <1>1, <2>1
  <2>2. CASE r # t
      BY <1>1, <1>2, <1>3, <1>4, <2>2 DEF CoversEarlier
  <2> QED
      BY <2>1, <2>2
<1>7. EntryCovers'
    BY <1>2 DEF EntryCovers, EntryFor, Exp, verify_jwt
<1> QED
    BY <1>5, <1>6, <1>7

\* Every step of a request keeps the invariant.
LEMMA StepKeepsLogoutInv ==
    ASSUME LogoutInv, ATypeOK', NEW t \in Thread,
           \/ AuthStep(t)
           \/ \E u \in User : CreateToken(t, u) \/ RevokeUserToken(t, u)
    PROVE  LogoutInv'
<1> USE AuthAssumption DEF LogoutInv
<1>a. now \in Nat /\ Lifetime \in Nat /\ loggedOut \subseteq tokens /\ tokens \subseteq Token
    BY DEF ATypeOK, Time
<1>1. ASSUME NEW u \in User, CreateToken(t, u) PROVE LogoutInv'
  <2>1. ~Writing(t)'
      BY <1>1 DEF CreateToken, Do, Creating, Writing, At, ATypeOK
  <2> QED
      BY <1>1, <2>1, OneMoves DEF CreateToken, Do, SignedBefore
<1>2. ASSUME NEW u \in User, RevokeUserToken(t, u) PROVE LogoutInv'
  <2> DEFINE next == Revoking(u, Lifetime, None, None)
  <2>1. task' = [task EXCEPT ![t] = next] /\ task'[t] = next
      BY <1>2 DEF RevokeUserToken, Do, ATypeOK
  <2>2. next.token = None
      BY DEF Revoking
  <2>3. ASSUME NEW tok \in loggedOut PROVE Covers(t, tok)'
    <3>1. tok \in Token /\ tok.iat \in Nat /\ tok.iat <= now
        BY <1>a, TokenTimes DEF SignedBefore
    <3>2. Exp(tok)' <= now' + task'[t].ttl /\ task'[t].stamp = None /\ ~At(t, "logout")'
        BY <1>2, <1>a, <2>1, <3>1 DEF RevokeUserToken, Do, Revoking, Exp, At
    <3> QED
        BY <3>2 DEF Covers
  <2>4. SignedBefore'
      BY <1>2 DEF RevokeUserToken, Do, SignedBefore
  <2> QED
      BY <1>2, <2>1, <2>2, <2>3, <2>4, OneMoves DEF RevokeUserToken, Do
<1>3. CASE Sign(t)
  <2>1. task' = [task EXCEPT ![t] = Idle] /\ ~Writing(t)'
      BY <1>3 DEF Sign, Idle, Writing, At, ATypeOK
  <2>2. SignedBefore'
      BY <1>3, <1>a DEF Sign, SignedBefore
  <2> QED
      BY <1>3, <2>1, <2>2, OneMoves DEF Sign
<1>4. ASSUME NEW new \in tokens, Logout(t, new) PROVE LogoutInv'
  <2> DEFINE next == LoggingOut(new)
  <2>1. task' = [task EXCEPT ![t] = next] /\ task'[t] = next /\ At(t, "logout")'
      BY <1>4 DEF Logout, LoggingOut, At, ATypeOK
  <2>2. next.token = new /\ next.user = new.user
      BY DEF LoggingOut
  <2>3. Covers(t, new)'
      BY <1>a, <2>1, <2>2, TokenTimes DEF Covers
  <2>4. ASSUME NEW tok \in loggedOut, new.user = tok.user, tok.user \notin disturbed',
               verify_jwt(tok)
        PROVE  Covers(t, tok)'
    <3>1. redis /\ tok.user \notin disturbed
        BY <1>4, <2>4 DEF Logout
    <3>2. tok \in Token /\ tok.user \in User /\ tok.iat \in Nat /\ new.iat \in Nat
        BY <1>a, TokenTimes
    <3>3. verify_jwt(new) /\ ~is_token_revoked(new)
        BY <1>4 DEF Logout, Valid
    <3>4. CASE revoked[tok.user] = None
      <4>1. ~(now < Exp(tok))
          BY <2>4, <3>1, <3>4 DEF EntryCovers, EntryFor
      <4>2. tok.iat <= new.iat
          BY <1>a, <3>2, <3>3, <4>1 DEF verify_jwt, Exp
      <4> QED
          BY <2>1, <2>2, <4>2 DEF Covers
    <3>5. CASE revoked[tok.user] # None
      <4>1. tok.iat <= revoked[tok.user].stamp /\ revoked[tok.user].stamp \in Nat
          BY <2>4, <3>1, <3>2, <3>5 DEF EntryCovers, EntryFor, ATypeOK, Time
      <4>2. ~(new.iat <= revoked[tok.user].stamp)
          BY <2>4, <3>1, <3>3, <3>5 DEF is_token_revoked
      <4>3. tok.iat <= new.iat
          BY <3>2, <4>1, <4>2
      <4> QED
          BY <2>1, <2>2, <4>3 DEF Covers
    <3> QED
        BY <3>4, <3>5
  <2>5. SignedBefore'
      BY <1>4 DEF Logout, SignedBefore
  <2> QED
      BY <1>4, <2>1, <2>2, <2>3, <2>4, <2>5, OneMoves DEF Logout
<1>5. CASE CallRevoke(t)
  <2> DEFINE own == task[t].token
             next == Revoking(own.user, IF Exp(own) > now THEN Exp(own) - now ELSE 1, own, None)
  <2>1. At(t, "logout") /\ own \in Token /\ own.user = task[t].user /\ own # None
    <3>1. At(t, "logout") /\ own \in Token /\ own.user = task[t].user
        BY <1>5, TaskKinds DEF CallRevoke
    <3>2. own \in [user : User, iat : Nat]
        BY <3>1 DEF Token, Time
    <3> QED
        BY <3>1, <3>2
  <2>2. task' = [task EXCEPT ![t] = next] /\ task'[t] = next /\ now' = now
      BY <1>5 DEF CallRevoke, Do, ATypeOK
  <2>3. /\ ~At(t, "logout")'
        /\ task'[t].stamp = None
        /\ task'[t].ttl = IF Exp(own) > now THEN Exp(own) - now ELSE 1
      BY <2>2 DEF At, Revoking
  <2>4. ASSUME NEW tok \in Token, tok.iat <= own.iat PROVE Covers(t, tok)'
    <3>1. Exp(own) \in Nat /\ Exp(tok) \in Nat /\ Exp(tok) <= Exp(own)
        BY <2>1, <2>4, TokenTimes DEF Exp
    <3>2. Exp(tok) <= now \/ Exp(tok) <= now + task'[t].ttl
        BY <1>a, <2>3, <3>1
    <3> QED
        BY <2>2, <2>3, <3>2 DEF Covers, Exp
  <2>5. own \in tokens /\ own.iat <= own.iat
      BY <2>1, TokenTimes DEF CoversOwn, Writing
  <2>6. ASSUME NEW tok \in loggedOut, own.user = tok.user, tok.user \notin disturbed,
               verify_jwt(tok)
        PROVE  tok.iat <= own.iat
      BY <2>1, <2>6 DEF CoversEarlier, Covers, Writing
  <2>7. SignedBefore' /\ next.token = own /\ next.user = own.user
      BY <1>5 DEF CallRevoke, Do, SignedBefore, Revoking
  <2> QED
      BY <1>5, <1>a, <2>1, <2>2, <2>4, <2>5, <2>6, <2>7, OneMoves DEF CallRevoke, Do
<1>6. CASE Stamp(t)
  <2> DEFINE next == [task[t] EXCEPT !.stamp = now]
  <2>1. /\ task' = [task EXCEPT ![t] = next] /\ task'[t] = next /\ now' = now
        /\ tokens' = tokens /\ UNCHANGED <<revoked, loggedOut, disturbed>>
      BY <1>6 DEF Stamp, Do, ATypeOK
  <2>2. /\ next.op = "revoke" /\ next.ttl = task[t].ttl /\ next.stamp = now
        /\ next.user = task[t].user /\ next.token = task[t].token
      BY <1>6, TaskKinds DEF Stamp, At
  <2>3. ASSUME NEW tok \in tokens, Covers(t, tok) PROVE Covers(t, tok)'
    <3>1. tok.iat <= now
        BY DEF SignedBefore
    <3>2. Exp(tok) <= now \/ Exp(tok) <= now + task[t].ttl
        BY <1>6, <2>3 DEF Stamp, Covers, At
    <3>3. ~At(t, "logout")'
        BY <2>1, <2>2 DEF At
    <3> QED
        BY <2>1, <2>2, <3>1, <3>2, <3>3 DEF Covers, Exp
  <2>4. SignedBefore'
      BY <2>1 DEF SignedBefore
  <2>5. Writing(t)
      BY <1>6 DEF Stamp, Writing
  <2>6. next.token # None => /\ next.token \in tokens' /\ next.token.user = next.user
                             /\ Covers(t, next.token)'
    <3>1. task[t].token # None => /\ task[t].token \in tokens
                                  /\ task[t].token.user = task[t].user
                                  /\ Covers(t, task[t].token)
        BY <2>5 DEF CoversOwn
    <3>2. ASSUME task[t].token # None
          PROVE  \E tok \in tokens : tok = task[t].token /\ Covers(t, tok)'
        BY <2>3, <3>1, <3>2
    <3> QED
        BY <2>1, <2>2, <3>1, <3>2 DEF Covers
  <2>7. \A tok \in loggedOut :
            (next.user = tok.user /\ tok.user \notin disturbed' /\ verify_jwt(tok))
                => Covers(t, tok)'
      BY <1>a, <2>1, <2>2, <2>3, <2>5 DEF CoversEarlier
  <2> QED
      BY <2>1, <2>4, <2>6, <2>7, OneMoves
<1>7. CASE CallFails(t)
  <2>1. task' = [task EXCEPT ![t] = Idle] /\ ~Writing(t)'
      BY <1>7 DEF CallFails, Do, Idle, Writing, At, ATypeOK
  <2>2. SignedBefore'
      BY <1>7 DEF CallFails, Do, SignedBefore
  <2> QED
      BY <1>7, <2>1, <2>2, OneMoves DEF CallFails, Do
<1>8. CASE SetRevoked(t)
  <2>1. PICK u \in User : u = task[t].user
      BY <1>8, TaskKinds DEF SetRevoked
  <2>2. At(t, "revoke") /\ task[t].stamp # None /\ Writing(t) /\ task[t].ttl \in Nat
      BY <1>8, TaskKinds DEF SetRevoked, Writing
  <2>3. /\ now' = now /\ tokens' = tokens /\ redis' = redis
        /\ disturbed \subseteq disturbed'
        /\ task' = [task EXCEPT ![t] = Idle]
      BY <1>8 DEF SetRevoked
  <2>4. ~Writing(t)' /\ \A r \in Thread \ {t} : task'[r] = task[r]
      BY <2>3 DEF Writing, At, Idle, ATypeOK
  <2>5. \A r \in Thread : Writing(r)' => r # t /\ Writing(r) /\ task'[r] = task[r]
      BY <2>4 DEF Writing, At
  <2>6. \A r \in Thread, tok \in Token :
            (Writing(r)' /\ Covers(r, tok)) => Covers(r, tok)'
      BY <1>a, <2>3, <2>5, StillCovers
  <2>7. CoversOwn'
    <3> SUFFICES ASSUME NEW r \in Thread, Writing(r)', task'[r].token # None
                 PROVE  /\ task'[r].token \in tokens'
                        /\ task'[r].token.user = task'[r].user
                        /\ Covers(r, task[r].token)'
        BY DEF CoversOwn
    <3>1. /\ task[r].token \in tokens
          /\ task[r].token.user = task[r].user
          /\ Covers(r, task[r].token)
        BY <2>5 DEF CoversOwn
    <3> QED
        BY <1>a, <2>3, <2>5, <2>6, <3>1
  <2>8. CASE ~redis
    <3>1. revoked' = revoked /\ loggedOut' = loggedOut
        BY <1>8, <2>8 DEF SetRevoked
    <3>2. EntryCovers'
        BY <2>3, <3>1 DEF EntryCovers, EntryFor, Exp, verify_jwt
    <3>3. CoversEarlier'
        BY <1>a, <2>3, <2>5, <2>6, <3>1 DEF CoversEarlier, Exp, verify_jwt
    <3>4. SignedBefore'
        BY <2>3 DEF SignedBefore
    <3> QED
        BY <2>7, <3>2, <3>3, <3>4
  <2>9. CASE redis
    <3> DEFINE own == task[t].token
    <3>1. /\ loggedOut' = IF own # None THEN loggedOut \cup {own} ELSE loggedOut
          /\ u \notin disturbed' => ~UnderWay(t, u)
          /\ revoked' = [revoked EXCEPT ![u] = [stamp |-> task[t].stamp,
                                               until |-> now + task[t].ttl]]
        BY <1>8, <2>1, <2>9 DEF SetRevoked
    <3>2. revoked'[u] = [stamp |-> task[t].stamp, until |-> now + task[t].ttl]
        BY <3>1 DEF ATypeOK
    <3>3. revoked'[u].stamp = task[t].stamp /\ revoked'[u].until = now + task[t].ttl
            /\ revoked'[u] # None
      <4>1. revoked'[u].stamp = task[t].stamp /\ revoked'[u].until = now + task[t].ttl
          BY <3>2
      <4>2. [stamp |-> task[t].stamp, until |-> now + task[t].ttl] # None
        <5>1. [stamp |-> task[t].stamp, until |-> now + task[t].ttl] \in [stamp : Nat, until : Nat]
            BY <1>a, <2>2, TaskKinds DEF Time
        <5> QED
            BY <5>1
      <4> QED
          BY <3>2, <4>1, <4>2
    <3>4. ASSUME NEW tok \in loggedOut', tok.user \notin disturbed', verify_jwt(tok)
          PROVE  EntryFor(tok)'
      <4>1. CASE tok.user = u
        <5>1. Covers(t, tok)
            BY <2>1, <2>2, <2>3, <3>1, <3>4, <4>1 DEF CoversEarlier, CoversOwn
        <5>2. Exp(tok) <= now + task[t].ttl /\ tok.iat <= task[t].stamp
          <6>1. ~At(t, "logout")
              BY <2>2 DEF At
          <6>2. Exp(tok) \in Nat
              BY <1>a, <2>2, <3>1, <3>4, TokenTimes DEF CoversOwn
          <6> QED
              BY <1>a, <2>2, <3>4, <5>1, <6>1, <6>2 DEF Covers, verify_jwt
        <5> QED
            BY <2>3, <3>3, <4>1, <5>2 DEF EntryFor, Exp
      <4>2. CASE tok.user # u
        <5>1. tok \in loggedOut /\ tok.user \in User
            BY <1>a, <2>1, <2>2, <3>1, <3>4, <4>2, TokenTimes DEF CoversOwn
        <5>2. revoked'[tok.user] = revoked[tok.user]
            BY <3>1, <4>2, <5>1 DEF ATypeOK
        <5> QED
            BY <2>3, <3>4, <5>1, <5>2 DEF EntryCovers, EntryFor, Exp
      <4> QED
          BY <4>1, <4>2
    <3>5. EntryCovers'
        BY <2>3, <3>4 DEF EntryCovers, EntryFor, Exp, verify_jwt
    <3>6. CoversEarlier'
      <4> SUFFICES ASSUME NEW r \in Thread, NEW tok \in loggedOut', Writing(r)',
                          task'[r].user = tok.user, tok.user \notin disturbed', verify_jwt(tok)
                   PROVE  Covers(r, tok)'
          BY <2>3 DEF CoversEarlier, Exp, verify_jwt
      <4>1. CASE tok \in loggedOut
          BY <1>a, <2>3, <2>5, <2>6, <4>1 DEF CoversEarlier
      <4>2. CASE tok \notin loggedOut
        <5>1. tok.user = u
            BY <2>1, <2>2, <3>1, <4>2 DEF CoversOwn
        <5>2. UnderWay(t, u)
            BY <2>5, <5>1 DEF UnderWay, Writing
        <5> QED
            BY <3>1, <5>1, <5>2
      <4> QED
          BY <4>1, <4>2
    <3>7. SignedBefore'
        BY <2>3 DEF SignedBefore
    <3> QED
        BY <2>7, <3>5, <3>6, <3>7
  <2> QED
      BY <2>8, <2>9
<1> QED
    BY <1>1, <1>2, <1>3, <1>4, <1>5, <1>6, <1>7, <1>8 DEF AuthStep

\* Time passing, an entry that ends, and the loss of Redis or of auth_server
\* keep the invariant.
LEMMA EnvironmentKeepsLogoutInv ==
    ASSUME LogoutInv, ATypeOK', Environment
    PROVE  LogoutInv'
<1> USE AuthAssumption DEF LogoutInv
<1>a. now \in Nat /\ Lifetime \in Nat /\ loggedOut \subseteq tokens /\ tokens \subseteq Token
    BY DEF ATypeOK, Time
<1>1. ASSUME NEW u \in User, RevocationExpires(u) PROVE LogoutInv'
  <2>1. /\ UNCHANGED <<now, redis, tokens, task, loggedOut, disturbed>>
        /\ revoked[u] # None /\ revoked[u].until = now
        /\ revoked' = [revoked EXCEPT ![u] = None]
      BY <1>1 DEF RevocationExpires
  <2>2. SignedBefore' /\ CoversOwn' /\ CoversEarlier'
      BY <2>1 DEF SignedBefore, CoversOwn, CoversEarlier, Writing, Covers, At, Exp, verify_jwt
  <2>3. ASSUME NEW tok \in loggedOut, tok.user \notin disturbed, now < Exp(tok)
        PROVE  tok.user # u
    <3>1. Exp(tok) \in Nat /\ verify_jwt(tok)
        BY <1>a, <2>3, TokenTimes DEF verify_jwt
    <3> QED
        BY <1>a, <2>1, <2>3, <3>1 DEF EntryCovers, EntryFor
  <2>4. \A v \in User \ {u} : revoked'[v] = revoked[v]
      BY <2>1 DEF ATypeOK
  <2>5. \A tok \in loggedOut : tok.user \in User
      BY <1>a, TokenTimes
  <2>6. EntryCovers'
      BY <2>1, <2>3, <2>4, <2>5 DEF EntryCovers, EntryFor, Exp, verify_jwt
  <2> QED
      BY <2>2, <2>6
<1>2. CASE Tick
  <2>1. now' = now + 1 /\ UNCHANGED <<redis, tokens, revoked, task, loggedOut, disturbed>>
      BY <1>2 DEF Tick
  <2>2. \A tok \in Token : Exp(tok) \in Nat /\ tok.iat \in Nat
      BY TokenTimes
  <2>3. SignedBefore'
      BY <1>a, <2>1, <2>2 DEF SignedBefore
  <2>4. \A t \in Thread : Writing(t)' = Writing(t)
      BY <2>1 DEF Writing, At
  <2>5. \A t \in Thread, tok \in Token : (Writing(t) /\ Covers(t, tok)) => Covers(t, tok)'
      BY <1>a, <2>1, StillCovers
  <2>6. \A tok \in Token : verify_jwt(tok)' => now < Exp(tok) /\ verify_jwt(tok)
      BY <1>a, <2>1, <2>2 DEF verify_jwt, Exp
  <2>7. CoversOwn'
    <3> SUFFICES ASSUME NEW t \in Thread, Writing(t)', task'[t].token # None
                 PROVE  /\ task'[t].token \in tokens'
                        /\ task'[t].token.user = task'[t].user
                        /\ Covers(t, task[t].token)'
        BY DEF CoversOwn
    <3>1. /\ task[t].token \in tokens
          /\ task[t].token.user = task[t].user
          /\ Covers(t, task[t].token)
        BY <2>1, <2>4 DEF CoversOwn
    <3> QED
        BY <1>a, <2>1, <2>4, <2>5, <3>1
  <2>8. CoversEarlier'
    <3> SUFFICES ASSUME NEW t \in Thread, NEW tok \in loggedOut, Writing(t)',
                        task[t].user = tok.user, tok.user \notin disturbed, verify_jwt(tok)'
                 PROVE  Covers(t, tok)'
        BY <2>1 DEF CoversEarlier, Exp, verify_jwt
    <3> QED
        BY <1>a, <2>4, <2>5, <2>6 DEF CoversEarlier
  <2>9. EntryCovers'
      BY <1>a, <2>1, <2>6 DEF EntryCovers, EntryFor, Exp, verify_jwt
  <2> QED
      BY <2>3, <2>7, <2>8, <2>9
<1>3. CASE RedisBreaks
    BY <1>3 DEF RedisBreaks, SignedBefore, CoversOwn, CoversEarlier, EntryCovers, EntryFor,
        Writing, Covers, At, Exp, verify_jwt
<1>4. CASE AuthRestart
  <2>1. /\ UNCHANGED <<now, tokens, revoked, loggedOut, disturbed>>
        /\ task' = [t \in Thread |-> IF At(t, "revoke") THEN Idle ELSE task[t]]
      BY <1>4 DEF AuthRestart
  <2>2. SignedBefore' /\ EntryCovers'
      BY <2>1 DEF SignedBefore, EntryCovers, EntryFor, Exp, verify_jwt
  <2>3. ASSUME NEW t \in Thread, Writing(t)' PROVE At(t, "logout") /\ task'[t] = task[t]
    <3>1. task'[t] = IF At(t, "revoke") THEN Idle ELSE task[t]
        BY <2>1
    <3>2. ~At(t, "revoke")
        BY <2>3, <3>1 DEF Writing, At, Idle
    <3> QED
        BY <2>3, <3>1, <3>2 DEF Writing, At
  <2>4. \A t \in Thread : Writing(t)' => Writing(t) /\ At(t, "logout")' /\ task'[t] = task[t]
      BY <2>3 DEF Writing, At
  <2>5. CoversOwn' /\ CoversEarlier'
      BY <2>1, <2>3, <2>4 DEF CoversOwn, CoversEarlier, Covers, Exp, verify_jwt
  <2> QED
      BY <2>2, <2>5
<1> QED
    BY <1>1, <1>2, <1>3, <1>4 DEF Environment

\* Every step keeps the invariant.
LEMMA ANextKeepsLogoutInv ==
    ASSUME LogoutInv, [ANext]_avars
    PROVE  LogoutInv'
<1>1. ATypeOK'
    BY ANextKeepsTypes DEF LogoutInv
<1>2. CASE UNCHANGED avars
    BY <1>1, <1>2 DEF avars, LogoutInv, SignedBefore, CoversOwn, CoversEarlier, EntryCovers, EntryFor,
        Writing, Covers, At, Exp, verify_jwt
<1>3. CASE ANext
    BY <1>1, <1>3, StepKeepsLogoutInv, EnvironmentKeepsLogoutInv DEF ANext
<1> QED
    BY <1>2, <1>3

\* An entry that covers a token refuses it, and only in the second the token
\* expires in may there be none.
LEMMA LogoutInvRefuses == LogoutInv => LoggedOutStaysOut
<1> SUFFICES ASSUME LogoutInv, NEW tok \in loggedOut, redis, tok.user \notin disturbed, Valid(tok)
             PROVE  now = Exp(tok) /\ revoked[tok.user] = None
    BY DEF LoggedOutStaysOut
<1>1. verify_jwt(tok) /\ ~is_token_revoked(tok)
    BY DEF Valid
<1>2. revoked[tok.user] = None
    BY <1>1 DEF LogoutInv, EntryCovers, EntryFor, is_token_revoked
<1>3. ~(now < Exp(tok))
    BY <1>1, <1>2 DEF LogoutInv, EntryCovers, EntryFor
<1>4. now \in Nat /\ Exp(tok) \in Nat
    BY AuthAssumption, TokenTimes DEF LogoutInv, ATypeOK, Time
<1> QED
    BY <1>1, <1>2, <1>3, <1>4 DEF verify_jwt

-----------------------------------------------------------------------------
\* Every request is at a step of one of the operations of auth_server, and
\* only tokens that were given out are logged out.
THEOREM AuthTypeCorrect == ASpec => []ATypeOK
<1>1. LogoutInv => ATypeOK
    BY DEF LogoutInv
<1> QED
    BY AInitInv, ANextKeepsLogoutInv, <1>1, PTL DEF ASpec

\* A token whose logout was done is accepted in no second but its last, for any
\* number of users, requests at a time and tokens, and however long a token
\* lives: handleLogout gives revoke_token a life that ends in that second or
\* later.  In that second it is accepted if the entry has ended already.
THEOREM LogoutIsFinal == ASpec => []LoggedOutStaysOut
BY AInitInv, ANextKeepsLogoutInv, LogoutInvRefuses, PTL DEF ASpec
=============================================================================
