----------------------------- MODULE AuthServer -----------------------------
(***************************************************************************)
(* auth_server: tokens are signed and forgotten, and are valid until they  *)
(* are a fixed time old, unless Redis holds a revocation of their user     *)
(* with a time stamp at or after their own.  A logout (gateway) validates  *)
(* the token, computes what is left of its life, and lets the revocation   *)
(* live as long; a deletion of the account lets it live for a day.         *)
(*                                                                         *)
(* A member of Thread is a request, with what the servers it passes        *)
(* through do for it one after the other.  Validation, which reads the     *)
(* clock and then Redis, is taken as one step.  Whether the rate limiter   *)
(* admits a request is left open here (module RateLimiter).                *)
(***************************************************************************)
EXTENDS Naturals

CONSTANTS
    User,       \* user ids
    Thread,     \* requests
    Lifetime,   \* seconds a token lives
    Faults,     \* which faults may happen
    None,       \* no entry, no token, no stamp
    MaxTime     \* bound: the clock stops there

ASSUME AuthAssumption ==
    /\ Lifetime \in Nat \ {0}
    /\ MaxTime \in Nat
    /\ None \notin Nat \cup [stamp : Nat, until : Nat] \cup [user : User, iat : Nat]

VARIABLES
    now,        \* the clock
    redis,      \* TRUE until the connection g_redis is broken
    tokens,     \* the tokens that have been given out
    revoked,    \* revoked:user:<u>, time stamp and expiry
    task,       \* what each request is at
    loggedOut,  \* history: tokens whose logout was done
    disturbed   \* history: users whose revocations met each other (see below)

avars == <<now, redis, tokens, revoked, task, loggedOut, disturbed>>

Time == 0 .. MaxTime

Token == [user : User, iat : Time]

Exp(tok) == tok.iat + Lifetime

Idle == [op |-> "idle"]

Creating(u) == [op |-> "create", user |-> u]

LoggingOut(tok) == [op |-> "logout", user |-> tok.user, token |-> tok]

\* RevokeToken: for which token of a logout, if any, and with which stamp.
Revoking(u, ttl, tok, stamp) ==
    [op |-> "revoke", user |-> u, ttl |-> ttl, token |-> tok, stamp |-> stamp]

AuthTask ==
    {Idle} \cup {Creating(u) : u \in User} \cup {LoggingOut(tok) : tok \in Token}
        \cup [op : {"revoke"}, user : User, ttl : Nat, token : Token \cup {None},
              stamp : Time \cup {None}]

ATypeOK ==
    /\ now \in Time
    /\ redis \in BOOLEAN
    /\ tokens \subseteq Token
    /\ revoked \in [User -> {None} \cup [stamp : Time, until : Nat]]
    /\ task \in [Thread -> AuthTask]
    /\ loggedOut \subseteq tokens
    /\ disturbed \subseteq User

AInit ==
    /\ now = 0
    /\ redis = TRUE
    /\ tokens = {}
    /\ revoked = [u \in User |-> None]
    /\ task = [t \in Thread |-> Idle]
    /\ loggedOut = {}
    /\ disturbed = {}

-----------------------------------------------------------------------------
(* Steps of one request. *)

At(t, op) == task[t].op = op

Do(t, next) ==
    /\ task' = [task EXCEPT ![t] = next]
    /\ UNCHANGED <<now, redis, tokens, revoked, loggedOut, disturbed>>

\* A request of u for a token has come as far as the rate limit, and passed.
CreateToken(t, u) == At(t, "idle") /\ Do(t, Creating(u))

\* create_jwt.
Sign(t) ==
    /\ At(t, "create")
    /\ tokens' = tokens \cup {[user |-> task[t].user, iat |-> now]}
    /\ task' = [task EXCEPT ![t] = Idle]
    /\ UNCHANGED <<now, redis, revoked, loggedOut, disturbed>>

\* A command that fails reads as "not revoked".
is_token_revoked(tok) ==
    /\ redis
    /\ revoked[tok.user] # None
    /\ tok.iat <= revoked[tok.user].stamp

\* The signature is right, and the token has not expired.
verify_jwt(tok) == now <= Exp(tok)

\* ValidateToken.
Valid(tok) == verify_jwt(tok) /\ ~is_token_revoked(tok)

\* handleLogout: authenticateRequest.
Logout(t, tok) ==
    /\ At(t, "idle")
    /\ Valid(tok)
    /\ task' = [task EXCEPT ![t] = LoggingOut(tok)]
    /\ disturbed' = IF redis THEN disturbed ELSE disturbed \cup {tok.user}
    /\ UNCHANGED <<now, redis, tokens, revoked, loggedOut>>

\* Slip: the entry lives for what the token has lived already.
CallRevokeAge(t) ==
    /\ At(t, "logout")
    /\ LET tok == task[t].token
       IN  Do(t, Revoking(tok.user, IF now > tok.iat THEN now - tok.iat ELSE 1, tok, None))

\* Slip: what is left of the token may be nothing.
CallRevokeRest(t) ==
    /\ At(t, "logout")
    /\ LET tok == task[t].token
       IN  Do(t, Revoking(tok.user, Exp(tok) - now, tok, None))

\* What is left of the token, a second at least.
CallRevoke(t) ==
    /\ At(t, "logout")
    /\ LET tok == task[t].token
       IN  Do(t, Revoking(tok.user, IF Exp(tok) > now THEN Exp(tok) - now ELSE 1, tok, None))

\* Slip: the entry of a deleted account lives for a second.
RevokeBriefly(t, u) == At(t, "idle") /\ Do(t, Revoking(u, 1, None, None))

\* RevokeUserToken, for an account that has been deleted.
RevokeUserToken(t, u) == At(t, "idle") /\ Do(t, Revoking(u, Lifetime, None, None))

\* revoke_token reads the clock ...
Stamp(t) ==
    /\ At(t, "revoke")
    /\ task[t].stamp = None
    /\ Do(t, [task[t] EXCEPT !.stamp = now])

\* Another request is going to write the revocation of u.
UnderWay(t, u) ==
    \E r \in Thread \ {t} : (At(r, "logout") \/ At(r, "revoke")) /\ task[r].user = u

\* ... and replaces the entry.  Both callers report success in any case.
SetRevoked(t) ==
    /\ At(t, "revoke")
    /\ task[t].stamp # None
    /\ LET u == task[t].user
       IN  /\ revoked' = IF redis
                         THEN [revoked EXCEPT ![u] = [stamp |-> task[t].stamp,
                                                      until |-> now + task[t].ttl]]
                         ELSE revoked
           /\ disturbed' = IF UnderWay(t, u) THEN disturbed \cup {u} ELSE disturbed
    /\ loggedOut' = IF redis /\ task[t].token # None
                    THEN loggedOut \cup {task[t].token}
                    ELSE loggedOut
    /\ task' = [task EXCEPT ![t] = Idle]
    /\ UNCHANGED <<now, redis, tokens>>

\* auth_server refuses the token, cannot be reached, or answers too late.
CallFails(t) == ~At(t, "idle") /\ Do(t, Idle)

-----------------------------------------------------------------------------
(* Time and faults. *)

RevocationExpires(u) ==
    /\ revoked[u] # None
    /\ revoked[u].until = now
    /\ revoked' = [revoked EXCEPT ![u] = None]
    /\ UNCHANGED <<now, redis, tokens, task, loggedOut, disturbed>>

\* A second ends.  What was to expire in it has expired.
Tick ==
    /\ now < MaxTime
    /\ \A u \in User : revoked[u] # None => revoked[u].until # now
    /\ now' = now + 1
    /\ UNCHANGED <<redis, tokens, revoked, task, loggedOut, disturbed>>

RedisBreaks ==
    /\ "redis" \in Faults
    /\ redis
    /\ redis' = FALSE
    /\ UNCHANGED <<now, tokens, revoked, task, loggedOut, disturbed>>

\* auth_server is killed and started again: it connects anew, and what it was
\* doing is gone.  Requests that are not in auth_server just then go on.
AuthRestart ==
    /\ "crash" \in Faults
    /\ redis' = TRUE
    /\ task' = [t \in Thread |-> IF At(t, "revoke") THEN Idle ELSE task[t]]
    /\ UNCHANGED <<now, tokens, revoked, loggedOut, disturbed>>

AuthStep(t) ==
    \/ Sign(t)
    \/ \E tok \in tokens : Logout(t, tok)
    \/ CallRevoke(t)
    \/ Stamp(t)
    \/ SetRevoked(t)
    \/ CallFails(t)

Environment ==
    \/ \E u \in User : RevocationExpires(u)
    \/ Tick
    \/ RedisBreaks
    \/ AuthRestart

ANext ==
    \/ \E t \in Thread :
        \/ AuthStep(t)
        \/ \E u \in User : CreateToken(t, u) \/ RevokeUserToken(t, u)
    \/ Environment

ASpec == AInit /\ [][ANext]_avars

-----------------------------------------------------------------------------
\* Once a logout has been done for a token, verify_jwt and the revocation
\* together refuse it, even when the steps of the logout are seconds apart and
\* the user logs in and out with other tokens.  Exceptions: Redis cannot be
\* asked; revocations of the user were under way at the same time, or one was
\* begun without asking Redis, so that the later entry may have an older stamp
\* or end earlier; and the very second the token expires in, for which
\* verify_jwt accepts it still: the entry may end in that second (it never
\* does before), and from then on the token is accepted.
LoggedOutStaysOut ==
    \A tok \in loggedOut :
        (redis /\ tok.user \notin disturbed /\ Valid(tok)) =>
            now = Exp(tok) /\ revoked[tok.user] = None

\* A token that was issued before the revocation of its user is not accepted
\* later on, as long as Redis is there and revocations do not meet.
RevokedStaysRevoked ==
    [][\A tok \in tokens :
        (is_token_revoked(tok) /\ tok.iat < revoked[tok.user].stamp) =>
            (redis /\ disturbed = {} /\ now < Exp(tok) => ~Valid(tok))']_avars
=============================================================================
