# TLA+ models of the chat system

The repository is a small instant messenger: four C++ servers, a Go gateway and a browser
client. This directory holds TLA+ modules for the parts of it that are concurrent or that
can lose something, the TLC configurations that check them, and theorems about them checked
by TLAPS. Source lines are lines of the files under `src/`; `PROJECT.json` gives them for
every definition.

## 1. Inventory

| Component | State | Operations | Talks to |
|---|---|---|---|
| WebSocket sessions (`msg_server.cpp`: `ws_listen`, `ws_session`) | one thread and one stream per client; `g_online_connections` (user to stream) under `g_conns_mutex`; `online:<user>` in Redis (30 s) | accept, auth, register, read loop (ping, send, friend request, typing), clean-up | clients, Redis, `auth_server` |
| Message delivery (`msg_server.cpp`: `SendMessage`, `send_msg`, `PullOfflineMessages`) | list `offline_msg:<user>` in Redis | push to the stream of the addressee or append to the list, acknowledge, pop the list | sessions, Redis, batch queue |
| Batch persistence (`msg_server.cpp`: `batch_persist_thread`; `db_server`, `db_proxy`) | `g_batch_queue` under `g_batch_mutex`; table `messages` | enqueue, take the queue at a threshold, one INSERT per batch, put back after a failed call | handlers, `db_server`, MySQL |
| Friend requests (`msg_server.cpp`, `db_proxy.cpp`) | tables `friend_requests`, `friendships`; list `offline_friend_req:<user>` | request, accept, reject, list | delivery path, `db_server` |
| History (`redisCacheMsg`, `GetHistoryMessages`) | sorted set of recent messages per pair, table `messages` | add, read a page from the cache or else from MySQL | Redis, `db_server` |
| Rate limiter (`redisCheckRate`, `auth_server`) | counters `rate:<key>` with expiry | INCR, EXPIRE at the first | Redis |
| Shared Redis connection (`g_redis`) | one hiredis context for all threads | every Redis command | Redis |
| Tokens (`auth_server.cpp`, logout in `gateway/main.go`) | JWTs (stateless), revocation time per user in Redis | issue, validate, revoke | Redis, all servers |
| Accounts (`server.cpp`) | table `users` | register, login, change password, delete account | `db_server`, `auth_server` |
| MySQL proxy (`db_server.cpp`, `db_proxy.cpp`) | one MySQL connection for all threads | CRUD for the tables above | MySQL |
| Gateway (`gateway/main.go`) | none | REST to gRPC | all servers |
| Browser client (`frontend/js/app.js`) | socket, token, chat state in local storage | connect, reconnect, send, render | gateway, WebSocket |

How they interact. A client authenticates on its WebSocket; its thread sets the presence key
in Redis, enters its stream in the map, and drains the list of messages stored for its user.
Any handler, in a gRPC thread or in another session's thread, that has something for a user
reads the presence key, and then either looks the stream up and writes to it, both under
`g_conns_mutex`, or appends to the user's list. Every accepted message also goes to the batch
queue, which one thread writes to MySQL through `db_server`.

What is hard here:

* *lifetime*: the map holds bare addresses of stream objects on the stacks of detached threads;
* *two sources of truth*: the presence key (Redis) and the map (memory) say who is online, and
  change at different times; handlers decide on one and act on the other;
* *several sessions of a user* share one map entry, one key and one list;
* *two-command operations* on Redis (LRANGE then DEL, INCR then EXPIRE);
* *failure*: writes that fail are ignored, a broken Redis connection is never repaired, queues
  live in memory, a reply can be lost after the work was done, a refused INSERT looks like success;
* *blocking under a lock*: clients are written to while the one mutex is held;
* *unsynchronised sharing*: one Redis context and one MySQL connection for all threads.

What makes each component correct: the map never leads to a dead or a foreign stream; presence
keys go away with their sessions; a message reaches its addressee and nobody else, once, or waits in the
list, and what is lost is lost for a reason one can name; the table has every accepted message once and
in order; nobody waits for ever. `PROJECT.json` ("hazards") lists, line by line, where this could go wrong.

## 2. Modules

```
Mailbox <== Delivery ==> ConnRegistry         AuthServer <== Accounts
             (extends ConnRegistry)                     (extends AuthServer)

Archive <== BatchPersist <== History                    Friends      RateLimiter
                     (extends BatchPersist)

<==, ==>  implements: checked by TLC, proved, or both (sections 3 and 4)
```

Each of them has an `MC...` module with the values of one or more `.cfg` files, and its theorems in a
module of its own (`...Proofs`; `Delivery` has two, and those of `BatchPersist` are in `HistoryProofs`). Operators marked
`Slip` are wrong versions of the operator below them, kept next to the right ones as a test of the properties: each
property is known to fail with one of them. Nothing in a specification refers to them.

### ConnRegistry

The threads of `ws_session`, the map, the mutex, the presence keys.

* `Session` is the set of *addresses* of the `ws` objects. A thread that has returned leaves its
  address to the next one, so a dangling pointer in the map would be a pointer to somebody else's
  stream, which is what `NoDanglingConnection` and `WriteHitsLiveStream` exclude. `Worker` is the
  set of gRPC threads.
* `pc[s]` follows the function from top to bottom: `auth` (630-651), `setOnline` (652), `register`
  (653-656), `drain` (660-686), `loop` (716-976), `erase` (978-982), `delOnline` (983), `close` (986).
* `push` is `g_conns_mutex` as long as somebody writes under it. Registration and clean-up hold
  the mutex for one assignment and are one step each, which has to wait while `push` is taken. The
  critical section of a push (287-297 and seven more places that look the same) is two steps,
  `PushBegin` (lock, look up) and `PushEnd` (write done, unlock), since the write may take long.
* The presence key is set by `AnnounceOnline` and `Ping`, removed by `WithdrawOnline`, by
  `UnregisterOnline` and by its expiry. The expiry may come at any time after the last SET: this
  model keeps no clock.
* `redis` turns FALSE when the process's connection breaks; from then on each command returns
  NULL, which the code takes for "not online", an empty list, or nothing at all. `Restart` is the end of the
  process at any point and a new start; it is the only thing that makes `redis` TRUE again. The
  keys in Redis survive it.
* `orphan` is a history variable: the users whose key is left to its expiry.

A Redis command is one atomic step, here and in every other module. This is how the server executes it; that the
threads of the process issue their commands one at a time is an assumption, since they share
one hiredis context without a lock. The one outcome of that race that is modelled is a context that is left in
error (`RedisBreaks`).

### Delivery and Mailbox

`Delivery` extends `ConnRegistry` with `task`, what each thread is doing. `SendBegin`, `CheckOnline`, then
`PushLock` and `PushWrite`, or `Store`, then `AckOwn` (a session acknowledges on its own stream) or
`AckLock` and `AckWrite` (a gRPC thread under the mutex). `PopRead`, `PopDelete`, `Emit` are
`redisPopOfflineMsgs` and the use of its result, by a session between registration and main loop
(`LogIn`), or by `PullOfflineMessages`. Every step contains the step of the registry that it is, so
`Spec` of `ConnRegistry` is one abstract specification of `DSpec`, with the identity as refinement mapping.

`Mailbox` is the other. It says what a sender may rely on, without threads, keys and lists: a posted message
*waits* until it is *given*, what is given stays given, and only a message *at risk* gets *lost*, and then for good. The mapping
(`Box`): given is what an inbox of the addressee has, waiting is what else is in the addressee's list or in the hands of some
thread, lost is the rest of what was sent, at risk is `exposed`. So a message that two threads have in
their hands waits once, and dies when the last of them drops it.

`exposed` and `twice` are history variables. They are set at the *cause* (no stream though the
key was seen; a write that fails; an append between another thread's LRANGE and DEL; Redis broken; a
restart with the message in hand; two pops that have both read), and the properties say that loss and
repetition happen to nothing else. A message may be marked and yet arrive.

Left out: rate limit (`RateLimiter`; a refused frame changes nothing here), message id, history cache and batch queue
(`History`), friend requests (same route, other list), the fate of acks, and the end of the accept loop.

### BatchPersist, Archive and History

`Enqueue` (any handler, under `g_batch_mutex`), `TooFew` and `Swap` (a wake-up of the thread),
`InsertRows` and `RefuseRows` (`BatchCreateMessages` and its one INSERT), `Replied`, `CallFails`,
`ReplyLost`, `Requeue`, `Crash`. Two details of the code decide the model:

* `*req.add_messages() = std::move(m)` (1026) leaves a default record behind (protobuf swaps the contents
  with the new element, both being outside any arena), and that is what `Requeue` puts back: `Blank`;
* the reply of a refused INSERT has `Status::OK`, so `RefuseRows` goes on to `Replied`.

`Big` are the messages whose tuple does not fit `char buf[4096]` (`db_proxy.cpp:457`): the tuple is cut
before its closing quote and MySQL refuses the statement. A statement is atomic (InnoDB, autocommit).

`Archive` says what the way to the table promises, without queue, request and table: messages *arrive* one after the other,
those that wait are *stored* or *refused* from the front, some at a time, and what is settled stays so. The end of the process loses whatever
waits, but for messages at the front whose storing it cannot stop: a request that still arrives. Arrived is `accepted`, stored is what the table has of it, lost is `lost` (`Table`), so that `KeepsArchive` says for
`BatchPersist` that no message is settled before an earlier one, whatever is retried.

`History` adds to the same message its way into the sorted set of the pair: `SendMessage` is `Enqueue` and the
beginning of `redisCacheMsg`, whose ZADD and EXPIRE are `ZAdd` and `Expire`. `left` is the TTL of the set in seconds, and
`CacheExpires` comes at some point of the last one. `GetHistoryMessages` is the choice of the reader: the set if it has
anything, else the table. Every step of `History` is a step of `BatchPersist` or leaves its state alone.

### RateLimiter

`RateIncr` (INCR, and the answer), `RateExpire` (EXPIRE by the thread whose INCR returned 1), `CounterExpires`, `Tick`.
The same function is in `auth_server.cpp` and `msg_server.cpp`. `granted[k][s]` is how many attempts
were permitted in this second and the `s` seconds before it, so `granted[k][Window - 1]` is what a sliding window would look at; `abandoned` are keys whose EXPIRE was lost.

### AuthServer and Accounts

`AuthServer`: `CreateToken` and `Sign` (a token is its user and its issue time), `Valid` (`ValidateToken`: expiry, then
the revocation entry of the user, compared in whole seconds), `Logout`, `CallRevoke` (the gateway computes what is left of the
token), `Stamp` and `SetRevoked` (`revoke_token`: clock, then SETEX, which replaces the entry), `RevokeUserToken` (a deletion's revocation). Between any two steps of a
request others run and seconds go by. `disturbed` collects users whose revocations met each other, so that an older one may have replaced a newer.

An entry is written to live until its token's `exp`, and Redis drops it when the clock reaches that second; `verify_jwt` refuses only after it (`now > expiration`). So
in its last second a logged-out token may be accepted again. `LoggedOutStaysOut` and `DeletedIsLockedOut` cover every second in which `verify_jwt` accepts, and
name this outcome, and it alone of that second, as an exception (section 5).

`Accounts` extends it with the table `users` and the requests of `grpc_server`, one step per call to
`db_server`: `Register` then `Insert`; `Login`; `ChangePassword`, `BatchGet`, `BatchUpdate`; `DeleteAccount`, `BatchDelete`, then the revocation in `AuthServer`;
`DbCallFails`. Each of these is given a password by its client (`given`), and `begun` remembers what the table was when the request began, so that `OwnerDecides` can say that whoever
changes or deletes a row came with the password of that very account. Ids come from AUTO_INCREMENT and are not used again (`used`). A name can be registered again as soon as its row is gone.

### Friends

`SendFriendRequest`, `HandleFriendRequest` (the lookup of the request), `UpdateStatus`, `InsertRow` (each of the
four INSERT IGNORE of an acceptance: two calls of two rows). A statement may be refused, which the caller does not see, and a
call may fail, which it ignores. A client may name any request id in its answer: that of a request to itself, of one to somebody else, of one that comes into being only between lookup and
update, or 0, which is what it is notified of when the INSERT was refused. The lookup is among the requests sent to whoever answers (`FriendOf`), the update is by id alone, so that anybody's answer changes the
status. What keeps friendship to those who consented is the lookup, and nothing else. `consented` are the requests that their addressee accepted, `blind` those whose lookup
failed, `damaged` the pairs for which an acceptance was hit by more than one failure or by a crash.

## 3. Runs

| Run | Shows |
|---|---|
| `registry` | type correctness, `NoDanglingConnection`, `WriteHitsLiveStream`, `OnlineIsBacked` with every fault |
| `delivery` | `NoMisdelivery`, `NoUnexplainedLoss`, `OnceUnlessPopsOverlap`, `KeepsMail` (`DSpec` implements `Mailbox`) with failing writes and `PullOfflineMessages`, a message each way |
| `delivery_crash` | the same with restarts and a broken Redis; `DSpec` implements `Spec` |
| `delivery_live` | `HandlersRun` (a handler waits for nothing but the mutex), `SendCompletes`, `StoredReachesUser`, `DepartedIsCleanedUp` |
| `delivery_window` (violation) | a message that is neither pushed nor stored, without a fault |
| `batch_retry` (violation) | a failed call loses the batch that is "put back" |
| `rate` | `NoImmortalCounter`; `AtMostTwiceTheLimit`: a fixed window lets more than the limit through around its end, but never twice the limit in `Window` consecutive seconds; `LimitEnds` |
| `auth` | `LoggedOutStaysOut` and `DeletedIsLockedOut` over two lifetimes of a token, with steps of logouts and deletions seconds apart and every fault |
| `auth_revived` (violation) | a token that was refused after a logout is valid again: the entry expires with the token that asked for it |
| `accounts` | `UniqueNames` and `OwnerDecides` while two names change hands |
| `friends` | `NoFriendWithoutConsent`, `FriendshipIsMutual`, `ConsentMakesFriends` with answers to any id by anybody, refused statements, lost calls and crashes |
| `history` | `Conservation`: table, request and queue are the accepted messages, in order and once, minus the `lost` ones; `KeepsArchive` (`BSpec` implements `Archive`); `RecentIsShown`: a cached message is in what `GetHistoryMessages` answers, unless Redis cannot be read and the table does not have it yet; `CacheWillExpire`; `FullQueueIsTaken`, `HiddenOnlyForAWhile` |

Bounds.

* *Users and addresses.* Two users, because a property is about the addressee and everybody else. Three stream
  addresses in `registry`: two sessions of one user and one of another that takes a freed address.
  Two in the delivery runs, which have more to do per thread: two sessions of the addressee, or one of each
  user. One gRPC thread, to be a sender or a puller next to them.
* *Messages.* One each way, and one where faults multiply the states. `MaxInbox` stops restarts, and with them the repetition
  of a message whose DEL was lost, after two copies. The safety properties of these runs are also proved, without any bound.
* *Batches.* A threshold of 2 with 3 messages, one of which is `Big`, lets the queue get full, get full with `Blank` records, hold the message that spoils the
  batch, and stay short; `MaxRows` stops the loop in which lost replies fill the table with blank rows. A `Ttl` of 2 lets the expiry be renewed and fall between two commands.
* *Clocks.* `auth`: tokens of 2 seconds, a clock that stops at 4, so that a token can be issued before, in and after the second of a logout or deletion, and a revocation can outlive tokens.
  `auth_revived` needs 3 and 4 for two tokens that differ in what they have left. `accounts` has no clock: its properties are about the order of calls.
  `rate`: limit 2 in 2 seconds, and `MaxTries` one attempt above the limit, after which a counter stands still, being over the limit already.
* *Accounts.* Three ids under two names and with two passwords: a name that is deleted and registered again, with another password, while a request for its old account is under way; two requests at a time, which is every pair of operations. One id in `auth`, where only its tokens matter.
* *Friends.* Two users (who may also ask themselves), two handlers, two requests: one in each direction, or two in the same. An answer by somebody it is not for is one by the sender, or by the other user to a request that a user sent to itself; a third user would find as little. (With three users the run has 5.9 million states and passes as well.)

Addresses, threads, handlers and, where no message names them, users are symmetric (`Symmetry`). No symmetry is used with liveness.
Deadlock is checked, but not where clocks, ids or rows run out by a bound (`auth`, `accounts`, `friends`).

Fairness.

* `DFairness`: strong fairness for every thread that is not waiting for its client. A
  C++ mutex promises no order, so a waiter needs the assumption that it gets the mutex if it is free again and
  again. That includes the end of every write, so a client that stays connected and stops reading is excluded;
  the code has no timeout against it, and with it nobody else would ever get the mutex (hazard at line 293).
* `RFairness`: time goes by, Redis expires what is due, a thread between INCR and EXPIRE goes on.
* `HFairness`: the persistence thread wakes up, calls end one way or the other, handlers go on between ZADD and EXPIRE, time goes by and the set expires.
  All of it is weak: nothing there waits for a lock for longer than a copy.

`HandlersRun` says what `DFairness` gives, with the guards written out instead
of ENABLED: a handler that needs the mutex (`NeedsMutex`) can run when it is free, and one at work can always run. The run `delivery_live` checks that it follows from the
fairness, that is, that no step of a handler has a guard that is not listed there. `ThreadRuns` is the thread's part of `HFairness` in the same form: a wake-up with a
full queue, a call and a failed call are followed by their step; the guards are those of the actions, so that there is nothing to check. The proofs of liveness start from these two.

Nothing is assumed of faults, of the expiry of presence keys, or of clients, except that in the runs and theorems about liveness a write to a client ends.

## 4. Proofs

All theorems hold for any values of the constants that satisfy the named assumptions, which say no more than that `None` and the like are not among the
real values and that limits are natural numbers. The invariants were checked by TLC before they were proved.

**ConnRegistryProofs**: `TypeCorrect`, `NoDangling`, `WritesHitLiveStreams`, `OnlineBacked`, from one inductive
invariant, `IInv`, which adds to the properties

* `KnownUser`: a thread past the authentication has a user (else `Register` could enter a stream for nobody);
* `HolderIsInLoop`: a session that holds the mutex is in its main loop, so no thread leaves with it;
* `PushedIsMapped`: while somebody writes, the map still holds the stream that was found. This is the heart of the
  argument for the bare pointers: the stream under a write is mapped, what is mapped is alive, and its owner
  cannot pass `Erase` because `Erase` needs the mutex.

**DeliveryProofs**: `DeliveryImplementsRegistry` (`DSpec => Spec`), `DeliveryWritesHitLiveStreams` (a corollary) and
`NobodyGetsForeignMessages` (`NoMisdelivery`). The invariant, `DIInv`, says that the thread that writes a message
holds the mutex for the addressee (`PusherHolds`), that a session pops its own user's list (`PopperOwns`), and that lists, inboxes
and what threads have read from lists hold what is addressed to their user. The step that matters is `PushWrite`, which gives the message to whoever is
behind the stream: that this is the addressee is `WriteHitsLiveStream`, proved of the registry.

**DeliveryMailProofs**: `DeliveryImplementsMailbox`, `LossesAreExplained`, `GivenOnce`, `DeliveryTypeCorrect`.

* For the refinement, every action is shown to be one step of the mailbox (`BoxStep`): posting, giving, losing or none. It needs `ReadBeforeDel`: what a DEL is about to
  delete has been read by the same thread or is exposed, because whoever appended it in between saw the pop under way. `LossesAreExplained` then needs nothing
  of the handlers any more: it is the invariant "lost is at risk" of the mailbox.
* `GivenOnce` rests on `OnceFor(u)`: inbox, list and the hands of each thread that has taken messages out of circulation (`Loose`) have no message in common, and
  between LRANGE and DEL a thread is alone with the list. Exactly the steps that put `u` into `twice` break it.

**RateLimiterProofs**: `RateTypeCorrect`, `NoCounterIsImmortal`, from `OneSetter`: a key has at most one thread about to set its expiry, and until then it
counts and has none. So no second INCR can return 1 before the first one's EXPIRE. `FixedWindowIsBounded` (`AtMostTwiceTheLimit`) rests on `Budget`: of what was permitted in
the last `Window` seconds, the counter that is there now let through at most the limit (`Own`), and those before it less than the limit, for some age the present
counter may have (`Created`).

**AuthServerProofs**: `AuthTypeCorrect`, `LogoutIsFinal` (`LoggedOutStaysOut`, up to the last second). The invariant follows the logout: the token was signed before the stamp will be taken (`SignedBefore`),
the time to live computed by the gateway covers what its own token (`CoversOwn`) and every token logged out earlier (`CoversEarlier`) have left, and the entry that is
there does so and is not gone before the token's last second (`EntryCovers`, `EntryFor`), unless the user is `disturbed`.

**AccountsProofs**: `AccountsTypeCorrect`, `NamesAreUnique`, `AccountsAreTheOwners` (`OwnerDecides`, an action property), `DeletionIsFinal` (`DeletedIsLockedOut`), `AccountsRefineAuthServer` (`USpec => ASpec`) and, by
it, `LogoutIsFinalWithAccounts`. For `OwnerDecides`: a call carries the id of an account that had the given password when the request began (`Verified`), and an id is not used again. For the deletion: an account that is gone has no row and its id does not come back (`GoneHasNoRow`), so nobody logs in or out for it any more
(`NoLogin`), its one revocation is the last (`DeletedOnce`), is stamped after every token (`StampCovers`) and lives as long as any (`LivesLong`), so that what is in Redis refuses every token that `verify_jwt` would accept (`LockedOutEntry`).

**FriendsProofs**: `FriendsTypeCorrect`, `FriendsAgree`, `FriendsAreMutual`, `AcceptanceCounts`. A handler that found a sender found it in a request to its own user (`FriendIsSender`), whatever id it was given; one that writes rows has an accepted request behind it (`BefriendAsked`, `RowsAsked`), and its step and its count of faults
say which rows there must be (`StepsWritten`, `RowsOfStep`): with four statements for two rows, one failure leaves both.

**HistoryProofs**: `HistoryTypeCorrect`, `HistoryRefinesBatchPersist` (`HSpec => BSpec`), `RecentStaysShown` (`RecentIsShown`), from `TimeLeft`: the seconds the set has left and those a message has been cached never add up to less than `Ttl`;
and `CacheIsMortal` (`CacheWillExpire`), from `ExpiryInv`: a set without a time to live has a handler between ZADD and EXPIRE.

* `NothingGoesMissing` (`Conservation`) and `PersistenceIsAnArchive` (`KeepsArchive`) share the invariant `BInv`: table, request and queue, one after the other,
  hold messages once and in the order of `accepted`, among blank records that count for nothing (`Intact`), and exactly those that are not lost. The lemmas say how this property of a joined sequence survives what the code
  does to it: an element or blanks added at the end, the middle or the end lost.
* `MessagesAreSettledInOrder` and `NothingGoesMissingWithCache` are corollaries of the refinements; the first by a lemma about `Archive` alone.
* `FullQueueLeaves` (`FullQueueIsTaken`), a liveness theorem: `BSpec /\ ThreadRuns => FullQueueIsTaken`. A message stuck in a full queue stays stuck only while the thread is in one of four stages, each of which `ThreadRuns` ends, and the swap takes the queue.

**Liveness of Delivery** (in `DeliveryMailProofs`), from `HandlersRun`:

* `MutexIsReleased`: whoever holds `g_conns_mutex` is inside a write (`HolderWrites`) and so needs no lock; it runs, and what it does is to unlock. So the mutex is free again and again, which rules out the deadlocks of the hazard at line 289.
* `SendsComplete` and `DepartedAreCleanedUp`: a handler, or a session in its clean-up, stays where it is until it runs, waits for the mutex at most, and has finitely many stages. They hold with every fault.
* `StoredIsFetched` (`StoredReachesUser`): while a session is on its way from the registration to its LRANGE the message stays in the list, or another thread has it in its hands (by `ReadBeforeDel`), or it is `exposed`; and what a thread has in its hands
  it hands over. It assumes that neither `"redis"` nor `"crash"` is among the faults: with Redis broken the session reads an empty list, and a killed process does not go on, so without the assumption the property is false of the code. The run has no faults either.

What the liveness theorems leave to TLC is the step from `SF` and `WF` to `HandlersRun`, and by definition to `ThreadRuns`, since ENABLED is beyond the prover.

Only model-checked: that step; `LimitEnds` and `HiddenOnlyForAWhile`, which count seconds down and would need an induction whose theorem takes an operator as a parameter; and of course the violations.

## 5. Divergences and plan

Found and shown by a run (`PROJECT.json`, "findings"): a message that is neither pushed nor stored (`delivery_window`), a batch that is put back empty (`batch_retry`), a revocation that ends
before the tokens it revokes (`auth_revived`).

Known, and part of the models, without a run of their own:

* The clean-up of a session erases the map entry of its user whatever stream the entry has (`msg_server.cpp:981`): with two sessions of a user, the second becomes unreachable while it stays connected, though `README.md:131` says that whoever is online is pushed to.
  `Erase` does the same, and its effect is a push that finds no stream.
* A queue shorter than the threshold is not written, however long it waits (`msg_server.cpp:1020`); `README.md:59` gives the condition as 50 messages or 5 seconds. `TooFew` does nothing; `FullQueueIsTaken` is about full queues only.
* LRANGE and DEL delete what is appended between them (`msg_server.cpp:102`), though the comment at line 351 takes the pop for the end of a delivery; such messages are `exposed`.
* A logged-out token is accepted for what is left of the second in which it expires, once its entry has ended with the beginning of that second: the entry lives for `exp - now` seconds (`gateway/main.go:323`), and `verify_jwt` refuses only when `now > expiration` (`auth_server.cpp:175`). The same holds of the tokens of a deleted user that were issued in the second of the deletion. `LoggedOutStaysOut` and `DeletedIsLockedOut` make an exception of exactly this.
* Of two sessions of a user, the one that leaves deletes the presence key while the other is connected (`msg_server.cpp:983`), until the next ping of that one; what is sent meanwhile waits for the next login.
* An acceptance whose lookup was refused by the database, which is answered with OK and no rows, marks the request as accepted and makes nobody a friend (`msg_server.cpp:429`); `ConsentMakesFriends` makes an exception of it (`blind`).
* A batch whose INSERT was refused is logged as persisted (`db_server.cpp:157`, `msg_server.cpp:1031`); its messages are `lost`.

What is worth adding next:

1. the browser's reconnection (`app.js`) against `ConnRegistry`: the close event of an old socket after the new one was opened;
2. the notifications of friend requests and their own offline list in `Delivery`, as a second kind of message;
3. the pages of a history, which are cut from the cache or from the table, and may change source between two pages.

## 6. Not modelled

* The unlocked sharing of one hiredis context (`g_redis`) by the threads of `msg_server`, and of one MySQL connection by those of
  `db_server`: undefined behaviour inside the client libraries, whose outcomes depend on their internals. A broken connection and a failed statement are modelled.
* Message contents whose escaped form does not fit `char content_esc[8192]` (`db_proxy.cpp:455`), which is undefined behaviour.
* The end of the accept loop (`ListenerStops`) is a step of `ConnRegistry`, but no property is about it: afterwards no session can be opened, for good.
* A write by a session to its own stream that overlaps a push to it is undefined in Beast; the model
  has its mildest outcome only, a frame that does not arrive.
* The gateway, which keeps no state, but for its logout, which is in `AuthServer`; the browser client; the command line client, a
  manual test driver (its comments expect empty names and passwords to be refused, which `server.cpp` leaves to the database); the scripts.
* `deleteFriendship` and the other functions of `db_proxy` that nothing calls; columns of `users` other than name and password; names in
  friend rows; the list of pending requests and the ids in notifications, which only a client sees; message ids (`redisNextMsgId`); pages and order of a history; encoding and signature of a token.
* The contents of frames and their parsing; TLS and networking below a write that works or fails; generated code and hiredis itself.
* `g_running` is never set to false in the code, so there is no orderly shutdown.
