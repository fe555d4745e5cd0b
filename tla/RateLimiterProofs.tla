-------------------------- MODULE RateLimiterProofs --------------------------
(***************************************************************************)
(* Proofs about RateLimiter, for any keys, threads, limits and windows.    *)
(***************************************************************************)
EXTENDS RateLimiter, TLAPS

\* A key has one thread at most that is about to give it its expiry; until
\* then it counts and has none.  A key that is not there has no expiry.
OneSetter ==
    /\ \A t, r \in Thread : (checking[t] # None /\ checking[t] = checking[r]) => t = r
    /\ \A t \in Thread : checking[t] # None =>
           counter[checking[t]].n > 0 /\ counter[checking[t]].left = None
    /\ \A k \in Key : counter[k].n = 0 => counter[k].left = None

RInv == RTypeOK /\ OneSetter /\ NoImmortalCounter

\* The initial states.
LEMMA RInitInv == RInit => RInv
<1> SUFFICES ASSUME RInit PROVE RInv
    OBVIOUS
<1>1. RTypeOK
    BY RateAssumption DEF RInit, RTypeOK, NoCounter, Ago
<1>2. OneSetter /\ NoImmortalCounter
    BY DEF RInit, OneSetter, NoImmortalCounter, NoCounter
<1> QED
    BY <1>1, <1>2 DEF RInv

\* INCR.
LEMMA RateIncrKeepsInv ==
    ASSUME RInv, NEW t \in Thread, NEW k \in Key, RateIncr(t, k)
    PROVE  RInv'
<1> USE RateAssumption DEF RInv, RateIncr
<1> DEFINE c == counter[k]
<1>1. c.n \in Nat /\ c.left \in (0 .. Window) \cup {None}
    BY DEF RTypeOK
<1>2. /\ counter'[k] = [n |-> c.n + 1, left |-> c.left]
      /\ \A j \in Key \ {k} : counter'[j] = counter[j]
    BY DEF RTypeOK
<1>3. RTypeOK'
  <2>1. counter' \in [Key -> [n : Nat, left : (0 .. Window) \cup {None}]]
      BY <1>1 DEF RTypeOK
  <2>2. checking' \in [Thread -> Key \cup {None}]
      BY DEF RTypeOK
  <2>3. granted' \in [Key -> [Ago -> Nat]]
    <3>1. [s \in Ago |-> granted[k][s] + 1] \in [Ago -> Nat]
        BY DEF RTypeOK
    <3> QED
        BY <3>1 DEF RTypeOK
  <2> QED
      BY <2>1, <2>2, <2>3 DEF RTypeOK
<1>4. CASE c.n = 0
  <2>1. /\ checking' = [checking EXCEPT ![t] = k]
        /\ c.left = None
        /\ \A r \in Thread : checking[r] # k
      BY <1>1, <1>4 DEF OneSetter, RTypeOK
  <2>2. /\ counter'[k].n > 0
        /\ counter'[k].left = None
      BY <1>1, <1>2, <1>4, <2>1
  <2>3. OneSetter'
    <3>1. \A j \in Key \ {k} : counter'[j].n = counter[j].n /\ counter'[j].left = counter[j].left
        BY <1>2
    <3>2. \A r \in Thread : checking'[r] = IF r = t THEN k ELSE checking[r]
        BY <2>1 DEF RTypeOK
    <3> QED
        BY <2>1, <2>2, <3>1, <3>2 DEF OneSetter, RTypeOK
  <2>4. NoImmortalCounter'
      BY <1>2, <2>1 DEF NoImmortalCounter, RTypeOK
  <2> QED
      BY <1>3, <2>3, <2>4
<1>5. CASE c.n # 0
  <2>1. checking' = checking
      BY <1>5 DEF RTypeOK
  <2>2. OneSetter' /\ NoImmortalCounter'
      BY <1>1, <1>2, <1>5, <2>1 DEF OneSetter, NoImmortalCounter, RTypeOK
  <2> QED
      BY <1>3, <2>2
<1> QED
    BY <1>4, <1>5

\* EXPIRE, done or lost.
LEMMA RateExpireKeepsInv ==
    ASSUME RInv, NEW t \in Thread, RateExpire(t)
    PROVE  RInv'
<1> USE RateAssumption DEF RInv, RateExpire
<1> DEFINE k == checking[t]
<1>1. k \in Key /\ Window \in (0 .. Window) \cup {None}
    BY DEF RTypeOK
<1>2. RTypeOK'
  <2>1. counter' \in [Key -> [n : Nat, left : (0 .. Window) \cup {None}]]
    <3>1. counter[k] \in [n : Nat, left : (0 .. Window) \cup {None}]
        BY <1>1 DEF RTypeOK
    <3>2. [counter[k] EXCEPT !.left = Window] \in [n : Nat, left : (0 .. Window) \cup {None}]
        BY <1>1, <3>1
    <3> QED
        BY <1>1, <3>2 DEF RTypeOK
  <2>2. checking' \in [Thread -> Key \cup {None}] /\ abandoned' \in SUBSET Key
      BY <1>1 DEF RTypeOK
  <2> QED
      BY <2>1, <2>2 DEF RTypeOK
<1>3. checking' = [checking EXCEPT ![t] = None] /\ \A r \in Thread \ {t} : checking[r] # k
    BY DEF OneSetter
<1>4. CASE redis
  <2>1. /\ counter'[k].left = Window
        /\ counter'[k].n = counter[k].n
        /\ \A j \in Key \ {k} : counter'[j] = counter[j]
      BY <1>1, <1>4 DEF RTypeOK
  <2>2. counter[k].n \in Nat /\ counter[k].n > 0
      BY <1>1 DEF OneSetter, RTypeOK
  <2>3. OneSetter'
    <3>1. \A j \in Key \ {k} : counter'[j].n = counter[j].n /\ counter'[j].left = counter[j].left
        BY <2>1
    <3>2. \A r \in Thread : checking'[r] = IF r = t THEN None ELSE checking[r]
        BY <1>3 DEF RTypeOK
    <3> QED
        BY <1>3, <2>1, <2>2, <3>1, <3>2 DEF OneSetter, RTypeOK
  <2>4. Window # None
      OBVIOUS
  <2>5. NoImmortalCounter'
    <3> SUFFICES ASSUME NEW j \in Key \ abandoned, counter'[j].n > 0, counter'[j].left = None
                 PROVE  \E r \in Thread : /\ checking'[r] = j
                                          /\ \A q \in Thread \ {r} : checking'[q] # j
        BY <1>4 DEF NoImmortalCounter
    <3>1. j # k /\ counter'[j] = counter[j]
        BY <2>1, <2>4
    <3>2. PICK r \in Thread : checking[r] = j /\ \A q \in Thread \ {r} : checking[q] # j
        BY <3>1 DEF NoImmortalCounter
    <3>3. r # t /\ j # None
        BY <3>1, <3>2
    <3> QED
        BY <1>3, <3>2, <3>3 DEF RTypeOK
  <2> QED
      BY <1>2, <2>3, <2>5
<1>5. CASE ~redis
  <2>1. OneSetter' /\ NoImmortalCounter'
      BY <1>1, <1>3, <1>5 DEF OneSetter, NoImmortalCounter, RTypeOK
  <2> QED
      BY <1>2, <2>1
<1> QED
    BY <1>4, <1>5

\* The invariant is inductive.
LEMMA RNextKeepsInv == RInv /\ [RNext]_rvars => RInv'
<1> SUFFICES ASSUME RInv, [RNext]_rvars PROVE RInv'
    OBVIOUS
<1> USE RateAssumption DEF RInv
<1>1. CASE \E t \in Thread, k \in Key : RateIncr(t, k)
    BY <1>1, RateIncrKeepsInv
<1>2. CASE \E t \in Thread : RateExpire(t)
    BY <1>2, RateExpireKeepsInv
<1>3. ASSUME NEW k \in Key, CounterExpires(k)
      PROVE  RInv'
  <2>1. RTypeOK'
      BY <1>3 DEF CounterExpires, RTypeOK, NoCounter
  <2>2. /\ counter'[k] = NoCounter
        /\ \A j \in Key \ {k} : counter'[j] = counter[j]
        /\ \A t \in Thread : checking[t] # k
      BY <1>3 DEF CounterExpires, RTypeOK, OneSetter
  <2>3. OneSetter' /\ NoImmortalCounter'
      BY <1>3, <2>2 DEF CounterExpires, OneSetter, NoImmortalCounter, NoCounter, RTypeOK
  <2> QED
      BY <2>1, <2>3
<1>4. CASE Tick
  <2>1. \A k \in Key :
            /\ counter'[k].n = counter[k].n
            /\ counter'[k].left = IF counter[k].left = None THEN None ELSE counter[k].left - 1
      BY <1>4 DEF Tick, RTypeOK
  <2>2. \A k \in Key :
            LET left == IF counter[k].left = None THEN None ELSE counter[k].left - 1
            IN  /\ left \in (0 .. Window) \cup {None}
                /\ left = None <=> counter[k].left = None
    <3> TAKE k \in Key
    <3>1. counter[k].left \in (0 .. Window) \cup {None} /\ counter[k].left # 0
        BY <1>4 DEF Tick, RTypeOK
    <3>2. CASE counter[k].left = None
        BY <3>2
    <3>3. CASE counter[k].left \in 0 .. Window
        BY <3>1, <3>3
    <3> QED
        BY <3>1, <3>2, <3>3
  <2>3. counter' \in [Key -> [n : Nat, left : (0 .. Window) \cup {None}]]
      BY <1>4, <2>2 DEF Tick, RTypeOK
  <2>4. granted' \in [Key -> [Ago -> Nat]]
    <3>1. \A k \in Key : \A s \in Ago : s # 0 => granted[k][s - 1] \in Nat
        BY DEF RTypeOK, Ago
    <3> QED
        BY <1>4, <3>1 DEF Tick
  <2>5. RTypeOK'
      BY <1>4, <2>3, <2>4 DEF Tick, RTypeOK
  <2>6. OneSetter' /\ NoImmortalCounter'
      BY <1>4, <2>1, <2>2 DEF Tick, OneSetter, NoImmortalCounter, RTypeOK
  <2> QED
      BY <2>5, <2>6
<1>5. CASE RedisBreaks
    BY <1>5 DEF RedisBreaks, RTypeOK, OneSetter, NoImmortalCounter
<1>6. CASE Restart
  <2>1. RTypeOK'
      BY <1>6 DEF Restart, RTypeOK
  <2>2. OneSetter' /\ NoImmortalCounter'
      BY <1>6 DEF Restart, OneSetter, NoImmortalCounter, RTypeOK
  <2> QED
      BY <2>1, <2>2
<1>7. CASE UNCHANGED rvars
    BY <1>7 DEF rvars, RTypeOK, OneSetter, NoImmortalCounter, Ago
<1> QED
    BY <1>1, <1>2, <1>3, <1>4, <1>5, <1>6, <1>7 DEF RNext

-----------------------------------------------------------------------------
(* How many attempts are permitted. *)

\* The attempts that a counter has permitted.
Own(k) == IF counter[k].n < MaxCount THEN counter[k].n ELSE MaxCount

\* The counter of k may have been created that many seconds ago: it has not
\* been given more than Window seconds, and what was permitted after the second
\* of its creation is its own and not the first that it permitted.
Created(k, age) ==
    /\ counter[k].left # None => age + counter[k].left >= Window
    /\ \A s \in Ago : s < age => granted[k][s] < Own(k)

\* What counters before the present one have permitted is less than one limit.
Budget ==
    \A k \in Key :
        /\ \A s \in Ago : granted[k][s] < MaxCount + Own(k)
        /\ counter[k].n > 0 => \E age \in 0 .. Window : Created(k, age)

LEMMA OwnFacts ==
    ASSUME RTypeOK, NEW k \in Key
    PROVE  /\ Own(k) \in 0 .. MaxCount
           /\ counter[k].n \in Nat
           /\ counter[k].left \in (0 .. Window) \cup {None}
           /\ counter[k].n > 0 => Own(k) > 0
           /\ counter[k].n = 0 => Own(k) = 0
           /\ \A s \in Ago : granted[k][s] \in Nat
BY RateAssumption DEF RTypeOK, Own

LEMMA RInitBudget == RInit => Budget
<1> SUFFICES ASSUME RInit, NEW k \in Key
             PROVE  /\ \A s \in Ago : granted[k][s] < MaxCount + Own(k)
                    /\ ~(counter[k].n > 0)
    BY DEF Budget
<1>1. counter[k].n = 0 /\ \A s \in Ago : granted[k][s] = 0
    BY DEF RInit, NoCounter
<1> QED
    BY <1>1, RateAssumption DEF Own

\* An attempt: the counter it creates is of this second, and the one it finds
\* has permitted one attempt less.
LEMMA RateIncrKeepsBudget ==
    ASSUME RInv, Budget, NEW t \in Thread, NEW k \in Key, RateIncr(t, k)
    PROVE  Budget'
<1> USE RateAssumption
<1>1. RTypeOK /\ OneSetter /\ RTypeOK'
    BY RateIncrKeepsInv DEF RInv
<1>2. /\ counter'[k].n = counter[k].n + 1
      /\ counter'[k].left = counter[k].left
      /\ \A j \in Key \ {k} : counter'[j] = counter[j] /\ granted'[j] = granted[j]
    BY <1>1 DEF RateIncr, RTypeOK
<1>3. /\ Own(k) \in 0 .. MaxCount /\ counter[k].n \in Nat
      /\ counter[k].left \in (0 .. Window) \cup {None}
      /\ \A s \in Ago : granted[k][s] \in Nat
    BY <1>1, OwnFacts
<1>4. Own(k)' = IF Permitted(k) THEN Own(k) + 1 ELSE Own(k)
    BY <1>2, <1>3 DEF Own, Permitted
<1>5. \A s \in Ago : granted'[k][s] = IF Permitted(k) THEN granted[k][s] + 1 ELSE granted[k][s]
    BY <1>1 DEF RateIncr, RTypeOK
<1>6. \A s \in Ago : granted'[k][s] < MaxCount + Own(k)'
    BY <1>3, <1>4, <1>5 DEF Budget
<1>7. \E age \in 0 .. Window : Created(k, age)'
  <2>1. CASE counter[k].n = 0
    <3>1. counter'[k].left = None
        BY <1>1, <1>2, <2>1 DEF OneSetter
    <3>2. 0 \in 0 .. Window /\ \A s \in Ago : ~(s < 0)
        BY DEF Ago
    <3> QED
        BY <3>1, <3>2 DEF Created
  <2>2. CASE counter[k].n # 0
    <3>1. PICK age \in 0 .. Window : Created(k, age)
        BY <1>3, <2>2 DEF Budget
    <3>2. Created(k, age)'
        BY <1>2, <1>3, <1>4, <1>5, <3>1 DEF Created
    <3> QED
        BY <3>2
  <2> QED
      BY <2>1, <2>2
<1>8. ASSUME NEW j \in Key \ {k}
      PROVE  /\ \A s \in Ago : granted'[j][s] < MaxCount + Own(j)'
             /\ counter'[j].n > 0 => \E age \in 0 .. Window : Created(j, age)'
    BY <1>2, <1>8 DEF Budget, Own, Created
<1> QED
    BY <1>6, <1>7, <1>8 DEF Budget

\* EXPIRE gives a counter a whole window, so any age will do that it had.
LEMMA RateExpireKeepsBudget ==
    ASSUME RInv, Budget, NEW t \in Thread, RateExpire(t)
    PROVE  Budget'
<1> USE RateAssumption
<1> DEFINE k == checking[t]
<1>1. /\ k \in Key
      /\ counter'[k].n = counter[k].n
      /\ counter'[k].left \in {counter[k].left, Window}
      /\ \A j \in Key \ {k} : counter'[j] = counter[j]
      /\ granted' = granted
    BY DEF RateExpire, RInv, RTypeOK
<1>2. \A j \in Key : Own(j)' = Own(j) /\ counter'[j].n = counter[j].n
    BY <1>1 DEF Own
<1>3. \A age \in 0 .. Window : age + Window >= Window
    OBVIOUS
<1>4. \A j \in Key, age \in 0 .. Window : Created(j, age) => Created(j, age)'
    BY <1>1, <1>2, <1>3 DEF Created
<1> QED
    BY <1>1, <1>2, <1>4 DEF Budget

\* The counter goes, and with it all but what it permitted after its first.
LEMMA CounterExpiresKeepsBudget ==
    ASSUME RInv, Budget, NEW k \in Key, CounterExpires(k)
    PROVE  Budget'
<1> USE RateAssumption
<1>1. /\ counter[k].left = 0 /\ counter'[k].n = 0
      /\ \A j \in Key \ {k} : counter'[j] = counter[j]
      /\ granted' = granted
    BY DEF CounterExpires, NoCounter, RInv, RTypeOK
<1>2. /\ Own(k) \in 0 .. MaxCount /\ counter[k].n \in Nat
      /\ \A s \in Ago : granted[k][s] \in Nat
    BY OwnFacts DEF RInv
<1>3. counter[k].n > 0
    BY <1>1, <1>2 DEF RInv, OneSetter
<1>4. PICK age \in 0 .. Window : Created(k, age)
    BY <1>3 DEF Budget
<1>5. age >= Window
    BY <1>1, <1>4 DEF Created
<1>6. \A s \in Ago : granted[k][s] < MaxCount
    BY <1>2, <1>4, <1>5 DEF Created, Ago
<1>7. Own(k)' = 0
    BY <1>1 DEF Own
<1>8. ASSUME NEW j \in Key \ {k}
      PROVE  /\ \A s \in Ago : granted'[j][s] < MaxCount + Own(j)'
             /\ counter'[j].n > 0 => \E a \in 0 .. Window : Created(j, a)'
    BY <1>1, <1>8 DEF Budget, Own, Created
<1> QED
    BY <1>1, <1>6, <1>7, <1>8 DEF Budget

\* A second ends: everything is a second older.
LEMMA TickKeepsBudget ==
    ASSUME RInv, Budget, Tick
    PROVE  Budget'
<1> USE RateAssumption
<1> SUFFICES ASSUME NEW k \in Key
             PROVE  /\ \A s \in Ago : granted'[k][s] < MaxCount + Own(k)'
                    /\ counter'[k].n > 0 => \E age \in 0 .. Window : Created(k, age)'
    BY DEF Budget
<1>1. /\ counter'[k].n = counter[k].n
      /\ counter[k].left # 0
      /\ counter'[k].left = IF counter[k].left = None THEN None ELSE counter[k].left - 1
      /\ \A s \in Ago : granted'[k][s] = IF s = 0 THEN 0 ELSE granted[k][s - 1]
    BY DEF Tick, RInv, RTypeOK
<1>2. /\ Own(k) \in 0 .. MaxCount /\ counter[k].n \in Nat
      /\ counter[k].left \in (0 .. Window) \cup {None}
      /\ counter[k].n > 0 => Own(k) > 0
      /\ \A s \in Ago : granted[k][s] \in Nat
    BY OwnFacts DEF RInv
<1>3. Own(k)' = Own(k)
    BY <1>1 DEF Own
<1>4. \A s \in Ago : s # 0 => s - 1 \in Ago
    BY DEF Ago
<1>5. \A s \in Ago : granted'[k][s] < MaxCount + Own(k)'
    BY <1>1, <1>2, <1>3, <1>4 DEF Budget
<1>6. ASSUME counter'[k].n > 0 PROVE \E age \in 0 .. Window : Created(k, age)'
  <2>1. PICK age \in 0 .. Window : Created(k, age)
      BY <1>1, <1>6 DEF Budget
  <2> DEFINE older == IF age = Window THEN Window ELSE age + 1
  <2>2. older \in 0 .. Window
      OBVIOUS
  <2>3. counter'[k].left # None => older + counter'[k].left >= Window
      BY <1>1, <1>2, <2>1 DEF Created
  <2>4. \A s \in Ago : s < older => granted'[k][s] < Own(k)'
    <3> SUFFICES ASSUME NEW s \in Ago, s < older PROVE granted'[k][s] < Own(k)
        BY <1>3
    <3>1. CASE s = 0
        BY <1>1, <1>2, <1>6, <3>1
    <3>2. CASE s # 0
      <4>1. s - 1 \in Ago /\ s - 1 < age
          BY <3>2 DEF Ago
      <4> QED
          BY <1>1, <2>1, <3>2, <4>1 DEF Created
    <3> QED
        BY <3>1, <3>2
  <2>5. Created(k, older)'
      BY <2>3, <2>4 DEF Created
  <2> QED
      BY <2>2, <2>5
<1> QED
    BY <1>5, <1>6

LEMMA RNextKeepsBudget == RInv /\ Budget /\ [RNext]_rvars => Budget'
<1> SUFFICES ASSUME RInv, Budget, [RNext]_rvars PROVE Budget'
    OBVIOUS
<1>1. CASE \E t \in Thread, k \in Key : RateIncr(t, k)
    BY <1>1, RateIncrKeepsBudget
<1>2. CASE \E t \in Thread : RateExpire(t)
    BY <1>2, RateExpireKeepsBudget
<1>3. CASE \E k \in Key : CounterExpires(k)
    BY <1>3, CounterExpiresKeepsBudget
<1>4. CASE Tick
    BY <1>4, TickKeepsBudget
<1>5. CASE UNCHANGED <<counter, granted>>
    BY <1>5 DEF Budget, Own, Created
<1>6. CASE RedisBreaks \/ Restart \/ UNCHANGED rvars
    BY <1>5, <1>6 DEF RedisBreaks, Restart, rvars
<1> QED
    BY <1>1, <1>2, <1>3, <1>4, <1>6 DEF RNext

-----------------------------------------------------------------------------
\* The variables of redisCheckRate keep their types, with any limit and window.
THEOREM RateTypeCorrect == RSpec => []RTypeOK
<1>1. RInv => RTypeOK
    BY DEF RInv
<1> QED
    BY <1>1, RInitInv, RNextKeepsInv, PTL DEF RSpec

\* A counter without expiry has one thread that is about to set it, unless its
\* EXPIRE was lost: two threads never both believe that they created the key.
THEOREM NoCounterIsImmortal == RSpec => []NoImmortalCounter
<1>1. RInv => NoImmortalCounter
    BY DEF RInv
<1> QED
    BY <1>1, RInitInv, RNextKeepsInv, PTL DEF RSpec

\* However the attempts of a key fall around the end of its counter, and however
\* late the EXPIRE of a counter comes, fewer than two limits of them are
\* permitted in Window consecutive seconds.
THEOREM FixedWindowIsBounded == RSpec => []AtMostTwiceTheLimit
<1> USE RateAssumption
<1>1. RInv /\ Budget => AtMostTwiceTheLimit
  <2> SUFFICES ASSUME RInv, Budget, NEW k \in Key
               PROVE  granted[k][Window - 1] < 2 * MaxCount
      BY DEF AtMostTwiceTheLimit
  <2>1. Window - 1 \in Ago
      BY DEF Ago
  <2>2. Own(k) \in 0 .. MaxCount /\ granted[k][Window - 1] \in Nat
      BY <2>1, OwnFacts DEF RInv
  <2>3. granted[k][Window - 1] < MaxCount + Own(k)
      BY <2>1 DEF Budget
  <2> QED
      BY <2>2, <2>3
<1> QED
    BY <1>1, RInitInv, RInitBudget, RNextKeepsInv, RNextKeepsBudget, PTL DEF RSpec
=============================================================================
