---------------------------- MODULE HistoryProofs ----------------------------
(***************************************************************************)
(* Proofs about BatchPersist and History, for any messages, batch size and *)
(* time to live of the cache.                                              *)
(*                                                                         *)
(* BInv says what the table, the request and the queue hold together:      *)
(* from it follow Conservation and, action by action, that BatchPersist    *)
(* implements Archive.  CacheInv and ExpiryInv are about the cache.  The   *)
(* last part is the liveness of the thread: ThreadRuns empties a full      *)
(* queue.                                                                  *)
(***************************************************************************)
EXTENDS History, TLAPS

hall == <<bvars, hvars>>

\* The set lives on for at least as long as any message in it is recent.
TimeLeft ==
    \A m \in Msg : since[m] # None =>
        /\ m \in cache
        /\ left # None => left + since[m] >= Ttl

\* The invariant of the cache.
CacheInv == HTypeOK /\ TimeLeft

-----------------------------------------------------------------------------
(* Types. *)

\* Sequences of records, joined and extended.
LEMMA SeqFacts ==
    /\ \A S, T : S \subseteq T => Seq(S) \subseteq Seq(T)
    /\ \A S : <<>> \in Seq(S)
    /\ \A S : \A s, t \in Seq(S) : s \o t \in Seq(S)
    /\ \A S : \A s \in Seq(S), e \in S : Append(s, e) \in Seq(S)
<1>1. ASSUME NEW S, NEW T, S \subseteq T, NEW s \in Seq(S) PROVE s \in Seq(T)
  <2>1. s \in [1 .. Len(s) -> S] /\ Len(s) \in Nat
      BY <1>1
  <2>2. s \in [1 .. Len(s) -> T]
      BY <1>1, <2>1
  <2> QED
      BY <2>1, <2>2
<1> QED
    BY <1>1

\* What a failed call puts back.
LEMMA BlanksInSeq ==
    ASSUME NEW s \in Seq(Record)
    PROVE  [i \in 1 .. Len(s) |-> Blank] \in Seq(Record)
<1>1. Len(s) \in Nat
    OBVIOUS
<1>2. [i \in 1 .. Len(s) |-> Blank] \in [1 .. Len(s) -> Record]
    BY DEF Record
<1> QED
    BY <1>1, <1>2

LEMMA BInitTypes == BInit => BTypeOK
BY SeqFacts DEF BInit, BTypeOK

LEMMA BNextTypes == BTypeOK /\ [BNext]_bvars => BTypeOK'
<1> SUFFICES ASSUME BTypeOK, [BNext]_bvars PROVE BTypeOK'
    OBVIOUS
<1> USE SeqFacts DEF BTypeOK
<1>a. Msg \subseteq Record
    BY DEF Record
<1>1. ASSUME NEW m \in Msg, Enqueue(m) PROVE BTypeOK'
    BY <1>1, <1>a DEF Enqueue
<1>2. CASE TooFew
    BY <1>2 DEF TooFew, bvars
<1>3. CASE Swap
    BY <1>3 DEF Swap
<1>4. CASE InsertRows
    BY <1>4 DEF InsertRows
<1>5. CASE RefuseRows
    BY <1>5 DEF RefuseRows
<1>6. CASE Replied \/ CallFails \/ ReplyLost
    BY <1>6 DEF Replied, CallFails, ReplyLost
<1>7. CASE Requeue
    BY <1>7, BlanksInSeq DEF Requeue
<1>8. CASE Crash
    BY <1>8 DEF Crash
<1>9. CASE UNCHANGED bvars
    BY <1>9 DEF bvars
<1> QED
    BY <1>1, <1>2, <1>3, <1>4, <1>5, <1>6, <1>7, <1>8, <1>9 DEF BNext, DbServer, EndOfCall

-----------------------------------------------------------------------------
(* Sequences of rows, and the log of what was accepted. *)

\* The messages among some rows.
Content(rows) == ToSet(rows) \cap Msg

PrecedesIn(log, a, b) ==
    \E i, j \in DOMAIN log : i < j /\ log[i] = a /\ log[j] = b

OrderedBy(log, rows) ==
    \A i, j \in DOMAIN rows :
        i < j /\ {rows[i], rows[j]} \subseteq Msg => PrecedesIn(log, rows[i], rows[j])

\* The rows are what is in the log and not gone, in the order of the log.
Intact(log, gone, rows) ==
    /\ IsInjective(log)
    /\ Content(rows) = ToSet(log) \ gone
    /\ OrderedBy(log, rows)

LEMMA JoinElements ==
    ASSUME NEW S, NEW s \in Seq(S), NEW t \in Seq(S)
    PROVE  /\ ToSet(s \o t) = ToSet(s) \cup ToSet(t)
           /\ Content(s \o t) = Content(s) \cup Content(t)
<1>1. /\ Len(s) \in Nat /\ Len(t) \in Nat
      /\ DOMAIN s = 1 .. Len(s) /\ DOMAIN t = 1 .. Len(t)
      /\ DOMAIN (s \o t) = 1 .. Len(s) + Len(t)
    OBVIOUS
<1>2. \A i \in DOMAIN s : i \in DOMAIN (s \o t) /\ (s \o t)[i] = s[i]
    BY <1>1
<1>3. \A i \in DOMAIN t : Len(s) + i \in DOMAIN (s \o t) /\ (s \o t)[Len(s) + i] = t[i]
    BY <1>1
<1>4. \A i \in DOMAIN (s \o t) : i \in DOMAIN s \/ \E j \in DOMAIN t : i = Len(s) + j
  <2> SUFFICES ASSUME NEW i \in DOMAIN (s \o t), i \notin DOMAIN s
               PROVE  i - Len(s) \in DOMAIN t /\ i = Len(s) + (i - Len(s))
      OBVIOUS
  <2> QED
      BY <1>1
<1> DEFINE r == s \o t
<1> HIDE DEF r
<1>5. \A a : (\E i \in DOMAIN r : r[i] = a) <=>
              (\E i \in DOMAIN s : s[i] = a) \/ (\E i \in DOMAIN t : t[i] = a)
    BY <1>2, <1>3, <1>4 DEF r
<1>6. ToSet(r) = ToSet(s) \cup ToSet(t)
    BY <1>5 DEF ToSet
<1> QED
    BY <1>6 DEF Content, r

\* Two sequences joined are in order if each is, and all of the first comes
\* before all of the second.
LEMMA JoinOrder ==
    ASSUME NEW log, NEW s \in Seq(Record), NEW t \in Seq(Record)
    PROVE  OrderedBy(log, s \o t) <=>
               /\ OrderedBy(log, s)
               /\ OrderedBy(log, t)
               /\ \A a \in Content(s), b \in Content(t) : PrecedesIn(log, a, b)
<1> DEFINE r == s \o t
<1>1. /\ Len(s) \in Nat /\ Len(t) \in Nat
      /\ DOMAIN s = 1 .. Len(s) /\ DOMAIN t = 1 .. Len(t)
      /\ DOMAIN r = 1 .. Len(s) + Len(t)
    OBVIOUS
<1>2. \A i \in DOMAIN s : i \in DOMAIN r /\ r[i] = s[i]
    BY <1>1
<1>3. \A i \in DOMAIN t : Len(s) + i \in DOMAIN r /\ r[Len(s) + i] = t[i]
    BY <1>1
<1>4. \A i \in DOMAIN r : i \in DOMAIN s \/ (i - Len(s) \in DOMAIN t /\ r[i] = t[i - Len(s)])
    BY <1>1
<1> HIDE DEF r
<1>5. ASSUME OrderedBy(log, r)
      PROVE  /\ OrderedBy(log, s)
             /\ OrderedBy(log, t)
             /\ \A a \in Content(s), b \in Content(t) : PrecedesIn(log, a, b)
  <2>1. OrderedBy(log, s)
      BY <1>2, <1>5 DEF OrderedBy
  <2>2. OrderedBy(log, t)
    <3> SUFFICES ASSUME NEW i \in DOMAIN t, NEW j \in DOMAIN t, i < j, {t[i], t[j]} \subseteq Msg
                 PROVE  PrecedesIn(log, t[i], t[j])
        BY DEF OrderedBy
    <3>1. Len(s) + i < Len(s) + j
        BY <1>1
    <3> QED
        BY <1>3, <1>5, <3>1 DEF OrderedBy
  <2>3. ASSUME NEW a \in Content(s), NEW b \in Content(t)
        PROVE  PrecedesIn(log, a, b)
    <3>1. PICK i \in DOMAIN s : a = s[i]
        BY DEF Content, ToSet
    <3>2. PICK j \in DOMAIN t : b = t[j]
        BY DEF Content, ToSet
    <3>3. i < Len(s) + j
        BY <1>1
    <3>4. a \in Msg /\ b \in Msg
        BY DEF Content
    <3> QED
        BY <1>2, <1>3, <1>5, <3>1, <3>2, <3>3, <3>4 DEF OrderedBy
  <2> QED
      BY <2>1, <2>2, <2>3
<1>6. ASSUME OrderedBy(log, s), OrderedBy(log, t),
             \A a \in Content(s), b \in Content(t) : PrecedesIn(log, a, b)
      PROVE  OrderedBy(log, r)
  <2> SUFFICES ASSUME NEW i \in DOMAIN r, NEW j \in DOMAIN r, i < j, {r[i], r[j]} \subseteq Msg
               PROVE  PrecedesIn(log, r[i], r[j])
      BY DEF OrderedBy
  <2>1. CASE i \in DOMAIN s /\ j \in DOMAIN s
      BY <1>2, <1>6, <2>1 DEF OrderedBy
  <2>2. CASE i \in DOMAIN s /\ j \notin DOMAIN s
    <3>1. r[i] \in Content(s) /\ r[j] \in Content(t)
        BY <1>2, <1>4, <2>2 DEF Content, ToSet
    <3> QED
        BY <1>6, <3>1
  <2>3. CASE i \notin DOMAIN s
    <3>1. j \notin DOMAIN s
        BY <1>1, <2>3
    <3>2. i - Len(s) < j - Len(s)
        BY <1>1
    <3> QED
        BY <1>4, <1>6, <2>3, <3>1, <3>2 DEF OrderedBy
  <2> QED
      BY <2>1, <2>2, <2>3
<1> QED
    BY <1>5, <1>6 DEF r

\* The same for two sequences, one after the other.
JoinedIntact(log, gone, s, t) ==
    /\ IsInjective(log)
    /\ Content(s) \cup Content(t) = ToSet(log) \ gone
    /\ OrderedBy(log, s)
    /\ OrderedBy(log, t)
    /\ \A a \in Content(s), b \in Content(t) : PrecedesIn(log, a, b)

LEMMA JoinIntact ==
    ASSUME NEW log, NEW gone, NEW s \in Seq(Record), NEW t \in Seq(Record)
    PROVE  Intact(log, gone, s \o t) <=>
               JoinedIntact(log, gone, s, t)
BY JoinElements, JoinOrder DEF Intact, JoinedIntact

\* In a log without repetitions nothing comes before itself, so two parts of an
\* intact sequence have nothing in common.
LEMMA PartsAreDisjoint ==
    ASSUME NEW log \in Seq(Msg), NEW gone, NEW s \in Seq(Record), NEW t \in Seq(Record),
           Intact(log, gone, s \o t)
    PROVE  Content(s) \cap Content(t) = {}
<1> SUFFICES ASSUME NEW a \in Content(s), a \in Content(t) PROVE FALSE
    OBVIOUS
<1>a. JoinedIntact(log, gone, s, t)
    BY JoinIntact
<1>1. PICK i \in DOMAIN log, j \in DOMAIN log : i < j /\ log[i] = a /\ log[j] = a
    BY <1>a DEF JoinedIntact, PrecedesIn
<1>2. i = j
    BY <1>1, <1>a DEF JoinedIntact, IsInjective
<1>3. DOMAIN log \subseteq Nat
    OBVIOUS
<1> QED
    BY <1>1, <1>2, <1>3

\* What loses its end, its middle or its beginning is intact but for that.
LEMMA LoseEnd ==
    ASSUME NEW log \in Seq(Msg), NEW gone, NEW s \in Seq(Record), NEW t \in Seq(Record),
           Intact(log, gone, s \o t)
    PROVE  Intact(log, gone \cup Content(t), s)
<1>1. JoinedIntact(log, gone, s, t)
    BY JoinIntact
<1>2. Content(s) \cap Content(t) = {}
    BY PartsAreDisjoint
<1> QED
    BY <1>1, <1>2 DEF JoinedIntact, Intact

LEMMA LoseMiddle ==
    ASSUME NEW log \in Seq(Msg), NEW gone,
           NEW s \in Seq(Record), NEW t \in Seq(Record), NEW u \in Seq(Record),
           Intact(log, gone, s \o (t \o u))
    PROVE  /\ Intact(log, gone \cup Content(t), s \o u)
           /\ Content(t) \cap Content(u) = {}
           /\ \A a \in Content(t), b \in Content(u) : PrecedesIn(log, a, b)
<1>1. t \o u \in Seq(Record) /\ Content(t \o u) = Content(t) \cup Content(u)
    BY JoinElements, SeqFacts
<1>2. /\ IsInjective(log)
      /\ Content(s) \cup Content(t) \cup Content(u) = ToSet(log) \ gone
      /\ OrderedBy(log, s) /\ OrderedBy(log, t \o u)
      /\ \A a \in Content(s), b \in Content(t) \cup Content(u) : PrecedesIn(log, a, b)
  <2>1. JoinedIntact(log, gone, s, t \o u)
      BY <1>1, JoinIntact
  <2> QED
      BY <1>1, <2>1 DEF JoinedIntact
<1>3. /\ OrderedBy(log, t) /\ OrderedBy(log, u)
      /\ \A a \in Content(t), b \in Content(u) : PrecedesIn(log, a, b)
    BY <1>2, JoinOrder
<1>4. Content(s) \cap (Content(t) \cup Content(u)) = {}
    BY <1>1, PartsAreDisjoint
<1>5. Intact(log, ToSet(log) \ Content(t \o u), t \o u)
    BY <1>1, <1>2 DEF Intact
<1>6. Content(t) \cap Content(u) = {}
    BY <1>5, PartsAreDisjoint
<1>7. Content(s) \cup Content(u) = ToSet(log) \ (gone \cup Content(t))
    BY <1>2, <1>4, <1>6
<1>8. JoinedIntact(log, gone \cup Content(t), s, u)
    BY <1>2, <1>3, <1>7 DEF JoinedIntact
<1> QED
    BY <1>3, <1>6, <1>8, JoinIntact

\* Rows without content change nothing.
LEMMA AddBlanks ==
    ASSUME NEW log, NEW gone, NEW s \in Seq(Record), NEW t \in Seq(Record),
           Intact(log, gone, s)
    PROVE  Intact(log, gone, s \o [i \in 1 .. Len(t) |-> Blank])
<1> DEFINE b == [i \in 1 .. Len(t) |-> Blank]
<1>1. b \in Seq(Record)
    BY BlanksInSeq
<1>2. \A i \in DOMAIN b : b[i] \notin Msg
    BY BatchAssumption
<1>3. Content(b) = {} /\ OrderedBy(log, b)
    BY <1>2 DEF Content, ToSet, OrderedBy
<1> HIDE DEF b
<1>4. JoinedIntact(log, gone, s, b)
    BY <1>3 DEF Intact, JoinedIntact
<1> QED
    BY <1>1, <1>4, JoinIntact DEF b

LEMMA JoinAssociates ==
    ASSUME NEW s \in Seq(Record), NEW t \in Seq(Record), NEW u \in Seq(Record)
    PROVE  s \o (t \o u) = (s \o t) \o u
OBVIOUS

\* What is accepted last goes to the end.
LEMMA AddLast ==
    ASSUME NEW log \in Seq(Msg), NEW gone, gone \subseteq ToSet(log), NEW s \in Seq(Record),
           Intact(log, gone, s), NEW m \in Msg, m \notin ToSet(log)
    PROVE  Intact(Append(log, m), gone, s \o <<m>>)
<1> DEFINE l == Append(log, m)
<1>1. /\ Len(log) \in Nat /\ DOMAIN log = 1 .. Len(log)
      /\ DOMAIN l = 1 .. Len(log) + 1
      /\ \A i \in DOMAIN log : i \in DOMAIN l /\ l[i] = log[i]
      /\ l[Len(log) + 1] = m
      /\ \A i \in DOMAIN l : i \in DOMAIN log \/ i = Len(log) + 1
    OBVIOUS
<1> HIDE DEF l
<1>2. ToSet(l) = ToSet(log) \cup {m}
    BY <1>1 DEF ToSet
<1>3. IsInjective(l)
    BY <1>1 DEF Intact, IsInjective, ToSet
<1>4. \A a, b : PrecedesIn(log, a, b) => PrecedesIn(l, a, b)
    BY <1>1 DEF PrecedesIn
<1>5. ASSUME NEW a \in ToSet(log) PROVE PrecedesIn(l, a, m)
  <2>1. PICK i \in DOMAIN log : log[i] = a
      BY DEF ToSet
  <2>2. Len(log) + 1 \in DOMAIN l /\ i < Len(log) + 1 /\ l[i] = a
      BY <1>1, <2>1
  <2> QED
      BY <1>1, <2>2 DEF PrecedesIn
<1>6. OrderedBy(l, s)
    BY <1>4 DEF Intact, OrderedBy
<1>7. /\ <<m>> \in Seq(Record)
      /\ Content(<<m>>) = {m}
      /\ OrderedBy(l, <<m>>)
  <2>1. m \in Record
      BY DEF Record
  <2>2. DOMAIN <<m>> = {1} /\ <<m>>[1] = m
      OBVIOUS
  <2> QED
      BY <2>1, <2>2 DEF Content, ToSet, OrderedBy
<1>8. Content(s) \cup Content(<<m>>) = ToSet(l) \ gone
    BY <1>2, <1>7 DEF Intact
<1>9. \A a \in Content(s), b \in Content(<<m>>) : PrecedesIn(l, a, b)
    BY <1>5, <1>7 DEF Intact
<1>10. JoinedIntact(l, gone, s, <<m>>)
    BY <1>3, <1>6, <1>7, <1>8, <1>9 DEF JoinedIntact
<1> QED
    BY <1>7, <1>10, JoinIntact DEF l

-----------------------------------------------------------------------------
(* The queue, the request and the table. *)

\* The invariant of the persistence thread.  A request that has been answered
\* or has failed holds nothing any more whose fate is open.
BInv ==
    /\ BTypeOK
    /\ lost \subseteq ToSet(accepted)
    /\ Intact(accepted, lost, db \o Pending)
    /\ stage = "sleep" => req = <<>>
    /\ stage \in {"reply", "failed"} => Content(req) \subseteq ToSet(db) \cup lost

ArchiveStep == [Table!XNext]_(Table!xvars)

LEMMA BInvFacts ==
    ASSUME BInv
    PROVE  /\ queue \in Seq(Record) /\ req \in Seq(Record) /\ db \in Seq(Record)
           /\ accepted \in Seq(Msg) /\ lost \subseteq Msg
           /\ Pending \in Seq(Record)
           /\ stage = "call" => Pending = req \o queue
           /\ stage # "call" => Pending = queue
           /\ JoinedIntact(accepted, lost, db, Pending)
           /\ Content(db) \cap Content(Pending) = {}
<1>1. /\ queue \in Seq(Record) /\ req \in Seq(Record) /\ db \in Seq(Record)
      /\ accepted \in Seq(Msg) /\ lost \subseteq Msg
    BY DEF BInv, BTypeOK
<1>2. stage # "call" => Pending = queue
    BY <1>1 DEF Pending
<1>3. stage = "call" => Pending = req \o queue
    BY DEF Pending
<1>4. Pending \in Seq(Record)
    BY <1>1, <1>2, <1>3, SeqFacts
<1>5. JoinedIntact(accepted, lost, db, Pending)
    BY <1>1, <1>4, JoinIntact DEF BInv
<1>6. Content(db) \cap Content(Pending) = {}
    BY <1>1, <1>4, PartsAreDisjoint DEF BInv
<1> QED
    BY <1>1, <1>2, <1>3, <1>4, <1>5, <1>6

\* What waits in the archive is what is on its way to the table.
LEMMA WaitingIsPending ==
    ASSUME BInv
    PROVE  Table!Waiting = Content(Pending)
<1>1. /\ Content(db) \cup Content(Pending) = ToSet(accepted) \ lost
      /\ Content(db) \cap Content(Pending) = {}
    BY BInvFacts DEF JoinedIntact
<1> QED
    BY <1>1 DEF Table!Waiting, Table!ToSet, ToSet, Content

\* The records of a request are the first of what waits.
LEMMA RequestIsAtTheFront ==
    ASSUME BInv, stage = "call"
    PROVE  /\ Content(Pending) = Content(req) \cup Content(queue)
           /\ Content(req) \in SUBSET Table!Waiting
           /\ Table!AtTheFront(Content(req))
           /\ Table!Waiting \ Content(req) = Content(queue)
           /\ Content(req) \cap Content(db) = {}
           /\ Intact(accepted, lost \cup Content(req), db \o queue)
           /\ Intact(accepted, lost, (db \o req) \o queue)
<1>1. Intact(accepted, lost, db \o (req \o queue))
    BY BInvFacts DEF BInv
<1>2. /\ Intact(accepted, lost \cup Content(req), db \o queue)
      /\ Content(req) \cap Content(queue) = {}
      /\ \A a \in Content(req), b \in Content(queue) : PrecedesIn(accepted, a, b)
    BY <1>1, BInvFacts, LoseMiddle
<1>3. Content(Pending) = Content(req) \cup Content(queue)
  <2>1. Pending = req \o queue /\ req \in Seq(Record) /\ queue \in Seq(Record)
      BY BInvFacts
  <2>2. Content(req \o queue) = Content(req) \cup Content(queue)
      BY <2>1, JoinElements
  <2> QED
      BY <2>1, <2>2
<1>4. Table!Waiting = Content(req) \cup Content(queue)
    BY <1>3, WaitingIsPending
<1>5. Table!AtTheFront(Content(req))
    BY <1>2, <1>4 DEF Table!AtTheFront, Table!Before, PrecedesIn
<1>6. (db \o req) \o queue = db \o (req \o queue)
    BY BInvFacts, JoinAssociates
<1> QED
    BY <1>1, <1>2, <1>3, <1>4, <1>5, <1>6, BInvFacts

LEMMA BInitInv == BInit => BInv /\ Table!XInit
<1> SUFFICES ASSUME BInit PROVE BInv /\ Table!XInit
    OBVIOUS
<1>1. /\ db = <<>> /\ req = <<>> /\ accepted = <<>> /\ lost = {} /\ stage = "sleep"
      /\ db \o Pending = <<>>
    BY DEF BInit, Pending
<1>2. ToSet(<<>>) = {}
    BY DEF ToSet
<1>3. Intact(<<>>, {}, <<>>)
    BY <1>2 DEF Intact, Content, OrderedBy, IsInjective
<1> QED
    BY <1>1, <1>2, <1>3, BInitTypes DEF BInv, Table!XInit

\* A message is accepted: it arrives.
LEMMA EnqueueKeeps ==
    ASSUME BInv, NEW m \in Msg, Enqueue(m), BTypeOK'
    PROVE  BInv' /\ ArchiveStep
<1>1. /\ m \notin ToSet(accepted) /\ accepted' = Append(accepted, m)
      /\ queue' = Append(queue, m) /\ UNCHANGED <<stage, req, db, lost>>
    BY DEF Enqueue
<1>2. /\ m \in Record /\ <<m>> \in Seq(Record)
      /\ Append(queue, m) = queue \o <<m>>
    BY BInvFacts DEF Record
<1>3. Pending' = Pending \o <<m>>
  <2>1. CASE stage = "call"
      BY <1>1, <1>2, <2>1, BInvFacts, JoinAssociates DEF Pending
  <2>2. CASE stage # "call"
      BY <1>1, <1>2, <2>2, BInvFacts DEF Pending
  <2> QED
      BY <2>1, <2>2
<1>4. db' \o Pending' = (db \o Pending) \o <<m>>
    BY <1>1, <1>2, <1>3, BInvFacts, JoinAssociates
<1>5. db \o Pending \in Seq(Record)
    BY BInvFacts, SeqFacts
<1>6. Intact(accepted', lost', db' \o Pending')
    BY <1>1, <1>4, <1>5, BInvFacts, AddLast DEF BInv
<1>7. ToSet(accepted) \subseteq ToSet(accepted')
  <2>1. \A i \in DOMAIN accepted : i \in DOMAIN accepted' /\ accepted'[i] = accepted[i]
      BY <1>1, BInvFacts
  <2> QED
      BY <2>1 DEF ToSet
<1>8. BInv'
    BY <1>1, <1>6, <1>7 DEF BInv, Intact, Content, OrderedBy, PrecedesIn
<1>9. Table!Arrive(m)
    BY <1>1 DEF Table!Arrive, Table!ToSet, ToSet
<1> QED
    BY <1>8, <1>9 DEF ArchiveStep, Table!XNext

\* Steps of the thread that move records without changing what is on its way.
LEMMA SwapKeeps ==
    ASSUME BInv, Swap, BTypeOK'
    PROVE  BInv' /\ ArchiveStep
<1>1. /\ stage = "sleep" /\ stage' = "call" /\ req' = queue /\ queue' = <<>>
      /\ UNCHANGED <<db, accepted, lost>>
    BY DEF Swap
<1>2. Pending' = Pending
    BY <1>1, BInvFacts DEF Pending
<1>3. BInv'
    BY <1>1, <1>2 DEF BInv, Intact, Content, OrderedBy, PrecedesIn
<1> QED
    BY <1>1, <1>3 DEF ArchiveStep, Table!xvars

LEMMA RepliedKeeps ==
    ASSUME BInv, Replied \/ ReplyLost, BTypeOK'
    PROVE  BInv' /\ ArchiveStep
<1>1. /\ stage = "reply" /\ stage' \in {"sleep", "failed"}
      /\ stage' = "sleep" => req' = <<>>
      /\ stage' = "failed" => req' = req
      /\ UNCHANGED <<queue, db, accepted, lost>>
    BY DEF Replied, ReplyLost
<1>2. Pending' = Pending
    BY <1>1, BInvFacts DEF Pending
<1>3. BInv'
    BY <1>1, <1>2 DEF BInv, Intact, Content, OrderedBy, PrecedesIn
<1> QED
    BY <1>1, <1>3 DEF ArchiveStep, Table!xvars

LEMMA RequeueKeeps ==
    ASSUME BInv, Requeue, BTypeOK'
    PROVE  BInv' /\ ArchiveStep
<1> DEFINE blanks == [i \in 1 .. Len(req) |-> Blank]
<1>1. /\ stage = "failed" /\ stage' = "sleep" /\ req' = <<>> /\ queue' = queue \o blanks
      /\ UNCHANGED <<db, accepted, lost>>
    BY DEF Requeue
<1>2. blanks \in Seq(Record)
    BY BInvFacts, BlanksInSeq
<1>3. Pending = queue /\ Pending' = queue \o blanks
    BY <1>1, <1>2, BInvFacts, SeqFacts DEF Pending
<1>4. db \o queue \in Seq(Record) /\ db \o (queue \o blanks) = (db \o queue) \o blanks
    BY <1>2, BInvFacts, JoinAssociates, SeqFacts
<1>5. Intact(accepted, lost, (db \o queue) \o blanks)
    BY <1>3, <1>4, BInvFacts, AddBlanks DEF BInv
<1>6. Intact(accepted', lost', db' \o Pending')
    BY <1>1, <1>3, <1>4, <1>5
<1>7. BInv'
    BY <1>1, <1>6 DEF BInv, Intact, Content, OrderedBy, PrecedesIn
<1> QED
    BY <1>1, <1>7 DEF ArchiveStep, Table!xvars

\* The batch at the front is stored ...
LEMMA InsertRowsKeeps ==
    ASSUME BInv, InsertRows, BTypeOK'
    PROVE  BInv' /\ ArchiveStep
<1>1. /\ stage = "call" /\ stage' = "reply" /\ db' = db \o req
      /\ UNCHANGED <<queue, req, accepted, lost>>
    BY DEF InsertRows
<1>2. Pending' = queue
    BY <1>1, BInvFacts DEF Pending
<1>3. Intact(accepted', lost', db' \o Pending')
    BY <1>1, <1>2, RequestIsAtTheFront
<1>4. ToSet(db') = ToSet(db) \cup ToSet(req)
    BY <1>1, BInvFacts, JoinElements
<1>5. BInv'
    BY <1>1, <1>3, <1>4 DEF BInv, Intact, Content, OrderedBy, PrecedesIn
<1>6. ToSet(db') \cap Msg = (ToSet(db) \cap Msg) \cup Content(req)
    BY <1>4 DEF Content
<1>7. Table!Store(Content(req))
    BY <1>1, <1>6, RequestIsAtTheFront DEF Table!Store
<1> QED
    BY <1>1, <1>5, <1>7, RequestIsAtTheFront DEF ArchiveStep, Table!XNext

\* ... or refused.
LEMMA RefuseKeeps ==
    ASSUME BInv, RefuseRows \/ CallFails, BTypeOK'
    PROVE  BInv' /\ ArchiveStep
<1>1. /\ stage = "call" /\ stage' \in {"reply", "failed"}
      /\ lost' = lost \cup Content(req)
      /\ UNCHANGED <<queue, req, db, accepted>>
    BY DEF RefuseRows, CallFails, Content
<1>2. Pending' = queue
    BY <1>1, BInvFacts DEF Pending
<1>3. Intact(accepted', lost', db' \o Pending')
    BY <1>1, <1>2, RequestIsAtTheFront
<1>4. Content(req) \subseteq ToSet(accepted)
    BY <1>1, BInvFacts, RequestIsAtTheFront DEF JoinedIntact
<1>5. BInv'
    BY <1>1, <1>3, <1>4 DEF BInv, Intact, Content, OrderedBy, PrecedesIn
<1>6. Table!Refuse(Content(req))
    BY <1>1, RequestIsAtTheFront DEF Table!Refuse
<1> QED
    BY <1>1, <1>5, <1>6, RequestIsAtTheFront DEF ArchiveStep, Table!XNext

\* The process is killed; its request may still arrive.
LEMMA CrashKeeps ==
    ASSUME BInv, Crash, BTypeOK'
    PROVE  BInv' /\ ArchiveStep
<1>1. PICK arrives \in BOOLEAN :
          /\ arrives => stage = "call"
          /\ db' = IF arrives THEN db \o req ELSE db
          /\ lost' = lost \cup ((ToSet(queue \o req) \cap Msg) \ ToSet(db'))
    BY DEF Crash
<1>2. queue' = <<>> /\ req' = <<>> /\ stage' = "sleep" /\ accepted' = accepted
    BY DEF Crash
<1>3. Pending' = <<>> /\ db' \o Pending' = db' /\ db' \in Seq(Record)
    BY <1>2 DEF Pending, BTypeOK
<1>4. ToSet(queue \o req) \cap Msg = Content(queue) \cup Content(req)
    BY BInvFacts, JoinElements DEF Content
<1> DEFINE kept == IF arrives THEN Content(req) ELSE {}
<1>5. /\ kept \in SUBSET Table!Waiting
      /\ Table!AtTheFront(kept)
      /\ ToSet(db') \cap Msg = (ToSet(db) \cap Msg) \cup kept
      /\ lost' = lost \cup (Table!Waiting \ kept)
      /\ Intact(accepted, lost', db')
  <2>1. CASE arrives
    <3>1. stage = "call" /\ db' = db \o req
        BY <1>1, <2>1
    <3>2. ToSet(db') = ToSet(db) \cup ToSet(req)
        BY <3>1, BInvFacts, JoinElements
    <3>3. Intact(accepted, lost, db' \o queue)
        BY <3>1, RequestIsAtTheFront
    <3>4. Content(db') \cap Content(queue) = {}
        BY <1>3, <3>3, BInvFacts, PartsAreDisjoint
    <3>5. Intact(accepted, lost \cup Content(queue), db')
        BY <1>3, <3>3, BInvFacts, LoseEnd
    <3>6. lost' = lost \cup Content(queue)
        BY <1>1, <1>4, <3>2, <3>4 DEF Content
    <3> QED
        BY <2>1, <3>1, <3>2, <3>5, <3>6, RequestIsAtTheFront DEF Content
  <2>2. CASE ~arrives
    <3>1. db' = db
        BY <1>1, <2>2
    <3>2. Content(db) \cap Content(Pending) = {} /\ Table!Waiting = Content(Pending)
        BY BInvFacts, WaitingIsPending
    <3>3. Intact(accepted, lost \cup Content(Pending), db)
        BY BInvFacts, LoseEnd DEF BInv
    <3>4. lost' = lost \cup Content(Pending)
      <4>1. CASE stage = "call"
        <5>1. Content(Pending) = Content(req) \cup Content(queue)
            BY <4>1, RequestIsAtTheFront
        <5> QED
            BY <1>1, <1>4, <3>1, <3>2, <5>1 DEF Content
      <4>2. CASE stage # "call"
        <5>1. Content(Pending) = Content(queue)
            BY <4>2, BInvFacts
        <5>2. Content(req) \subseteq ToSet(db) \cup lost
            BY <4>2 DEF BInv, BTypeOK, Content, ToSet
        <5> QED
            BY <1>1, <1>4, <3>1, <3>2, <5>1, <5>2 DEF Content
      <4> QED
          BY <4>1, <4>2
    <3>5. Table!AtTheFront({})
        BY DEF Table!AtTheFront
    <3> QED
        BY <2>2, <3>1, <3>2, <3>3, <3>4, <3>5
  <2> QED
      BY <2>1, <2>2
<1>6. lost' \subseteq ToSet(accepted)
    BY <1>5 DEF BInv, Table!Waiting, Table!ToSet, ToSet
<1>7. Intact(accepted', lost', db' \o Pending')
    BY <1>2, <1>3, <1>5
<1>8. BInv'
    BY <1>2, <1>6, <1>7 DEF BInv, Intact, Content, OrderedBy, PrecedesIn
<1>9. Table!Perish(kept)
    BY <1>2, <1>5 DEF Table!Perish
<1> QED
    BY <1>5, <1>8, <1>9 DEF ArchiveStep, Table!XNext

LEMMA BNextKeeps == BInv /\ [BNext]_bvars => BInv' /\ ArchiveStep
<1> SUFFICES ASSUME BInv, [BNext]_bvars PROVE BInv' /\ ArchiveStep
    OBVIOUS
<1>1. BTypeOK'
    BY BNextTypes DEF BInv
<1>2. CASE TooFew \/ UNCHANGED bvars
  <2>1. UNCHANGED bvars
      BY <1>2 DEF TooFew
  <2>2. Pending' = Pending
      BY <2>1 DEF bvars, Pending
  <2>3. BInv'
      BY <1>1, <2>1, <2>2 DEF BInv, bvars, Intact, Content, OrderedBy, PrecedesIn
  <2> QED
      BY <2>1, <2>3 DEF ArchiveStep, Table!xvars, bvars
<1> QED
    BY <1>1, <1>2, EnqueueKeeps, SwapKeeps, RepliedKeeps, RequeueKeeps, InsertRowsKeeps, RefuseKeeps,
       CrashKeeps
    DEF BNext, DbServer, EndOfCall

-----------------------------------------------------------------------------
(* The cache. *)

LEMMA HInitInv == HInit => CacheInv
BY HistoryAssumption, BInitTypes DEF HInit, CacheInv, HTypeOK, TimeLeft

\* With the cache added, the queue and the table behave as they do without it.
LEMMA HNextRefines == [HNext]_hall => [BNext]_bvars
BY DEF HNext, hall, hvars, SendMessage, ZAdd, Expire, CacheExpires, Tick, RedisBreaks, Restart, Persist,
    BNext

LEMMA HNextKeeps == CacheInv /\ [HNext]_hall => CacheInv'
<1> SUFFICES ASSUME CacheInv, [HNext]_hall PROVE CacheInv'
    OBVIOUS
<1> USE HistoryAssumption
<1>a. BTypeOK'
    BY HNextRefines, BNextTypes DEF CacheInv, HTypeOK
<1>b. /\ redis \in BOOLEAN /\ cache \subseteq Msg /\ left \in (0 .. Ttl) \cup {None}
      /\ caching \in [Msg -> {"no", "zadd", "expire"}]
      /\ since \in [Msg -> (0 .. Ttl - 1) \cup {None}] /\ immortal \in BOOLEAN
      /\ TimeLeft
    BY DEF CacheInv, HTypeOK
<1>1. CASE UNCHANGED <<redis, cache, left, since, immortal>>
           /\ \E m \in Msg : caching' \in {caching, [caching EXCEPT ![m] = "zadd"]}
    BY <1>1, <1>a, <1>b DEF CacheInv, HTypeOK, TimeLeft
<1>2. ASSUME NEW m \in Msg, ZAdd(m) PROVE CacheInv'
    BY <1>2, <1>a, <1>b DEF ZAdd, Step, CacheInv, HTypeOK, TimeLeft
<1>3. ASSUME NEW m \in Msg, Expire(m) PROVE CacheInv'
  <2>1. /\ left' = IF redis /\ cache # {} THEN Ttl ELSE left
        /\ since' = [since EXCEPT ![m] = IF redis /\ m \in cache THEN 0 ELSE None]
        /\ caching' = [caching EXCEPT ![m] = "no"]
        /\ immortal' \in BOOLEAN /\ UNCHANGED <<redis, cache>>
      BY <1>3, <1>b DEF Expire, Step
  <2>2. /\ left' \in (0 .. Ttl) \cup {None}
        /\ since' \in [Msg -> (0 .. Ttl - 1) \cup {None}]
        /\ caching' \in [Msg -> {"no", "zadd", "expire"}]
      BY <1>b, <2>1
  <2>3. ASSUME NEW n \in Msg, since'[n] # None
        PROVE  n \in cache /\ (left' # None => left' + since'[n] >= Ttl)
    <3>1. since'[n] = since[n] \/ (since'[n] = 0 /\ redis /\ n = m /\ m \in cache)
        BY <1>b, <2>1, <2>3
    <3>2. CASE redis /\ cache # {}
      <4>1. left' = Ttl /\ since'[n] \in Nat
          BY <2>1, <2>2, <2>3, <3>2
      <4> QED
          BY <1>b, <2>3, <3>1, <4>1 DEF TimeLeft
    <3>3. CASE ~(redis /\ cache # {})
        BY <1>b, <2>1, <2>3, <3>1, <3>3 DEF TimeLeft
    <3> QED
        BY <3>2, <3>3
  <2> QED
      BY <1>a, <1>b, <2>1, <2>2, <2>3 DEF CacheInv, HTypeOK, TimeLeft
<1>4. CASE CacheExpires
  <2>1. \A m \in Msg : since[m] = None
      BY <1>4, <1>b DEF CacheExpires, TimeLeft
  <2> QED
      BY <1>4, <1>a, <1>b, <2>1 DEF CacheExpires, CacheInv, HTypeOK, TimeLeft
<1>5. CASE Tick
  <2>1. /\ left # 0 /\ left' = IF left = None THEN None ELSE left - 1
        /\ since' = [m \in Msg |-> IF since[m] = None \/ since[m] + 1 = Ttl
                                   THEN None ELSE since[m] + 1]
        /\ UNCHANGED <<redis, cache, caching, immortal>>
      BY <1>5 DEF Tick
  <2>2. left' \in (0 .. Ttl) \cup {None} /\ (left' # None => left \in Nat /\ left' = left - 1)
      BY <1>b, <2>1
  <2>3. ASSUME NEW m \in Msg
        PROVE  /\ since'[m] \in (0 .. Ttl - 1) \cup {None}
               /\ since'[m] # None => since[m] # None /\ since[m] \in Nat /\ since'[m] = since[m] + 1
    <3>1. CASE since[m] = None
        BY <2>1, <3>1
    <3>2. CASE since[m] # None
        BY <1>b, <2>1, <3>2
    <3> QED
        BY <3>1, <3>2
  <2>4. since' \in [Msg -> (0 .. Ttl - 1) \cup {None}]
      BY <2>1, <2>3
  <2>5. TimeLeft'
      BY <1>b, <2>1, <2>2, <2>3 DEF TimeLeft
  <2> QED
      BY <1>a, <1>b, <2>1, <2>2, <2>4, <2>5 DEF CacheInv, HTypeOK
<1>6. CASE RedisBreaks
    BY <1>6, <1>a, <1>b DEF RedisBreaks, CacheInv, HTypeOK, TimeLeft
<1>7. CASE Restart
    BY <1>7, <1>a, <1>b DEF Restart, CacheInv, HTypeOK, TimeLeft
<1>8. ASSUME NEW m \in Msg, SendMessage(m) PROVE CacheInv'
    BY <1>1, <1>8 DEF SendMessage, Step
<1>9. CASE Persist \/ UNCHANGED hall
    BY <1>9, <1>a, <1>b DEF Persist, hall, hvars, CacheInv, HTypeOK, TimeLeft
<1> QED
    BY <1>2, <1>3, <1>4, <1>5, <1>6, <1>7, <1>8, <1>9 DEF HNext

-----------------------------------------------------------------------------
(* Whether the cache expires. *)

\* Only handlers of accepted messages are busy with the cache, so a handler
\* that is about to set an expiry is not replaced by another.
ExpiryInv ==
    /\ \A m \in Msg : caching[m] # "no" => m \in ToSet(accepted)
    /\ CacheWillExpire

LEMMA HInitExpiry == HInit => ExpiryInv
BY DEF HInit, ExpiryInv, CacheWillExpire

LEMMA HNextExpiry == CacheInv /\ ExpiryInv /\ [HNext]_hall => ExpiryInv'
<1> SUFFICES ASSUME CacheInv, ExpiryInv, [HNext]_hall PROVE ExpiryInv'
    OBVIOUS
<1> USE HistoryAssumption
<1>a. /\ left \in (0 .. Ttl) \cup {None}
      /\ caching \in [Msg -> {"no", "zadd", "expire"}]
      /\ accepted \in Seq(Msg)
    BY DEF CacheInv, HTypeOK, BTypeOK
<1>b. /\ \A m \in Msg : caching[m] # "no" => m \in ToSet(accepted)
      /\ (cache # {} /\ left = None /\ ~immortal) => \E m \in Msg : caching[m] = "expire"
    BY DEF ExpiryInv, CacheWillExpire
<1>1. ASSUME NEW m \in Msg, SendMessage(m) PROVE ExpiryInv'
  <2>1. /\ m \notin ToSet(accepted) /\ accepted' = Append(accepted, m)
        /\ caching' = [caching EXCEPT ![m] = "zadd"]
        /\ UNCHANGED <<cache, left, immortal>>
      BY <1>1 DEF SendMessage, Enqueue, Step
  <2>2. ToSet(accepted') = ToSet(accepted) \cup {m}
    <3>1. /\ Len(accepted) \in Nat /\ DOMAIN accepted = 1 .. Len(accepted)
          /\ DOMAIN accepted' = 1 .. Len(accepted) + 1
          /\ \A i \in DOMAIN accepted : accepted'[i] = accepted[i]
          /\ accepted'[Len(accepted) + 1] = m
        BY <1>a, <2>1
    <3> QED
        BY <3>1 DEF ToSet
  <2>3. \A n \in Msg : caching[n] = "expire" => caching'[n] = "expire"
      BY <1>a, <1>b, <2>1
  <2>4. \A n \in Msg : caching'[n] # "no" => n \in ToSet(accepted')
      BY <1>a, <1>b, <2>1, <2>2
  <2> QED
      BY <1>b, <2>1, <2>3, <2>4 DEF ExpiryInv, CacheWillExpire, ToSet
<1>2. ASSUME NEW m \in Msg, ZAdd(m) PROVE ExpiryInv'
  <2>1. /\ caching[m] = "zadd" /\ caching' = [caching EXCEPT ![m] = "expire"]
        /\ accepted' = accepted
      BY <1>2 DEF ZAdd, Step, bvars
  <2>2. caching'[m] = "expire"
      BY <1>a, <2>1
  <2> QED
      BY <1>a, <1>b, <2>1, <2>2 DEF ExpiryInv, CacheWillExpire, ToSet
<1>3. ASSUME NEW m \in Msg, Expire(m) PROVE ExpiryInv'
  <2>1. /\ left' = IF redis /\ cache # {} THEN Ttl ELSE left
        /\ immortal' = (~redis /\ (immortal \/ (cache # {} /\ left = None)))
        /\ caching' = [caching EXCEPT ![m] = "no"]
        /\ UNCHANGED <<cache, accepted>>
      BY <1>3 DEF Expire, Step, bvars
  <2>2. \A n \in Msg : caching'[n] # "no" => n \in ToSet(accepted)
      BY <1>a, <1>b, <2>1
  <2>3. Ttl # None
      OBVIOUS
  <2>4. ~(cache' # {} /\ left' = None /\ ~immortal')
      BY <2>1, <2>3
  <2> QED
      BY <2>1, <2>2, <2>4 DEF ExpiryInv, CacheWillExpire, ToSet
<1>4. CASE CacheExpires
    BY <1>4, <1>b DEF CacheExpires, bvars, ExpiryInv, CacheWillExpire, ToSet
<1>5. CASE Tick
  <2>1. /\ left # 0 /\ left' = IF left = None THEN None ELSE left - 1
        /\ UNCHANGED <<cache, caching, immortal, accepted>>
      BY <1>5 DEF Tick, bvars
  <2>2. left' = None => left = None
      BY <1>a, <2>1
  <2> QED
      BY <1>b, <2>1, <2>2 DEF ExpiryInv, CacheWillExpire, ToSet
<1>6. CASE Restart
    BY <1>6, <1>b DEF Restart, Crash, ExpiryInv, CacheWillExpire, ToSet
<1>7. CASE RedisBreaks \/ Persist \/ UNCHANGED hall
  <2>1. UNCHANGED <<cache, left, caching, immortal, accepted>>
      BY <1>7 DEF RedisBreaks, Persist, hall, hvars, bvars, TooFew, Swap, DbServer, InsertRows, RefuseRows,
                  EndOfCall, Replied, CallFails, ReplyLost, Requeue
  <2> QED
      BY <1>b, <2>1 DEF ExpiryInv, CacheWillExpire, ToSet
<1> QED
    BY <1>1, <1>2, <1>3, <1>4, <1>5, <1>6, <1>7 DEF HNext

-----------------------------------------------------------------------------
(* The archive. *)

ArchiveInv ==
    /\ accepted \in Seq(Msg)
    /\ (ToSet(db) \cap Msg) \cup lost \subseteq ToSet(accepted)
    /\ Table!SettledInOrder

LEMMA ArchiveInitInv == Table!XInit => ArchiveInv
BY SeqFacts DEF Table!XInit, ArchiveInv, Table!SettledInOrder, Table!Waiting, Table!ToSet, ToSet

LEMMA ArchiveNextInv == ArchiveInv /\ ArchiveStep => ArchiveInv'
<1> SUFFICES ASSUME ArchiveInv, ArchiveStep PROVE ArchiveInv'
    OBVIOUS
<1> DEFINE kept == ToSet(db) \cap Msg
           all == ToSet(accepted)
<1>a. /\ accepted \in Seq(Msg) /\ kept \cup lost \subseteq all
      /\ \A m \in kept \cup lost, n \in all \ (kept \cup lost) : PrecedesIn(accepted, m, n)
    BY DEF ArchiveInv, Table!SettledInOrder, Table!Waiting, Table!Before, Table!ToSet, ToSet, PrecedesIn
<1>b. ASSUME accepted' \in Seq(Msg), kept' \cup lost' \subseteq all',
             \A m \in kept' \cup lost', n \in all' \ (kept' \cup lost') : PrecedesIn(accepted', m, n)
      PROVE  ArchiveInv'
    BY <1>b DEF ArchiveInv, Table!SettledInOrder, Table!Waiting, Table!Before, Table!ToSet, ToSet, PrecedesIn
<1>1. ASSUME NEW m \in Msg, Table!Arrive(m) PROVE ArchiveInv'
  <2>1. /\ m \notin all /\ accepted' = Append(accepted, m)
        /\ kept' = kept /\ lost' = lost
      BY <1>1 DEF Table!Arrive, Table!ToSet, ToSet
  <2>2. /\ Len(accepted) \in Nat /\ DOMAIN accepted = 1 .. Len(accepted)
        /\ DOMAIN accepted' = 1 .. Len(accepted) + 1
        /\ \A i \in DOMAIN accepted : i \in DOMAIN accepted' /\ accepted'[i] = accepted[i]
        /\ accepted'[Len(accepted) + 1] = m
      BY <1>a, <2>1
  <2>3. all' = all \cup {m}
      BY <2>2 DEF ToSet
  <2>4. \A a, b : PrecedesIn(accepted, a, b) => PrecedesIn(accepted', a, b)
      BY <2>2 DEF PrecedesIn
  <2>5. ASSUME NEW a \in all PROVE PrecedesIn(accepted', a, m)
    <3>1. PICK i \in DOMAIN accepted : accepted[i] = a
        BY DEF ToSet
    <3>2. Len(accepted) + 1 \in DOMAIN accepted' /\ i < Len(accepted) + 1 /\ accepted'[i] = a
        BY <2>2, <3>1
    <3> QED
        BY <2>2, <3>2 DEF PrecedesIn
  <2>6. accepted' \in Seq(Msg)
      BY <1>a, <2>1
  <2> QED
      BY <1>a, <1>b, <2>1, <2>3, <2>4, <2>5, <2>6
<1>2. ASSUME NEW ms \in SUBSET Table!Waiting, Table!Store(ms) \/ Table!Refuse(ms) \/ Table!Perish(ms)
      PROVE  ArchiveInv'
  <2>1. /\ ms \subseteq all \ (kept \cup lost)
        /\ \A m \in ms, n \in (all \ (kept \cup lost)) \ ms : PrecedesIn(accepted, m, n)
      BY <1>2 DEF Table!Store, Table!Refuse, Table!Perish, Table!AtTheFront, Table!Waiting, Table!Before,
                  Table!ToSet, ToSet, PrecedesIn
  <2>2. /\ accepted' = accepted /\ all' = all
        /\ \/ kept' \cup lost' = kept \cup lost \cup ms
           \/ kept' \cup lost' = all
    <3>1. CASE Table!Store(ms)
        BY <3>1 DEF Table!Store
    <3>2. CASE Table!Refuse(ms)
        BY <3>2 DEF Table!Refuse
    <3>3. CASE Table!Perish(ms)
      <4>1. /\ accepted' = accepted /\ kept' = kept \cup ms
            /\ lost' = lost \cup ((all \ (kept \cup lost)) \ ms)
          BY <3>3 DEF Table!Perish, Table!Waiting, Table!ToSet, ToSet
      <4> QED
          BY <1>a, <2>1, <4>1
    <3> QED
        BY <1>2, <3>1, <3>2, <3>3
  <2> HIDE DEF kept, all
  <2> QED
      BY <1>a, <1>b, <2>1, <2>2
<1>3. CASE UNCHANGED Table!xvars
  <2>1. accepted' = accepted /\ kept' = kept /\ lost' = lost /\ all' = all
      BY <1>3 DEF Table!xvars
  <2> HIDE DEF kept, all
  <2> QED
      BY <1>a, <1>b, <2>1
<1> QED
    BY <1>1, <1>2, <1>3 DEF ArchiveStep, Table!XNext

-----------------------------------------------------------------------------
(* Liveness of the queue. *)

\* The record is in a full queue, and the thread is at that stage.
StuckAt(m, at) ==
    /\ m \in ToSet(queue)
    /\ Len(queue) >= Threshold
    /\ stage = at

Taken(m) == m \notin ToSet(queue)

\* A queue that something is joined to keeps what it has.
LEMMA QueueGrows ==
    ASSUME BTypeOK, NEW m \in ToSet(queue), Len(queue) >= Threshold,
           NEW s \in Seq(Record), queue' = queue \o s
    PROVE  m \in ToSet(queue') /\ Len(queue') >= Threshold
<1>1. ToSet(queue \o s) = ToSet(queue) \cup ToSet(s)
    BY JoinElements DEF BTypeOK
<1>2. Len(queue \o s) = Len(queue) + Len(s) /\ Len(s) \in Nat /\ Len(queue) \in Nat
    BY DEF BTypeOK
<1> QED
    BY <1>1, <1>2, BatchAssumption

\* Whatever happens, a record in a full queue stays in it until it is taken, and
\* the thread leaves a stage for the next one only.
LEMMA StuckStep ==
    ASSUME BTypeOK, [BNext]_bvars, NEW m \in Msg,
           NEW at \in {"sleep", "call", "reply", "failed"}, StuckAt(m, at)
    PROVE  \/ Taken(m)'
           \/ StuckAt(m, at)'
           \/ at = "call" /\ StuckAt(m, "reply")'
           \/ at \in {"call", "reply"} /\ StuckAt(m, "failed")'
           \/ at \in {"reply", "failed"} /\ StuckAt(m, "sleep")'
<1>a. /\ m \in ToSet(queue) /\ Len(queue) >= Threshold /\ stage = at
      /\ queue \in Seq(Record) /\ req \in Seq(Record)
    BY DEF StuckAt, BTypeOK
<1>1. CASE \E n \in Msg : Enqueue(n)
  <2>1. PICK n \in Msg : queue' = Append(queue, n) /\ stage' = stage
      BY <1>1 DEF Enqueue
  <2>2. <<n>> \in Seq(Record) /\ queue' = queue \o <<n>>
      BY <1>a, <2>1 DEF Record
  <2>3. m \in ToSet(queue') /\ Len(queue') >= Threshold
      BY <1>a, <2>2, QueueGrows
  <2> QED
      BY <1>a, <2>1, <2>3 DEF StuckAt, ToSet
<1>2. CASE TooFew \/ UNCHANGED bvars
    BY <1>2, <1>a DEF TooFew, bvars, StuckAt, ToSet
<1>3. CASE Swap \/ Crash
  <2>1. queue' = <<>>
      BY <1>3 DEF Swap, Crash
  <2> QED
      BY <2>1 DEF Taken, ToSet
<1>4. CASE DbServer \/ EndOfCall
    BY <1>4, <1>a DEF DbServer, InsertRows, RefuseRows, EndOfCall, Replied, CallFails, ReplyLost, StuckAt, ToSet
<1>5. CASE Requeue
  <2>1. /\ queue' = queue \o [i \in 1 .. Len(req) |-> Blank]
        /\ stage = "failed" /\ stage' = "sleep"
      BY <1>5 DEF Requeue
  <2>2. m \in ToSet(queue') /\ Len(queue') >= Threshold
      BY <1>a, <2>1, BlanksInSeq, QueueGrows
  <2> QED
      BY <1>a, <2>1, <2>2 DEF StuckAt, ToSet
<1> QED
    BY <1>1, <1>2, <1>3, <1>4, <1>5 DEF BNext

LEMMA ThreadMoves ==
    ASSUME NEW m \in Msg
    PROVE  /\ Swap => Taken(m)'
           /\ StuckAt(m, "call") /\ (DbServer \/ EndOfCall) => ~StuckAt(m, "call")'
           /\ StuckAt(m, "reply") /\ (DbServer \/ EndOfCall) => ~StuckAt(m, "reply")'
           /\ Requeue => ~StuckAt(m, "failed")'
<1>1. Swap => Taken(m)'
    BY DEF Swap, Taken, ToSet
<1>2. DbServer \/ EndOfCall => stage' # stage
    BY DEF DbServer, InsertRows, RefuseRows, EndOfCall, Replied, CallFails, ReplyLost
<1>3. Requeue => stage' = "sleep"
    BY DEF Requeue
<1> QED
    BY <1>1, <1>2, <1>3 DEF StuckAt

-----------------------------------------------------------------------------
\* Queue, requests, table and cache keep their types, with blank records as
\* with messages.
THEOREM HistoryTypeCorrect == HSpec => []HTypeOK
<1>1. CacheInv => HTypeOK
    BY DEF CacheInv
<1> QED
    BY <1>1, HInitInv, HNextKeeps, PTL DEF HSpec, hall

\* The history of two users is the queue and the table of BatchPersist with
\* something beside them: what holds of those holds here.
THEOREM HistoryRefinesBatchPersist == HSpec => BSpec
<1>1. HInit => BInit
    BY DEF HInit
<1> QED
    BY <1>1, HNextRefines, PTL DEF HSpec, BSpec, hall

\* A message that has been cached is in the history for the whole time to live,
\* whatever other messages and restarts do to the set; while Redis is broken, it
\* is so as far as it is in the table.
THEOREM RecentStaysShown == HSpec => []RecentIsShown
<1>1. CacheInv => RecentIsShown
  <2> SUFFICES ASSUME CacheInv, NEW m \in Msg, since[m] # None,
                      redis \/ m \in ToSet(db)
               PROVE  m \in GetHistoryMessages
      BY DEF RecentIsShown
  <2>1. m \in cache
      BY DEF CacheInv, TimeLeft
  <2>2. CASE redis
      BY <2>1, <2>2 DEF GetHistoryMessages, redisGetCachedMsgs
  <2>3. CASE ~redis
      BY <2>3 DEF GetHistoryMessages, redisGetCachedMsgs, getMessagesBetween
  <2> QED
      BY <2>2, <2>3
<1> QED
    BY <1>1, HInitInv, HNextKeeps, PTL DEF HSpec, hall

\* Whatever fails on the way, also when a request is done and its reply lost:
\* the table and what is on its way to it are the accepted messages, once and
\* in order, without those that are counted as lost.
THEOREM NothingGoesMissing == BSpec => []Conservation
<1>1. BInv => Conservation
    BY DEF BInv, Conservation, Intact, Content, OrderedBy, PrecedesIn, InOrder, Before
<1> QED
    BY <1>1, BInitInv, BNextKeeps, PTL DEF BSpec

\* The queue, the request and the table together are an archive: batches are
\* settled from the front, and what has become of a message is final.
THEOREM PersistenceIsAnArchive == BSpec => KeepsArchive
BY BInitInv, BNextKeeps, PTL DEF BSpec, KeepsArchive, Table!XSpec, ArchiveStep

\* In any archive, whatever still waits came after all that is settled.
LEMMA ArchiveSettlesInOrder == Table!XSpec => []Table!SettledInOrder
<1>1. ArchiveInv => Table!SettledInOrder
    BY DEF ArchiveInv
<1> QED
    BY <1>1, ArchiveInitInv, ArchiveNextInv, PTL DEF Table!XSpec, ArchiveStep

\* No message is stored or lost before one that was accepted earlier, whatever
\* fails on the way to the table.
THEOREM MessagesAreSettledInOrder == BSpec => []Table!SettledInOrder
BY PersistenceIsAnArchive, ArchiveSettlesInOrder, PTL DEF KeepsArchive

\* With the cache beside them, queue and table still keep every message.
THEOREM NothingGoesMissingWithCache == HSpec => []Conservation /\ KeepsArchive
BY HistoryRefinesBatchPersist, NothingGoesMissing, PersistenceIsAnArchive, PTL

\* A cache without an expiry has a handler that is about to set one, unless the
\* EXPIRE was lost: of several handlers, restarts and expiries none leaves a
\* cache that hides the table for ever.
THEOREM CacheIsMortal == HSpec => []CacheWillExpire
<1>1. ExpiryInv => CacheWillExpire
    BY DEF ExpiryInv
<1> QED
    BY <1>1, HInitInv, HNextKeeps, HInitExpiry, HNextExpiry, PTL DEF HSpec, hall

\* A thread that wakes up, and calls that end, are enough for every record of a
\* full queue to leave it: it is not starved by records that are added, by
\* batches that come back blank, or by calls that fail again and again.
THEOREM FullQueueLeaves == BSpec /\ ThreadRuns => FullQueueIsTaken
<1>1. ASSUME NEW m \in Msg
      PROVE  BSpec /\ ThreadRuns
                 => ((m \in ToSet(queue) /\ Len(queue) >= Threshold) ~> (m \notin ToSet(queue)))
  <2> DEFINE Asleep == StuckAt(m, "sleep")
             Calling == StuckAt(m, "call")
             Replying == StuckAt(m, "reply")
             Failing == StuckAt(m, "failed")
  <2>1. BTypeOK /\ m \in ToSet(queue) /\ Len(queue) >= Threshold
            => Asleep \/ Calling \/ Replying \/ Failing
      BY DEF BTypeOK, StuckAt
  <2>2. BTypeOK /\ [BNext]_bvars /\ Asleep => Asleep' \/ Taken(m)'
      BY StuckStep
  <2>3. BTypeOK /\ [BNext]_bvars /\ Calling => Calling' \/ Replying' \/ Failing' \/ Taken(m)'
      BY StuckStep
  <2>4. BTypeOK /\ [BNext]_bvars /\ Replying => Replying' \/ Asleep' \/ Failing' \/ Taken(m)'
      BY StuckStep
  <2>5. BTypeOK /\ [BNext]_bvars /\ Failing => Failing' \/ Asleep' \/ Taken(m)'
      BY StuckStep
  <2>6. <<Swap>>_bvars => Taken(m)'
      BY ThreadMoves
  <2>7. Calling /\ <<DbServer \/ EndOfCall>>_bvars => ~Calling'
      BY ThreadMoves
  <2>8. Replying /\ <<DbServer \/ EndOfCall>>_bvars => ~Replying'
      BY ThreadMoves
  <2>9. <<Requeue>>_bvars => ~Failing'
      BY ThreadMoves
  <2>10. /\ Asleep => stage = "sleep" /\ Len(queue) >= Threshold
         /\ Calling \/ Replying => ~(stage \notin {"call", "reply"})
         /\ Failing => ~(stage # "failed")
      BY DEF StuckAt
  <2>11. Taken(m) <=> m \notin ToSet(queue)
      BY DEF Taken
  <2>12. BSpec => []BTypeOK
      BY BInitTypes, BNextTypes, PTL DEF BSpec
  <2> HIDE DEF Asleep, Calling, Replying, Failing
  <2> QED
      BY <2>1, <2>2, <2>3, <2>4, <2>5, <2>6, <2>7, <2>8, <2>9, <2>10, <2>11, <2>12, PTL
      DEF BSpec, ThreadRuns
<1> QED
    BY <1>1 DEF FullQueueIsTaken
=============================================================================
