------------------------- MODULE DeliveryMailProofs -------------------------
(***************************************************************************)
(* Proofs about where messages are, for any users, streams, threads and    *)
(* messages, and with every fault.  Delivery implements Mailbox: a message *)
(* is with its addressee, in a list, in the hands of a thread, or lost for *)
(* a reason.  And it is given out once, unless two pops of a list overlap. *)
(*                                                                         *)
(* Last, liveness: g_conns_mutex is released again and again, because who  *)
(* holds it is inside a write and waits for no lock; so every handler and  *)
(* every clean-up gets through its stages, and what waits in a list is     *)
(* given out after a login.                                                *)
(***************************************************************************)
EXTENDS DeliveryProofs

\* What threads, lists and clients have was sent.
SentBounds == sent \subseteq Msg /\ exposed \subseteq sent /\ twice \subseteq User

SentOnly ==
    /\ SentBounds
    /\ \A t \in Thread : task[t].op = "send" => task[t].msg \in sent
    /\ \A t \in Thread : task[t].op = "pop" => task[t].got \in Seq(sent)
    /\ offline \in [User -> Seq(sent)]
    /\ inbox \in [User -> Seq(sent)]

\* A session sends from its main loop.
SenderInLoop == \A s \in Session : task[s].op = "send" => pc[s] = "loop"

\* Nothing is in the hands of a thread before it has read the list.
NothingReadYet == \A t \in Thread : PopAt(t, "lrange") => task[t].got = <<>>

\* What DEL deletes has been read, or was appended since and is at risk.
ReadBeforeDel ==
    redis => \A t \in Thread : PopAt(t, "del") =>
                 ToSet(offline[task[t].of]) \subseteq ToSet(task[t].got) \cup exposed

MailInv == DIInv /\ SentOnly /\ SenderInLoop /\ NothingReadYet /\ ReadBeforeDel

boxvars == <<Waiting, Given, (sent \ Given) \ Waiting, exposed>>

-----------------------------------------------------------------------------
(* Sequences as sets. *)

LEMMA ToSetConcat ==
    ASSUME NEW S, NEW s \in Seq(S), NEW t \in Seq(S)
    PROVE  ToSet(s \o t) = ToSet(s) \cup ToSet(t)
<1>1. /\ Len(s) \in Nat /\ Len(t) \in Nat /\ Len(s \o t) = Len(s) + Len(t)
      /\ DOMAIN s = 1 .. Len(s) /\ DOMAIN t = 1 .. Len(t) /\ DOMAIN (s \o t) = 1 .. Len(s) + Len(t)
    OBVIOUS
<1>2. \A i \in 1 .. Len(s) + Len(t) : (s \o t)[i] = IF i <= Len(s) THEN s[i] ELSE t[i - Len(s)]
    BY <1>1
<1>3. ASSUME NEW e \in ToSet(s \o t) PROVE e \in ToSet(s) \cup ToSet(t)
  <2>1. PICK i \in 1 .. Len(s) + Len(t) : e = (s \o t)[i]
      BY <1>1, <1>3 DEF ToSet
  <2>2. CASE i <= Len(s)
      BY <1>1, <1>2, <2>1, <2>2 DEF ToSet
  <2>3. CASE ~(i <= Len(s))
    <3>1. i - Len(s) \in 1 .. Len(t) /\ e = t[i - Len(s)]
        BY <1>1, <1>2, <2>1, <2>3
    <3> QED
        BY <1>1, <3>1 DEF ToSet
  <2> QED
      BY <2>2, <2>3
<1>4. ASSUME NEW e \in ToSet(s) PROVE e \in ToSet(s \o t)
  <2>1. PICK i \in 1 .. Len(s) : e = s[i]
      BY <1>1, <1>4 DEF ToSet
  <2>2. i \in 1 .. Len(s) + Len(t) /\ (s \o t)[i] = e
      BY <1>1, <1>2, <2>1
  <2> QED
      BY <1>1, <2>2 DEF ToSet
<1>5. ASSUME NEW e \in ToSet(t) PROVE e \in ToSet(s \o t)
  <2>1. PICK i \in 1 .. Len(t) : e = t[i]
      BY <1>1, <1>5 DEF ToSet
  <2>2. Len(s) + i \in 1 .. Len(s) + Len(t) /\ (s \o t)[Len(s) + i] = e
      BY <1>1, <1>2, <2>1
  <2> QED
      BY <1>1, <2>2 DEF ToSet
<1> QED
    BY <1>3, <1>4, <1>5

LEMMA ToSetAppend ==
    ASSUME NEW S, NEW s \in Seq(S), NEW e \in S
    PROVE  ToSet(Append(s, e)) = ToSet(s) \cup {e}
<1>1. PICK t : t = <<e>>
    OBVIOUS
<1>2. t \in Seq(S) /\ Append(s, e) = s \o t
    BY <1>1
<1>3. ToSet(t) = {e}
  <2>1. DOMAIN t = {1} /\ t[1] = e
      BY <1>1
  <2> QED
      BY <2>1 DEF ToSet
<1>4. ToSet(s \o t) = ToSet(s) \cup ToSet(t)
    BY <1>2, ToSetConcat
<1> QED
    BY <1>2, <1>3, <1>4, Zenon

LEMMA ToSetFacts ==
    /\ ToSet(<<>>) = {}
    /\ \A S : \A s \in Seq(S) : ToSet(s) \subseteq S
BY DEF ToSet

\* A message that was not sent was not sent later either: sequences over a set
\* are sequences over a larger one.
LEMMA SeqGrows ==
    ASSUME NEW S, NEW T, S \subseteq T, NEW s \in Seq(S)
    PROVE  s \in Seq(T)
<1>1. s \in [1 .. Len(s) -> S] /\ Len(s) \in Nat
    OBVIOUS
<1>2. s \in [1 .. Len(s) -> T]
    BY <1>1
<1> QED
    BY <1>1, <1>2

\* What is in the hands of a thread, by its task.
LEMMA InHandIs ==
    ASSUME task \in [Thread -> Task], NEW t \in Thread
    PROVE  InHand(t) = IF task[t].op = "send" /\ task[t].at \in {"check", "push", "pushing", "store"}
                       THEN {task[t].msg}
                       ELSE IF task[t].op = "pop" THEN ToSet(task[t].got) ELSE {}
BY DEF InHand

-----------------------------------------------------------------------------
(* Steps of the mailbox. *)

LEMMA MailPosted ==
    ASSUME NEW m \in Msg, m \notin sent, sent' = sent \cup {m}, UNCHANGED exposed,
           Given \subseteq sent, Waiting \subseteq sent,
           Given' = Given, Waiting' = Waiting \cup {m}
    PROVE  Box!MNext
<1>1. Box!Post(m)
    BY DEF Box!Post
<1> QED
    BY <1>1 DEF Box!MNext

LEMMA MailGiven ==
    ASSUME NEW ms \in SUBSET (Given \cup Waiting), \A m, n \in ms : m.to = n.to,
           UNCHANGED <<sent, exposed>>,
           Given' = Given \cup ms, Waiting' = Waiting \ ms
    PROVE  Box!MNext
<1>1. Box!Give(ms \cap Waiting)
  <2>1. Given' = Given \cup (ms \cap Waiting) /\ Waiting' = Waiting \ (ms \cap Waiting)
      OBVIOUS
  <2>2. (sent' \ Given') \ Waiting' = (sent \ Given) \ Waiting
      OBVIOUS
  <2> QED
      BY <2>1, <2>2 DEF Box!Give
<1> QED
    BY <1>1 DEF Box!MNext

LEMMA MailLost ==
    ASSUME UNCHANGED sent, exposed \subseteq exposed', exposed' \subseteq Msg,
           Waiting \subseteq sent \ Given,
           Given' = Given, Waiting' \subseteq Waiting, Waiting \ Waiting' \subseteq exposed'
    PROVE  Box!MNext
<1>1. exposed' \ exposed \in SUBSET Msg /\ Box!Endanger(exposed' \ exposed)
    BY DEF Box!Endanger
<1>2. Box!Lose(Waiting \ Waiting')
  <2>1. (sent' \ Given') \ Waiting' = ((sent \ Given) \ Waiting) \cup (Waiting \ Waiting')
      OBVIOUS
  <2>2. Waiting' = Waiting \ (Waiting \ Waiting')
      OBVIOUS
  <2> QED
      BY <2>1, <2>2 DEF Box!Lose
<1> QED
    BY <1>1, <1>2 DEF Box!MNext

LEMMA MailStays ==
    ASSUME UNCHANGED <<sent, exposed>>, Given' = Given, Waiting' = Waiting
    PROVE  UNCHANGED boxvars
BY DEF boxvars

-----------------------------------------------------------------------------
(* A step of one thread. *)

MailRest == SentOnly /\ SenderInLoop /\ NothingReadYet /\ ReadBeforeDel

LEMMA OneHandMoves ==
    ASSUME MailInv, NEW t \in Thread, NEW next \in Task, Do(t, next)
    PROVE  /\ task' \in [Thread -> Task]
           /\ task'[t] = next
           /\ \A r \in Thread \ {t} : task'[r] = task[r]
           /\ \A r \in Thread \ {t} : InHand(r)' = InHand(r)
           /\ InHand(t)' = IF next.op = "send" /\ next.at \in {"check", "push", "pushing", "store"}
                           THEN {next.msg}
                           ELSE IF next.op = "pop" THEN ToSet(next.got) ELSE {}
<1>1. /\ task' \in [Thread -> Task]
      /\ task'[t] = next
      /\ \A r \in Thread \ {t} : task'[r] = task[r]
    BY DoKeeps DEF MailInv, DIInv
<1> QED
    BY <1>1 DEF InHand

\* The fields of what a handler makes its task.
LEMMA Fields ==
    /\ Idle.op = "idle"
    /\ \A m, at : /\ Sending(m, at).op = "send" /\ Sending(m, at).msg = m
                  /\ Sending(m, at).at = at
    /\ \A u, at, got : /\ Popping(u, at, got).op = "pop" /\ Popping(u, at, got).of = u
                       /\ Popping(u, at, got).at = at /\ Popping(u, at, got).got = got
BY DEF Idle, Sending, Popping

LEMMA HandStepKeeps ==
    ASSUME MailInv, NEW t \in Thread, NEW next \in Task, Do(t, next),
           sent \subseteq sent', SentBounds',
           offline' \in [User -> Seq(sent')], inbox' \in [User -> Seq(sent')],
           exposed \subseteq exposed', redis' => redis,
           next.op = "send" => next.msg \in sent' /\ (t \in Session => pc'[t] = "loop"),
           next.op = "pop" => next.got \in Seq(sent') /\ (next.at = "lrange" => next.got = <<>>),
           redis' /\ next.op = "pop" /\ next.at = "del" =>
               ToSet(offline'[next.of]) \subseteq ToSet(next.got) \cup exposed',
           \A s \in Session \ {t} : pc'[s] = pc[s],
           \A r \in Thread \ {t} : redis /\ PopAt(r, "del") =>
               ToSet(offline'[task[r].of]) \subseteq ToSet(offline[task[r].of]) \cup exposed'
    PROVE  MailRest'
<1>1. /\ task'[t] = next
      /\ \A r \in Thread \ {t} : task'[r] = task[r]
    BY OneHandMoves
<1>2. SentOnly'
  <2>1. \A r \in Thread : task'[r].op = "send" => task'[r].msg \in sent'
      BY <1>1 DEF MailInv, SentOnly
  <2>2. ASSUME NEW r \in Thread, task'[r].op = "pop" PROVE task'[r].got \in Seq(sent')
    <3>1. CASE r = t
        BY <1>1, <2>2, <3>1
    <3>2. CASE r # t
      <4>1. task'[r] = task[r] /\ task[r].got \in Seq(sent)
          BY <1>1, <2>2, <3>2 DEF MailInv, SentOnly
      <4> QED
          BY <4>1, SeqGrows
    <3> QED
        BY <3>1, <3>2
  <2> QED
      BY <2>1, <2>2 DEF SentOnly
<1>3. SenderInLoop'
    BY <1>1 DEF MailInv, SenderInLoop, Thread
<1>4. NothingReadYet'
    BY <1>1 DEF MailInv, NothingReadYet, PopAt
<1>5. ReadBeforeDel'
  <2> SUFFICES ASSUME redis', NEW r \in Thread, PopAt(r, "del")'
               PROVE  ToSet(offline'[task'[r].of]) \subseteq ToSet(task'[r].got) \cup exposed'
      BY DEF ReadBeforeDel
  <2>1. CASE r = t
      BY <1>1, <2>1 DEF PopAt
  <2>2. CASE r # t
    <3>1. task'[r] = task[r] /\ PopAt(r, "del") /\ redis
        BY <1>1, <2>2 DEF PopAt
    <3>2. ToSet(offline[task[r].of]) \subseteq ToSet(task[r].got) \cup exposed
        BY <3>1 DEF MailInv, ReadBeforeDel
    <3> QED
        BY <2>2, <3>1, <3>2
  <2> QED
      BY <2>1, <2>2
<1> QED
    BY <1>2, <1>3, <1>4, <1>5 DEF MailRest

\* When the same messages are in the lists, with the clients and in the hands
\* of the threads, as many wait and as many are given.
LEMMA AllStays ==
    ASSUME UNCHANGED <<sent, exposed, offline, inbox>>,
           \A r \in Thread : InHand(r)' = InHand(r)
    PROVE  UNCHANGED boxvars
<1>1. Given' = Given
    BY DEF Given
<1>2. Waiting' = Waiting
    BY <1>1 DEF Waiting
<1> QED
    BY <1>1, <1>2, MailStays

\* What waits and what is given has been sent.
LEMMA BoxBounds ==
    /\ Given \subseteq sent /\ Waiting \subseteq sent \ Given
BY DEF Given, Waiting

-----------------------------------------------------------------------------
(* Every action keeps the invariant and is a step of the mailbox. *)

BoxStep == Box!MNext \/ UNCHANGED boxvars

\* What MailInv says of a thread that sends or pops.
LEMMA HandFacts ==
    ASSUME MailInv, NEW t \in Thread
    PROVE  /\ task[t].op = "send" =>
                  task[t].msg \in sent /\ task[t].msg \in Msg /\ task[t].msg.to \in User
           /\ task[t].op = "pop" =>
                  /\ task[t].of \in User /\ task[t].got \in Seq(Msg)
                  /\ task[t].got \in Seq(sent)
                  /\ task[t].got \in Seq(AddressedTo(task[t].of))
                  /\ ToSet(task[t].got) \subseteq sent
                  /\ \A m \in ToSet(task[t].got) : m.to = task[t].of
           /\ t \in Session /\ task[t].op = "send" => pc[t] = "loop"
<1>1. ASSUME task[t].op = "pop"
      PROVE  \A m \in ToSet(task[t].got) : m.to = task[t].of
  <2>1. task[t].got \in Seq(AddressedTo(task[t].of))
      BY <1>1 DEF MailInv, DIInv, ReadIsAddressed
  <2>2. ToSet(task[t].got) \subseteq AddressedTo(task[t].of)
      BY <2>1, ToSetFacts, Zenon
  <2> QED
      BY <2>2 DEF AddressedTo
<1>2. ASSUME task[t].op = "pop"
      PROVE  task[t].got \in Seq(sent) /\ ToSet(task[t].got) \subseteq sent
  <2>1. task[t].got \in Seq(sent)
      BY <1>2 DEF MailInv, SentOnly
  <2> QED
      BY <2>1, ToSetFacts, Zenon
<1>3. task[t].op = "pop" => task[t].of \in User /\ task[t].got \in Seq(Msg)
    BY TaskFields DEF MailInv, DIInv
<1>4. task[t].op = "pop" => task[t].got \in Seq(AddressedTo(task[t].of))
    BY DEF MailInv, DIInv, ReadIsAddressed
<1>5. task[t].op = "send" =>
          task[t].msg \in sent /\ task[t].msg \in Msg /\ task[t].msg.to \in User
    BY MsgAssumption DEF MailInv, SentOnly, SentBounds
<1>6. t \in Session /\ task[t].op = "send" => pc[t] = "loop"
    BY DEF MailInv, SenderInLoop
<1> QED
    BY <1>1, <1>2, <1>3, <1>4, <1>5, <1>6

LEMMA SendBeginMails ==
    ASSUME MailInv, NEW t \in Thread, NEW m \in Msg, SendBegin(t, m)
    PROVE  MailRest' /\ BoxStep
<1> DEFINE next == Sending(m, "check")
<1>1. /\ next \in Task /\ Do(t, next) /\ next.op = "send" /\ next.msg = m /\ next.at = "check"
    BY Tasks, Fields DEF SendBegin, SendStage
<1>2. /\ m \notin sent /\ sent' = sent \cup {m} /\ task[t].op = "idle"
      /\ UNCHANGED <<pc, redis, offline, inbox, exposed, twice>>
      /\ t \in Session => pc[t] = "loop"
    BY Fields DEF SendBegin, vars
<1>3. SentBounds'
    BY <1>2 DEF MailInv, SentOnly, SentBounds
<1>4. offline' \in [User -> Seq(sent')] /\ inbox' \in [User -> Seq(sent')]
  <2>1. \A u \in User : offline[u] \in Seq(sent') /\ inbox[u] \in Seq(sent')
      BY <1>2, SeqGrows DEF MailInv, SentOnly
  <2> QED
      BY <1>2, <2>1 DEF MailInv, SentOnly
<1>5. MailRest'
  <2> HIDE DEF next
  <2> QED
      BY <1>1, <1>2, <1>3, <1>4, HandStepKeeps
<1>6. /\ \A r \in Thread \ {t} : InHand(r)' = InHand(r)
      /\ InHand(t)' = {m} /\ InHand(t) = {}
  <2>1. InHand(t)' = {m} /\ \A r \in Thread \ {t} : InHand(r)' = InHand(r)
    <3> HIDE DEF next
    <3> QED
        BY <1>1, OneHandMoves
  <2>2. InHand(t) = {}
      BY <1>2, InHandIs DEF MailInv, DIInv
  <2> QED
      BY <2>1, <2>2
<1>7. m \notin ToSet(inbox[m.to])
  <2>1. inbox[m.to] \in Seq(sent)
      BY MsgAssumption DEF MailInv, SentOnly
  <2>2. ToSet(inbox[m.to]) \subseteq sent
      BY <2>1, ToSetFacts, Zenon
  <2> QED
      BY <1>2, <2>2
<1>8. Given' = Given
    BY <1>2, <1>7 DEF Given
<1>9. Waiting' = Waiting \cup {m}
  <2>1. \A n : (\E r \in Thread : n \in InHand(r)') <=> n = m \/ (\E r \in Thread : n \in InHand(r))
      BY <1>6
  <2>2. m \notin Given
      BY <1>2 DEF Given
  <2>3. ASSUME NEW n \in sent, n # m PROVE n \in Waiting' <=> n \in Waiting
      BY <1>2, <1>8, <2>1, <2>3 DEF Waiting
  <2>4. m \in Waiting'
      BY <1>2, <1>8, <2>1, <2>2 DEF Waiting
  <2>5. Waiting' \subseteq sent' /\ Waiting \subseteq sent
      BY DEF Waiting
  <2> QED
      BY <1>2, <2>3, <2>4, <2>5
<1>10. Box!MNext
    BY <1>2, <1>8, <1>9, BoxBounds, MailPosted
<1> QED
    BY <1>5, <1>10 DEF BoxStep

\* A step of the send handler that leaves the message where it is.
LEMMA SendStaysMails ==
    ASSUME MailInv, NEW t \in Thread, task[t].op = "send", NEW next \in Task, Do(t, next),
           next = Idle \/ \E at \in SendStage : next = Sending(task[t].msg, at),
           InHand(t)' = InHand(t),
           UNCHANGED <<pc, redis, offline, inbox, sent, exposed, twice>>
    PROVE  MailRest' /\ BoxStep
<1>1. task[t].msg \in sent /\ (t \in Session => pc[t] = "loop")
    BY HandFacts
<1>2. next.op = "idle" \/ (next.op = "send" /\ next.msg = task[t].msg)
    BY Fields
<1>3. SentBounds' /\ offline' \in [User -> Seq(sent')] /\ inbox' \in [User -> Seq(sent')]
    BY DEF MailInv, SentOnly, SentBounds
<1>4. MailRest'
    BY <1>1, <1>2, <1>3, HandStepKeeps
<1>5. UNCHANGED boxvars
    BY OneHandMoves, AllStays
<1> QED
    BY <1>4, <1>5 DEF BoxStep

LEMMA CheckLockAckMail ==
    ASSUME MailInv, NEW t \in Thread,
           CheckOnline(t) \/ PushLock(t) \/ AckOwn(t) \/ AckLock(t) \/ AckWrite(t)
    PROVE  MailRest' /\ BoxStep
<1> DEFINE m == task[t].msg
<1>1. /\ task[t].op = "send" /\ m \in Msg
      /\ UNCHANGED <<pc, redis, offline, inbox, sent, exposed, twice>>
  <2>1. task[t].op = "send"
      BY DEF CheckOnline, PushLock, AckOwn, AckLock, AckWrite, SendAt
  <2>2. UNCHANGED <<pc, redis, offline, inbox, sent, exposed, twice>>
      BY DEF CheckOnline, PushLock, AckOwn, AckLock, AckWrite, PushBegin, PushEnd, vars
  <2> QED
      BY <2>1, <2>2, HandFacts
<1>2. CASE CheckOnline(t) \/ PushLock(t)
  <2>1. PICK at \in {"push", "store", "pushing"} : Do(t, Sending(m, at))
      BY <1>2 DEF CheckOnline, PushLock
  <2>2. Sending(m, at) \in Task /\ Sending(m, at).op = "send"
        /\ Sending(m, at).at = at /\ Sending(m, at).msg = m /\ at \in SendStage
      BY <1>1, Tasks, Fields DEF SendStage
  <2>3. InHand(t)' = {m}
      BY <2>1, <2>2, OneHandMoves
  <2>4. InHand(t) = {m}
      BY <1>1, <1>2, InHandIs DEF CheckOnline, PushLock, SendAt, MailInv, DIInv
  <2> QED
      BY <1>1, <2>1, <2>2, <2>3, <2>4, SendStaysMails
<1>3. CASE AckLock(t)
  <2>1. Do(t, Sending(m, "acking"))
      BY <1>3 DEF AckLock
  <2>2. Sending(m, "acking") \in Task /\ Sending(m, "acking").op = "send"
        /\ Sending(m, "acking").at = "acking" /\ "acking" \in SendStage
      BY <1>1, Tasks, Fields DEF SendStage
  <2>3. InHand(t)' = {}
      BY <2>1, <2>2, OneHandMoves
  <2>4. InHand(t) = {}
      BY <1>1, <1>3, InHandIs DEF AckLock, SendAt, MailInv, DIInv
  <2> QED
      BY <1>1, <2>1, <2>2, <2>3, <2>4, SendStaysMails
<1>4. CASE AckOwn(t) \/ AckWrite(t)
  <2>1. Do(t, Idle)
      BY <1>4 DEF AckOwn, AckWrite
  <2>2. Idle \in Task /\ Idle.op = "idle"
      BY Tasks, Fields
  <2>3. InHand(t)' = {}
      BY <2>1, <2>2, OneHandMoves
  <2>4. InHand(t) = {}
      BY <1>1, <1>4, InHandIs DEF AckOwn, AckWrite, SendAt, MailInv, DIInv
  <2> QED
      BY <1>1, <2>1, <2>2, <2>3, <2>4, SendStaysMails
<1> QED
    BY <1>2, <1>3, <1>4

\* Giving msgs to u adds them to what is given.
LEMMA HandGives ==
    ASSUME MailInv, NEW u \in User, NEW msgs \in Seq(sent), Hand(u, msgs), UNCHANGED sent,
           \A m \in ToSet(msgs) : m.to = u
    PROVE  /\ inbox' \in [User -> Seq(sent)]
           /\ Given' = Given \cup ToSet(msgs)
<1>1. inbox' = [inbox EXCEPT ![u] = inbox[u] \o msgs] /\ inbox \in [User -> Seq(sent)]
    BY DEF Hand, MailInv, SentOnly
<1>2. inbox[u] \o msgs \in Seq(sent)
    BY <1>1, ConcatInSeq
<1>3. inbox' \in [User -> Seq(sent)]
    BY <1>1, <1>2
<1>4. inbox[u] \in Seq(sent)
    BY <1>1
<1>5. ToSet(inbox[u] \o msgs) = ToSet(inbox[u]) \cup ToSet(msgs)
    BY <1>4, ToSetConcat
<1>6. ToSet(inbox'[u]) = ToSet(inbox[u]) \cup ToSet(msgs)
      /\ \A v \in User \ {u} : inbox'[v] = inbox[v]
    BY <1>1, <1>5
<1>7. \A m \in sent : m.to \in User
    BY MsgAssumption DEF MailInv, SentOnly, SentBounds
<1>8. ToSet(msgs) \subseteq sent
    BY ToSetFacts, Zenon
<1>9. ASSUME NEW m \in sent PROVE m \in Given' <=> m \in Given \/ m \in ToSet(msgs)
  <2>1. CASE m.to = u
      BY <1>6, <2>1 DEF Given
  <2>2. CASE m.to # u
      BY <1>6, <1>7, <2>2 DEF Given
  <2> QED
      BY <2>1, <2>2
<1> QED
    BY <1>3, <1>8, <1>9 DEF Given

\* When nothing is given and thread t drops what the lists do not have, the
\* mailbox loses what is at risk.
LEMMA DropIsLoss ==
    ASSUME MailInv, NEW t \in Thread, UNCHANGED <<sent, inbox>>,
           exposed \subseteq exposed', exposed' \subseteq sent,
           \A r \in Thread \ {t} : InHand(r)' = InHand(r),
           \A m \in sent : m \in InHand(t)' => m \in InHand(t) \/ m \in ToSet(offline[m.to]),
           \A m \in sent : m \in InHand(t) =>
               m \in InHand(t)' \/ m \in ToSet(offline'[m.to]) \/ m \in exposed',
           \A m \in sent : m \in ToSet(offline'[m.to]) => m \in ToSet(offline[m.to]) \/ m \in InHand(t),
           \A m \in sent : m \in ToSet(offline[m.to]) =>
               m \in ToSet(offline'[m.to]) \/ m \in InHand(t)' \/ m \in exposed'
    PROVE  BoxStep
<1>1. Given' = Given
    BY DEF Given
<1>2. ASSUME NEW m \in Waiting' PROVE m \in Waiting
  <2>1. m \in sent \ Given
      BY <1>1, <1>2 DEF Waiting
  <2>2. CASE m \in ToSet(offline'[m.to])
      BY <2>1, <2>2 DEF Waiting
  <2>3. CASE \E r \in Thread : m \in InHand(r)'
      BY <2>1, <2>3 DEF Waiting
  <2> QED
      BY <1>2, <2>2, <2>3 DEF Waiting
<1>3. ASSUME NEW m \in Waiting, m \notin Waiting' PROVE m \in exposed'
  <2>1. m \in sent \ Given
      BY DEF Waiting
  <2>2. m \notin ToSet(offline'[m.to]) /\ \A r \in Thread : m \notin InHand(r)'
      BY <1>1, <1>3, <2>1 DEF Waiting
  <2>3. CASE m \in ToSet(offline[m.to])
      BY <2>1, <2>2, <2>3
  <2>4. CASE \E r \in Thread : m \in InHand(r)
      BY <2>1, <2>2, <2>4
  <2> QED
      BY <2>3, <2>4 DEF Waiting
<1>4. exposed' \subseteq Msg
    BY DEF MailInv, SentOnly, SentBounds
<1> QED
    BY <1>1, <1>2, <1>3, <1>4, BoxBounds, MailLost DEF BoxStep

\* When thread t gives to the addressee what it has in its hands.
LEMMA HandIsGift ==
    ASSUME MailInv, NEW t \in Thread, NEW u \in User, NEW msgs \in Seq(sent),
           Hand(u, msgs), \A m \in ToSet(msgs) : m.to = u,
           UNCHANGED <<sent, exposed, offline>>,
           \A r \in Thread \ {t} : InHand(r)' = InHand(r),
           InHand(t) = ToSet(msgs), InHand(t)' = {}
    PROVE  BoxStep
<1>1. Given' = Given \cup ToSet(msgs)
    BY HandGives
<1>2. ToSet(msgs) \subseteq sent
    BY ToSetFacts, Zenon
<1>3. ToSet(msgs) \in SUBSET (Given \cup Waiting)
    BY <1>2 DEF Waiting
<1>4. ASSUME NEW m \in Waiting' PROVE m \in Waiting \ ToSet(msgs)
    BY <1>1, <1>4 DEF Waiting
<1>5. ASSUME NEW m \in Waiting \ ToSet(msgs) PROVE m \in Waiting'
    BY <1>1, <1>5 DEF Waiting
<1> QED
    BY <1>1, <1>3, <1>4, <1>5, MailGiven DEF BoxStep

LEMMA PushWriteMails ==
    ASSUME MailInv, NEW t \in Thread, NEW ok \in Written, PushWrite(t, ok)
    PROVE  MailRest' /\ BoxStep
<1> DEFINE m == task[t].msg
<1> DEFINE next == Sending(m, "ack")
<1>1. /\ task[t].op = "send" /\ task[t].at = "pushing" /\ Do(t, next)
      /\ UNCHANGED <<pc, redis, offline, sent, twice>>
    BY DEF PushWrite, SendAt, PushEnd
<1>2. /\ m \in sent /\ m \in Msg /\ m.to \in User /\ (t \in Session => pc[t] = "loop")
    BY <1>1, HandFacts
<1>3. next \in Task /\ next.op = "send" /\ next.at = "ack" /\ next.msg = m
    BY <1>2, Tasks, Fields DEF SendStage
<1>4. /\ InHand(t) = {m} /\ InHand(t)' = {}
      /\ \A r \in Thread \ {t} : InHand(r)' = InHand(r)
  <2>1. InHand(t) = {m}
      BY <1>1, InHandIs DEF MailInv, DIInv
  <2>2. InHand(t)' = {} /\ \A r \in Thread \ {t} : InHand(r)' = InHand(r)
    <3> HIDE DEF next
    <3> QED
        BY <1>1, <1>3, OneHandMoves
  <2> QED
      BY <2>1, <2>2
<1>5. CASE push.on # None /\ ok
  <2>1. user[push.on] = m.to
    <3>1. push.by = t /\ push.to = m.to
        BY <1>1 DEF MailInv, DIInv, PusherHolds, SendAt
    <3> QED
        BY <1>5, <3>1, IInvImplies DEF MailInv, DIInv, WriteHitsLiveStream
  <2>2. PICK msgs : msgs = <<m>>
      OBVIOUS
  <2>3. Hand(m.to, msgs) /\ UNCHANGED exposed
      BY <1>5, <2>1, <2>2 DEF PushWrite
  <2>4. msgs \in Seq(sent)
      BY <1>2, <2>2
  <2>5. ToSet(msgs) = {m}
    <3>1. DOMAIN msgs = {1} /\ msgs[1] = m
        BY <2>2
    <3> QED
        BY <3>1 DEF ToSet
  <2>6. \A n \in ToSet(msgs) : n.to = m.to
      BY <2>5
  <2>7. inbox' \in [User -> Seq(sent)]
      BY <1>1, <1>2, <2>3, <2>4, <2>6, HandGives
  <2>8. SentBounds' /\ offline' \in [User -> Seq(sent')]
      BY <1>1, <2>3 DEF MailInv, SentOnly, SentBounds
  <2>9. MailRest'
    <3> HIDE DEF next
    <3> QED
        BY <1>1, <1>2, <1>3, <2>3, <2>7, <2>8, HandStepKeeps
  <2>10. BoxStep
      BY <1>1, <1>2, <1>4, <2>3, <2>4, <2>5, <2>6, HandIsGift
  <2> QED
      BY <2>9, <2>10
<1>6. CASE ~(push.on # None /\ ok)
  <2>1. exposed' = exposed \cup {m} /\ UNCHANGED inbox
      BY <1>6 DEF PushWrite
  <2>2. SentBounds' /\ offline' \in [User -> Seq(sent')] /\ inbox' \in [User -> Seq(sent')]
      BY <1>1, <1>2, <2>1 DEF MailInv, SentOnly, SentBounds
  <2>3. MailRest'
    <3> HIDE DEF next
    <3> QED
        BY <1>1, <1>2, <1>3, <2>1, <2>2, HandStepKeeps
  <2>4. exposed' \subseteq sent
      BY <1>1, <2>2 DEF SentBounds
  <2>5. BoxStep
      BY <1>1, <1>4, <2>1, <2>4, DropIsLoss
  <2> QED
      BY <2>3, <2>5
<1> QED
    BY <1>5, <1>6

LEMMA StoreMails ==
    ASSUME MailInv, NEW t \in Thread, Store(t)
    PROVE  MailRest' /\ BoxStep
<1> DEFINE m == task[t].msg
<1> DEFINE next == Sending(m, "ack")
<1>1. /\ task[t].op = "send" /\ task[t].at = "store" /\ Do(t, next)
      /\ UNCHANGED <<pc, redis, inbox, sent, twice>>
      /\ exposed' \in {exposed, exposed \cup {m}}
    BY DEF Store, SendAt, vars
<1>2. /\ m \in sent /\ m \in Msg /\ m.to \in User /\ (t \in Session => pc[t] = "loop")
    BY <1>1, HandFacts
<1>3. next \in Task /\ next.op = "send" /\ next.at = "ack" /\ next.msg = m
    BY <1>2, Tasks, Fields DEF SendStage
<1>4. /\ InHand(t) = {m} /\ InHand(t)' = {}
      /\ \A r \in Thread \ {t} : InHand(r)' = InHand(r)
  <2>1. InHand(t) = {m}
      BY <1>1, InHandIs DEF MailInv, DIInv
  <2>2. InHand(t)' = {} /\ \A r \in Thread \ {t} : InHand(r)' = InHand(r)
    <3> HIDE DEF next
    <3> QED
        BY <1>1, <1>3, OneHandMoves
  <2> QED
      BY <2>1, <2>2
<1>5. SentBounds' /\ inbox' \in [User -> Seq(sent')] /\ exposed' \subseteq sent
    BY <1>1, <1>2 DEF MailInv, SentOnly, SentBounds
<1>6. CASE ~redis
  <2>1. offline' = offline /\ exposed' = exposed \cup {m}
      BY <1>6 DEF Store
  <2>2. offline' \in [User -> Seq(sent')]
      BY <1>1, <2>1 DEF MailInv, SentOnly
  <2>3. MailRest'
    <3> HIDE DEF next
    <3> QED
        BY <1>1, <1>2, <1>3, <1>5, <2>1, <2>2, HandStepKeeps
  <2>4. BoxStep
      BY <1>1, <1>4, <1>5, <2>1, DropIsLoss
  <2> QED
      BY <2>3, <2>4
<1>7. CASE redis
  <2>1. offline' = [offline EXCEPT ![m.to] = Append(offline[m.to], m)]
        /\ offline \in [User -> Seq(sent)]
      BY <1>7 DEF Store, MailInv, SentOnly
  <2>2. offline[m.to] \in Seq(sent) /\ Append(offline[m.to], m) \in Seq(sent)
      BY <1>2, <2>1, AppendInSeq
  <2>3. ToSet(Append(offline[m.to], m)) = ToSet(offline[m.to]) \cup {m}
      BY <1>2, <2>2, ToSetAppend
  <2>4. /\ ToSet(offline'[m.to]) = ToSet(offline[m.to]) \cup {m}
        /\ \A v \in User \ {m.to} : offline'[v] = offline[v]
        /\ offline' \in [User -> Seq(sent')]
      BY <1>1, <1>2, <2>1, <2>2, <2>3
  <2>5. ASSUME NEW r \in Thread \ {t}, PopAt(r, "del")
        PROVE  ToSet(offline'[task[r].of]) \subseteq ToSet(offline[task[r].of]) \cup exposed'
    <3>1. task[r].of \in User
        BY <2>5, HandFacts DEF PopAt
    <3>2. CASE task[r].of = m.to
      <4>1. exposed' = exposed \cup {m}
          BY <2>5, <3>2 DEF Store
      <4> QED
          BY <2>4, <3>2, <4>1
    <3>3. CASE task[r].of # m.to
        BY <2>4, <3>1, <3>3
    <3> QED
        BY <3>2, <3>3
  <2>6. MailRest'
    <3> HIDE DEF next
    <3> QED
        BY <1>1, <1>2, <1>3, <1>5, <2>4, <2>5, HandStepKeeps
  <2>7. \A n \in sent : n.to \in User
      BY MsgAssumption DEF MailInv, SentOnly, SentBounds
  <2>8. \A n \in sent : n \in ToSet(offline'[n.to]) <=> n \in ToSet(offline[n.to]) \/ n = m
      BY <1>2, <2>4, <2>7
  <2>9. BoxStep
      BY <1>1, <1>2, <1>4, <1>5, <2>8, DropIsLoss
  <2> QED
      BY <2>6, <2>9
<1> QED
    BY <1>6, <1>7

\* A step that leaves lists and clients alone and takes t, which has nothing in
\* its hands, to the beginning of a pop.
LEMMA PopBeginMails ==
    ASSUME MailInv, NEW t \in Thread, NEW u \in User, Do(t, Popping(u, "lrange", <<>>)),
           InHand(t) = {},
           \A s \in Session \ {t} : pc'[s] = pc[s],
           UNCHANGED <<redis, offline, inbox, sent, exposed, twice>>
    PROVE  MailRest' /\ BoxStep
<1> DEFINE next == Popping(u, "lrange", <<>>)
<1>1. /\ next \in Task /\ next.op = "pop" /\ next.at = "lrange" /\ next.got = <<>>
  <2>1. PICK got : got = <<>>
      OBVIOUS
  <2>2. got \in Seq(Msg)
      BY <2>1, EmptyInSeq
  <2>3. Popping(u, "lrange", got) \in Task
      BY <2>2, Tasks DEF PopStage
  <2>4. /\ Popping(u, "lrange", got).op = "pop" /\ Popping(u, "lrange", got).at = "lrange"
        /\ Popping(u, "lrange", got).got = got
      BY Fields
  <2> QED
      BY <2>1, <2>3, <2>4, Zenon
<1>2. SentBounds' /\ offline' \in [User -> Seq(sent')] /\ inbox' \in [User -> Seq(sent')]
    BY DEF MailInv, SentOnly, SentBounds
<1>3. Do(t, next)
    OBVIOUS
<1>4. <<>> \in Seq(sent')
    BY EmptyInSeq
<1>5. MailRest'
  <2> HIDE DEF next
  <2> QED
      BY <1>1, <1>2, <1>3, <1>4, HandStepKeeps
<1>6. InHand(t)' = {} /\ \A r \in Thread \ {t} : InHand(r)' = InHand(r)
  <2> HIDE DEF next
  <2>1. InHand(t)' = ToSet(next.got) /\ \A r \in Thread \ {t} : InHand(r)' = InHand(r)
      BY <1>1, <1>3, OneHandMoves
  <2> QED
      BY <1>1, <2>1, ToSetFacts
<1>7. UNCHANGED boxvars
    BY <1>6, AllStays
<1> QED
    BY <1>5, <1>7 DEF BoxStep

LEMMA LogInMails ==
    ASSUME MailInv, NEW s \in Session, LogIn(s)
    PROVE  MailRest' /\ BoxStep
<1>1. pc[s] = "register" /\ pc' = [pc EXCEPT ![s] = "drain"]
    BY DEF LogIn, Register, Goto
<1>2. user[s] \in User
    BY <1>1 DEF MailInv, DIInv, IInv, KnownUser
<1>3. \A r \in Session \ {s} : pc'[r] = pc[r]
    BY <1>1 DEF MailInv, DIInv, IInv, TypeOK
<1>4. /\ UNCHANGED <<redis, offline, inbox, sent, exposed, twice>>
      /\ Do(s, Popping(user[s], "lrange", <<>>))
    BY DEF LogIn, Register
<1>5. s \in Thread /\ task[s].op # "send" /\ task[s].op # "pop"
    BY <1>1 DEF Thread, MailInv, SenderInLoop, DIInv, PopperOwns
<1>6. InHand(s) = {}
    BY <1>5, InHandIs DEF MailInv, DIInv
<1> QED
    BY <1>2, <1>3, <1>4, <1>5, <1>6, PopBeginMails

LEMMA PullMails ==
    ASSUME MailInv, NEW w \in Worker, NEW u \in User, PullOfflineMessages(w, u)
    PROVE  MailRest' /\ BoxStep
<1>1. /\ UNCHANGED <<pc, redis, offline, inbox, sent, exposed, twice>>
      /\ Do(w, Popping(u, "lrange", <<>>)) /\ task[w].op = "idle" /\ w \in Thread
    BY Fields DEF PullOfflineMessages, vars, Thread
<1>2. InHand(w) = {}
    BY <1>1, InHandIs DEF MailInv, DIInv
<1> QED
    BY <1>1, <1>2, PopBeginMails

LEMMA PopReadMails ==
    ASSUME MailInv, NEW t \in Thread, PopRead(t)
    PROVE  MailRest' /\ BoxStep
<1> DEFINE u == task[t].of
<1>1. /\ task[t].op = "pop" /\ task[t].at = "lrange" /\ u \in User /\ task[t].got = <<>>
      /\ UNCHANGED <<pc, redis, offline, inbox, sent, exposed>>
      /\ twice' \subseteq twice \cup {u}
  <2>1. PopAt(t, "lrange")
      BY DEF PopRead
  <2> QED
      BY <2>1, HandFacts DEF PopRead, PopAt, vars, MailInv, NothingReadYet
<1>2. PICK got : got = IF redis THEN offline[u] ELSE <<>>
    OBVIOUS
<1> DEFINE next == Popping(u, "del", got)
<1>3. Do(t, next)
    BY <1>2 DEF PopRead
<1>4. /\ got \in Seq(sent) /\ got \in Seq(Msg)
      /\ ToSet(got) \subseteq ToSet(offline[u])
      /\ redis => ToSet(offline[u]) = ToSet(got)
    BY <1>1, <1>2, EmptyInSeq, ToSetFacts DEF MailInv, DIInv, StoredIsAddressed, SentOnly
<1>5. /\ next \in Task /\ next.op = "pop" /\ next.of = u /\ next.at = "del" /\ next.got = got
    BY <1>1, <1>4, Tasks, Fields DEF PopStage
<1>6. SentBounds' /\ offline' \in [User -> Seq(sent')] /\ inbox' \in [User -> Seq(sent')]
    BY <1>1 DEF MailInv, SentOnly, SentBounds
<1>7. MailRest'
  <2> HIDE DEF next
  <2> QED
      BY <1>1, <1>3, <1>4, <1>5, <1>6, HandStepKeeps
<1>8. /\ InHand(t)' = ToSet(got) /\ \A r \in Thread \ {t} : InHand(r)' = InHand(r)
  <2> HIDE DEF next
  <2> QED
      BY <1>3, <1>5, OneHandMoves
<1>9. InHand(t) = {}
    BY <1>1, InHandIs, ToSetFacts DEF MailInv, DIInv
<1>10. \A m \in ToSet(got) : m.to = u
  <2>1. offline[u] \in Seq(AddressedTo(u))
      BY <1>1 DEF MailInv, DIInv, StoredIsAddressed
  <2>2. ToSet(offline[u]) \subseteq AddressedTo(u)
      BY <2>1, ToSetFacts, Zenon
  <2> QED
      BY <1>4, <2>2 DEF AddressedTo
<1>11. exposed \subseteq exposed' /\ exposed' \subseteq sent
    BY <1>1 DEF MailInv, SentOnly, SentBounds
<1>12. \A m \in sent : m \in InHand(t)' => m \in ToSet(offline[m.to])
    BY <1>4, <1>8, <1>10
<1>13. BoxStep
    BY <1>1, <1>8, <1>9, <1>11, <1>12, DropIsLoss
<1> QED
    BY <1>7, <1>13

LEMMA PopDeleteMails ==
    ASSUME MailInv, NEW t \in Thread, PopDelete(t)
    PROVE  MailRest' /\ BoxStep
<1> DEFINE u == task[t].of
<1> DEFINE got == task[t].got
<1> DEFINE next == Popping(u, "emit", got)
<1>1. /\ task[t].op = "pop" /\ task[t].at = "del" /\ Do(t, next)
      /\ UNCHANGED <<pc, redis, inbox, sent, exposed>>
      /\ offline' = IF redis THEN [offline EXCEPT ![u] = <<>>] ELSE offline
      /\ twice' \subseteq twice \cup {u}
    BY DEF PopDelete, PopAt, vars
<1>2. u \in User /\ got \in Seq(sent) /\ got \in Seq(Msg)
    BY <1>1, HandFacts
<1>3. /\ next \in Task /\ next.op = "pop" /\ next.of = u /\ next.at = "emit" /\ next.got = got
    BY <1>2, Tasks, Fields DEF PopStage
<1>4. /\ offline \in [User -> Seq(sent)] /\ offline' \in [User -> Seq(sent')]
      /\ inbox' \in [User -> Seq(sent')] /\ SentBounds'
    BY <1>1, <1>2, EmptyInSeq DEF MailInv, SentOnly, SentBounds
<1>5. \A v \in User : ToSet(offline'[v]) = IF redis /\ v = u THEN {} ELSE ToSet(offline[v])
    BY <1>1, <1>2, <1>4, ToSetFacts
<1>6. \A r \in Thread : task[r].op = "pop" => task[r].of \in User
    BY HandFacts
<1>7. MailRest'
  <2>1. \A r \in Thread \ {t} : redis /\ PopAt(r, "del") =>
            ToSet(offline'[task[r].of]) \subseteq ToSet(offline[task[r].of]) \cup exposed'
      BY <1>5, <1>6 DEF PopAt
  <2> HIDE DEF next
  <2> QED
      BY <1>1, <1>2, <1>3, <1>4, <2>1, HandStepKeeps
<1>8. InHand(t)' = ToSet(got) /\ \A r \in Thread \ {t} : InHand(r)' = InHand(r)
  <2> HIDE DEF next
  <2> QED
      BY <1>1, <1>3, OneHandMoves
<1>9. InHand(t) = ToSet(got)
    BY <1>1, InHandIs DEF MailInv, DIInv
<1>10. redis => ToSet(offline[u]) \subseteq ToSet(got) \cup exposed
    BY <1>1 DEF PopAt, MailInv, ReadBeforeDel
<1>11. \A m \in sent : m.to \in User
    BY MsgAssumption DEF MailInv, SentOnly, SentBounds
<1>12. \A m \in sent : /\ m \in ToSet(offline'[m.to]) => m \in ToSet(offline[m.to])
                       /\ m \in ToSet(offline[m.to]) =>
                              m \in ToSet(offline'[m.to]) \/ m \in InHand(t)' \/ m \in exposed'
    BY <1>1, <1>5, <1>8, <1>10, <1>11
<1>13. exposed' \subseteq sent /\ exposed \subseteq exposed'
    BY <1>1 DEF MailInv, SentOnly, SentBounds
<1>14. BoxStep
    BY <1>1, <1>8, <1>9, <1>12, <1>13, DropIsLoss
<1> QED
    BY <1>7, <1>14

LEMMA EmitMails ==
    ASSUME MailInv, NEW t \in Thread, NEW ok \in Written, Emit(t, ok)
    PROVE  MailRest' /\ BoxStep
<1> DEFINE u == task[t].of
<1> DEFINE got == task[t].got
<1>1. /\ task[t].op = "pop" /\ Do(t, Idle)
      /\ UNCHANGED <<redis, offline, sent, twice>>
      /\ \A r \in Session \ {t} : pc'[r] = pc[r]
    BY DEF Emit, PopAt, EnterLoop, Goto, vars, MailInv, DIInv, IInv, TypeOK
<1>2. /\ u \in User /\ got \in Seq(sent) /\ ToSet(got) \subseteq sent
      /\ \A m \in ToSet(got) : m.to = u
    BY <1>1, HandFacts
<1>3. Idle \in Task /\ Idle.op = "idle"
    BY Tasks, Fields
<1>4. /\ InHand(t) = ToSet(got) /\ InHand(t)' = {}
      /\ \A r \in Thread \ {t} : InHand(r)' = InHand(r)
    BY <1>1, <1>3, InHandIs, OneHandMoves DEF MailInv, DIInv
<1>5. CASE ok
  <2>1. Hand(u, got) /\ UNCHANGED exposed
    <3>1. t \in Session => user[t] = u
        BY <1>1 DEF MailInv, DIInv, PopperOwns
    <3> QED
        BY <1>5, <3>1 DEF Emit
  <2>2. inbox' \in [User -> Seq(sent')] /\ offline' \in [User -> Seq(sent')] /\ SentBounds'
      BY <1>1, <1>2, <2>1, HandGives DEF MailInv, SentOnly, SentBounds
  <2>3. MailRest'
      BY <1>1, <1>3, <2>1, <2>2, HandStepKeeps
  <2>4. BoxStep
      BY <1>1, <1>2, <1>4, <2>1, HandIsGift
  <2> QED
      BY <2>3, <2>4
<1>6. CASE ~ok
  <2>1. exposed' = exposed \cup ToSet(got) /\ UNCHANGED inbox
      BY <1>6 DEF Emit
  <2>2. /\ inbox' \in [User -> Seq(sent')] /\ offline' \in [User -> Seq(sent')] /\ SentBounds'
        /\ exposed' \subseteq sent
      BY <1>1, <1>2, <2>1 DEF MailInv, SentOnly, SentBounds
  <2>3. MailRest'
      BY <1>1, <1>3, <2>1, <2>2, HandStepKeeps
  <2>4. BoxStep
      BY <1>1, <1>4, <2>1, <2>2, DropIsLoss
  <2> QED
      BY <2>3, <2>4
<1> QED
    BY <1>5, <1>6

\* A step of the registry alone that leaves the sessions that send alone.
LEMMA RegistryOnlyMails ==
    ASSUME MailInv, UNCHANGED dvars, redis' => redis,
           \A s \in Session : task[s].op = "send" => pc'[s] = pc[s]
    PROVE  MailRest' /\ BoxStep
<1>1. UNCHANGED <<task, offline, inbox, sent, exposed, twice>>
    BY DEF dvars
<1>2. MailRest'
    BY <1>1 DEF MailInv, MailRest, SentOnly, SentBounds, SenderInLoop, NothingReadYet,
                ReadBeforeDel, PopAt
<1>3. \A r \in Thread : InHand(r)' = InHand(r)
    BY <1>1 DEF InHand
<1>4. UNCHANGED boxvars
    BY <1>1, <1>3, AllStays
<1> QED
    BY <1>2, <1>4 DEF BoxStep

LEMMA SessionMails ==
    ASSUME MailInv, NEW s \in Session, DPing(s) \/ DHangup(s) \/ Lifecycle(s)
    PROVE  MailRest' /\ BoxStep
<1>1. UNCHANGED dvars /\ (redis' => redis)
    BY DEF DPing, Ping, DHangup, Hangup, Lifecycle, Accept, AuthHangup, Authenticate,
           AnnounceOnline, Erase, WithdrawOnline, Return
<1>2. \A r \in Session \ {s} : pc'[r] = pc[r]
    BY DEF DPing, Ping, DHangup, Hangup, Lifecycle, Accept, AuthHangup, Authenticate,
           AnnounceOnline, Erase, WithdrawOnline, Return, Goto, MailInv, DIInv, IInv, TypeOK
<1>3. task[s].op # "send"
  <2>1. CASE DPing(s) \/ DHangup(s)
      BY <2>1, Fields DEF DPing, DHangup
  <2>2. CASE Lifecycle(s)
    <3>1. pc[s] # "loop"
        BY <2>2 DEF Lifecycle, Accept, AuthHangup, Authenticate, AnnounceOnline, Erase,
                    WithdrawOnline, Return
    <3> QED
        BY <3>1 DEF MailInv, SenderInLoop
  <2> QED
      BY <2>1, <2>2
<1> QED
    BY <1>1, <1>2, <1>3, RegistryOnlyMails

LEMMA EnvironmentMails ==
    ASSUME MailInv, Environment
    PROVE  MailRest' /\ BoxStep
<1>1. UNCHANGED dvars /\ UNCHANGED pc /\ (redis' => redis)
    BY DEF Environment, RpcStep, RegisterOnline, UnregisterOnline, ExpireOnline, RedisBreaks
<1> QED
    BY <1>1, RegistryOnlyMails

\* What was in the hands of the threads is lost, but for what a list still has.
LEMMA RestartMails ==
    ASSUME MailInv, DRestart
    PROVE  MailRest' /\ BoxStep
<1>1. /\ task' = [t \in Thread |-> Idle]
      /\ exposed' = exposed \cup UNION {InHand(t) : t \in Thread}
      /\ UNCHANGED <<offline, inbox, sent, twice>>
    BY DEF DRestart
<1>2. \A t \in Thread : task'[t] = Idle /\ task'[t].op = "idle"
    BY <1>1, Fields
<1>3. \A t \in Thread : InHand(t)' = {}
    BY <1>2 DEF InHand
<1>4. \A t \in Thread : InHand(t) \subseteq sent
  <2> TAKE t \in Thread
  <2>1. task[t].op = "send" => task[t].msg \in sent
      BY HandFacts
  <2>2. task[t].op = "pop" => ToSet(task[t].got) \subseteq sent
      BY HandFacts
  <2> QED
      BY <2>1, <2>2, InHandIs DEF MailInv, DIInv
<1>5. SentBounds'
    BY <1>1, <1>4 DEF MailInv, SentOnly, SentBounds
<1>6. SentOnly' /\ SenderInLoop' /\ NothingReadYet' /\ ReadBeforeDel'
    BY <1>1, <1>2, <1>5 DEF MailInv, SentOnly, SenderInLoop, NothingReadYet, ReadBeforeDel,
                            PopAt, Thread
<1>7. Given' = Given
    BY <1>1 DEF Given
<1>8. Waiting' \subseteq Waiting
    BY <1>1, <1>3, <1>7 DEF Waiting
<1>9. Waiting \ Waiting' \subseteq exposed'
    BY <1>1, <1>7 DEF Waiting
<1>10. exposed \subseteq exposed' /\ exposed' \subseteq Msg
    BY <1>1, <1>5 DEF SentBounds
<1>11. Box!MNext
    BY <1>1, <1>7, <1>8, <1>9, <1>10, BoxBounds, MailLost
<1> QED
    BY <1>6, <1>11 DEF MailRest, BoxStep

-----------------------------------------------------------------------------
(* The invariant and the theorems. *)

LEMMA MailInitially == DInit => MailInv /\ Box!MInit
<1> SUFFICES ASSUME DInit PROVE MailInv /\ Box!MInit
    OBVIOUS
<1>1. DIInv
    BY DInitEstablishes
<1>2. \A t \in Thread : task[t].op = "idle"
    BY Fields DEF DInit
<1>3. SentOnly
    BY <1>2, EmptyInSeq DEF DInit, SentOnly, SentBounds
<1>4. SenderInLoop /\ NothingReadYet /\ ReadBeforeDel
    BY <1>2 DEF SenderInLoop, NothingReadYet, ReadBeforeDel, PopAt, Thread
<1>5. Box!MInit
    BY DEF DInit, Box!MInit, Given, Waiting
<1> QED
    BY <1>1, <1>3, <1>4, <1>5 DEF MailInv

LEMMA MailNextKeeps ==
    ASSUME MailInv, [DNext]_<<vars, dvars>>
    PROVE  MailInv' /\ BoxStep
<1>1. DIInv'
    BY DNextKeeps DEF MailInv
<1>2. MailRest' /\ BoxStep
  <2>1. CASE \E t \in Thread, m \in Msg : SendBegin(t, m)
      BY <2>1, SendBeginMails
  <2>2. ASSUME NEW t \in Thread, SendStep(t) PROVE MailRest' /\ BoxStep
      BY <2>2, CheckLockAckMail, PushWriteMails, StoreMails DEF SendStep
  <2>3. ASSUME NEW t \in Thread, PopStep(t) PROVE MailRest' /\ BoxStep
      BY <2>3, PopReadMails, PopDeleteMails, EmitMails DEF PopStep
  <2>4. CASE \E w \in Worker, u \in User : PullOfflineMessages(w, u)
      BY <2>4, PullMails
  <2>5. CASE \E s \in Session : LogIn(s) \/ DPing(s) \/ DHangup(s) \/ Lifecycle(s)
      BY <2>5, LogInMails, SessionMails
  <2>6. CASE Environment
      BY <2>6, EnvironmentMails
  <2>7. CASE DRestart
      BY <2>7, RestartMails
  <2>8. CASE UNCHANGED <<vars, dvars>>
      BY <2>8, RegistryOnlyMails DEF vars
  <2> QED
      BY <2>1, <2>2, <2>3, <2>4, <2>5, <2>6, <2>7, <2>8 DEF DNext
<1> QED
    BY <1>1, <1>2 DEF MailInv, MailRest

LEMMA MailInductive == DSpec => []MailInv
<1>1. MailInv /\ [DNext]_<<vars, dvars>> => MailInv'
    BY MailNextKeeps
<1> QED
    BY <1>1, MailInitially, PTL DEF DSpec

\* Every behaviour of the handlers is one of a mailbox, with every fault: what
\* was accepted waits until its addressee has it, and is lost only at risk.
THEOREM DeliveryImplementsMailbox == DSpec => KeepsMail
<1>1. MailInv /\ [DNext]_<<vars, dvars>> => [Box!MNext]_Box!mvars
    BY MailNextKeeps DEF BoxStep, boxvars, Box!mvars
<1>2. DInit => Box!MInit
    BY MailInitially
<1> QED
    BY <1>1, <1>2, MailInductive, PTL DEF DSpec, KeepsMail, Box!MSpec

\* What the mailbox has lost was at risk.
LostWasExposed == (sent \ Given) \ Waiting \subseteq exposed

\* A message is with its addressee, in the list or in the hands of a thread,
\* unless it met one of the conditions that lose it.
THEOREM LossesAreExplained == DSpec => []NoUnexplainedLoss
<1>1. DInit => LostWasExposed
    BY DEF DInit, LostWasExposed
<1>2. LostWasExposed /\ [Box!MNext]_Box!mvars => LostWasExposed'
  <2> SUFFICES ASSUME LostWasExposed, [Box!MNext]_Box!mvars PROVE LostWasExposed'
      OBVIOUS
  <2>1. CASE \E m \in Msg : Box!Post(m)
      BY <2>1 DEF LostWasExposed, Box!Post
  <2>2. CASE \E ms \in SUBSET Waiting : Box!Give(ms)
      BY <2>2 DEF LostWasExposed, Box!Give
  <2>3. CASE (\E ms \in SUBSET Msg : Box!Endanger(ms)) /\ \E ms \in SUBSET Waiting : Box!Lose(ms)
      BY <2>3 DEF LostWasExposed, Box!Endanger, Box!Lose
  <2>4. CASE UNCHANGED Box!mvars
      BY <2>4 DEF LostWasExposed, Box!mvars
  <2> QED
      BY <2>1, <2>2, <2>3, <2>4 DEF Box!MNext
<1>3. LostWasExposed => NoUnexplainedLoss
  <2> SUFFICES ASSUME LostWasExposed, NEW m \in sent \ exposed
               PROVE  \/ m \in ToSet(inbox[m.to]) \cup ToSet(offline[m.to])
                      \/ \E t \in Thread : m \in InHand(t)
      BY DEF NoUnexplainedLoss
  <2>1. m \in Given \/ m \in Waiting
      BY DEF LostWasExposed
  <2> QED
      BY <2>1 DEF Given, Waiting
<1>4. DSpec => [][Box!MNext]_Box!mvars
    BY DeliveryImplementsMailbox, PTL DEF KeepsMail, Box!MSpec
<1>5. DSpec => DInit
    BY DEF DSpec
<1> QED
    BY <1>1, <1>2, <1>3, <1>4, <1>5, PTL

\* The threads, the lists and the clients only ever have what has been sent.
THEOREM DeliveryTypeCorrect == DSpec => []DTypeOK
<1>1. MailInv => DTypeOK
  <2> SUFFICES ASSUME MailInv PROVE DTypeOK
      OBVIOUS
  <2>1. task \in [Thread -> Task]
      BY DEF MailInv, DIInv
  <2>2. ASSUME NEW t \in Thread
        PROVE  \/ task[t] = Idle
               \/ \E m \in sent : \E at \in {"check", "push", "pushing", "store", "ack", "acking"} :
                      task[t] = Sending(m, at)
               \/ \E u \in User : \E at \in {"lrange", "del", "emit"} :
                      task[t] = Popping(u, at, task[t].got) /\ task[t].got \in Seq(sent)
    <3>1. task[t] \in Task
        BY <2>1
    <3>2. CASE task[t] \in [op : {"send"}, msg : Msg, at : SendStage]
      <4>1. task[t].op = "send" /\ task[t].at \in SendStage
            /\ task[t] = Sending(task[t].msg, task[t].at)
          BY <3>2 DEF Sending
      <4>2. task[t].msg \in sent
          BY <4>1, HandFacts
      <4> QED
          BY <4>1, <4>2 DEF SendStage
    <3>3. CASE task[t] \in [op : {"pop"}, of : User, at : PopStage, got : Seq(Msg)]
      <4>1. task[t].op = "pop" /\ task[t].at \in PopStage /\ task[t].of \in User
            /\ task[t] = Popping(task[t].of, task[t].at, task[t].got)
          BY <3>3 DEF Popping
      <4>2. task[t].got \in Seq(sent)
          BY <4>1, HandFacts
      <4> QED
          BY <4>1, <4>2 DEF PopStage
    <3> QED
        BY <3>1, <3>2, <3>3 DEF Task
  <2>3. DOMAIN task = Thread
      BY <2>1
  <2> QED
      BY <2>2, <2>3 DEF DTypeOK, MailInv, SentOnly, SentBounds
<1> QED
    BY <1>1, MailInductive, PTL

-----------------------------------------------------------------------------
(* A message is given out once.  The messages of a user are in places that *)
(* have nothing in common: the inbox, the list, and the hands of each      *)
(* thread that has taken some out of circulation.                          *)

\* The messages for u that only thread t has.
Loose(t, u) ==
    IF task[t].op = "send" /\ task[t].at \in {"check", "push", "pushing", "store"}
    THEN {task[t].msg} \cap AddressedTo(u)
    ELSE IF PopAt(t, "emit") /\ task[t].of = u THEN ToSet(task[t].got) ELSE {}

PlacesApart(u) ==
    /\ IsInjective(inbox[u]) /\ IsInjective(offline[u])
    /\ ToSet(inbox[u]) \cap ToSet(offline[u]) = {}
    /\ \A t \in Thread : Loose(t, u) \cap (ToSet(inbox[u]) \cup ToSet(offline[u])) = {}
    /\ \A r, t \in Thread : r # t => Loose(r, u) \cap Loose(t, u) = {}

\* Between LRANGE and DEL a thread is alone with the list, which still has all
\* that the thread has read.
AloneWithList(u) ==
    \A t \in Thread :
        /\ task[t].op = "pop" /\ task[t].of = u => IsInjective(task[t].got)
        /\ PopAt(t, "del") /\ task[t].of = u =>
               /\ ToSet(task[t].got) \subseteq ToSet(offline[u])
               /\ \A r \in Thread \ {t} : ~(PopAt(r, "del") /\ task[r].of = u)

OnceFor(u) == PlacesApart(u) /\ AloneWithList(u)

OnceInv == MailInv /\ \A u \in User \ twice : OnceFor(u)

LEMMA InjectiveConcat ==
    ASSUME NEW S, NEW s \in Seq(S), NEW t \in Seq(S),
           IsInjective(s), IsInjective(t), ToSet(s) \cap ToSet(t) = {}
    PROVE  IsInjective(s \o t)
<1>1. /\ Len(s) \in Nat /\ Len(t) \in Nat
      /\ DOMAIN s = 1 .. Len(s) /\ DOMAIN t = 1 .. Len(t) /\ DOMAIN (s \o t) = 1 .. Len(s) + Len(t)
    OBVIOUS
<1>2. \A i \in 1 .. Len(s) + Len(t) : (s \o t)[i] = IF i <= Len(s) THEN s[i] ELSE t[i - Len(s)]
    BY <1>1
<1>3. \A i \in 1 .. Len(s), j \in 1 .. Len(t) : s[i] # t[j]
    BY <1>1 DEF ToSet
<1>4. ASSUME NEW i \in 1 .. Len(s) + Len(t), NEW j \in 1 .. Len(s) + Len(t),
             (s \o t)[i] = (s \o t)[j]
      PROVE  i = j
  <2>1. CASE i <= Len(s) /\ j <= Len(s)
      BY <1>1, <1>2, <1>4, <2>1 DEF IsInjective
  <2>2. CASE i <= Len(s) /\ ~(j <= Len(s))
    <3>1. s[i] = t[j - Len(s)] /\ i \in 1 .. Len(s) /\ j - Len(s) \in 1 .. Len(t)
        BY <1>1, <1>2, <1>4, <2>2
    <3> QED
        BY <1>3, <3>1
  <2>3. CASE ~(i <= Len(s)) /\ j <= Len(s)
    <3>1. s[j] = t[i - Len(s)] /\ j \in 1 .. Len(s) /\ i - Len(s) \in 1 .. Len(t)
        BY <1>1, <1>2, <1>4, <2>3
    <3> QED
        BY <1>3, <3>1
  <2>4. CASE ~(i <= Len(s)) /\ ~(j <= Len(s))
    <3>1. t[i - Len(s)] = t[j - Len(s)] /\ i - Len(s) \in DOMAIN t /\ j - Len(s) \in DOMAIN t
        BY <1>1, <1>2, <1>4, <2>4
    <3>2. i - Len(s) = j - Len(s)
        BY <3>1 DEF IsInjective
    <3> QED
        BY <1>1, <3>2
  <2> QED
      BY <2>1, <2>2, <2>3, <2>4
<1> QED
    BY <1>1, <1>4 DEF IsInjective

LEMMA InjectiveOne ==
    /\ IsInjective(<<>>)
    /\ \A e : IsInjective(<<e>>)
<1>1. IsInjective(<<>>)
    BY DEF IsInjective
<1>2. ASSUME NEW e PROVE IsInjective(<<e>>)
  <2>1. DOMAIN <<e>> = {1}
      OBVIOUS
  <2> QED
      BY <2>1 DEF IsInjective
<1> QED
    BY <1>1, <1>2

LEMMA InjectiveAppend ==
    ASSUME NEW S, NEW s \in Seq(S), NEW e \in S, IsInjective(s), e \notin ToSet(s)
    PROVE  IsInjective(Append(s, e))
<1>1. PICK t : t = <<e>>
    OBVIOUS
<1>2. t \in Seq(S) /\ Append(s, e) = s \o t
    BY <1>1
<1>3. ToSet(t) = {e} /\ IsInjective(t)
  <2>1. DOMAIN t = {1} /\ t[1] = e
      BY <1>1
  <2> QED
      BY <2>1 DEF ToSet, IsInjective
<1>4. IsInjective(s \o t)
    BY <1>2, <1>3, InjectiveConcat
<1> QED
    BY <1>2, <1>4, Zenon

\* What is in the places of u has been sent.
LEMMA PlacesSent ==
    ASSUME MailInv, NEW u \in User
    PROVE  /\ inbox[u] \in Seq(sent) /\ offline[u] \in Seq(sent)
           /\ ToSet(inbox[u]) \subseteq sent /\ ToSet(offline[u]) \subseteq sent
           /\ \A t \in Thread : Loose(t, u) \subseteq sent
<1>1. inbox[u] \in Seq(sent) /\ offline[u] \in Seq(sent)
    BY DEF MailInv, SentOnly
<1>2. ToSet(inbox[u]) \subseteq sent /\ ToSet(offline[u]) \subseteq sent
    BY <1>1, ToSetFacts, Zenon
<1>3. \A t \in Thread : Loose(t, u) \subseteq sent
    BY HandFacts DEF Loose, PopAt
<1> QED
    BY <1>1, <1>2, <1>3

\* A step of thread t keeps the places of u apart if t and the two sequences
\* stay apart and have nothing from elsewhere but what is new.
LEMMA PlacesStayApart ==
    ASSUME MailInv, NEW u \in User, OnceFor(u), NEW t \in Thread,
           \A r \in Thread \ {t} : task'[r] = task[r],
           IsInjective(inbox'[u]), IsInjective(offline'[u]),
           ToSet(inbox'[u]) \cap ToSet(offline'[u]) = {},
           Loose(t, u)' \cap (ToSet(inbox'[u]) \cup ToSet(offline'[u])) = {},
           (ToSet(inbox'[u]) \cup ToSet(offline'[u]) \cup Loose(t, u)') \cap sent
               \subseteq ToSet(inbox[u]) \cup ToSet(offline[u]) \cup Loose(t, u),
           task'[t].op = "pop" /\ task'[t].of = u => IsInjective(task'[t].got),
           PopAt(t, "del")' /\ task'[t].of = u =>
               /\ ToSet(task'[t].got) \subseteq ToSet(offline'[u])
               /\ \A r \in Thread \ {t} : ~(PopAt(r, "del") /\ task[r].of = u),
           \A r \in Thread \ {t} : PopAt(r, "del") /\ task[r].of = u =>
               ToSet(offline[u]) \subseteq ToSet(offline'[u])
    PROVE  OnceFor(u)'
<1>1. \A r \in Thread \ {t} : Loose(r, u)' = Loose(r, u) /\ (PopAt(r, "del")' <=> PopAt(r, "del"))
    BY DEF Loose, PopAt
<1>2. \A r \in Thread : Loose(r, u) \subseteq sent
    BY PlacesSent
<1>3. \A r \in Thread \ {t} :
          /\ Loose(r, u) \cap (ToSet(inbox[u]) \cup ToSet(offline[u]) \cup Loose(t, u)) = {}
          /\ \A q \in Thread \ {t} : r # q => Loose(r, u) \cap Loose(q, u) = {}
    BY DEF OnceFor, PlacesApart
<1>4. \A r \in Thread \ {t} :
          Loose(r, u) \cap (ToSet(inbox'[u]) \cup ToSet(offline'[u]) \cup Loose(t, u)') = {}
    BY <1>2, <1>3
<1>5. PlacesApart(u)'
  <2>1. \A r \in Thread : Loose(r, u)' \cap (ToSet(inbox'[u]) \cup ToSet(offline'[u])) = {}
      BY <1>1, <1>4
  <2>2. \A r, q \in Thread : r # q => Loose(r, u)' \cap Loose(q, u)' = {}
      BY <1>1, <1>3, <1>4
  <2> QED
      BY <2>1, <2>2 DEF PlacesApart
<1>6. AloneWithList(u)'
  <2> SUFFICES ASSUME NEW r \in Thread
               PROVE  /\ task'[r].op = "pop" /\ task'[r].of = u => IsInjective(task'[r].got)
                      /\ PopAt(r, "del")' /\ task'[r].of = u =>
                           /\ ToSet(task'[r].got) \subseteq ToSet(offline'[u])
                           /\ \A q \in Thread \ {r} : ~(PopAt(q, "del")' /\ task'[q].of = u)
      BY DEF AloneWithList
  <2>1. CASE r = t
      BY <1>1, <2>1
  <2>2. CASE r # t
      BY <1>1, <2>2 DEF OnceFor, AloneWithList
  <2> QED
      BY <2>1, <2>2
<1> QED
    BY <1>5, <1>6 DEF OnceFor

LEMMA LooseAfter ==
    ASSUME MailInv, NEW t \in Thread, NEW next \in Task, Do(t, next), NEW u
    PROVE  /\ task'[t] = next
           /\ \A r \in Thread \ {t} : task'[r] = task[r]
           /\ Loose(t, u)' =
                  IF next.op = "send" /\ next.at \in {"check", "push", "pushing", "store"}
                  THEN {next.msg} \cap AddressedTo(u)
                  ELSE IF next.op = "pop" /\ next.at = "emit" /\ next.of = u
                       THEN ToSet(next.got) ELSE {}
<1>1. /\ task'[t] = next
      /\ \A r \in Thread \ {t} : task'[r] = task[r]
    BY OneHandMoves
<1> QED
    BY <1>1 DEF Loose, PopAt, AddressedTo

\* A step that leaves the list and the inbox of u alone and takes t to a task that is no pop.
LEMMA OnceAtSend ==
    ASSUME OnceInv, NEW t \in Thread, NEW next \in Task, Do(t, next), next.op # "pop",
           NEW u \in User, OnceFor(u), offline'[u] = offline[u], inbox'[u] = inbox[u],
           Loose(t, u)' \cap sent \subseteq Loose(t, u)
    PROVE  OnceFor(u)'
<1>1. MailInv
    BY DEF OnceInv
<1>2. /\ task'[t] = next
      /\ \A r \in Thread \ {t} : task'[r] = task[r]
    BY <1>1, OneHandMoves
<1>3. ToSet(inbox[u]) \subseteq sent /\ ToSet(offline[u]) \subseteq sent
    BY <1>1, PlacesSent
<1>4. /\ IsInjective(inbox[u]) /\ IsInjective(offline[u])
      /\ ToSet(inbox[u]) \cap ToSet(offline[u]) = {}
      /\ Loose(t, u) \cap (ToSet(inbox[u]) \cup ToSet(offline[u])) = {}
    BY DEF OnceFor, PlacesApart
<1>5. Loose(t, u)' \cap (ToSet(inbox'[u]) \cup ToSet(offline'[u])) = {}
    BY <1>3, <1>4
<1>6. ~PopAt(t, "del")' /\ task'[t].op # "pop"
    BY <1>2 DEF PopAt
<1> QED
    BY <1>1, <1>2, <1>4, <1>5, <1>6, PlacesStayApart

LEMMA SendOnce ==
    ASSUME OnceInv, NEW t \in Thread, NEW u \in User, OnceFor(u),
           \/ \E m \in Msg : SendBegin(t, m)
           \/ CheckOnline(t) \/ PushLock(t) \/ AckOwn(t) \/ AckLock(t) \/ AckWrite(t)
    PROVE  OnceFor(u)'
<1>1. MailInv
    BY DEF OnceInv
<1>2. UNCHANGED <<offline, inbox>>
    BY DEF SendBegin, CheckOnline, PushLock, AckOwn, AckLock, AckWrite
<1>3. ASSUME NEW m \in Msg, SendBegin(t, m) PROVE OnceFor(u)'
  <2> DEFINE next == Sending(m, "check")
  <2>1. next \in Task /\ Do(t, next) /\ next.op = "send" /\ next.msg = m /\ m \notin sent
      BY <1>3, Tasks, Fields DEF SendBegin, SendStage
  <2> HIDE DEF next
  <2>2. Loose(t, u)' \subseteq {m}
      BY <1>1, <2>1, LooseAfter
  <2> QED
      BY <1>2, <2>1, <2>2, OnceAtSend
<1>4. CASE CheckOnline(t) \/ PushLock(t) \/ AckLock(t)
  <2> DEFINE m == task[t].msg
  <2>1. task[t].op = "send" /\ m \in Msg
      BY <1>1, <1>4, HandFacts DEF CheckOnline, PushLock, AckLock, SendAt
  <2>2. PICK at \in {"push", "store", "pushing", "acking"} :
            /\ Do(t, Sending(m, at))
            /\ task[t].at \in {"check", "push"} \/ at = "acking"
      BY <1>4 DEF CheckOnline, PushLock, AckLock, SendAt
  <2>3. PICK next \in Task : next = Sending(m, at)
      BY <2>1, Tasks DEF SendStage
  <2>4. next.op = "send" /\ next.msg = m /\ next.at = at
      BY <2>3, Fields
  <2>5. Loose(t, u)' \subseteq Loose(t, u)
      BY <1>1, <2>1, <2>2, <2>3, <2>4, LooseAfter DEF Loose
  <2> QED
      BY <1>2, <2>2, <2>3, <2>4, <2>5, OnceAtSend
<1>5. CASE AckOwn(t) \/ AckWrite(t)
  <2>1. Do(t, Idle) /\ Idle \in Task /\ Idle.op = "idle"
      BY <1>5, Tasks, Fields DEF AckOwn, AckWrite
  <2>2. Loose(t, u)' = {}
      BY <1>1, <2>1, LooseAfter
  <2> QED
      BY <1>2, <2>1, <2>2, OnceAtSend
<1> QED
    BY <1>3, <1>4, <1>5

LEMMA PushWriteOnce ==
    ASSUME OnceInv, NEW t \in Thread, NEW u \in User, OnceFor(u),
           NEW ok \in Written, PushWrite(t, ok)
    PROVE  OnceFor(u)'
<1> DEFINE m == task[t].msg
<1>1. MailInv
    BY DEF OnceInv
<1>2. /\ task[t].op = "send" /\ task[t].at = "pushing" /\ Do(t, Sending(m, "ack"))
      /\ m \in sent /\ m \in Msg /\ m.to \in User /\ UNCHANGED offline
    BY <1>1, HandFacts DEF PushWrite, SendAt
<1>3. PICK next \in Task : next = Sending(m, "ack")
    BY <1>2, Tasks DEF SendStage
<1>4. next.op = "send" /\ next.at = "ack" /\ Do(t, next)
    BY <1>2, <1>3, Fields
<1>5. Loose(t, u)' = {} /\ task'[t] = next /\ \A r \in Thread \ {t} : task'[r] = task[r]
    BY <1>1, <1>4, LooseAfter
<1>6. CASE UNCHANGED inbox
    BY <1>2, <1>4, <1>5, <1>6, OnceAtSend
<1>7. CASE Hand(m.to, <<m>>)
  <2>1. inbox' = [inbox EXCEPT ![m.to] = inbox[m.to] \o <<m>>] /\ inbox \in [User -> Seq(sent)]
      BY <1>1, <1>7 DEF Hand, MailInv, SentOnly
  <2>2. CASE u # m.to
    <3>1. offline'[u] = offline[u] /\ inbox'[u] = inbox[u]
        BY <1>2, <2>1, <2>2
    <3> QED
        BY <1>4, <1>5, <3>1, OnceAtSend
  <2>3. CASE u = m.to
    <3>1. inbox[u] \in Seq(sent) /\ inbox'[u] = Append(inbox[u], m)
      <4>1. inbox[u] \in Seq(sent) /\ inbox'[u] = inbox[u] \o <<m>>
          BY <1>2, <2>1, <2>3
      <4>2. Append(inbox[u], m) = inbox[u] \o <<m>>
          BY <4>1
      <4> QED
          BY <4>1, <4>2
    <3>2. Loose(t, u) = {m}
        BY <1>2, <2>3 DEF Loose, AddressedTo
    <3>3. /\ IsInjective(inbox[u]) /\ IsInjective(offline[u])
          /\ ToSet(inbox[u]) \cap ToSet(offline[u]) = {}
          /\ m \notin ToSet(inbox[u]) \cup ToSet(offline[u])
        BY <3>2 DEF OnceFor, PlacesApart
    <3>4. IsInjective(inbox'[u]) /\ ToSet(inbox'[u]) = ToSet(inbox[u]) \cup {m}
        BY <1>2, <3>1, <3>3, InjectiveAppend, ToSetAppend
    <3>5. ~PopAt(t, "del")' /\ task'[t].op # "pop"
        BY <1>4, <1>5 DEF PopAt
    <3> QED
        BY <1>1, <1>2, <1>5, <3>2, <3>3, <3>4, <3>5, PlacesStayApart
  <2> QED
      BY <2>2, <2>3
<1>8. CASE push.on # None /\ ok
  <2>1. push.by = t /\ push.to = m.to
      BY <1>1, <1>2 DEF MailInv, DIInv, PusherHolds, SendAt
  <2>2. user[push.on] = m.to
      BY <1>1, <1>8, <2>1, IInvImplies DEF MailInv, DIInv, WriteHitsLiveStream
  <2> QED
      BY <1>7, <1>8, <2>2 DEF PushWrite
<1>9. CASE ~(push.on # None /\ ok)
    BY <1>6, <1>9 DEF PushWrite
<1> QED
    BY <1>8, <1>9

LEMMA StoreOnce ==
    ASSUME OnceInv, NEW t \in Thread, NEW u \in User, OnceFor(u), Store(t)
    PROVE  OnceFor(u)'
<1> DEFINE m == task[t].msg
<1>1. MailInv
    BY DEF OnceInv
<1>2. /\ task[t].op = "send" /\ task[t].at = "store" /\ Do(t, Sending(m, "ack"))
      /\ m \in sent /\ m \in Msg /\ m.to \in User /\ UNCHANGED inbox
    BY <1>1, HandFacts DEF Store, SendAt
<1>3. PICK next \in Task : next = Sending(m, "ack")
    BY <1>2, Tasks DEF SendStage
<1>4. next.op = "send" /\ next.at = "ack" /\ Do(t, next)
    BY <1>2, <1>3, Fields
<1>5. Loose(t, u)' = {} /\ task'[t] = next /\ \A r \in Thread \ {t} : task'[r] = task[r]
    BY <1>1, <1>4, LooseAfter
<1>6. CASE ~redis
  <2>1. UNCHANGED offline
      BY <1>6 DEF Store
  <2> QED
      BY <1>2, <1>4, <1>5, <2>1, OnceAtSend
<1>7. CASE redis
  <2>1. offline' = [offline EXCEPT ![m.to] = Append(offline[m.to], m)]
        /\ offline \in [User -> Seq(sent)]
      BY <1>1, <1>7 DEF Store, MailInv, SentOnly
  <2>2. CASE u # m.to
    <3>1. offline'[u] = offline[u] /\ inbox'[u] = inbox[u]
        BY <1>2, <2>1, <2>2
    <3> QED
        BY <1>4, <1>5, <3>1, OnceAtSend
  <2>3. CASE u = m.to
    <3>1. offline[u] \in Seq(sent) /\ offline'[u] = Append(offline[u], m)
        BY <1>2, <2>1, <2>3
    <3>2. Loose(t, u) = {m}
        BY <1>2, <2>3 DEF Loose, AddressedTo
    <3>3. /\ IsInjective(inbox[u]) /\ IsInjective(offline[u])
          /\ ToSet(inbox[u]) \cap ToSet(offline[u]) = {}
          /\ m \notin ToSet(inbox[u]) \cup ToSet(offline[u])
        BY <3>2 DEF OnceFor, PlacesApart
    <3>4. IsInjective(offline'[u]) /\ ToSet(offline'[u]) = ToSet(offline[u]) \cup {m}
        BY <1>2, <3>1, <3>3, InjectiveAppend, ToSetAppend
    <3>5. ~PopAt(t, "del")' /\ task'[t].op # "pop"
        BY <1>4, <1>5 DEF PopAt
    <3> QED
        BY <1>1, <1>2, <1>5, <3>2, <3>3, <3>4, <3>5, PlacesStayApart
  <2> QED
      BY <2>2, <2>3
<1> QED
    BY <1>6, <1>7

\* A step that leaves list and inbox of u alone and takes t, which has nothing
\* of u, to the beginning of a pop.
LEMMA PopBeginOnce ==
    ASSUME OnceInv, NEW t \in Thread, NEW u \in User, OnceFor(u), NEW v \in User,
           Do(t, Popping(v, "lrange", <<>>)), UNCHANGED <<offline, inbox>>
    PROVE  OnceFor(u)'
<1>1. MailInv
    BY DEF OnceInv
<1>2. PICK got : got = <<>>
    OBVIOUS
<1>3. got \in Seq(Msg) /\ IsInjective(got)
    BY <1>2, EmptyInSeq, InjectiveOne
<1>4. PICK next \in Task : next = Popping(v, "lrange", got)
    BY <1>3, Tasks DEF PopStage
<1>5. next.op = "pop" /\ next.of = v /\ next.at = "lrange" /\ next.got = got /\ Do(t, next)
    BY <1>2, <1>4, Fields
<1>6. Loose(t, u)' = {} /\ task'[t] = next /\ \A r \in Thread \ {t} : task'[r] = task[r]
    BY <1>1, <1>5, LooseAfter
<1>7. ~PopAt(t, "del")'
    BY <1>5, <1>6 DEF PopAt
<1>8. /\ IsInjective(inbox[u]) /\ IsInjective(offline[u])
      /\ ToSet(inbox[u]) \cap ToSet(offline[u]) = {}
    BY DEF OnceFor, PlacesApart
<1> QED
    BY <1>1, <1>3, <1>5, <1>6, <1>7, <1>8, PlacesStayApart

\* Who reads the list of u while another is between LRANGE and DEL makes u one
\* of twice.
LEMMA PopReadOnce ==
    ASSUME OnceInv, NEW t \in Thread, NEW u \in User, OnceFor(u), u \notin twice', PopRead(t)
    PROVE  OnceFor(u)'
<1> DEFINE v == task[t].of
<1>1. MailInv
    BY DEF OnceInv
<1>2. /\ task[t].op = "pop" /\ task[t].at = "lrange" /\ v \in User
      /\ UNCHANGED <<offline, inbox>>
      /\ v = u => \A r \in Thread : ~(PopAt(r, "del") /\ task[r].of = u)
    BY <1>1, HandFacts DEF PopRead, PopAt
<1>3. PICK got : got = IF redis THEN offline[v] ELSE <<>>
    OBVIOUS
<1>4. /\ got \in Seq(Msg)
      /\ ToSet(got) \subseteq ToSet(offline[v])
      /\ v = u => IsInjective(got)
    BY <1>1, <1>2, <1>3, EmptyInSeq, ToSetFacts, InjectiveOne
       DEF MailInv, DIInv, StoredIsAddressed, OnceFor, PlacesApart
<1>5. PICK next \in Task : next = Popping(v, "del", got)
    BY <1>2, <1>4, Tasks DEF PopStage
<1>6. next.op = "pop" /\ next.of = v /\ next.at = "del" /\ next.got = got /\ Do(t, next)
    BY <1>3, <1>5, Fields DEF PopRead
<1>7. Loose(t, u)' = {} /\ task'[t] = next /\ \A r \in Thread \ {t} : task'[r] = task[r]
    BY <1>1, <1>6, LooseAfter
<1>8. /\ IsInjective(inbox[u]) /\ IsInjective(offline[u])
      /\ ToSet(inbox[u]) \cap ToSet(offline[u]) = {}
    BY DEF OnceFor, PlacesApart
<1> QED
    BY <1>1, <1>2, <1>4, <1>6, <1>7, <1>8, PlacesStayApart

\* DEL takes out of the list what only t has from now on.
LEMMA PopDeleteOnce ==
    ASSUME OnceInv, NEW t \in Thread, NEW u \in User, OnceFor(u), u \notin twice', PopDelete(t)
    PROVE  OnceFor(u)'
<1> DEFINE v == task[t].of
<1> DEFINE got == task[t].got
<1>1. MailInv
    BY DEF OnceInv
<1>2. /\ task[t].op = "pop" /\ task[t].at = "del" /\ v \in User /\ got \in Seq(Msg)
      /\ UNCHANGED inbox /\ Do(t, Popping(v, "emit", got))
      /\ v = u => redis
      /\ offline' = IF redis THEN [offline EXCEPT ![v] = <<>>] ELSE offline
      /\ offline \in [User -> Seq(sent)]
    BY <1>1, HandFacts DEF PopDelete, PopAt, MailInv, SentOnly
<1>3. PICK next \in Task : next = Popping(v, "emit", got)
    BY <1>2, Tasks DEF PopStage
<1>4. next.op = "pop" /\ next.of = v /\ next.at = "emit" /\ next.got = got /\ Do(t, next)
    BY <1>2, <1>3, Fields
<1>5. /\ Loose(t, u)' = (IF v = u THEN ToSet(got) ELSE {})
      /\ task'[t] = next /\ \A r \in Thread \ {t} : task'[r] = task[r]
    BY <1>1, <1>4, LooseAfter
<1>6. /\ IsInjective(inbox[u]) /\ IsInjective(offline[u])
      /\ ToSet(inbox[u]) \cap ToSet(offline[u]) = {}
    BY DEF OnceFor, PlacesApart
<1>7. ~PopAt(t, "del")'
    BY <1>4, <1>5 DEF PopAt
<1>8. CASE v = u
  <2>1. offline'[u] = <<>>
      BY <1>2, <1>8
  <2>2. IsInjective(offline'[u]) /\ ToSet(offline'[u]) = {}
      BY <2>1, InjectiveOne, ToSetFacts
  <2>3. /\ IsInjective(got) /\ ToSet(got) \subseteq ToSet(offline[u])
        /\ \A r \in Thread \ {t} : ~(PopAt(r, "del") /\ task[r].of = u)
      BY <1>2, <1>8 DEF PopAt, OnceFor, AloneWithList
  <2> QED
      BY <1>1, <1>2, <1>4, <1>5, <1>6, <1>7, <1>8, <2>2, <2>3, PlacesStayApart
<1>9. CASE v # u
  <2>1. offline'[u] = offline[u]
      BY <1>2, <1>9
  <2> QED
      BY <1>1, <1>2, <1>4, <1>5, <1>6, <1>7, <1>9, <2>1, PlacesStayApart
<1> QED
    BY <1>8, <1>9

LEMMA EmitOnce ==
    ASSUME OnceInv, NEW t \in Thread, NEW u \in User, OnceFor(u), NEW ok \in Written, Emit(t, ok)
    PROVE  OnceFor(u)'
<1> DEFINE v == task[t].of
<1> DEFINE got == task[t].got
<1>1. MailInv
    BY DEF OnceInv
<1>2. /\ task[t].op = "pop" /\ task[t].at = "emit" /\ v \in User /\ got \in Seq(sent)
      /\ UNCHANGED offline /\ Do(t, Idle) /\ Idle \in Task /\ Idle.op = "idle"
    BY <1>1, HandFacts, Tasks, Fields DEF Emit, PopAt
<1>3. Loose(t, u)' = {} /\ task'[t] = Idle /\ \A r \in Thread \ {t} : task'[r] = task[r]
    BY <1>1, <1>2, LooseAfter
<1>4. CASE inbox'[u] = inbox[u]
    BY <1>2, <1>3, <1>4, OnceAtSend
<1>5. CASE Hand(v, got)
  <2>1. inbox' = [inbox EXCEPT ![v] = inbox[v] \o got] /\ inbox \in [User -> Seq(sent)]
      BY <1>1, <1>5 DEF Hand, MailInv, SentOnly
  <2>2. CASE v # u
      BY <1>4, <2>1, <2>2
  <2>3. CASE v = u
    <3>1. inbox[u] \in Seq(sent) /\ inbox'[u] = inbox[u] \o got
        BY <2>1, <2>3
    <3>2. Loose(t, u) = ToSet(got) /\ IsInjective(got)
        BY <1>2, <2>3 DEF Loose, PopAt, OnceFor, AloneWithList
    <3>3. /\ IsInjective(inbox[u]) /\ IsInjective(offline[u])
          /\ ToSet(inbox[u]) \cap ToSet(offline[u]) = {}
          /\ ToSet(got) \cap (ToSet(inbox[u]) \cup ToSet(offline[u])) = {}
        BY <3>2 DEF OnceFor, PlacesApart
    <3>4. IsInjective(inbox[u] \o got) /\ ToSet(inbox[u] \o got) = ToSet(inbox[u]) \cup ToSet(got)
        BY <1>2, <3>1, <3>2, <3>3, InjectiveConcat, ToSetConcat
    <3>5. IsInjective(inbox'[u]) /\ ToSet(inbox'[u]) = ToSet(inbox[u]) \cup ToSet(got)
        BY <3>1, <3>4, Zenon
    <3>6. ~PopAt(t, "del")' /\ task'[t].op # "pop"
        BY <1>2, <1>3 DEF PopAt
    <3> QED
        BY <1>1, <1>2, <1>3, <3>2, <3>3, <3>5, <3>6, PlacesStayApart
  <2> QED
      BY <2>2, <2>3
<1>6. CASE ok
  <2>1. t \in Session => user[t] = v
      BY <1>1, <1>2 DEF MailInv, DIInv, PopperOwns
  <2> QED
      BY <1>5, <1>6, <2>1 DEF Emit
<1>7. CASE ~ok
    BY <1>4, <1>7 DEF Emit
<1> QED
    BY <1>6, <1>7

LEMMA RestartOnce ==
    ASSUME OnceInv, NEW u \in User, OnceFor(u), DRestart
    PROVE  OnceFor(u)'
<1>1. /\ UNCHANGED <<offline, inbox>>
      /\ \A t \in Thread : task'[t] = Idle /\ task'[t].op = "idle"
    BY Fields DEF DRestart
<1>2. \A t \in Thread : Loose(t, u)' = {}
    BY <1>1 DEF Loose, PopAt
<1>3. PlacesApart(u)'
    BY <1>1, <1>2 DEF OnceFor, PlacesApart
<1>4. AloneWithList(u)'
    BY <1>1 DEF AloneWithList, PopAt
<1> QED
    BY <1>3, <1>4 DEF OnceFor

LEMMA OnceInvKept == OnceInv /\ [DNext]_<<vars, dvars>> => OnceInv'
<1> SUFFICES ASSUME OnceInv, [DNext]_<<vars, dvars>> PROVE OnceInv'
    OBVIOUS
<1>1. MailInv /\ MailInv'
    BY MailNextKeeps DEF OnceInv
<1>2. twice \subseteq twice'
    BY DEF DNext, SendBegin, SendStep, CheckOnline, PushLock, PushWrite, Store, AckOwn, AckLock,
           AckWrite, PopStep, PopRead, PopDelete, Emit, PullOfflineMessages, LogIn, DPing, DHangup,
           Lifecycle, Environment, DRestart, dvars
<1>3. ASSUME NEW u \in User, u \notin twice' PROVE OnceFor(u)'
  <2>0. OnceFor(u)
      BY <1>2, <1>3 DEF OnceInv
  <2>1. CASE \E t \in Thread, m \in Msg : SendBegin(t, m)
      BY <2>0, <2>1, SendOnce
  <2>2. ASSUME NEW t \in Thread, SendStep(t) PROVE OnceFor(u)'
      BY <2>0, <2>2, SendOnce, PushWriteOnce, StoreOnce DEF SendStep
  <2>3. ASSUME NEW t \in Thread, PopStep(t) PROVE OnceFor(u)'
      BY <1>3, <2>0, <2>3, PopReadOnce, PopDeleteOnce, EmitOnce DEF PopStep
  <2>4. ASSUME NEW w \in Worker, NEW v \in User, PullOfflineMessages(w, v) PROVE OnceFor(u)'
      BY <2>0, <2>4, PopBeginOnce DEF PullOfflineMessages, Thread
  <2>5. ASSUME NEW s \in Session, LogIn(s) PROVE OnceFor(u)'
    <3>1. user[s] \in User
        BY <1>1, <2>5 DEF LogIn, Register, MailInv, DIInv, IInv, KnownUser
    <3> QED
        BY <2>0, <2>5, <3>1, PopBeginOnce DEF LogIn, Thread
  <2>6. ASSUME UNCHANGED dvars PROVE OnceFor(u)'
      BY <2>0, <2>6 DEF dvars, OnceFor, PlacesApart, AloneWithList, Loose, PopAt, AddressedTo
  <2>7. CASE (\E s \in Session : DPing(s) \/ DHangup(s) \/ Lifecycle(s)) \/ Environment
      BY <2>6, <2>7 DEF DPing, DHangup, Lifecycle, Environment
  <2>8. CASE DRestart
      BY <2>0, <2>8, RestartOnce
  <2>9. CASE UNCHANGED <<vars, dvars>>
      BY <2>6, <2>9
  <2> QED
      BY <2>1, <2>2, <2>3, <2>4, <2>5, <2>7, <2>8, <2>9 DEF DNext
<1> QED
    BY <1>1, <1>3 DEF OnceInv

\* A message is given out once, and not kept for later as well, unless two
\* pops of one list overlapped or a DEL was lost: for any number of sessions,
\* pullers and messages, and over restarts.
THEOREM GivenOnce == DSpec => []OnceUnlessPopsOverlap
<1>1. DInit => OnceInv
  <2> SUFFICES ASSUME DInit PROVE OnceInv
      OBVIOUS
  <2>1. \A t \in Thread : task[t].op = "idle"
      BY Fields DEF DInit
  <2>2. \A u \in User : IsInjective(inbox[u]) /\ IsInjective(offline[u]) /\ ToSet(inbox[u]) = {}
      BY InjectiveOne, ToSetFacts DEF DInit
  <2>3. \A t \in Thread, u \in User : Loose(t, u) = {}
      BY <2>1 DEF Loose, PopAt
  <2>4. \A u \in User : PlacesApart(u) /\ AloneWithList(u)
      BY <2>1, <2>2, <2>3 DEF PlacesApart, AloneWithList, PopAt
  <2> QED
      BY <2>4, MailInitially DEF OnceInv, OnceFor
<1>2. OnceInv => OnceUnlessPopsOverlap
  <2> SUFFICES ASSUME OnceInv, NEW u \in User \ twice PROVE IsInjective(inbox[u] \o offline[u])
      BY DEF OnceUnlessPopsOverlap
  <2>1. inbox[u] \in Seq(sent) /\ offline[u] \in Seq(sent)
      BY PlacesSent DEF OnceInv
  <2>2. /\ IsInjective(inbox[u]) /\ IsInjective(offline[u])
        /\ ToSet(inbox[u]) \cap ToSet(offline[u]) = {}
      BY DEF OnceInv, OnceFor, PlacesApart
  <2> QED
      BY <2>1, <2>2, InjectiveConcat
<1> QED
    BY <1>1, <1>2, OnceInvKept, PTL DEF DSpec

-----------------------------------------------------------------------------
(* Liveness: every handler gets to its end, under the fairness HandlersRun. *)

\* The mutex is with the thread that is inside a write, and with nobody else.
Writing(t) == SendAt(t, "pushing") \/ SendAt(t, "acking")

HolderWrites == \A t \in Thread : push.by = t <=> Writing(t)

WorkInv == MailInv /\ HolderWrites

\* A step of t: who holds the mutex after it is as its new task says.
LEMMA HolderMoves ==
    ASSUME MailInv, HolderWrites, NEW t \in Thread, NEW next \in Task, Do(t, next),
           push'.by = t <=> next.op = "send" /\ next.at \in {"pushing", "acking"},
           \A r \in Thread \ {t} : push'.by = r <=> push.by = r
    PROVE  HolderWrites'
<1>1. task'[t] = next /\ \A r \in Thread \ {t} : task'[r] = task[r]
    BY OneHandMoves
<1> QED
    BY <1>1 DEF HolderWrites, Writing, SendAt

LEMMA SendKeepsHolder ==
    ASSUME MailInv, HolderWrites, NEW t \in Thread, SendStep(t)
    PROVE  HolderWrites'
<1> DEFINE m == task[t].msg
<1>1. task[t].op = "send" /\ m \in Msg
  <2>1. task[t].op = "send"
      BY DEF SendStep, CheckOnline, PushLock, PushWrite, Store, AckOwn, AckLock, AckWrite, SendAt
  <2> QED
      BY <2>1, HandFacts
<1>2. push.by = t <=> Writing(t)
    BY DEF HolderWrites
<1>3. CASE CheckOnline(t) \/ Store(t)
  <2>1. PICK at \in {"push", "store", "ack"} : Do(t, Sending(m, at))
      BY <1>3 DEF CheckOnline, Store
  <2>2. Sending(m, at) \in Task /\ Sending(m, at).at = at /\ at \in SendStage
      BY <1>1, Tasks, Fields DEF SendStage
  <2>3. push' = push /\ ~Writing(t)
      BY <1>3 DEF CheckOnline, Store, vars, SendAt, Writing
  <2> QED
      BY <1>2, <2>1, <2>2, <2>3, HolderMoves
<1>4. CASE PushLock(t) \/ AckLock(t)
  <2>1. PICK at \in {"pushing", "acking"} : Do(t, Sending(m, at))
      BY <1>4 DEF PushLock, AckLock
  <2>2. /\ Sending(m, at) \in Task /\ Sending(m, at).at = at
        /\ Sending(m, at).op = "send" /\ at \in SendStage
      BY <1>1, Tasks, Fields DEF SendStage
  <2>3. push = NoPush /\ push'.by = t
      BY <1>4 DEF PushLock, AckLock, PushBegin, MutexFree
  <2> QED
      BY <2>1, <2>2, <2>3, HolderMoves, ConstantsAssumption DEF NoPush, Thread
<1>5. CASE (\E ok \in Written : PushWrite(t, ok)) \/ AckWrite(t)
  <2>1. PICK next \in {Idle, Sending(m, "ack")} : Do(t, next)
      BY <1>5 DEF PushWrite, AckWrite
  <2>2. next \in Task /\ ~(next.op = "send" /\ next.at \in {"pushing", "acking"})
      BY <1>1, Tasks, Fields DEF SendStage
  <2>3. push.by = t /\ push' = NoPush
      BY <1>5 DEF PushWrite, AckWrite, PushEnd
  <2> QED
      BY <2>1, <2>2, <2>3, HolderMoves, ConstantsAssumption DEF NoPush, Thread
<1>6. CASE AckOwn(t)
  <2>1. Do(t, Idle) /\ push' = push /\ ~Writing(t)
      BY <1>6 DEF AckOwn, vars, SendAt, Writing
  <2> QED
      BY <1>2, <2>1, Tasks, Fields, HolderMoves
<1> QED
    BY <1>3, <1>4, <1>5, <1>6 DEF SendStep

\* Who begins to send or to pop, or goes on popping, has no mutex.
LEMMA OthersKeepHolder ==
    ASSUME MailInv, HolderWrites, NEW t \in Thread, ~Writing(t), UNCHANGED push,
           NEW next \in Task, Do(t, next),
           ~(next.op = "send" /\ next.at \in {"pushing", "acking"})
    PROVE  HolderWrites'
BY HolderMoves DEF HolderWrites

LEMMA PopKeepsHolder ==
    ASSUME MailInv, HolderWrites, NEW t \in Thread,
           \/ PopStep(t)
           \/ t \in Session /\ LogIn(t)
           \/ \E m \in Msg : SendBegin(t, m)
           \/ t \in Worker /\ \E u \in User : PullOfflineMessages(t, u)
    PROVE  HolderWrites'
<1>1. CASE PopStep(t)
  <2>1. task[t].op = "pop" /\ task[t].of \in User /\ task[t].got \in Seq(Msg)
    <3>1. task[t].op = "pop"
        BY <1>1 DEF PopStep, PopRead, PopDelete, Emit, PopAt
    <3> QED
        BY <3>1, HandFacts
  <2>2. UNCHANGED push
      BY <1>1 DEF PopStep, PopRead, PopDelete, Emit, EnterLoop, vars
  <2>3. \/ Do(t, Idle)
        \/ \E got \in {task[t].got, <<>>, offline[task[t].of]}, at \in PopStage :
               Do(t, Popping(task[t].of, at, got))
      BY <1>1 DEF PopStep, PopRead, PopDelete, Emit, PopStage
  <2>4. offline[task[t].of] \in Seq(Msg) /\ <<>> \in Seq(Msg)
      BY <2>1, EmptyInSeq DEF MailInv, DIInv, StoredIsAddressed
  <2>5. PICK next \in Task : Do(t, next) /\ next.op # "send"
    <3>1. CASE Do(t, Idle)
        BY <3>1, Tasks, Fields
    <3>2. ASSUME NEW got \in {task[t].got, <<>>, offline[task[t].of]}, NEW at \in PopStage,
                 Do(t, Popping(task[t].of, at, got))
          PROVE  \E next \in Task : Do(t, next) /\ next.op # "send"
      <4>1. Popping(task[t].of, at, got) \in Task
          BY <2>1, <2>4, Tasks
      <4>2. Popping(task[t].of, at, got).op # "send"
          BY DEF Popping
      <4> QED
          BY <3>2, <4>1, <4>2
    <3> QED
        BY <2>3, <3>1, <3>2
  <2> QED
      BY <2>1, <2>2, <2>5, OthersKeepHolder DEF Writing, SendAt
<1>2. CASE t \in Session /\ LogIn(t)
  <2>1. pc[t] = "register" /\ UNCHANGED push /\ Do(t, Popping(user[t], "lrange", <<>>))
      BY <1>2 DEF LogIn, Register
  <2>2. ~Writing(t)
      BY <1>2, <2>1, HandFacts DEF Writing, SendAt
  <2>3. user[t] \in User /\ "lrange" \in PopStage /\ <<>> \in Seq(Msg)
      BY <1>2, <2>1, EmptyInSeq DEF PopStage, MailInv, DIInv, IInv, KnownUser
  <2>4. PICK next \in Task : Do(t, next) /\ next.op # "send"
      BY <2>1, <2>3, Tasks DEF Popping
  <2> QED
      BY <2>1, <2>2, <2>4, OthersKeepHolder
<1>3. ASSUME NEW m \in Msg, SendBegin(t, m) PROVE HolderWrites'
  <2>1. UNCHANGED push /\ task[t] = Idle /\ Do(t, Sending(m, "check"))
      BY <1>3 DEF SendBegin, vars
  <2>2. ~Writing(t)
      BY <2>1, Fields DEF Writing, SendAt
  <2>3. "check" \in SendStage
      BY DEF SendStage
  <2>4. PICK next \in Task : Do(t, next) /\ next.at = "check"
      BY <2>1, <2>3, Tasks DEF Sending
  <2> QED
      BY <2>1, <2>2, <2>4, OthersKeepHolder
<1>4. ASSUME t \in Worker, NEW u \in User, PullOfflineMessages(t, u) PROVE HolderWrites'
  <2>1. UNCHANGED push /\ task[t] = Idle /\ Do(t, Popping(u, "lrange", <<>>))
      BY <1>4 DEF PullOfflineMessages, vars
  <2>2. ~Writing(t)
      BY <2>1, Fields DEF Writing, SendAt
  <2>3. "lrange" \in PopStage /\ <<>> \in Seq(Msg)
      BY EmptyInSeq DEF PopStage
  <2>4. PICK next \in Task : Do(t, next) /\ next.op # "send"
      BY <2>1, <2>3, Tasks DEF Popping
  <2> QED
      BY <2>1, <2>2, <2>4, OthersKeepHolder
<1> QED
    BY <1>1, <1>2, <1>3, <1>4

LEMMA WorkInductive == DSpec => []WorkInv
<1>1. DInit => HolderWrites
    BY Fields, ConstantsAssumption DEF DInit, Init, HolderWrites, Writing, SendAt, NoPush, Thread
<1>2. ASSUME MailInv, HolderWrites, [DNext]_<<vars, dvars>> PROVE HolderWrites'
  <2>1. ASSUME UNCHANGED <<task, push>> PROVE HolderWrites'
      BY <1>2, <2>1 DEF HolderWrites, Writing, SendAt
  <2>2. CASE \E t \in Thread : SendStep(t)
      BY <1>2, <2>2, SendKeepsHolder
  <2>3. CASE \E t \in Thread : PopStep(t) \/ \E m \in Msg : SendBegin(t, m)
      BY <1>2, <2>3, PopKeepsHolder
  <2>4. CASE \E s \in Session : LogIn(s)
      BY <1>2, <2>4, PopKeepsHolder DEF Thread
  <2>5. CASE \E w \in Worker, u \in User : PullOfflineMessages(w, u)
      BY <1>2, <2>5, PopKeepsHolder DEF Thread
  <2>6. CASE (\E s \in Session : DPing(s) \/ DHangup(s) \/ Lifecycle(s)) \/ Environment
    <3>1. UNCHANGED dvars /\ UNCHANGED push
        BY <2>6 DEF DPing, Ping, DHangup, Hangup, Lifecycle, Accept, AuthHangup, Authenticate,
               AnnounceOnline, Erase, WithdrawOnline, Return, Environment, RpcStep,
               RegisterOnline, UnregisterOnline, ExpireOnline, RedisBreaks
    <3> QED
        BY <2>1, <3>1 DEF dvars
  <2>7. CASE DRestart
    <3>1. push' = NoPush /\ \A t \in Thread : task'[t] = Idle
        BY <2>7 DEF DRestart, Restart
    <3> QED
        BY <3>1, Fields, ConstantsAssumption DEF HolderWrites, Writing, SendAt, NoPush, Thread
  <2>8. CASE UNCHANGED <<vars, dvars>>
      BY <2>1, <2>8 DEF vars, dvars
  <2> QED
      BY <1>2, <2>2, <2>3, <2>4, <2>5, <2>6, <2>7, <2>8 DEF DNext
<1> QED
    BY <1>1, <1>2, MailInductive, PTL DEF DSpec, WorkInv

-----------------------------------------------------------------------------
(* What one thread does, and what the others leave to it. *)

Runs(t) == <<HandlerRuns(t)>>_<<vars, dvars>>

LEMMA SessionIsFair ==
    ASSUME NEW t \in Session
    PROVE  HandlersRun => (<>[]~CanRun(t) \/ []<><<HandlerRuns(t)>>_<<vars, dvars>>)
<1>1. t \in Thread
    BY DEF Thread
<1> QED
    BY <1>1, Zenon DEF HandlersRun

\* A thread in the middle of something stays there until it goes on, or until
\* the process is killed.
LEMMA OthersWait ==
    ASSUME MailInv, NEW t \in Thread, [DNext]_<<vars, dvars>>, task[t] # Idle
    PROVE  task'[t] = task[t] \/ (DRestart /\ task'[t] = Idle) \/ SendStep(t) \/ PopStep(t)
<1>1. ASSUME NEW r \in Thread, r # t, NEW next, Do(r, next) PROVE task'[t] = task[t]
    BY <1>1 DEF Do, MailInv, DIInv
<1>2. CASE \E r \in Thread, m \in Msg : SendBegin(r, m)
    BY <1>1, <1>2 DEF SendBegin
<1>3. CASE \E r \in Thread : SendStep(r)
  <2>1. PICK r \in Thread : SendStep(r)
      BY <1>3
  <2>2. \E next : Do(r, next)
      BY <2>1 DEF SendStep, CheckOnline, PushLock, PushWrite, Store, AckOwn, AckLock, AckWrite
  <2> QED
      BY <1>1, <2>1, <2>2
<1>4. CASE \E r \in Thread : PopStep(r)
  <2>1. PICK r \in Thread : PopStep(r)
      BY <1>4
  <2>2. \E next : Do(r, next)
      BY <2>1 DEF PopStep, PopRead, PopDelete, Emit
  <2> QED
      BY <1>1, <2>1, <2>2
<1>5. CASE \E w \in Worker, u \in User : PullOfflineMessages(w, u)
    BY <1>1, <1>5 DEF PullOfflineMessages, Thread
<1>6. CASE \E s \in Session : LogIn(s)
  <2>1. PICK s \in Session : LogIn(s)
      BY <1>6
  <2>2. CASE s = t
    <3>1. pc[t] = "register"
        BY <2>1, <2>2 DEF LogIn, Register
    <3>2. task[t].op # "send" /\ task[t].op # "pop"
        BY <2>2, <3>1, HandFacts DEF MailInv, DIInv, PopperOwns
    <3> QED
        BY <3>2 DEF MailInv, DIInv, Task
  <2> QED
      BY <1>1, <2>1, <2>2 DEF LogIn, Thread
<1>7. CASE (\E s \in Session : DPing(s) \/ DHangup(s) \/ Lifecycle(s)) \/ Environment
    BY <1>7 DEF DPing, DHangup, Lifecycle, Environment, dvars
<1>8. CASE DRestart
    BY <1>8 DEF DRestart
<1>9. CASE UNCHANGED <<vars, dvars>>
    BY <1>9 DEF dvars
<1> QED
    BY <1>2, <1>3, <1>4, <1>5, <1>6, <1>7, <1>8, <1>9 DEF DNext

\* So a sender is where it was, at its end, or has run.
LEMMA SenderWaits ==
    ASSUME MailInv, NEW t \in Thread, [DNext]_<<vars, dvars>>, NEW at, SendAt(t, at)
    PROVE  SendAt(t, at)' \/ (task[t] = Idle)' \/ Runs(t)
<1>1. task[t] # Idle
    BY Fields DEF SendAt
<1>2. CASE UNCHANGED <<vars, dvars>>
    BY <1>2 DEF dvars, SendAt
<1> QED
    BY <1>1, <1>2, OthersWait DEF Runs, HandlerRuns, SendAt

\* When it has run, it is at its next stage.
LEMMA SenderMoves ==
    ASSUME MailInv, NEW t \in Thread, Runs(t), task[t].op = "send"
    PROVE  /\ SendAt(t, "check") => SendAt(t, "push")' \/ SendAt(t, "store")'
           /\ SendAt(t, "push") => SendAt(t, "pushing")'
           /\ SendAt(t, "pushing") \/ SendAt(t, "store") => SendAt(t, "ack")'
           /\ SendAt(t, "ack") => SendAt(t, "acking")' \/ (task[t] = Idle)'
           /\ SendAt(t, "acking") => (task[t] = Idle)'
<1>1. t \in Session => pc[t] = "loop"
    BY HandFacts
<1>2. SendStep(t)
    BY <1>1 DEF Runs, HandlerRuns, PopStep, PopRead, PopDelete, Emit, PopAt, LogIn, Register
<1>3. ASSUME NEW next, Do(t, next) PROVE task'[t] = next
    BY <1>3 DEF Do, MailInv, DIInv
<1>4. CASE CheckOnline(t)
  <2>1. SendAt(t, "check") /\ \E at \in {"push", "store"} : task'[t] = Sending(task[t].msg, at)
      BY <1>3, <1>4 DEF CheckOnline
  <2> QED
      BY <2>1, Fields DEF SendAt
<1>5. CASE PushLock(t)
    BY <1>3, <1>5, Fields DEF PushLock, SendAt
<1>6. CASE (\E ok \in Written : PushWrite(t, ok)) \/ Store(t)
  <2>1. /\ SendAt(t, "pushing") \/ SendAt(t, "store")
        /\ task'[t] = Sending(task[t].msg, "ack")
      BY <1>3, <1>6 DEF PushWrite, Store
  <2> QED
      BY <2>1, Fields DEF SendAt
<1>7. CASE AckOwn(t)
    BY <1>3, <1>7 DEF AckOwn, SendAt
<1>8. CASE AckLock(t)
    BY <1>3, <1>8, Fields DEF AckLock, SendAt
<1>9. CASE AckWrite(t)
    BY <1>3, <1>9 DEF AckWrite, SendAt
<1> QED
    BY <1>2, <1>4, <1>5, <1>6, <1>7, <1>8, <1>9 DEF SendStep

\* It waits for the mutex at two stages, and for nothing at the others.
LEMMA SenderCan ==
    ASSUME MailInv, NEW t \in Thread, task[t].op = "send"
    PROVE  /\ SendAt(t, "push") \/ SendAt(t, "ack") => (MutexFree => CanRun(t))
           /\ task[t].at \in {"check", "pushing", "store", "acking"} => CanRun(t)
<1>1. t \in Session => pc[t] = "loop"
    BY HandFacts
<1>2. HasWork(t)
    BY Fields DEF HasWork
<1> QED
    BY <1>1, <1>2 DEF CanRun, NeedsMutex, SendAt

\* Who holds the mutex keeps it until it runs, and then it is free.
LEMMA HolderReleases ==
    ASSUME WorkInv, NEW t \in Thread, push.by = t
    PROVE  /\ CanRun(t)
           /\ [DNext]_<<vars, dvars>> => (push.by = t)' \/ MutexFree'
           /\ Runs(t) => MutexFree'
<1>1. /\ MailInv /\ task[t].op = "send" /\ task[t].at \in {"pushing", "acking"}
      /\ t \in Session => pc[t] = "loop"
    BY HandFacts DEF WorkInv, HolderWrites, Writing, SendAt
<1>2. CanRun(t)
    BY <1>1, SenderCan
<1>3. push # NoPush
    BY ConstantsAssumption DEF NoPush, Thread
<1>4. ASSUME [DNext]_<<vars, dvars>> PROVE push' = push \/ push' = NoPush
  <2>1. CASE \E r \in Thread : SendStep(r)
      BY <1>3, <2>1 DEF SendStep, CheckOnline, PushLock, PushWrite, Store, AckOwn, AckLock,
             AckWrite, PushBegin, PushEnd, MutexFree, vars
  <2>2. CASE \E r \in Thread : PopStep(r)
      BY <2>2 DEF PopStep, PopRead, PopDelete, Emit, EnterLoop, vars
  <2>3. CASE \E s \in Session : LogIn(s) \/ DPing(s) \/ DHangup(s) \/ Lifecycle(s)
      BY <2>3 DEF LogIn, Register, DPing, Ping, DHangup, Hangup, Lifecycle, Accept, AuthHangup,
             Authenticate, AnnounceOnline, Erase, WithdrawOnline, Return
  <2>4. CASE (\E r \in Thread, m \in Msg : SendBegin(r, m))
             \/ (\E w \in Worker, u \in User : PullOfflineMessages(w, u))
      BY <2>4 DEF SendBegin, PullOfflineMessages, vars
  <2>5. CASE Environment
      BY <2>5 DEF Environment, RpcStep, RegisterOnline, UnregisterOnline, ExpireOnline, RedisBreaks
  <2>6. CASE DRestart
      BY <2>6 DEF DRestart, Restart
  <2>7. CASE UNCHANGED <<vars, dvars>>
      BY <2>7 DEF vars
  <2> QED
      BY <1>4, <2>1, <2>2, <2>3, <2>4, <2>5, <2>6, <2>7 DEF DNext
<1>5. ASSUME Runs(t) PROVE push' = NoPush
  <2>1. SendStep(t)
      BY <1>1, <1>5 DEF Runs, HandlerRuns, PopStep, PopRead, PopDelete, Emit, PopAt, LogIn, Register
  <2> QED
      BY <1>1, <2>1 DEF SendStep, CheckOnline, PushLock, PushWrite, Store, AckOwn, AckLock,
             AckWrite, PushEnd, SendAt
<1> QED
    BY <1>2, <1>4, <1>5 DEF MutexFree

\* So is a session that serves its client no more, or not yet.
LEMMA SessionWaits ==
    ASSUME MailInv, NEW s \in Session, [DNext]_<<vars, dvars>>,
           pc[s] \in {"register", "erase", "delOnline", "close"}
    PROVE  \/ pc'[s] = pc[s] /\ user'[s] = user[s]
           \/ DRestart /\ pc'[s] = "none"
           \/ Runs(s)
<1>1. task[s].op # "send" /\ task[s].op # "pop"
    BY HandFacts DEF MailInv, DIInv, PopperOwns, Thread
<1>2. CASE UNCHANGED <<pc, user>>
    BY <1>2
<1>3. ASSUME NEW r \in Session \ {s}, NEW stage, NEW u, pc' = [pc EXCEPT ![r] = stage],
             user' = user \/ user' = [user EXCEPT ![r] = u]
      PROVE  pc'[s] = pc[s] /\ user'[s] = user[s]
    BY <1>3 DEF MailInv, DIInv, IInv, TypeOK
<1>4. CASE \/ \E r \in Thread, m \in Msg : SendBegin(r, m)
           \/ \E w \in Worker, u \in User : PullOfflineMessages(w, u)
           \/ \E r \in Thread : SendStep(r)
           \/ Environment
    BY <1>2, <1>4 DEF SendBegin, PullOfflineMessages, SendStep, CheckOnline, PushLock, PushWrite,
           Store, AckOwn, AckLock, AckWrite, PushBegin, PushEnd, Environment, RpcStep,
           RegisterOnline, UnregisterOnline, ExpireOnline, RedisBreaks, vars
<1>5. ASSUME NEW r \in Thread, PopStep(r) PROVE UNCHANGED user /\ pc'[s] = pc[s]
  <2>1. r # s
      BY <1>1, <1>5 DEF PopStep, PopRead, PopDelete, Emit, PopAt
  <2> QED
      BY <1>5, <2>1, <1>3 DEF PopStep, PopRead, PopDelete, Emit, EnterLoop, Goto, vars
<1>6. ASSUME NEW r \in Session \ {s}, LogIn(r) \/ DPing(r) \/ DHangup(r) \/ Lifecycle(r)
      PROVE  pc'[s] = pc[s] /\ user'[s] = user[s]
  <2>1. CASE \E u \in User : Authenticate(r, u)
      BY <1>3, <2>1 DEF Authenticate, Goto
  <2>2. CASE LogIn(r) \/ DPing(r) \/ DHangup(r)
    <3>1. UNCHANGED user /\ (UNCHANGED pc \/ \E stage : pc' = [pc EXCEPT ![r] = stage])
        BY <2>2 DEF LogIn, Register, DPing, Ping, DHangup, Hangup, Goto
    <3> QED
        BY <1>3, <3>1
  <2>3. CASE Return(r)
      BY <1>3, <2>3 DEF Return, Goto
  <2>4. CASE Accept(r) \/ AuthHangup(r) \/ AnnounceOnline(r) \/ Erase(r) \/ WithdrawOnline(r)
    <3>1. UNCHANGED user /\ \E stage : pc' = [pc EXCEPT ![r] = stage]
        BY <2>4 DEF Accept, AuthHangup, AnnounceOnline, Erase, WithdrawOnline, Goto
    <3> QED
        BY <1>3, <3>1
  <2> QED
      BY <1>6, <2>1, <2>2, <2>3, <2>4 DEF Lifecycle
<1>7. CASE LogIn(s) \/ DPing(s) \/ DHangup(s) \/ Lifecycle(s)
  <2>1. ~DPing(s) /\ ~DHangup(s)
      BY DEF DPing, Ping, DHangup, Hangup, Reading
  <2>2. ASSUME Lifecycle(s) PROVE pc[s] # "register"
      BY <2>2 DEF Lifecycle, Accept, AuthHangup, Authenticate, AnnounceOnline, Erase,
             WithdrawOnline, Return
  <2>3. HandlerRuns(s)
      BY <1>7, <2>1, <2>2 DEF HandlerRuns
  <2> QED
      BY <2>3, <1>2 DEF Runs, vars
<1>8. CASE DRestart
    BY <1>8 DEF DRestart, Restart
<1>9. CASE UNCHANGED <<vars, dvars>>
    BY <1>2, <1>9 DEF vars
<1> QED
    BY <1>4, <1>5, <1>6, <1>7, <1>8, <1>9 DEF DNext

\* When it has run, it is at its next stage, and it waits only for the mutex.
LEMMA SessionMoves ==
    ASSUME MailInv, NEW s \in Session, pc[s] \in {"register", "erase", "delOnline", "close"}
    PROVE  /\ Runs(s) /\ pc[s] = "register" => LogIn(s)
           /\ Runs(s) /\ pc[s] = "erase" => pc'[s] = "delOnline"
           /\ Runs(s) /\ pc[s] = "delOnline" => pc'[s] = "close"
           /\ Runs(s) /\ pc[s] = "close" => pc'[s] = "none"
           /\ CanRun(s) \/ (pc[s] \in {"register", "erase"} /\ ~MutexFree)
<1>1. task[s].op # "send" /\ task[s].op # "pop"
    BY HandFacts DEF MailInv, DIInv, PopperOwns, Thread
<1>2. ASSUME Runs(s) PROVE LogIn(s) \/ (pc[s] # "register" /\ Lifecycle(s))
    BY <1>1, <1>2 DEF Runs, HandlerRuns, SendStep, CheckOnline, PushLock, PushWrite, Store,
           AckOwn, AckLock, AckWrite, SendAt, PopStep, PopRead, PopDelete, Emit, PopAt
<1>3. pc \in [Session -> Stage]
    BY DEF MailInv, DIInv, IInv, TypeOK
<1>4. ASSUME Runs(s), pc[s] # "register"
      PROVE  pc'[s] = CASE pc[s] = "erase" -> "delOnline"
                        [] pc[s] = "delOnline" -> "close"
                        [] pc[s] = "close" -> "none"
    BY <1>2, <1>3, <1>4 DEF LogIn, Register, Lifecycle, Accept, AuthHangup, Authenticate,
           AnnounceOnline, Erase, WithdrawOnline, Return, Goto
<1>5. CanRun(s) \/ (pc[s] \in {"register", "erase"} /\ ~MutexFree)
    BY <1>1, ConstantsAssumption DEF CanRun, HasWork, NeedsMutex, SendAt
<1> QED
    BY <1>2, <1>4, <1>5

\* A list keeps a message until a thread has it in its hands, unless it is at
\* risk.
Reached(m) == m \in ToSet(inbox[m.to]) \cup exposed

Fetched(t, m) == task[t].op = "pop" /\ task[t].of = m.to /\ m \in ToSet(task[t].got)

Held(m) == \E t \in Thread : Fetched(t, m)

Stored(m) == m \in ToSet(offline[m.to])

LEMMA ListKeeps ==
    ASSUME MailInv, redis, NEW m \in Msg, Stored(m), [DNext]_<<vars, dvars>>
    PROVE  Stored(m)' \/ Held(m)' \/ Reached(m)'
<1>1. CASE UNCHANGED offline
    BY <1>1 DEF Stored
<1>2. ASSUME NEW t \in Thread, Store(t) PROVE Stored(m)'
  <2>1. task[t].msg \in sent /\ m.to \in User
      BY <1>2, HandFacts, MsgAssumption DEF Store, SendAt
  <2>2. offline \in [User -> Seq(sent)]
      BY DEF MailInv, SentOnly
  <2>3. \A u \in User : ToSet(offline[u]) \subseteq ToSet(Append(offline[u], task[t].msg))
      BY <2>1, <2>2, ToSetAppend
  <2> QED
      BY <1>2, <2>1, <2>2, <2>3 DEF Store, Stored
<1>3. ASSUME NEW t \in Thread, PopDelete(t), offline' # offline
      PROVE  Stored(m)' \/ Fetched(t, m)' \/ Reached(m)'
  <2>1. PopAt(t, "del") /\ offline' = [offline EXCEPT ![task[t].of] = <<>>]
      BY <1>3 DEF PopDelete
  <2>2. task'[t] = Popping(task[t].of, "emit", task[t].got) /\ UNCHANGED exposed
      BY <1>3 DEF PopDelete, Do, MailInv, DIInv
  <2>3. CASE task[t].of # m.to
      BY <2>1, <2>3, MsgAssumption DEF Stored, MailInv, SentOnly
  <2>4. CASE task[t].of = m.to
    <3>1. m \in ToSet(task[t].got) \cup exposed
        BY <2>1, <2>4 DEF MailInv, ReadBeforeDel, Stored
    <3> QED
        BY <2>2, <2>4, <3>1, Fields DEF Fetched, Reached
  <2> QED
      BY <2>3, <2>4
<1>4. CASE \E t \in Thread : SendStep(t) /\ ~Store(t)
    BY <1>1, <1>4 DEF SendStep, CheckOnline, PushLock, PushWrite, AckOwn, AckLock, AckWrite
<1>5. CASE \E t \in Thread : PopStep(t) /\ ~PopDelete(t)
    BY <1>1, <1>5 DEF PopStep, PopRead, Emit
<1>6. CASE \/ \E t \in Thread, n \in Msg : SendBegin(t, n)
           \/ \E w \in Worker, u \in User : PullOfflineMessages(w, u)
           \/ \E s \in Session : LogIn(s) \/ DPing(s) \/ DHangup(s) \/ Lifecycle(s)
           \/ Environment
           \/ DRestart
           \/ UNCHANGED <<vars, dvars>>
    BY <1>1, <1>6 DEF SendBegin, PullOfflineMessages, LogIn, DPing, DHangup, Lifecycle,
           Environment, DRestart, dvars
<1> QED
    BY <1>1, <1>2, <1>3, <1>4, <1>5, <1>6 DEF DNext, Held

\* A thread that empties a list goes through its stages, whatever others do.
LEMMA PopperWaits ==
    ASSUME MailInv, NEW t \in Thread, task[t].op = "pop", [DNext]_<<vars, dvars>>
    PROVE  task'[t] = task[t] \/ DRestart \/ Runs(t)
<1>1. task[t] # Idle
    BY Fields
<1>2. CASE UNCHANGED <<vars, dvars>>
    BY <1>2 DEF dvars
<1> QED
    BY <1>1, <1>2, OthersWait DEF Runs, HandlerRuns

LEMMA PopperMoves ==
    ASSUME MailInv, redis, NEW t \in Thread, NEW m \in Msg, task[t].op = "pop", task[t].of = m.to
    PROVE  /\ CanRun(t)
           /\ Runs(t) /\ PopAt(t, "lrange") /\ Stored(m)
                  => PopAt(t, "del")' /\ Fetched(t, m)'
           /\ Runs(t) /\ PopAt(t, "del") /\ Fetched(t, m)
                  => PopAt(t, "emit")' /\ Fetched(t, m)'
           /\ Runs(t) /\ PopAt(t, "emit") /\ Fetched(t, m) => Reached(m)'
<1>1. t \in Session => pc[t] = "drain" /\ user[t] = task[t].of
    BY DEF MailInv, DIInv, PopperOwns
<1>2. CanRun(t)
    BY <1>1, Fields, ConstantsAssumption DEF CanRun, HasWork, NeedsMutex, SendAt, Thread
<1>3. Runs(t) => PopStep(t)
    BY <1>1 DEF Runs, HandlerRuns, LogIn, Register, SendStep, CheckOnline, PushLock, PushWrite,
           Store, AckOwn, AckLock, AckWrite, SendAt
<1>4. ASSUME NEW next, Do(t, next) PROVE task'[t] = next
    BY <1>4 DEF Do, MailInv, DIInv
<1>5. ASSUME Runs(t), PopAt(t, "lrange"), Stored(m)
      PROVE  PopAt(t, "del")' /\ Fetched(t, m)'
  <2>1. PopRead(t)
      BY <1>3, <1>5 DEF PopStep, PopDelete, Emit, PopAt
  <2>2. task'[t] = Popping(m.to, "del", offline[m.to])
      BY <1>4, <2>1 DEF PopRead
  <2> QED
      BY <1>5, <2>2, Fields DEF PopAt, Fetched, Stored
<1>6. ASSUME Runs(t), PopAt(t, "del"), Fetched(t, m)
      PROVE  PopAt(t, "emit")' /\ Fetched(t, m)'
  <2>1. PopDelete(t)
      BY <1>3, <1>6 DEF PopStep, PopRead, Emit, PopAt
  <2>2. task'[t] = Popping(m.to, "emit", task[t].got)
      BY <1>4, <2>1 DEF PopDelete
  <2> QED
      BY <1>6, <2>2, Fields DEF PopAt, Fetched
<1>7. ASSUME Runs(t), PopAt(t, "emit"), Fetched(t, m)
      PROVE  Reached(m)'
  <2>1. PICK ok \in Written : Emit(t, ok)
      BY <1>3, <1>7 DEF PopStep, PopRead, PopDelete, PopAt
  <2>2. CASE ok
    <3>1. inbox' = [inbox EXCEPT ![m.to] = inbox[m.to] \o task[t].got]
        BY <1>1, <2>1, <2>2 DEF Emit, Hand
    <3>2. inbox \in [User -> Seq(Msg)] /\ m.to \in User /\ task[t].got \in Seq(Msg)
        BY MsgAssumption, HandFacts DEF MailInv, DIInv, GivenIsAddressed
    <3>3. m \in ToSet(inbox[m.to] \o task[t].got)
        BY <1>7, <3>2, ToSetConcat DEF Fetched
    <3> QED
        BY <3>1, <3>2, <3>3 DEF Reached
  <2>3. CASE ~ok
      BY <1>7, <2>1, <2>3 DEF Emit, Reached, Fetched
  <2> QED
      BY <2>2, <2>3
<1> QED
    BY <1>2, <1>5, <1>6, <1>7

-----------------------------------------------------------------------------
(* Liveness. *)

\* Whoever holds the mutex lets it go, so it is free again and again.
LEMMA MutexIsReleased == DSpec /\ HandlersRun => []<>MutexFree
<1>1. ASSUME NEW t \in Thread
      PROVE  DSpec /\ HandlersRun => [](push.by = t => <>MutexFree)
  <2>1. HandlersRun => (<>[]~CanRun(t) \/ []<><<HandlerRuns(t)>>_<<vars, dvars>>)
      BY DEF HandlersRun
  <2>2. WorkInv /\ push.by = t => CanRun(t)
      BY HolderReleases
  <2>3. WorkInv /\ push.by = t /\ [DNext]_<<vars, dvars>> => (push.by = t)' \/ MutexFree'
      BY HolderReleases
  <2>4. WorkInv /\ push.by = t /\ Runs(t) => MutexFree'
      BY HolderReleases
  <2> QED
      BY <2>1, <2>2, <2>3, <2>4, WorkInductive, PTL DEF DSpec, Runs
<1>2. DSpec /\ HandlersRun => [](\A t \in Thread : push.by = t => <>MutexFree)
  <2>1. DSpec /\ HandlersRun => \A t \in Thread : [](push.by = t => <>MutexFree)
      BY <1>1
  <2>2. (\A t \in Thread : [](push.by = t => <>MutexFree))
            => [](\A t \in Thread : push.by = t => <>MutexFree)
      OBVIOUS
  <2> QED
      BY <2>1, <2>2
<1>3. WorkInv => MutexFree \/ \E t \in Thread : push.by = t
    BY DEF WorkInv, MailInv, DIInv, IInv, TypeOK, MutexFree
<1>4. MutexFree => <>MutexFree
    BY PTL
<1>5. WorkInv /\ (\A t \in Thread : push.by = t => <>MutexFree) => <>MutexFree
    BY <1>3, <1>4
<1> QED
    BY <1>2, <1>5, WorkInductive, PTL

\* A handler that has accepted a message gets to its end, however many threads
\* compete for the mutex: for any number of sessions, threads and messages.
THEOREM SendsComplete == DSpec /\ HandlersRun => SendCompletes
<1>1. ASSUME NEW t \in Thread
      PROVE  DSpec /\ HandlersRun => (task[t].op = "send" ~> task[t] = Idle)
  <2> DEFINE Check == SendAt(t, "check")
             Push == SendAt(t, "push")
             Pushing == SendAt(t, "pushing")
             Storing == SendAt(t, "store")
             Ack == SendAt(t, "ack")
             Acking == SendAt(t, "acking")
             Done == task[t] = Idle
  <2>1. HandlersRun => (<>[]~CanRun(t) \/ []<><<HandlerRuns(t)>>_<<vars, dvars>>)
      BY DEF HandlersRun
  <2>2. MailInv /\ task[t].op = "send"
            => Check \/ Push \/ Pushing \/ Storing \/ Ack \/ Acking
      BY DEF MailInv, DIInv, Task, Idle, SendAt, SendStage
  <2>3. MailInv /\ [DNext]_<<vars, dvars>>
            => /\ Check => Check' \/ Done' \/ Runs(t)
               /\ Push => Push' \/ Done' \/ Runs(t)
               /\ Pushing => Pushing' \/ Done' \/ Runs(t)
               /\ Storing => Storing' \/ Done' \/ Runs(t)
               /\ Ack => Ack' \/ Done' \/ Runs(t)
               /\ Acking => Acking' \/ Done' \/ Runs(t)
      BY SenderWaits
  <2>4. MailInv /\ Runs(t)
            => /\ Check => Push' \/ Storing'
               /\ Push => Pushing'
               /\ Pushing \/ Storing => Ack'
               /\ Ack => Acking' \/ Done'
               /\ Acking => Done'
      BY SenderMoves DEF SendAt
  <2>5. MailInv => /\ Check \/ Pushing \/ Storing \/ Acking => CanRun(t)
                   /\ Push \/ Ack => (MutexFree => CanRun(t))
      BY SenderCan DEF SendAt
  <2> HIDE DEF Check, Push, Pushing, Storing, Ack, Acking, Done
  <2>6. DSpec /\ HandlersRun => (task[t].op = "send" ~> Done)
      BY <2>1, <2>2, <2>3, <2>4, <2>5, MailInductive, MutexIsReleased, PTL DEF DSpec, Runs
  <2> QED
      BY <2>6 DEF Done
<1> QED
    BY <1>1 DEF SendCompletes

\* A session whose client has left is cleaned up to its last step, however many
\* threads compete for the mutex.
THEOREM DepartedAreCleanedUp == DSpec /\ HandlersRun => DepartedIsCleanedUp
<1>1. ASSUME NEW t \in Session
      PROVE  DSpec /\ HandlersRun => (pc[t] = "erase" ~> pc[t] = "none")
  <2> DEFINE Erasing == pc[t] = "erase"
             Withdrawing == pc[t] = "delOnline"
             Closing == pc[t] = "close"
             Gone == pc[t] = "none"
  <2>1. HandlersRun => (<>[]~CanRun(t) \/ []<><<HandlerRuns(t)>>_<<vars, dvars>>)
      BY SessionIsFair
  <2>2. MailInv /\ [DNext]_<<vars, dvars>>
            => /\ Erasing => Erasing' \/ Gone' \/ Runs(t)
               /\ Withdrawing => Withdrawing' \/ Gone' \/ Runs(t)
               /\ Closing => Closing' \/ Gone' \/ Runs(t)
      BY SessionWaits
  <2>3. MailInv /\ Runs(t)
            => /\ Erasing => Withdrawing'
               /\ Withdrawing => Closing'
               /\ Closing => Gone'
      BY SessionMoves
  <2>4. MailInv => /\ Withdrawing \/ Closing => CanRun(t)
                   /\ Erasing => (MutexFree => CanRun(t))
      BY SessionMoves
  <2> HIDE DEF Erasing, Withdrawing, Closing, Gone
  <2>5. DSpec /\ HandlersRun => (Erasing ~> Gone)
      BY <2>1, <2>2, <2>3, <2>4, MailInductive, MutexIsReleased, PTL DEF DSpec, Runs
  <2> QED
      BY <2>5 DEF Erasing, Gone
<1> QED
    BY <1>1 DEF DepartedIsCleanedUp

\* Redis stays connected where it has no reason to break.
LEMMA RedisStays ==
    ASSUME "redis" \notin Faults
    PROVE  DSpec => []redis
<1>1. DInit => redis
    BY DEF DInit, Init
<1>2. redis /\ [DNext]_<<vars, dvars>> => redis'
  <2> SUFFICES ASSUME redis, [DNext]_<<vars, dvars>> PROVE redis'
      OBVIOUS
  <2>1. CASE \/ \E t \in Thread : SendStep(t) \/ \E m \in Msg : SendBegin(t, m)
             \/ \E w \in Worker, u \in User : PullOfflineMessages(w, u)
      BY <2>1 DEF SendBegin, PullOfflineMessages, SendStep, CheckOnline, PushLock, PushWrite,
             Store, AckOwn, AckLock, AckWrite, PushBegin, PushEnd, vars
  <2>2. CASE \E t \in Thread : PopStep(t)
      BY <2>2 DEF PopStep, PopRead, PopDelete, Emit, EnterLoop, vars
  <2>3. CASE \E s \in Session : LogIn(s) \/ DPing(s) \/ DHangup(s) \/ Lifecycle(s)
      BY <2>3 DEF LogIn, Register, DPing, Ping, DHangup, Hangup, Lifecycle, Accept, AuthHangup,
             Authenticate, AnnounceOnline, Erase, WithdrawOnline, Return
  <2>4. CASE Environment
      BY <2>4 DEF Environment, RpcStep, RegisterOnline, UnregisterOnline, ExpireOnline, RedisBreaks
  <2>5. CASE DRestart
      BY <2>5 DEF DRestart, Restart
  <2>6. CASE UNCHANGED <<vars, dvars>>
      BY <2>6 DEF vars
  <2> QED
      BY <2>1, <2>2, <2>3, <2>4, <2>5, <2>6 DEF DNext
<1> QED
    BY <1>1, <1>2, PTL DEF DSpec

\* What a thread has fetched it hands over.
LEMMA FetchedIsHandedOver ==
    ASSUME "redis" \notin Faults, "crash" \notin Faults, NEW m \in Msg
    PROVE  DSpec /\ HandlersRun => [](Held(m) => <>Reached(m))
<1>1. ASSUME NEW t \in Thread
      PROVE  DSpec /\ HandlersRun => [](Fetched(t, m) => <>Reached(m))
  <2> DEFINE Read == PopAt(t, "del") /\ Fetched(t, m)
             Deleted == PopAt(t, "emit") /\ Fetched(t, m)
  <2>1. HandlersRun => (<>[]~CanRun(t) \/ []<><<HandlerRuns(t)>>_<<vars, dvars>>)
      BY DEF HandlersRun
  <2>2. MailInv /\ Fetched(t, m) => Read \/ Deleted
    <3>1. ToSet(<<>>) = {}
        BY ToSetFacts
    <3> QED
        BY <3>1 DEF MailInv, DIInv, NothingReadYet, Task, Idle, PopStage, PopAt, Fetched
  <2>3. MailInv /\ [DNext]_<<vars, dvars>>
            => /\ Read => Read' \/ Runs(t)
               /\ Deleted => Deleted' \/ Runs(t)
      BY PopperWaits DEF DRestart, Restart, PopAt, Fetched
  <2>4. MailInv /\ redis => /\ Read \/ Deleted => CanRun(t)
                            /\ Runs(t) /\ Read => Deleted'
                            /\ Runs(t) /\ Deleted => Reached(m)'
      BY PopperMoves DEF Fetched
  <2> HIDE DEF Read, Deleted
  <2> QED
      BY <2>1, <2>2, <2>3, <2>4, MailInductive, RedisStays, PTL DEF DSpec, Runs
<1>2. DSpec /\ HandlersRun => [](\A t \in Thread : Fetched(t, m) => <>Reached(m))
  <2>1. DSpec /\ HandlersRun => \A t \in Thread : [](Fetched(t, m) => <>Reached(m))
      BY <1>1
  <2>2. (\A t \in Thread : [](Fetched(t, m) => <>Reached(m)))
            => [](\A t \in Thread : Fetched(t, m) => <>Reached(m))
      OBVIOUS
  <2> QED
      BY <2>1, <2>2
<1>3. (\A t \in Thread : Fetched(t, m) => <>Reached(m)) /\ Held(m) => <>Reached(m)
    BY DEF Held
<1> QED
    BY <1>2, <1>3, PTL

\* The stages of a session on its way to a message in its user's list.
AboutToPop(s, m) == pc[s] = "register" /\ user[s] = m.to /\ Stored(m)

AboutToRead(s, m) == PopAt(s, "lrange") /\ task[s].of = m.to /\ Stored(m)

LEMMA FetcherAdvances ==
    ASSUME MailInv, redis, "crash" \notin Faults, NEW s \in Session, NEW m \in Msg
    PROVE  LET Out == Reached(m)' \/ Held(m)' IN
           /\ AboutToPop(s, m) /\ MutexFree => CanRun(s)
           /\ AboutToRead(s, m) => CanRun(s)
           /\ AboutToPop(s, m) /\ [DNext]_<<vars, dvars>>
                  => AboutToPop(s, m)' \/ Runs(s) \/ Out
           /\ AboutToPop(s, m) /\ Runs(s) => AboutToRead(s, m)'
           /\ AboutToRead(s, m) /\ [DNext]_<<vars, dvars>>
                  => AboutToRead(s, m)' \/ Runs(s) \/ Out
           /\ AboutToRead(s, m) /\ Runs(s) => Out
<1> DEFINE Out == Reached(m)' \/ Held(m)'
<1>1. s \in Thread
    BY DEF Thread
<1>2. AboutToPop(s, m) /\ MutexFree => CanRun(s)
    BY SessionMoves DEF AboutToPop
<1>3. AboutToRead(s, m) => CanRun(s)
    BY <1>1, PopperMoves DEF AboutToRead, PopAt
<1>4. AboutToPop(s, m) /\ [DNext]_<<vars, dvars>> => AboutToPop(s, m)' \/ Runs(s) \/ Out
  <2> SUFFICES ASSUME AboutToPop(s, m), [DNext]_<<vars, dvars>>, ~Runs(s), ~Out
               PROVE  AboutToPop(s, m)'
      OBVIOUS
  <2>1. pc'[s] = pc[s] /\ user'[s] = user[s]
      BY SessionWaits DEF AboutToPop, DRestart, Restart
  <2>2. Stored(m)'
      BY ListKeeps DEF AboutToPop
  <2> QED
      BY <2>1, <2>2 DEF AboutToPop
<1>5. AboutToPop(s, m) /\ Runs(s) => AboutToRead(s, m)'
  <2> SUFFICES ASSUME AboutToPop(s, m), Runs(s) PROVE AboutToRead(s, m)'
      OBVIOUS
  <2>1. LogIn(s)
      BY SessionMoves DEF AboutToPop
  <2>2. task'[s] = Popping(m.to, "lrange", <<>>) /\ UNCHANGED offline
      BY <1>1, <2>1 DEF LogIn, Do, MailInv, DIInv, AboutToPop
  <2> QED
      BY <2>2, Fields DEF AboutToRead, AboutToPop, PopAt, Stored
<1>6. AboutToRead(s, m) /\ [DNext]_<<vars, dvars>> => AboutToRead(s, m)' \/ Runs(s) \/ Out
  <2> SUFFICES ASSUME AboutToRead(s, m), [DNext]_<<vars, dvars>>, ~Runs(s), ~Out
               PROVE  AboutToRead(s, m)'
      OBVIOUS
  <2>1. task'[s] = task[s]
      BY <1>1, PopperWaits DEF AboutToRead, PopAt, DRestart, Restart
  <2>2. Stored(m)'
      BY ListKeeps DEF AboutToRead
  <2> QED
      BY <2>1, <2>2 DEF AboutToRead, PopAt
<1>7. AboutToRead(s, m) /\ Runs(s) => Out
    BY <1>1, PopperMoves DEF AboutToRead, PopAt, Held
<1> QED
    BY <1>2, <1>3, <1>4, <1>5, <1>6, <1>7

\* A message that waits in the list when its addressee logs in is given to a
\* client of the addressee, by this session or by another thread that took it
\* first, unless it met a condition that loses it.  The process must live on and
\* Redis be there: without it the login finds an empty list and keeps silent.
THEOREM StoredIsFetched ==
    ASSUME "redis" \notin Faults, "crash" \notin Faults
    PROVE  DSpec /\ HandlersRun => StoredReachesUser
<1>1. ASSUME NEW t \in Session, NEW m \in Msg
      PROVE  DSpec /\ HandlersRun => (AboutToPop(t, m) ~> Reached(m))
  <2> DEFINE ToPop == AboutToPop(t, m)
             ToRead == AboutToRead(t, m)
  <2>1. HandlersRun => (<>[]~CanRun(t) \/ []<><<HandlerRuns(t)>>_<<vars, dvars>>)
      BY SessionIsFair
  <2>2. DSpec /\ HandlersRun => [](Held(m) => <>Reached(m))
      BY FetchedIsHandedOver
  <2>3. MailInv /\ redis
            => /\ ToPop => (MutexFree => CanRun(t))
               /\ ToRead => CanRun(t)
               /\ ToPop /\ [DNext]_<<vars, dvars>>
                      => ToPop' \/ Runs(t) \/ Reached(m)' \/ Held(m)'
               /\ ToPop /\ Runs(t) => ToRead'
               /\ ToRead /\ [DNext]_<<vars, dvars>>
                      => ToRead' \/ Runs(t) \/ Reached(m)' \/ Held(m)'
               /\ ToRead /\ Runs(t) => Reached(m)' \/ Held(m)'
      BY FetcherAdvances
  <2> HIDE DEF ToPop, ToRead
  <2>4. DSpec /\ HandlersRun => (ToPop ~> Reached(m))
      BY <2>1, <2>2, <2>3, MailInductive, MutexIsReleased, RedisStays, PTL DEF DSpec, Runs
  <2> QED
      BY <2>4 DEF ToPop
<1> QED
    BY <1>1 DEF StoredReachesUser, AboutToPop, Reached, Stored
=============================================================================
