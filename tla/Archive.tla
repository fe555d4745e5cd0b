------------------------------- MODULE Archive -------------------------------
(***************************************************************************)
(* What the way into the table promises, whatever queues, requests and     *)
(* replies it is made of.  Messages arrive one after the other and wait.   *)
(* They are stored or refused from the front, some at a time, and what has *)
(* happened to a message is final.  The end of the process loses whatever  *)
(* waits, but for messages at the front whose storing it cannot stop.      *)
(***************************************************************************)
EXTENDS SequencesExt

CONSTANTS
    Mail        \* messages

VARIABLES
    arrived,    \* the messages in the order in which they came
    stored,     \* those in the table
    lost        \* those that will never be

xvars == <<arrived, stored, lost>>

Waiting == ToSet(arrived) \ (stored \cup lost)

Before(m, n) ==
    \E i, j \in DOMAIN arrived : i < j /\ arrived[i] = m /\ arrived[j] = n

\* Some that wait, and none of the others came before one of them.
AtTheFront(ms) == \A m \in ms, n \in Waiting \ ms : Before(m, n)

XInit ==
    /\ arrived = <<>>
    /\ stored = {}
    /\ lost = {}

Arrive(m) ==
    /\ m \notin ToSet(arrived)
    /\ arrived' = Append(arrived, m)
    /\ UNCHANGED <<stored, lost>>

Store(ms) ==
    /\ AtTheFront(ms)
    /\ stored' = stored \cup ms
    /\ UNCHANGED <<arrived, lost>>

Refuse(ms) ==
    /\ AtTheFront(ms)
    /\ lost' = lost \cup ms
    /\ UNCHANGED <<arrived, stored>>

Perish(ms) ==
    /\ AtTheFront(ms)
    /\ stored' = stored \cup ms
    /\ lost' = lost \cup (Waiting \ ms)
    /\ UNCHANGED arrived

XNext ==
    \/ \E m \in Mail : Arrive(m)
    \/ \E ms \in SUBSET Waiting : Store(ms) \/ Refuse(ms) \/ Perish(ms)

XSpec == XInit /\ [][XNext]_xvars

\* A message is stored or lost only when all that came before it are: whatever
\* still waits came after it.
SettledInOrder == \A m \in stored \cup lost, n \in Waiting : Before(m, n)
=============================================================================
