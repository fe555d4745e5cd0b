------------------------------- MODULE Mailbox -------------------------------
(***************************************************************************)
(* What the delivery of messages promises, whatever threads, presence keys *)
(* and lists it is made of.  A message that has been posted waits until it *)
(* is given to its addressee, and what has been given stays given.  A      *)
(* message that is at risk may get lost while it waits, and is then lost   *)
(* for good; no other one is ever lost.                                    *)
(***************************************************************************)
CONSTANTS
    Mail        \* messages, as records with a field to

VARIABLES
    waiting,    \* posted and under way
    given,      \* with the addressee
    lost,       \* posted, and neither of the two any more
    atRisk      \* messages that may get lost

mvars == <<waiting, given, lost, atRisk>>

MInit ==
    /\ waiting = {}
    /\ given = {}
    /\ lost = {}
    /\ atRisk = {}

Post(m) ==
    /\ m \notin waiting \cup given \cup lost
    /\ waiting' = waiting \cup {m}
    /\ UNCHANGED <<given, lost, atRisk>>

\* One user is given some of the messages that wait for that user.
Give(ms) ==
    /\ \A m, n \in ms : m.to = n.to
    /\ given' = given \cup ms
    /\ waiting' = waiting \ ms
    /\ UNCHANGED <<lost, atRisk>>

Endanger(ms) == atRisk' = atRisk \cup ms

\* Messages come to be at risk, and some that are do get lost.
Lose(ms) ==
    /\ ms \subseteq atRisk'
    /\ lost' = lost \cup ms
    /\ waiting' = waiting \ ms
    /\ UNCHANGED given

MNext ==
    \/ \E m \in Mail : Post(m)
    \/ \E ms \in SUBSET waiting : Give(ms)
    \/ /\ \E ms \in SUBSET Mail : Endanger(ms)
       /\ \E ms \in SUBSET waiting : Lose(ms)

MSpec == MInit /\ [][MNext]_mvars
=============================================================================
