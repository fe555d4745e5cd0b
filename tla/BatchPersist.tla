---------------------------- MODULE BatchPersist ----------------------------
(***************************************************************************)
(* How chat messages get into MySQL: every handler that accepts a message  *)
(* appends a record to g_batch_queue, and batch_persist_thread wakes up    *)
(* every BATCH_INTERVAL_MS, takes the whole queue when it holds at least   *)
(* BATCH_THRESHOLD records, and sends it to db_server in one call, which   *)
(* turns it into one INSERT statement.                                     *)
(*                                                                         *)
(* The records are moved into the request.  After a failed call the loop   *)
(* that puts the batch back finds what the moves left behind, records with *)
(* every field at its default: Blank.                                      *)
(*                                                                         *)
(* db_server reports a refused INSERT with Status::OK, which the thread    *)
(* does not tell from success.  Each tuple of the statement is cut off at  *)
(* the size of a buffer: a message in Big does not fit, its tuple has no   *)
(* end, and MySQL refuses the statement with every record of the batch.    *)
(***************************************************************************)
EXTENDS Naturals, SequencesExt

CONSTANTS
    Msg,            \* messages
    Big,            \* those whose tuple exceeds the buffer of db_proxy
    Threshold,      \* BATCH_THRESHOLD
    Faults,         \* which faults may happen
    Blank,          \* a record that has been moved from
    MaxRows         \* bound: no reply is lost once the table is so long

ASSUME BatchAssumption ==
    /\ Big \subseteq Msg
    /\ Blank \notin Msg
    /\ Threshold \in Nat \ {0}
    /\ MaxRows \in Nat

VARIABLES
    queue,      \* g_batch_queue
    stage,      \* where batch_persist_thread is
    req,        \* the records of the request it has sent
    db,         \* the rows of the table messages, by id
    accepted,   \* history: the messages in the order in which they were queued
    lost        \* history: messages that a refused call, a refused INSERT or
                \* the end of the process took away

bvars == <<queue, stage, req, db, accepted, lost>>

Record == Msg \cup {Blank}

BTypeOK ==
    /\ queue \in Seq(Record)
    /\ stage \in {"sleep", "call", "reply", "failed"}
    /\ req \in Seq(Record)
    /\ db \in Seq(Record)
    /\ accepted \in Seq(Msg)
    /\ lost \subseteq Msg

BInit ==
    /\ queue = <<>>
    /\ stage = "sleep"
    /\ req = <<>>
    /\ db = <<>>
    /\ accepted = <<>>
    /\ lost = {}

-----------------------------------------------------------------------------
Enqueue(m) ==
    /\ m \notin ToSet(accepted)
    /\ queue' = Append(queue, m)
    /\ accepted' = Append(accepted, m)
    /\ UNCHANGED <<stage, req, db, lost>>

\* Slip: a queue that is exactly full is left for the next time.
SwapAbove ==
    /\ stage = "sleep"
    /\ Len(queue) > Threshold
    /\ req' = queue
    /\ queue' = <<>>
    /\ stage' = "call"
    /\ UNCHANGED <<db, accepted, lost>>

\* Slip: the records are taken from the end of the queue, a batch at a time.
SwapBack ==
    /\ stage = "sleep"
    /\ Len(queue) >= Threshold
    /\ req' = SubSeq(queue, Len(queue) - Threshold + 1, Len(queue))
    /\ queue' = SubSeq(queue, 1, Len(queue) - Threshold)
    /\ stage' = "call"
    /\ UNCHANGED <<db, accepted, lost>>

\* The interval is over and the queue is too short: nothing until the next one.
TooFew ==
    /\ stage = "sleep"
    /\ Len(queue) < Threshold
    /\ UNCHANGED bvars

\* The interval is over and the queue is long enough.
Swap ==
    /\ stage = "sleep"
    /\ Len(queue) >= Threshold
    /\ req' = queue
    /\ queue' = <<>>
    /\ stage' = "call"
    /\ UNCHANGED <<db, accepted, lost>>

-----------------------------------------------------------------------------
(* db_server.  One statement inserts every record or none. *)

Fits == ToSet(req) \cap Big = {}

InsertRows ==
    /\ stage = "call"
    /\ Fits
    /\ db' = db \o req
    /\ stage' = "reply"
    /\ UNCHANGED <<queue, req, accepted, lost>>

\* mysql_query fails: the reply says so in its text, its status is OK.
RefuseRows ==
    /\ stage = "call"
    /\ ~Fits \/ "mysql" \in Faults
    /\ stage' = "reply"
    /\ lost' = lost \cup (ToSet(req) \cap Msg)
    /\ UNCHANGED <<queue, req, db, accepted>>

-----------------------------------------------------------------------------
(* The end of the call. *)

\* s.ok(): the batch goes out of scope.
Replied ==
    /\ stage = "reply"
    /\ stage' = "sleep"
    /\ req' = <<>>
    /\ UNCHANGED <<queue, db, accepted, lost>>

\* The request does not get to db_server.
CallFails ==
    /\ "rpc" \in Faults
    /\ stage = "call"
    /\ stage' = "failed"
    /\ lost' = lost \cup (ToSet(req) \cap Msg)
    /\ UNCHANGED <<queue, req, db, accepted>>

\* The call has done its work and its reply does not get back.
ReplyLost ==
    /\ "reply" \in Faults
    /\ stage = "reply"
    /\ Len(db) < MaxRows
    /\ stage' = "failed"
    /\ UNCHANGED <<queue, req, db, accepted, lost>>

\* Slip: the records are copied into the request, and put back as they were.
RequeueCopies ==
    /\ stage = "failed"
    /\ queue' = queue \o req
    /\ lost' = lost \ ToSet(req)
    /\ stage' = "sleep"
    /\ req' = <<>>
    /\ UNCHANGED <<db, accepted>>

\* Slip: the batch is put back as one element.
RequeueWhole ==
    /\ stage = "failed"
    /\ queue' = Append(queue, req)
    /\ stage' = "sleep"
    /\ req' = <<>>
    /\ UNCHANGED <<db, accepted, lost>>

\* One record for each of the batch goes behind what has been queued since.
Requeue ==
    /\ stage = "failed"
    /\ queue' = queue \o [i \in 1 .. Len(req) |-> Blank]
    /\ stage' = "sleep"
    /\ req' = <<>>
    /\ UNCHANGED <<db, accepted, lost>>

-----------------------------------------------------------------------------
\* msg_server is killed and started again.  A request that is under way takes
\* effect or is gone with the process.
Crash ==
    /\ "crash" \in Faults
    /\ \E arrives \in BOOLEAN :
        /\ arrives => stage = "call" /\ Fits
        /\ db' = IF arrives THEN db \o req ELSE db
        /\ lost' = lost \cup ((ToSet(queue \o req) \cap Msg) \ ToSet(db'))
    /\ queue' = <<>>
    /\ req' = <<>>
    /\ stage' = "sleep"
    /\ UNCHANGED accepted

DbServer == InsertRows \/ RefuseRows

EndOfCall == Replied \/ CallFails \/ ReplyLost

BNext ==
    \/ \E m \in Msg : Enqueue(m)
    \/ TooFew
    \/ Swap
    \/ DbServer
    \/ EndOfCall
    \/ Requeue
    \/ Crash

BSpec == BInit /\ [][BNext]_bvars

-----------------------------------------------------------------------------
(* Safety. *)

\* What is on its way to the table, in the order in which it will get there.
Pending == (IF stage = "call" THEN req ELSE <<>>) \o queue

\* m was accepted before n.
Before(m, n) ==
    \E i, j \in DOMAIN accepted : i < j /\ accepted[i] = m /\ accepted[j] = n

InOrder(rows) ==
    \A i, j \in DOMAIN rows :
        i < j /\ {rows[i], rows[j]} \subseteq Msg => Before(rows[i], rows[j])

\* The messages in the table and on their way to it are the accepted ones, in
\* the order in which they were accepted, each of them once, but for those a
\* failed call, a refused INSERT or the end of the process has taken away.  A
\* reply that gets lost after the INSERT neither repeats nor reorders a row:
\* what the thread puts back has no content.
Conservation ==
    /\ IsInjective(accepted)
    /\ ToSet(db \o Pending) \cap Msg = ToSet(accepted) \ lost
    /\ InOrder(db \o Pending)

Table == INSTANCE Archive
         WITH Mail <- Msg, arrived <- accepted, stored <- ToSet(db) \cap Msg

\* Every step is one of an archive: batches are settled in the order in which
\* they were filled, each as a whole, and what has become of a message once is
\* final, also when a call fails that has done its work, and when a request of
\* a killed process still arrives.
KeepsArchive == Table!XSpec

\* README: messages are collected in batches and written to MySQL.  A failed
\* call is answered by putting the batch back, so no message is given up.
FailedBatchIsKept ==
    \A m \in ToSet(accepted) : m \in ToSet(db \o queue \o req)

-----------------------------------------------------------------------------
(* Liveness. *)

\* The thread wakes up again and again, and calls end: weak fairness of its
\* steps, with their guards written out.
ThreadRuns ==
    /\ []<>~(stage = "sleep" /\ Len(queue) >= Threshold) \/ []<><<Swap>>_bvars
    /\ []<>(stage \notin {"call", "reply"}) \/ []<><<DbServer \/ EndOfCall>>_bvars
    /\ []<>(stage # "failed") \/ []<><<Requeue>>_bvars

\* Once the queue is full, every record in it leaves it, also when others are
\* added or a failed batch comes back meanwhile.
FullQueueIsTaken ==
    \A m \in Msg : (m \in ToSet(queue) /\ Len(queue) >= Threshold)
                       ~> (m \notin ToSet(queue))
=============================================================================
