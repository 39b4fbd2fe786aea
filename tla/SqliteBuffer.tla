----------------------------- MODULE SqliteBuffer -----------------------------
(***************************************************************************)
(* collector/buffer.py: the collector's store-and-forward buffer, at the   *)
(* grain at which its coroutines interleave.                               *)
(*                                                                         *)
(* Every coroutine of the collector uses the one aiosqlite connection.     *)
(* Each awaited call is a job for the connection's single worker thread,   *)
(* which runs jobs in the order they were posted; when a job is done the   *)
(* event loop resumes the coroutines in that order, and each runs up to    *)
(* its next awaited call.  So enqueue() is four jobs (UPDATE .. RETURNING, *)
(* fetchone, INSERT, commit) with other coroutines' jobs between them, all *)
(* inside one shared transaction: a commit by anybody commits the          *)
(* statements of everybody.                                                *)
(*                                                                         *)
(* External to the repository and modelled from its use here: the worker   *)
(* thread of aiosqlite and the transactions of SQLite.  SQLite refuses to  *)
(* commit while an UPDATE .. RETURNING has been executed but not fetched   *)
(* to its end; the commit raises and the transaction stays open.           *)
(***************************************************************************)
EXTENDS Integers, Sequences, FiniteSets

CONSTANTS
  Tasks,        \* coroutines that run enqueue(), one call each
  AlarmTasks,   \* those whose row is an alarm; the others enqueue a reading
  Drainer,      \* the transmit loop: dequeue_batch(), send, ack()
  BatchMax      \* max_items of dequeue_batch()

ASSUME BufferAssumption ==
  /\ AlarmTasks \subseteq Tasks
  /\ Drainer \notin Tasks
  /\ BatchMax \in Nat \ {0}

VARIABLES
  conn,      \* the database as the connection sees it: counter, next id, rows
  disk,      \* the database as last committed: what a restart finds
  cursors,   \* coroutines whose RETURNING cursor is open
  jobs,      \* coroutines with a job posted to the worker thread, in order
  resumed,   \* coroutines whose job has run, in the order the loop resumes them
  pc,        \* the job each coroutine is at, or how it ended
  seqOf,     \* the sequence number enqueue() was given (0: none yet)
  batch,     \* the rows the transmit loop holds: dequeued, then those to ack
  started,   \* history: the enqueue() calls in the order they were made
  ever,      \* history: every row that was committed at some time
  sent,      \* history: every row handed to the HTTP client
  acked      \* history: every row whose ack() was asked for

dbVars   == <<conn, disk, cursors>>
loopVars == <<jobs, resumed, pc>>
history  == <<started, ever, sent, acked>>
vars     == <<dbVars, loopVars, seqOf, batch, history>>

Coroutines == Tasks \cup {Drainer}

Row == [id : Nat, task : Tasks, seq : Nat]
Database == [value : Nat, nextId : Nat, rows : SUBSET Row]

JobPCs == {"update", "fetch", "insert", "commit", "select", "fetchall", "delete"}
EndPCs == {"done", "raised", "lost"}
PCs    == {"new", "idle", "sending"} \cup JobPCs \cup EndPCs

\* buffer.py creates seq_counter with value 0 and an empty buffer_items.
Init ==
  /\ conn = [value |-> 0, nextId |-> 1, rows |-> {}]
  /\ disk = conn
  /\ cursors = {}
  /\ jobs = <<>> /\ resumed = <<>>
  /\ pc = [c \in Coroutines |-> IF c = Drainer THEN "idle" ELSE "new"]
  /\ seqOf = [t \in Tasks |-> 0]
  /\ batch = {}
  /\ started = <<>> /\ ever = {} /\ sent = {} /\ acked = {}

-----------------------------------------------------------------------------
(* The event loop.                                                         *)

\* A job goes behind those already posted.
Post(c) == Append(jobs, c)

\* A notification makes the loop start a coroutine that calls enqueue().
StartEnqueue(t) ==
  /\ pc[t] = "new"
  /\ pc' = [pc EXCEPT ![t] = "update"]
  /\ jobs' = Post(t)
  /\ started' = Append(started, t)
  /\ UNCHANGED <<dbVars, resumed, seqOf, batch, ever, sent, acked>>

\* The transmit loop wakes up and calls dequeue_batch().
StartDrain ==
  /\ pc[Drainer] = "idle"
  /\ pc' = [pc EXCEPT ![Drainer] = "select"]
  /\ jobs' = Post(Drainer)
  /\ UNCHANGED <<dbVars, resumed, seqOf, batch, history>>

\* The coroutine whose job finished first runs on to its next await.
NextResumed == Head(resumed)

Resume ==
  /\ resumed # <<>>
  /\ resumed' = Tail(resumed)
  /\ LET c == NextResumed IN
     \/ /\ pc[c] \in JobPCs
        /\ jobs' = Post(c)
        /\ UNCHANGED <<pc, sent>>
     \/ /\ c \in Tasks /\ pc[c] \in EndPCs
        /\ UNCHANGED <<jobs, pc, sent>>
     \/ /\ c = Drainer /\ pc[c] = "sending"      \* dequeue_batch() returned
        /\ pc' = [pc EXCEPT ![c] = IF batch = {} THEN "idle" ELSE "sending"]
        /\ sent' = sent \cup batch
        /\ UNCHANGED jobs
     \/ /\ c = Drainer /\ pc[c] \in EndPCs       \* ack() returned or raised
        /\ pc' = [pc EXCEPT ![c] = "idle"]
        /\ UNCHANGED <<jobs, sent>>
  /\ UNCHANGED <<dbVars, seqOf, batch, started, ever, acked>>

IsAlarm(r) == r.task \in AlarmTasks

\* transmit_once() has sent the batch: it acks the alarms, the readings, both
\* or nothing, according to what the cloud answered for each kind.
Settled(b) == { b, {r \in b : IsAlarm(r)}, {r \in b : ~IsAlarm(r)}, {} }

AckBatch(done) ==
  /\ pc[Drainer] = "sending"
  /\ \A i \in 1..Len(resumed) : resumed[i] # Drainer
  /\ done \in Settled(batch)
  /\ batch' = done
  /\ acked' = acked \cup done
  /\ IF done = {}
       THEN /\ pc' = [pc EXCEPT ![Drainer] = "idle"]
            /\ UNCHANGED jobs
       ELSE /\ pc' = [pc EXCEPT ![Drainer] = "delete"]
            /\ jobs' = Post(Drainer)
  /\ UNCHANGED <<dbVars, resumed, seqOf, started, ever, sent>>
-----------------------------------------------------------------------------
(* The worker thread: one action for each kind of job.                     *)

RunJob(c, at, to) ==
  /\ jobs # <<>> /\ Head(jobs) = c
  /\ pc[c] = at
  /\ pc' = [pc EXCEPT ![c] = to]
  /\ jobs' = Tail(jobs)
  /\ resumed' = Append(resumed, c)

\* UPDATE seq_counter SET value = value + 1 .. RETURNING value: the cursor
\* holds the new value, and stays open until the row is fetched.
UpdateCounter(t) ==
  /\ RunJob(t, "update", "fetch")
  /\ conn' = [conn EXCEPT !.value = @ + 1]
  /\ cursors' = cursors \cup {t}
  /\ seqOf' = [seqOf EXCEPT ![t] = conn.value + 1]
  /\ UNCHANGED <<disk, batch, history>>

RereadSeq(t) ==                 \* mutant: the counter is read by a SELECT
  /\ RunJob(t, "fetch", "insert")
  /\ cursors' = cursors \ {t}
  /\ seqOf' = [seqOf EXCEPT ![t] = conn.value]
  /\ UNCHANGED <<conn, disk, batch, history>>

FetchSeq(t) ==
  /\ RunJob(t, "fetch", "insert")
  /\ cursors' = cursors \ {t}
  /\ UNCHANGED <<conn, disk, seqOf, batch, history>>

InsertRow(t) ==
  /\ RunJob(t, "insert", "commit")
  /\ LET row == [id |-> conn.nextId, task |-> t, seq |-> seqOf[t]] IN
     conn' = [value |-> conn.value, nextId |-> conn.nextId + 1,
              rows |-> conn.rows \cup {row}]
  /\ UNCHANGED <<disk, cursors, seqOf, batch, history>>

CommitSucceeds(c) ==
  /\ cursors = {}
  /\ RunJob(c, "commit", "done")
  /\ disk' = conn
  /\ ever' = ever \cup conn.rows
  /\ UNCHANGED <<conn, cursors, seqOf, batch, started, sent, acked>>

CommitErrorIgnored(c) ==        \* mutant: enqueue() returns all the same
  /\ cursors # {}
  /\ RunJob(c, "commit", "done")
  /\ UNCHANGED <<dbVars, seqOf, batch, history>>

CommitErrorRollsBack(c) ==      \* mutant: the error handler rolls back
  /\ cursors # {}
  /\ RunJob(c, "commit", "raised")
  /\ conn' = disk
  /\ UNCHANGED <<disk, cursors, seqOf, batch, history>>

InsertRetried(c) ==             \* mutant: on an error the insert is run again
  /\ cursors # {}
  /\ c \in Tasks
  /\ RunJob(c, "commit", "insert")
  /\ conn' = [conn EXCEPT !.rows = {r \in @ : r.task # c}]
  /\ UNCHANGED <<disk, cursors, seqOf, batch, history>>

\* "cannot commit transaction - SQL statements in progress"
CommitRaises(c) ==
  /\ cursors # {}
  /\ RunJob(c, "commit", "raised")
  /\ UNCHANGED <<dbVars, seqOf, batch, history>>

\* ORDER BY (kind = 'alarm') DESC, id ASC LIMIT max_items
DrainsBefore(r, s) ==
  \/ IsAlarm(r) /\ ~IsAlarm(s)
  \/ (IsAlarm(r) <=> IsAlarm(s)) /\ r.id < s.id

Oldest(rows) ==
  {r \in rows : Cardinality({s \in rows : DrainsBefore(s, r)}) < BatchMax}

SelectBatch ==
  /\ RunJob(Drainer, "select", "fetchall")
  /\ batch' = Oldest(conn.rows)
  /\ UNCHANGED <<dbVars, seqOf, history>>

FetchBatch ==
  /\ RunJob(Drainer, "fetchall", "sending")
  /\ UNCHANGED <<dbVars, seqOf, batch, history>>

DeleteUpTo ==                   \* mutant: an offset instead of a list of ids
  /\ RunJob(Drainer, "delete", "commit")
  /\ conn' = [conn EXCEPT !.rows = {r \in @ : \A a \in batch : a.id < r.id}]
  /\ UNCHANGED <<disk, cursors, seqOf, batch, history>>

\* DELETE FROM buffer_items WHERE id IN (..)
DeleteAcked ==
  /\ RunJob(Drainer, "delete", "commit")
  /\ conn' = [conn EXCEPT !.rows = {r \in @ : \A a \in batch : a.id # r.id}]
  /\ UNCHANGED <<disk, cursors, seqOf, batch, history>>
-----------------------------------------------------------------------------
CounterInMemory ==              \* mutant: the counter is not in the file
  /\ conn' = [disk EXCEPT !.value = 0]
  /\ cursors' = {} /\ jobs' = <<>> /\ resumed' = <<>> /\ batch' = {}
  /\ pc' = [c \in Coroutines |->
              CASE c = Drainer -> "idle"
                [] c # Drainer /\ pc[c] \in JobPCs \cup {"raised"} -> "lost"
                [] OTHER -> pc[c]]
  /\ UNCHANGED <<disk, seqOf, history>>

\* The process dies and starts again: open() finds what was committed.  Every
\* coroutine in flight is gone, and so is the shared transaction with the rows of
\* calls that raised.
Crash ==
  /\ conn' = disk
  /\ cursors' = {} /\ jobs' = <<>> /\ resumed' = <<>> /\ batch' = {}
  /\ pc' = [c \in Coroutines |->
              CASE c = Drainer -> "idle"
                [] c # Drainer /\ pc[c] \in JobPCs \cup {"raised"} -> "lost"
                [] OTHER -> pc[c]]
  /\ UNCHANGED <<disk, seqOf, history>>

Worker ==
  \/ \E t \in Tasks : UpdateCounter(t) \/ FetchSeq(t) \/ InsertRow(t)
  \/ \E c \in Coroutines : CommitSucceeds(c) \/ CommitRaises(c)
  \/ SelectBatch \/ FetchBatch \/ DeleteAcked

Running ==
  \/ \E t \in Tasks : StartEnqueue(t)
  \/ StartDrain
  \/ Resume
  \/ \E done \in SUBSET batch : AckBatch(done)
  \/ Worker

Next == Running \/ Crash

Spec == Init /\ [][Next]_vars

\* As long as the process lives the worker thread and the event loop do not stop,
\* and a POST always ends (it has a timeout); nothing makes a notification arrive.
FairSpec ==
  /\ Spec
  /\ WF_vars(Worker)
  /\ WF_vars(Resume)
  /\ WF_vars(\E done \in SUBSET batch : AckBatch(done))
-----------------------------------------------------------------------------
TypeOK ==
  /\ conn \in Database /\ disk \in Database
  /\ cursors \subseteq Tasks
  /\ jobs \in Seq(Coroutines) /\ resumed \in Seq(Coroutines)
  /\ pc \in [Coroutines -> PCs]
  /\ seqOf \in [Tasks -> Nat]
  /\ batch \subseteq Row
  /\ started \in Seq(Tasks)
  /\ ever \subseteq Row /\ sent \subseteq Row /\ acked \subseteq Row

\* A sequence number identifies one row for ever: no two rows that were ever
\* committed, before or after any number of crashes and whether or not they
\* have been acked since, carry the same seq (the cloud's dedup key is built
\* on it).  _next_seq() must not let two enqueue() calls read one value.
SeqNeverReused == \A r, s \in ever : r.seq = s.seq => r = s

\* The store-and-forward promise of enqueue(): once it has returned a seq, the
\* row is in the file or has been acked, whatever else commits, raises or
\* crashes in between, although the row may be selected, sent and deleted by
\* the transmit loop before enqueue() has committed it.
EnqueuedIsKept ==
  \A t \in Tasks : pc[t] = "done" =>
    \E r \in disk.rows \cup acked : r.task = t /\ r.seq = seqOf[t]

\* A row that was once committed leaves the file only because ack() named it:
\* a commit by one coroutine takes with it the open DELETE of another, but
\* never a row nobody asked to delete (delete-on-ack, class docstring).
OnlyAckedLeave == ever \subseteq disk.rows \cup acked

\* Enqueue() calls overlap but never overtake: a call ends only when all the
\* earlier ones have ended (or died), so a tag's samples reach the alarm engine
\* in the order of their notifications, and committed seqs follow that order.
Ended(t) == pc[t] \in EndPCs
ArrivalOrderKept ==
  \A i, j \in 1..Len(started) : i < j =>
    /\ Ended(started[j]) => Ended(started[i])
    /\ \A r, s \in ever : r.task = started[i] /\ s.task = started[j] => r.seq < s.seq

\* An enqueue() whose commit raised has still written its row into the shared
\* transaction: as long as the process lives, some later commit makes the row
\* of every call durable (or it has been acked), so no sample is dropped but in a
\* crash.
DurableOrAcked(t) == \E r \in ever \cup acked : r.task = t
EveryCallSettles == \A t \in Tasks : pc[t] = "update" ~> (DurableOrAcked(t) \/ pc[t] = "lost")

\* The buffer implements the abstract queue.
Queue == INSTANCE DurableQueue WITH
           value <- disk.value, rows <- disk.rows,
           released <- acked
QueueSpec == Queue!QSpec
-----------------------------------------------------------------------------
(* Statements of the repository's tests and documents that the code does   *)
(* not keep.                                                               *)

\* tests/test_buffer.py: gather() of concurrent enqueue() calls returns a seq
\* for each of them, so none of them raises.
ConcurrentEnqueueReturns == \A t \in Tasks : pc[t] # "raised"

\* collector.design.md section 3.3: seq is one monotonic counter, and part of
\* the cloud's dedup key: two rows sent to the cloud never share a seq.
SentSeqsDistinct == \A r, s \in sent : r.seq = s.seq => r.task = s.task
=============================================================================
