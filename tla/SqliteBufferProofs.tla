-------------------------- MODULE SqliteBufferProofs --------------------------
(***************************************************************************)
(* Proofs about SqliteBuffer, for any number of enqueue() calls, any batch *)
(* size and any number of crashes.                                         *)
(*                                                                         *)
(* The properties are not inductive: they follow from the strengthening    *)
(* IInv, which also speaks of the rows that are in the connection's open   *)
(* transaction and of the seqs of calls that have not inserted theirs yet. *)
(***************************************************************************)
EXTENDS SqliteBuffer, TLAPS

\* A coroutine that has its seq but has not inserted its row.
Holding(t) == pc[t] \in {"fetch", "insert"}

\* The counter is ahead of every seq in use; a commit only moves it forward.
CounterAhead ==
  /\ disk.value <= conn.value
  /\ disk.nextId <= conn.nextId
  /\ \A t \in Tasks : Holding(t) => seqOf[t] <= conn.value
  /\ \A r \in conn.rows : r.seq <= conn.value
  /\ \A r \in ever : r.seq <= disk.value

\* Seqs in use are distinct: those of rows, and those held by a call.
SeqsDistinct ==
  /\ \A r, s \in ever \cup conn.rows : r.seq = s.seq => r = s
  /\ \A t, u \in Tasks : Holding(t) /\ Holding(u) /\ seqOf[t] = seqOf[u] => t = u
  /\ \A t \in Tasks : Holding(t) => \A r \in ever \cup conn.rows : r.seq # seqOf[t]

\* Within one run of the process an id names one row.
IdsDistinct ==
  /\ \A r, s \in conn.rows \cup disk.rows \cup batch : r.id = s.id => r = s
  /\ \A r \in conn.rows \cup batch : r.id < conn.nextId
  /\ \A r \in disk.rows : r.id < disk.nextId

\* The file and the open transaction differ by new rows and by acked ones.
FileFollows ==
  /\ disk.rows \subseteq ever
  /\ conn.rows \cap ever \subseteq disk.rows
  /\ disk.rows \subseteq conn.rows \cup acked

\* r is the row of t's call.
RowOf(r, t) == r.task = t /\ r.seq = seqOf[t]

\* A call that is about to commit, or has, finds its row in the transaction.
CallsKept ==
  \A t \in Tasks : pc[t] \in {"commit", "done"} =>
    \E r \in conn.rows \cup acked : RowOf(r, t)

\* What is deleted was acked.
DeletesAcked == pc[Drainer] = "delete" => batch \subseteq acked

IInv ==
  /\ TypeOK
  /\ CounterAhead
  /\ SeqsDistinct
  /\ IdsDistinct
  /\ FileFollows
  /\ CallsKept
  /\ DeletesAcked
  /\ EnqueuedIsKept
  /\ OnlyAckedLeave
-----------------------------------------------------------------------------
LEMMA InitIInv == Init => IInv
  <1> SUFFICES ASSUME Init PROVE IInv
    OBVIOUS
  <1> USE DEF Init
  <1>1. TypeOK
    BY DEF TypeOK, Database, Row, Coroutines, PCs
  <1>2. \A t \in Tasks : pc[t] = "new"
    BY BufferAssumption DEF Coroutines
  <1>3. pc[Drainer] = "idle"
    BY DEF Coroutines
  <1> QED
    BY <1>1, <1>2, <1>3 DEF IInv, CounterAhead, Holding, SeqsDistinct, IdsDistinct,
       FileFollows, CallsKept, DeletesAcked, EnqueuedIsKept, OnlyAckedLeave

LEMMA PostTyped ==
  ASSUME TypeOK, NEW c \in Coroutines
  PROVE  Post(c) \in Seq(Coroutines)
  BY DEF TypeOK, Post

\* Running a job moves its coroutine on and keeps the queues well typed.
LEMMA RunJobMoves ==
  ASSUME TypeOK, NEW c \in Coroutines, NEW at, NEW to \in PCs, RunJob(c, at, to)
  PROVE  /\ pc' \in [Coroutines -> PCs]
         /\ pc[c] = at /\ pc'[c] = to
         /\ \A d \in Coroutines : d # c => pc'[d] = pc[d]
         /\ jobs' \in Seq(Coroutines) /\ resumed' \in Seq(Coroutines)
  BY DEF TypeOK, RunJob

\* The actions of the event loop touch neither database nor seqs.
LEMMA LoopKeepsIInv ==
  ASSUME IInv, \/ \E t \in Tasks : StartEnqueue(t)
               \/ StartDrain
               \/ Resume
               \/ \E done \in SUBSET batch : AckBatch(done)
  PROVE  IInv'
<1> USE DEF IInv, dbVars, history, loopVars
<1>1. ASSUME NEW t \in Tasks, StartEnqueue(t) PROVE IInv'
  <2>1. TypeOK'
    BY <1>1 DEF StartEnqueue, Post, TypeOK, Coroutines, PCs, JobPCs
  <2>2. /\ pc[t] = "new" /\ pc'[t] = "update" /\ t # Drainer
        /\ \A c \in Coroutines : c # t => pc'[c] = pc[c]
        /\ UNCHANGED <<conn, disk, seqOf, batch, ever, acked>>
    BY <1>1, BufferAssumption DEF StartEnqueue, TypeOK, Coroutines
  <2>3. \A u \in Tasks : /\ Holding(u)' <=> Holding(u)
                         /\ pc'[u] \in {"commit", "done"} <=> pc[u] \in {"commit", "done"}
                         /\ pc'[u] = "done" <=> pc[u] = "done"
    BY <2>2 DEF Holding, Coroutines
  <2>4. pc'[Drainer] = pc[Drainer]
    BY <2>2 DEF Coroutines
  <2> QED
    BY <2>1, <2>2, <2>3, <2>4 DEF CounterAhead, SeqsDistinct, IdsDistinct, FileFollows,
       CallsKept, DeletesAcked, EnqueuedIsKept, OnlyAckedLeave, RowOf
<1>2. ASSUME StartDrain PROVE IInv'
  <2>1. TypeOK'
    BY <1>2 DEF StartDrain, Post, TypeOK, Coroutines, PCs, JobPCs
  <2>2. /\ pc'[Drainer] = "select"
        /\ \A c \in Tasks : pc'[c] = pc[c]
        /\ UNCHANGED <<conn, disk, seqOf, batch, ever, acked>>
    BY <1>2, BufferAssumption DEF StartDrain, TypeOK, Coroutines
  <2> QED
    BY <2>1, <2>2 DEF CounterAhead, SeqsDistinct, IdsDistinct, FileFollows, Holding,
       CallsKept, DeletesAcked, EnqueuedIsKept, OnlyAckedLeave, RowOf
<1>3. ASSUME Resume PROVE IInv'
  <2>1. /\ NextResumed \in Coroutines /\ resumed' \in Seq(Coroutines)
        /\ resumed # <<>>
    BY <1>3 DEF Resume, NextResumed, TypeOK
  <2>2. jobs' \in Seq(Coroutines)
    BY <1>3, <2>1, PostTyped DEF Resume, TypeOK
  <2>3. /\ pc' \in [Coroutines -> PCs]
        /\ \A c \in Tasks : pc'[c] = pc[c]
        /\ pc'[Drainer] = "delete" => pc[Drainer] = "delete"
    <3>1. CASE UNCHANGED pc
      BY <3>1 DEF TypeOK
    <3>2. CASE \E to \in {"idle", "sending"} : pc' = [pc EXCEPT ![Drainer] = to]
      BY <3>2, BufferAssumption DEF TypeOK, Coroutines, PCs
    <3> QED
      BY <1>3, <3>1, <3>2 DEF Resume
  <2>4. sent' \subseteq Row
    BY <1>3, <2>1 DEF Resume, TypeOK
  <2>5. UNCHANGED <<conn, disk, cursors, seqOf, batch, started, ever, acked>>
    BY <1>3 DEF Resume
  <2>6. TypeOK'
    BY <2>1, <2>2, <2>3, <2>4, <2>5 DEF TypeOK
  <2> QED
    BY <2>3, <2>5, <2>6 DEF CounterAhead, SeqsDistinct, IdsDistinct, FileFollows, Holding,
       CallsKept, DeletesAcked, EnqueuedIsKept, OnlyAckedLeave, RowOf
<1>4. ASSUME NEW done \in SUBSET batch, AckBatch(done) PROVE IInv'
  <2>a. /\ jobs' \in Seq(Coroutines)
        /\ pc' \in [Coroutines -> PCs]
    <3>1. CASE done = {}
      BY <1>4, <3>1 DEF AckBatch, TypeOK, Coroutines, PCs
    <3>2. CASE done # {}
      <4>1. jobs' = Post(Drainer) /\ pc' = [pc EXCEPT ![Drainer] = "delete"]
        BY <1>4, <3>2 DEF AckBatch
      <4>2. Drainer \in Coroutines /\ "delete" \in PCs
        BY DEF Coroutines, PCs, JobPCs
      <4> QED
        BY <4>1, <4>2, PostTyped DEF TypeOK
    <3> QED
      BY <3>1, <3>2
  <2>1. TypeOK'
    BY <1>4, <2>a DEF AckBatch, TypeOK
  <2>2. /\ batch' = done /\ acked' = acked \cup done
        /\ \A c \in Tasks : pc'[c] = pc[c]
        /\ UNCHANGED <<conn, disk, seqOf, ever>>
    BY <1>4, BufferAssumption DEF AckBatch, TypeOK, Coroutines
  <2>3. IdsDistinct' /\ FileFollows' /\ DeletesAcked'
    BY <2>2 DEF IdsDistinct, FileFollows, DeletesAcked
  <2>4. CallsKept' /\ EnqueuedIsKept' /\ OnlyAckedLeave'
    BY <2>2 DEF CallsKept, EnqueuedIsKept, OnlyAckedLeave, RowOf
  <2> QED
    BY <2>1, <2>2, <2>3, <2>4 DEF CounterAhead, SeqsDistinct, Holding
<1> QED
  BY <1>1, <1>2, <1>3, <1>4

\* The counter is incremented and read in one job: the new seq is above all.
LEMMA UpdateCounterKeepsIInv ==
  ASSUME IInv, NEW t \in Tasks, UpdateCounter(t)
  PROVE  IInv'
<1> USE DEF IInv, history
<1>1. /\ pc[t] = "update" /\ pc'[t] = "fetch" /\ t # Drainer
      /\ \A c \in Coroutines : c # t => pc'[c] = pc[c]
      /\ pc' \in [Coroutines -> PCs]
      /\ jobs' \in Seq(Coroutines) /\ resumed' \in Seq(Coroutines)
  BY RunJobMoves, BufferAssumption DEF UpdateCounter, Coroutines, PCs, JobPCs
<1>2. /\ conn'.value = conn.value + 1 /\ conn'.rows = conn.rows
      /\ conn'.nextId = conn.nextId /\ conn' \in Database
      /\ seqOf'[t] = conn.value + 1
      /\ \A u \in Tasks : u # t => seqOf'[u] = seqOf[u]
      /\ seqOf' \in [Tasks -> Nat]
      /\ UNCHANGED <<disk, batch, started, ever, sent, acked>>
  <2>1. conn' = [conn EXCEPT !.value = conn.value + 1]
    BY DEF UpdateCounter
  <2>2. /\ conn \in [value : Nat, nextId : Nat, rows : SUBSET Row]
        /\ seqOf \in [Tasks -> Nat]
    BY DEF TypeOK, Database
  <2>3. conn' \in [value : Nat, nextId : Nat, rows : SUBSET Row]
    BY <2>1, <2>2
  <2> QED
    BY <2>1, <2>2, <2>3 DEF UpdateCounter, Database
<1>3. TypeOK'
  BY <1>1, <1>2 DEF UpdateCounter, TypeOK
<1>4. \A u \in Tasks : /\ Holding(u)' <=> Holding(u) \/ u = t
                       /\ u # t => (pc'[u] = pc[u])
  BY <1>1 DEF Holding, Coroutines
<1>5. \A r \in ever \cup conn.rows : r.seq \in Nat /\ r.seq <= conn.value
  BY DEF CounterAhead, TypeOK, Database, Row
<1>6. CounterAhead'
  <2>1. conn.value \in Nat /\ disk.value \in Nat /\ \A u \in Tasks : seqOf[u] \in Nat
    BY DEF TypeOK, Database
  <2> QED
    BY <2>1, <1>2, <1>4, <1>5 DEF CounterAhead
<1>7. SeqsDistinct'
  <2>1. conn.value \in Nat /\ \A u \in Tasks : seqOf[u] \in Nat
    BY DEF TypeOK, Database
  <2> QED
    BY <2>1, <1>2, <1>4, <1>5 DEF SeqsDistinct, CounterAhead
<1>8. IdsDistinct' /\ FileFollows' /\ OnlyAckedLeave'
  BY <1>2 DEF IdsDistinct, FileFollows, OnlyAckedLeave
<1>9. CallsKept' /\ EnqueuedIsKept'
  <2>1. \A u \in Tasks : pc'[u] \in {"commit", "done"} =>
          u # t /\ pc'[u] = pc[u] /\ seqOf'[u] = seqOf[u]
    BY <1>1, <1>2, <1>4
  <2> QED
    BY <2>1, <1>2 DEF CallsKept, EnqueuedIsKept, RowOf
<1>10. DeletesAcked'
  BY <1>1, <1>2 DEF DeletesAcked, Coroutines
<1> QED
  BY <1>3, <1>6, <1>7, <1>8, <1>9, <1>10

LEMMA FetchSeqKeepsIInv ==
  ASSUME IInv, NEW t \in Tasks, FetchSeq(t)
  PROVE  IInv'
<1> USE DEF IInv, history
<1>1. /\ pc[t] = "fetch" /\ pc'[t] = "insert" /\ t # Drainer
      /\ \A c \in Coroutines : c # t => pc'[c] = pc[c]
      /\ pc' \in [Coroutines -> PCs]
      /\ jobs' \in Seq(Coroutines) /\ resumed' \in Seq(Coroutines)
  BY RunJobMoves, BufferAssumption DEF FetchSeq, Coroutines, PCs, JobPCs
<1>2. UNCHANGED <<conn, disk, seqOf, batch, started, ever, sent, acked>>
  BY DEF FetchSeq
<1>3. TypeOK'
  BY <1>1, <1>2 DEF FetchSeq, TypeOK
<1>4. /\ \A u \in Tasks : /\ Holding(u)' <=> Holding(u)
                          /\ pc'[u] \in {"commit", "done"} <=> pc[u] \in {"commit", "done"}
                          /\ pc'[u] = "done" <=> pc[u] = "done"
      /\ pc'[Drainer] = pc[Drainer]
  BY <1>1 DEF Holding, Coroutines
<1> QED
  BY <1>2, <1>3, <1>4 DEF CounterAhead, SeqsDistinct, IdsDistinct, FileFollows,
     CallsKept, DeletesAcked, EnqueuedIsKept, OnlyAckedLeave, RowOf

LEMMA InsertRowKeepsIInv ==
  ASSUME IInv, NEW t \in Tasks, InsertRow(t)
  PROVE  IInv'
<1> USE DEF IInv, history
<1> DEFINE new == [id |-> conn.nextId, task |-> t, seq |-> seqOf[t]]
<1>1. /\ pc[t] = "insert" /\ pc'[t] = "commit" /\ t # Drainer
      /\ \A c \in Coroutines : c # t => pc'[c] = pc[c]
      /\ pc' \in [Coroutines -> PCs]
      /\ jobs' \in Seq(Coroutines) /\ resumed' \in Seq(Coroutines)
  BY RunJobMoves, BufferAssumption DEF InsertRow, Coroutines, PCs, JobPCs
<1>2. /\ conn'.value = conn.value /\ conn'.nextId = conn.nextId + 1
      /\ conn'.rows = conn.rows \cup {new}
      /\ new \in Row /\ conn' \in Database
      /\ UNCHANGED <<disk, cursors, seqOf, batch, started, ever, sent, acked>>
  <2>1. conn' = [value |-> conn.value, nextId |-> conn.nextId + 1,
                 rows |-> conn.rows \cup {new}]
    BY DEF InsertRow
  <2>2. conn \in [value : Nat, nextId : Nat, rows : SUBSET Row]
    BY DEF TypeOK, Database
  <2>3. new \in Row
    BY <2>2 DEF TypeOK, Row
  <2>4. conn.rows \cup {new} \in SUBSET Row
    BY <2>2, <2>3
  <2> HIDE DEF new
  <2>5. conn' \in [value : Nat, nextId : Nat, rows : SUBSET Row]
    BY <2>1, <2>2, <2>4
  <2> QED
    BY <2>1, <2>2, <2>3, <2>5 DEF InsertRow, Database
<1>3. TypeOK'
  BY <1>1, <1>2 DEF TypeOK
<1>4. /\ Holding(t) /\ ~Holding(t)'
      /\ \A u \in Tasks : u # t => (Holding(u)' <=> Holding(u)) /\ pc'[u] = pc[u]
      /\ pc'[Drainer] = pc[Drainer]
  BY <1>1 DEF Holding, Coroutines
<1>5. CounterAhead'
  <2>1. conn.nextId \in Nat /\ disk.nextId \in Nat
    BY DEF TypeOK, Database
  <2> QED
    BY <2>1, <1>2, <1>4 DEF CounterAhead
<1>6. SeqsDistinct'
  BY <1>2, <1>4 DEF SeqsDistinct
<1>7. IdsDistinct'
  <2>1. conn.nextId \in Nat /\ disk.nextId \in Nat
    BY DEF TypeOK, Database
  <2>2. \A r \in conn.rows \cup disk.rows \cup batch : r.id \in Nat /\ r.id < conn.nextId
    BY <2>1 DEF TypeOK, Database, Row, IdsDistinct, CounterAhead
  <2> QED
    BY <2>1, <2>2, <1>2 DEF IdsDistinct
<1>8. new \notin ever
  BY <1>4 DEF SeqsDistinct
<1>9. FileFollows' /\ OnlyAckedLeave'
  BY <1>2, <1>8 DEF FileFollows, OnlyAckedLeave
<1>10. CallsKept'
  <2>1. RowOf(new, t)'
    BY <1>2 DEF RowOf
  <2> QED
    BY <2>1, <1>2, <1>4 DEF CallsKept, RowOf
<1>11. EnqueuedIsKept' /\ DeletesAcked'
  BY <1>1, <1>2, <1>4 DEF EnqueuedIsKept, DeletesAcked
<1> QED
  BY <1>3, <1>5, <1>6, <1>7, <1>9, <1>10, <1>11

\* A commit makes the whole open transaction durable, whoever asks for it.
LEMMA CommitKeepsIInv ==
  ASSUME IInv, NEW c \in Coroutines, CommitSucceeds(c) \/ CommitRaises(c)
  PROVE  IInv'
<1> USE DEF IInv, history, dbVars
<1>1. ASSUME CommitSucceeds(c) PROVE IInv'
  <2>1. /\ pc[c] = "commit" /\ pc'[c] = "done"
        /\ \A d \in Coroutines : d # c => pc'[d] = pc[d]
        /\ pc' \in [Coroutines -> PCs]
        /\ jobs' \in Seq(Coroutines) /\ resumed' \in Seq(Coroutines)
    BY <1>1, RunJobMoves DEF CommitSucceeds, PCs, EndPCs
  <2>2. /\ disk' = conn /\ ever' = ever \cup conn.rows
        /\ UNCHANGED <<conn, cursors, seqOf, batch, started, sent, acked>>
    BY <1>1 DEF CommitSucceeds
  <2>3. conn.rows \subseteq Row /\ conn.value \in Nat /\ conn.nextId \in Nat
    BY DEF TypeOK, Database
  <2>4. TypeOK'
    BY <2>1, <2>2, <2>3 DEF TypeOK
  <2>5. /\ \A u \in Tasks : /\ Holding(u)' => Holding(u)
                            /\ pc'[u] \in {"commit", "done"} => pc[u] \in {"commit", "done"}
        /\ pc'[Drainer] = "delete" => pc[Drainer] = "delete"
    BY <2>1 DEF Holding, Coroutines
  <2>6. CounterAhead'
    <3>1. /\ \A r \in ever : r.seq \in Nat
          /\ disk.value \in Nat
      BY DEF TypeOK, Database, Row
    <3> QED
      BY <2>2, <2>3, <2>5, <3>1 DEF CounterAhead
  <2>7. SeqsDistinct' /\ IdsDistinct'
    BY <2>2, <2>5 DEF SeqsDistinct, IdsDistinct
  <2>8. FileFollows' /\ OnlyAckedLeave' /\ DeletesAcked'
    BY <2>2, <2>5 DEF FileFollows, OnlyAckedLeave, DeletesAcked
  <2>9. CallsKept' /\ EnqueuedIsKept'
    BY <2>2, <2>5 DEF CallsKept, EnqueuedIsKept, RowOf
  <2> QED
    BY <2>4, <2>6, <2>7, <2>8, <2>9
<1>2. ASSUME CommitRaises(c) PROVE IInv'
  <2>1. /\ pc[c] = "commit" /\ pc'[c] = "raised"
        /\ \A d \in Coroutines : d # c => pc'[d] = pc[d]
        /\ pc' \in [Coroutines -> PCs]
        /\ jobs' \in Seq(Coroutines) /\ resumed' \in Seq(Coroutines)
    BY <1>2, RunJobMoves DEF CommitRaises, PCs, EndPCs
  <2>2. UNCHANGED <<conn, disk, cursors, seqOf, batch, started, ever, sent, acked>>
    BY <1>2 DEF CommitRaises
  <2>3. TypeOK'
    BY <2>1, <2>2 DEF TypeOK
  <2>4. /\ \A u \in Tasks : /\ Holding(u)' => Holding(u)
                            /\ pc'[u] \in {"commit", "done"} => pc'[u] = pc[u]
        /\ pc'[Drainer] = "delete" => pc[Drainer] = "delete"
    BY <2>1 DEF Holding, Coroutines
  <2> QED
    BY <2>2, <2>3, <2>4 DEF CounterAhead, SeqsDistinct, IdsDistinct, FileFollows,
       CallsKept, DeletesAcked, EnqueuedIsKept, OnlyAckedLeave, RowOf
<1> QED
  BY <1>1, <1>2

LEMMA DrainKeepsIInv ==
  ASSUME IInv, SelectBatch \/ FetchBatch \/ DeleteAcked
  PROVE  IInv'
<1> USE DEF IInv, history, dbVars
<1>a. Drainer \in Coroutines /\ \A t \in Tasks : t # Drainer /\ t \in Coroutines
  BY BufferAssumption DEF Coroutines
<1>1. ASSUME SelectBatch PROVE IInv'
  <2>1. /\ pc'[Drainer] = "fetchall"
        /\ \A d \in Tasks : pc'[d] = pc[d]
        /\ pc' \in [Coroutines -> PCs]
        /\ jobs' \in Seq(Coroutines) /\ resumed' \in Seq(Coroutines)
    BY <1>1, <1>a, RunJobMoves DEF SelectBatch, PCs, JobPCs
  <2>2. /\ batch' \subseteq conn.rows
        /\ UNCHANGED <<conn, disk, cursors, seqOf, started, ever, sent, acked>>
    BY <1>1 DEF SelectBatch, Oldest
  <2>3. TypeOK'
    <3>1. conn.rows \subseteq Row
      BY DEF TypeOK, Database
    <3> QED
      BY <2>1, <2>2, <3>1 DEF TypeOK
  <2>4. IdsDistinct' /\ DeletesAcked'
    BY <2>1, <2>2 DEF IdsDistinct, DeletesAcked
  <2> QED
    BY <2>1, <2>2, <2>3, <2>4 DEF CounterAhead, SeqsDistinct, FileFollows, Holding,
       CallsKept, EnqueuedIsKept, OnlyAckedLeave, RowOf
<1>2. ASSUME FetchBatch PROVE IInv'
  <2>1. /\ pc'[Drainer] = "sending"
        /\ \A d \in Tasks : pc'[d] = pc[d]
        /\ pc' \in [Coroutines -> PCs]
        /\ jobs' \in Seq(Coroutines) /\ resumed' \in Seq(Coroutines)
    BY <1>2, <1>a, RunJobMoves DEF FetchBatch, PCs
  <2>2. UNCHANGED <<conn, disk, cursors, seqOf, batch, started, ever, sent, acked>>
    BY <1>2 DEF FetchBatch
  <2>3. TypeOK'
    BY <2>1, <2>2 DEF TypeOK
  <2> QED
    BY <2>1, <2>2, <2>3 DEF CounterAhead, SeqsDistinct, IdsDistinct, FileFollows, Holding,
       CallsKept, DeletesAcked, EnqueuedIsKept, OnlyAckedLeave, RowOf
<1>3. ASSUME DeleteAcked PROVE IInv'
  <2>1. /\ pc[Drainer] = "delete" /\ pc'[Drainer] = "commit"
        /\ \A d \in Tasks : pc'[d] = pc[d]
        /\ pc' \in [Coroutines -> PCs]
        /\ jobs' \in Seq(Coroutines) /\ resumed' \in Seq(Coroutines)
    BY <1>3, <1>a, RunJobMoves DEF DeleteAcked, PCs, JobPCs
  <2> DEFINE left == {r \in conn.rows : \A a \in batch : a.id # r.id}
  <2>2. /\ conn'.rows = left
        /\ conn'.value = conn.value /\ conn'.nextId = conn.nextId
        /\ conn' \in Database
        /\ UNCHANGED <<disk, cursors, seqOf, batch, started, ever, sent, acked>>
    <3>1. conn' = [conn EXCEPT !.rows = left]
      BY <1>3 DEF DeleteAcked
    <3>2. conn \in [value : Nat, nextId : Nat, rows : SUBSET Row]
      BY DEF TypeOK, Database
    <3>3. left \in SUBSET Row
      BY <3>2
    <3> HIDE DEF left
    <3>4. conn' \in [value : Nat, nextId : Nat, rows : SUBSET Row]
      BY <3>1, <3>2, <3>3
    <3> QED
      BY <1>3, <3>1, <3>2, <3>4 DEF DeleteAcked, Database
  \* only acked rows are gone: an id names one row, and the batch was acked
  <2>3. left \subseteq conn.rows /\ conn.rows \subseteq left \cup acked
    BY <2>1 DEF IdsDistinct, DeletesAcked
  <2> HIDE DEF left
  <2>4. TypeOK'
    BY <2>1, <2>2 DEF TypeOK
  <2>5. CounterAhead' /\ SeqsDistinct'
    BY <2>1, <2>2, <2>3 DEF CounterAhead, SeqsDistinct, Holding
  <2>6. IdsDistinct' /\ FileFollows' /\ OnlyAckedLeave' /\ DeletesAcked'
    BY <2>1, <2>2, <2>3 DEF IdsDistinct, FileFollows, OnlyAckedLeave, DeletesAcked
  <2>7. CallsKept' /\ EnqueuedIsKept'
    BY <2>1, <2>2, <2>3 DEF CallsKept, EnqueuedIsKept, RowOf
  <2> QED
    BY <2>4, <2>5, <2>6, <2>7
<1> QED
  BY <1>1, <1>2, <1>3

\* A restart forgets the open transaction and every call in flight.
LEMMA CrashKeepsIInv ==
  ASSUME IInv, Crash
  PROVE  IInv'
<1> USE DEF IInv, history
<1>1. /\ conn' = disk /\ disk' = disk /\ batch' = {} /\ cursors' = {}
      /\ jobs' = <<>> /\ resumed' = <<>>
      /\ UNCHANGED <<seqOf, started, ever, sent, acked>>
  BY DEF Crash
<1>2. \A t \in Tasks : t \in Coroutines /\ t # Drainer
  BY BufferAssumption DEF Coroutines
<1>3. /\ pc' \in [Coroutines -> PCs]
      /\ pc'[Drainer] = "idle"
  BY DEF Crash, TypeOK, Coroutines, PCs, EndPCs
<1>4. \A t \in Tasks : pc'[t] = IF pc[t] \in JobPCs \cup {"raised"} THEN "lost" ELSE pc[t]
  BY <1>2 DEF Crash
<1>5. \A t \in Tasks : ~Holding(t)' /\ (pc'[t] \in {"commit", "done"} => pc[t] = "done" /\ pc'[t] = "done")
  BY <1>4 DEF Holding, JobPCs
<1>6. TypeOK'
  BY <1>1, <1>3 DEF TypeOK
<1>7. CounterAhead' /\ SeqsDistinct'
  <2>1. disk.value \in Nat /\ disk.nextId \in Nat
    BY DEF TypeOK, Database
  <2> QED
    BY <1>1, <1>5, <2>1 DEF CounterAhead, SeqsDistinct, FileFollows
<1>8. IdsDistinct' /\ FileFollows' /\ OnlyAckedLeave' /\ DeletesAcked'
  BY <1>1 DEF IdsDistinct, FileFollows, OnlyAckedLeave, DeletesAcked
<1>9. CallsKept' /\ EnqueuedIsKept'
  BY <1>1, <1>5 DEF CallsKept, EnqueuedIsKept, RowOf
<1> QED
  BY <1>6, <1>7, <1>8, <1>9

LEMMA NextIInv == IInv /\ [Next]_vars => IInv'
<1> SUFFICES ASSUME IInv, [Next]_vars PROVE IInv'
  OBVIOUS
<1>1. ASSUME Running PROVE IInv'
  <2>1. CASE Worker
    BY <2>1, UpdateCounterKeepsIInv, FetchSeqKeepsIInv, InsertRowKeepsIInv,
       CommitKeepsIInv, DrainKeepsIInv DEF Worker
  <2> QED
    BY <1>1, <2>1, LoopKeepsIInv DEF Running
<1>2. CASE UNCHANGED vars
  BY <1>2 DEF vars, dbVars, loopVars, history, IInv, TypeOK, CounterAhead, SeqsDistinct,
     IdsDistinct, FileFollows, CallsKept, DeletesAcked, EnqueuedIsKept, OnlyAckedLeave,
     RowOf, Holding
<1> QED
  BY <1>1, <1>2, CrashKeepsIInv DEF Next

THEOREM IInvariant == Spec => []IInv
  BY InitIInv, NextIInv, PTL DEF Spec
-----------------------------------------------------------------------------
\* Every variable of the buffer keeps its type, in every run.
THEOREM TypeCorrect == Spec => []TypeOK
  BY IInvariant, PTL DEF IInv

\* No seq is ever committed for two rows, however the calls interleave and
\* however often the process dies: _next_seq() reads what it incremented.
THEOREM SeqsAreNeverReused == Spec => []SeqNeverReused
<1>1. IInv => SeqNeverReused
  BY DEF IInv, SeqsDistinct, SeqNeverReused
<1> QED
  BY <1>1, IInvariant, PTL

\* What enqueue() has returned a seq for stays in the file until it is acked.
THEOREM ReturnedRowsAreKept == Spec => []EnqueuedIsKept
  BY IInvariant, PTL DEF IInv

\* A committed row leaves the file only when ack() has named it.
THEOREM OnlyAckRemoves == Spec => []OnlyAckedLeave
  BY IInvariant, PTL DEF IInv

\* The buffer implements DurableQueue: its commits are Write steps, ack() is a
\* Release, and everything else, a crash included, is invisible in the file.
THEOREM ImplementsQueue == Spec => QueueSpec
<1>1. Init => Queue!QInit
  BY DEF Init, Queue!QInit
<1>2. IInv /\ [Next]_vars => [Queue!Write \/ Queue!Release]_(Queue!qvars)
  <2> SUFFICES ASSUME IInv, [Next]_vars
               PROVE  [Queue!Write \/ Queue!Release]_(Queue!qvars)
    OBVIOUS
  <2> USE DEF history, dbVars, IInv
  <2>1. ASSUME NEW c \in Coroutines, CommitSucceeds(c) PROVE Queue!Write
    <3>1. /\ disk' = conn /\ ever' = ever \cup conn.rows /\ acked' = acked
      BY <2>1 DEF CommitSucceeds
    <3>2. conn.value >= disk.value
      BY DEF CounterAhead, TypeOK, Database
    <3>3. \A r \in ever' : r.seq <= conn.value
      <4>1. /\ \A r \in ever : r.seq \in Nat
            /\ disk.value \in Nat /\ conn.value \in Nat
        BY DEF TypeOK, Database, Row
      <4> QED
        BY <3>1, <4>1 DEF CounterAhead
    <3>4. Queue!Fresh(ever' \ ever)
      BY <3>1 DEF SeqsDistinct, Queue!Fresh
    <3>5. /\ conn.rows \subseteq disk.rows \cup (ever' \ ever)
          /\ (disk.rows \cup (ever' \ ever)) \ conn.rows \subseteq acked
      BY <3>1 DEF FileFollows
    <3> QED
      BY <3>1, <3>2, <3>3, <3>4, <3>5 DEF Queue!Write
  <2>2. ASSUME NEW done \in SUBSET batch, AckBatch(done) PROVE Queue!Release
    BY <2>2 DEF AckBatch, Queue!Release
  <2>3. ASSUME \/ \E t \in Tasks : StartEnqueue(t) \/ UpdateCounter(t) \/ FetchSeq(t)
                                   \/ InsertRow(t)
               \/ \E c \in Coroutines : CommitRaises(c)
               \/ StartDrain \/ Resume \/ SelectBatch \/ FetchBatch \/ DeleteAcked
               \/ Crash \/ UNCHANGED vars
        PROVE  UNCHANGED Queue!qvars
    <3>1. disk' = disk /\ ever' = ever /\ acked' = acked
      BY <2>3 DEF StartEnqueue, UpdateCounter, FetchSeq, InsertRow, CommitRaises, StartDrain,
         Resume, SelectBatch, FetchBatch, DeleteAcked, Crash, vars
    <3> QED
      BY <3>1 DEF Queue!qvars
  <2> QED
    BY <2>1, <2>2, <2>3 DEF Next, Running, Worker
<1> QED
  BY <1>1, <1>2, IInvariant, PTL DEF Spec, QueueSpec, Queue!QSpec
-----------------------------------------------------------------------------
(* The order of arrival.  A call goes round: its coroutine waits among the *)
(* jobs, then among the resumed, then among the jobs again.  So jobs and   *)
(* resumed together are one line, in which a job that runs moves its       *)
(* coroutine from the front to the back.                                   *)

\* The jobs of a call that have run, counting one that died as through.
Rank(t) ==
  IF pc[t] \in {"new", "update"} THEN 0
  ELSE IF pc[t] = "fetch" THEN 1
  ELSE IF pc[t] = "insert" THEN 2
  ELSE IF pc[t] = "commit" THEN 3
  ELSE 4

Precedes(t, u) ==
  \E i, j \in 1..Len(started) : i < j /\ started[i] = t /\ started[j] = u

\* Of two calls in the line the earlier is never behind in its jobs, and is ahead
\* of the later by one at least when the later has its turn first.
InTurn(t, u) ==
  t \in Tasks /\ u \in Tasks =>
    \/ Precedes(t, u) /\ Rank(t) >= Rank(u)
    \/ Precedes(u, t) /\ Rank(u) > Rank(t)

Queued(t) ==
  \/ \E p \in 1..Len(jobs) : jobs[p] = t
  \/ \E p \in 1..Len(resumed) : resumed[p] = t

\* A call is made once.
CallsStart ==
  /\ \A t \in Tasks : pc[t] \in {"new", "update", "fetch", "insert", "commit"} \cup EndPCs
  /\ \A t \in Tasks : pc[t] # "new" <=> \E i \in 1..Len(started) : started[i] = t
  /\ \A i, j \in 1..Len(started) : started[i] = started[j] => i = j

LineTurns ==
  /\ \A p, q \in 1..Len(jobs) : p < q => InTurn(jobs[p], jobs[q])
  /\ \A p, q \in 1..Len(resumed) : p < q => InTurn(resumed[p], resumed[q])
  /\ \A p \in 1..Len(jobs), q \in 1..Len(resumed) : InTurn(jobs[p], resumed[q])
  /\ \A t \in Tasks : pc[t] \in JobPCs => Queued(t)
  /\ \A p \in 1..Len(jobs) : jobs[p] \in Tasks => pc[jobs[p]] # "new"
  /\ \A p \in 1..Len(resumed) : resumed[p] \in Tasks => Rank(resumed[p]) >= 1

NoneOvertakes == \A t, u \in Tasks : Precedes(t, u) => Rank(t) >= Rank(u)

TurnInv == CallsStart /\ LineTurns /\ NoneOvertakes

\* A call that has a seq, and a row or the prospect of one.
Numbered(t) == Holding(t) \/ \E r \in conn.rows \cup ever : r.task = t

NumberInv ==
  /\ \A r \in conn.rows \cup ever : r.seq = seqOf[r.task] /\ Rank(r.task) >= 3
  /\ \A t, u \in Tasks : Precedes(t, u) /\ Numbered(t) /\ Numbered(u) => seqOf[t] < seqOf[u]

ArrivalInv == IInv /\ TurnInv /\ NumberInv

LEMMA RankTyped == \A t : Rank(t) \in 0..4
  BY DEF Rank

LEMMA PrecedesIsStrict ==
  ASSUME TypeOK, CallsStart
  PROVE  \A t, u : Precedes(t, u) => ~Precedes(u, t)
<1>1. Len(started) \in Nat
  BY DEF TypeOK
<1> QED
  BY <1>1 DEF CallsStart, Precedes

\* The front of the line is served.
LEMMA JobTurns ==
  ASSUME TypeOK, TurnInv, NEW c \in Coroutines, NEW at, NEW to \in PCs, RunJob(c, at, to),
         started' = started,
         c \in Tasks => /\ Rank(c)' = Rank(c) + 1
                        /\ to \in {"fetch", "insert", "commit"} \cup EndPCs
  PROVE  TurnInv'
<1> USE DEF TurnInv
<1>1. /\ Len(jobs) \in Nat \ {0} /\ jobs[1] = c /\ jobs \in Seq(Coroutines)
      /\ Len(jobs') = Len(jobs) - 1
      /\ \A p \in 1..Len(jobs') : jobs'[p] = jobs[p + 1] /\ p + 1 \in 1..Len(jobs)
      /\ \A p \in 2..Len(jobs) : p - 1 \in 1..Len(jobs') /\ jobs'[p - 1] = jobs[p]
      /\ 1 \in 1..Len(jobs)
  BY DEF RunJob, TypeOK
<1>2. /\ Len(resumed) \in Nat /\ Len(resumed') = Len(resumed) + 1
      /\ resumed'[Len(resumed) + 1] = c
      /\ \A p \in 1..Len(resumed) : resumed'[p] = resumed[p] /\ p \in 1..Len(resumed')
  BY DEF RunJob, TypeOK
<1>3. pc'[c] = to /\ pc[c] = at /\ \A t \in Coroutines : t # c => pc'[t] = pc[t]
  BY DEF RunJob, TypeOK
<1>4. ASSUME NEW t \in Tasks, t # c PROVE pc'[t] = pc[t] /\ Rank(t)' = Rank(t)
  BY <1>3, <1>4 DEF Rank, Coroutines
<1>5. \A t, u : Precedes(t, u)' <=> Precedes(t, u)
  BY DEF Precedes
<1>6. \A t : Rank(t) \in 0..4
  BY RankTyped
<1>7. \A t, u : Precedes(t, u) => ~Precedes(u, t)
  BY PrecedesIsStrict
\* Nobody is in the line twice.
<1>8. ASSUME c \in Tasks
      PROVE  /\ \A p \in 2..Len(jobs) : jobs[p] # c
             /\ \A p \in 1..Len(resumed) : resumed[p] # c
  <2>1. ~InTurn(c, c)
    BY <1>6, <1>7, <1>8 DEF InTurn
  <2>2. \A p \in 2..Len(jobs) : InTurn(jobs[1], jobs[p])
    BY <1>1 DEF LineTurns
  <2>3. \A p \in 1..Len(resumed) : InTurn(jobs[1], resumed[p])
    BY <1>1 DEF LineTurns
  <2> QED
    BY <1>1, <2>1, <2>2, <2>3
\* Two that are not served stay as they were; the served one passes behind all.
<1>9. ASSUME NEW t, NEW u, t # c \/ t \notin Tasks, u # c \/ u \notin Tasks, InTurn(t, u)
      PROVE  InTurn(t, u)'
  BY <1>4, <1>5, <1>9 DEF InTurn
<1>10. ASSUME NEW t, t # c \/ t \notin Tasks, InTurn(c, t)
       PROVE  InTurn(t, c)'
  BY <1>4, <1>5, <1>6, <1>10 DEF InTurn
<1>11. CallsStart'
  <2>1. c \in Tasks => pc[c] # "new"
    BY <1>1 DEF LineTurns
  <2>2. c \in Tasks => to # "new"
    BY DEF EndPCs
  <2>3. \A t \in Tasks : pc'[t] # "new" <=> pc[t] # "new"
    BY <1>3, <1>4, <2>1, <2>2
  <2>4. \A t \in Tasks : pc'[t] \in {"new", "update", "fetch", "insert", "commit"} \cup EndPCs
    BY <1>3, <1>4 DEF CallsStart
  <2> QED
    BY <2>3, <2>4 DEF CallsStart
<1>12. NoneOvertakes'
  <2> SUFFICES ASSUME NEW t \in Tasks, NEW u \in Tasks, Precedes(t, u)
               PROVE  Rank(t)' >= Rank(u)'
    BY <1>5 DEF NoneOvertakes
  <2>1. Rank(t) >= Rank(u) /\ t # u
    BY <1>7 DEF NoneOvertakes
  <2>2. CASE u # c
    BY <1>4, <1>6, <2>1, <2>2
  <2>3. CASE u = c
    <3>1. Rank(t)' = Rank(t) /\ Rank(c)' = Rank(c) + 1
      BY <1>4, <2>1, <2>3
    <3>2. CASE Queued(t)
      <4>1. InTurn(c, t)
        BY <1>1, <2>1, <2>3, <3>2 DEF Queued, LineTurns
      <4> QED
        BY <1>6, <1>7, <2>3, <3>1, <4>1 DEF InTurn
    <3>3. CASE ~Queued(t)
      <4>1. pc[t] \in EndPCs
        <5>1. pc[t] # "new"
          BY DEF CallsStart, Precedes
        <5> QED
          BY <3>3, <5>1 DEF CallsStart, LineTurns, JobPCs
      <4>2. Rank(t) = 4
        BY <4>1 DEF Rank, EndPCs
      <4>3. Rank(c)' \in 0..4
        BY RankTyped DEF Rank
      <4> QED
        BY <2>3, <3>1, <4>2, <4>3
    <3> QED
      BY <3>2, <3>3
  <2> QED
    BY <2>2, <2>3
<1>13. LineTurns'
  <2>1. ASSUME NEW p \in 1..Len(jobs'), NEW q \in 1..Len(jobs'), p < q
        PROVE  InTurn(jobs[p], jobs[q])'
    <3>1. PICK t, u : t = jobs[p + 1] /\ u = jobs[q + 1]
      OBVIOUS
    <3>2. InTurn(t, u) /\ jobs'[p] = t /\ jobs'[q] = u
      BY <1>1, <2>1, <3>1 DEF LineTurns
    <3>3. (t # c \/ t \notin Tasks) /\ (u # c \/ u \notin Tasks)
      BY <1>1, <1>8, <3>1
    <3>4. InTurn(t, u)'
      BY <1>9, <3>2, <3>3
    <3> QED
      BY <3>2, <3>4 DEF InTurn, Precedes, Rank
  <2>2. ASSUME NEW p \in 1..Len(resumed'), NEW q \in 1..Len(resumed'), p < q
        PROVE  InTurn(resumed[p], resumed[q])'
    <3>1. PICK t, u : t = resumed[p] /\ u = resumed[q]
      OBVIOUS
    <3>2. p \in 1..Len(resumed) /\ resumed'[p] = t /\ (t # c \/ t \notin Tasks)
      BY <1>2, <1>8, <2>2, <3>1
    <3>3. CASE q = Len(resumed')
      <4>0. InTurn(c, t)
        BY <1>1, <3>1, <3>2 DEF LineTurns
      <4>1. InTurn(c, t) /\ resumed'[q] = c
        BY <1>2, <3>3, <4>0
      <4>2. InTurn(t, c)'
        BY <1>10, <3>2, <4>1
      <4> QED
        BY <3>2, <4>1, <4>2 DEF InTurn, Precedes, Rank
    <3>4. CASE q # Len(resumed')
      <4>1. q \in 1..Len(resumed) /\ resumed'[q] = u /\ (u # c \/ u \notin Tasks)
        BY <1>2, <1>8, <3>1, <3>4
      <4>2. InTurn(t, u)'
        BY <1>9, <2>2, <3>1, <3>2, <4>1 DEF LineTurns
      <4> QED
        BY <3>2, <4>1, <4>2 DEF InTurn, Precedes, Rank
    <3> QED
      BY <3>3, <3>4
  <2>3. ASSUME NEW p \in 1..Len(jobs'), NEW q \in 1..Len(resumed')
        PROVE  InTurn(jobs[p], resumed[q])'
    <3>1. PICK t, u : t = jobs[p + 1] /\ u = resumed[q]
      OBVIOUS
    <3>2. p + 1 \in 2..Len(jobs) /\ jobs'[p] = t /\ (t # c \/ t \notin Tasks)
      BY <1>1, <1>8, <3>1
    <3>3. CASE q = Len(resumed')
      <4>0. InTurn(c, t)
        BY <1>1, <3>1, <3>2 DEF LineTurns
      <4>1. InTurn(c, t) /\ resumed'[q] = c
        BY <1>2, <3>3, <4>0
      <4>2. InTurn(t, c)'
        BY <1>10, <3>2, <4>1
      <4> QED
        BY <3>2, <4>1, <4>2 DEF InTurn, Precedes, Rank
    <3>4. CASE q # Len(resumed')
      <4>1. q \in 1..Len(resumed) /\ resumed'[q] = u /\ (u # c \/ u \notin Tasks)
        BY <1>2, <1>8, <3>1, <3>4
      <4>2. InTurn(t, u)'
        BY <1>1, <1>9, <3>1, <3>2, <4>1 DEF LineTurns
      <4> QED
        BY <3>2, <4>1, <4>2 DEF InTurn, Precedes, Rank
    <3> QED
      BY <3>3, <3>4
  <2>4. ASSUME NEW t \in Tasks, pc'[t] \in JobPCs PROVE Queued(t)'
    <3>1. CASE t = c
      BY <1>2, <3>1 DEF Queued
    <3>2. CASE t # c
      <4>1. Queued(t)
        BY <1>4, <2>4, <3>2 DEF LineTurns
      <4>2. CASE \E p \in 1..Len(jobs) : jobs[p] = t
        <5>1. PICK p \in 2..Len(jobs) : jobs[p] = t
          BY <1>1, <3>2, <4>2
        <5> QED
          BY <1>1, <5>1 DEF Queued
      <4>3. CASE \E p \in 1..Len(resumed) : resumed[p] = t
        BY <1>2, <4>3 DEF Queued
      <4> QED
        BY <4>1, <4>2, <4>3 DEF Queued
    <3> QED
      BY <3>1, <3>2
  <2>5. ASSUME NEW p \in 1..Len(jobs'), jobs'[p] \in Tasks PROVE pc'[jobs'[p]] # "new"
    BY <1>1, <1>4, <1>8, <2>5 DEF LineTurns
  <2>6. ASSUME NEW p \in 1..Len(resumed'), resumed'[p] \in Tasks PROVE Rank(resumed[p])' >= 1
    <3>1. PICK t : t = resumed'[p]
      OBVIOUS
    <3>2. Rank(t)' >= 1
      <4>1. CASE t = c
        BY <1>6, <2>6, <3>1, <4>1
      <4>2. CASE t # c
        BY <1>2, <1>4, <2>6, <3>1, <4>2 DEF LineTurns
      <4> QED
        BY <4>1, <4>2
    <3> QED
      BY <3>1, <3>2 DEF Rank
  <2> QED
    BY <2>1, <2>2, <2>3, <2>4, <2>5, <2>6 DEF LineTurns
<1> QED
  BY <1>11, <1>12, <1>13

\* A new call goes to the end of the jobs, behind all calls before it and ahead
\* of no one whose first job is not done.
LEMMA StartTurns ==
  ASSUME TypeOK, TurnInv, NEW t \in Tasks, StartEnqueue(t)
  PROVE  /\ TurnInv'
         /\ \A u, v : Precedes(u, v)' => Precedes(u, v) \/ v = t
<1> USE DEF TurnInv
<1>1. /\ Len(jobs) \in Nat /\ Len(jobs') = Len(jobs) + 1 /\ jobs'[Len(jobs) + 1] = t
      /\ \A p \in 1..Len(jobs) : jobs'[p] = jobs[p]
      /\ resumed' = resumed /\ Len(resumed) \in Nat
  BY DEF StartEnqueue, Post, TypeOK, loopVars
<1>2. /\ Len(started) \in Nat /\ Len(started') = Len(started) + 1
      /\ started'[Len(started) + 1] = t
      /\ \A i \in 1..Len(started) : started'[i] = started[i]
  BY DEF StartEnqueue, TypeOK
<1>3. /\ pc[t] = "new" /\ pc'[t] = "update" /\ t \in Coroutines
      /\ \A u \in Tasks : u # t => pc'[u] = pc[u]
  BY DEF StartEnqueue, TypeOK, Coroutines
<1>4. \A u \in Tasks : Rank(u)' = Rank(u)
  BY <1>3 DEF Rank
<1>5. \A i \in 1..Len(started) : started[i] # t
  BY <1>3 DEF CallsStart
<1>6. ASSUME NEW u, NEW v
      PROVE  /\ Precedes(u, v) => Precedes(u, v)'
             /\ Precedes(u, v)' => Precedes(u, v) \/ v = t
    <2>1. ASSUME Precedes(u, v) PROVE Precedes(u, v)'
      <3>1. PICK i, j \in 1..Len(started) : i < j /\ started[i] = u /\ started[j] = v
        BY <2>1 DEF Precedes
      <3>2. i \in 1..Len(started') /\ j \in 1..Len(started')
        BY <1>2
      <3> QED
        BY <1>2, <3>1, <3>2 DEF Precedes
    <2>2. ASSUME Precedes(u, v)', v # t PROVE Precedes(u, v)
      <3>1. PICK i, j \in 1..Len(started') : i < j /\ started'[i] = u /\ started'[j] = v
        BY <2>2 DEF Precedes
      <3>2. i \in 1..Len(started) /\ j \in 1..Len(started)
        BY <1>2, <2>2, <3>1
      <3> QED
        BY <1>2, <3>1, <3>2 DEF Precedes
    <2> QED
      BY <2>1, <2>2
<1>7. \A u \in Tasks : u # t /\ pc[u] # "new" => Precedes(u, t)'
  <2> SUFFICES ASSUME NEW u \in Tasks, u # t, pc[u] # "new" PROVE Precedes(u, t)'
    OBVIOUS
  <2>1. PICK i \in 1..Len(started) : started[i] = u
    BY DEF CallsStart
  <2>2. i \in 1..Len(started') /\ Len(started') \in 1..Len(started') /\ i < Len(started')
    BY <1>2
  <2> QED
    BY <1>2, <2>1, <2>2 DEF Precedes
<1>8. CallsStart'
  <2>1. \A u \in Tasks : pc'[u] # "new" <=> \E i \in 1..Len(started') : started'[i] = u
    <3> TAKE u \in Tasks
    <3>1. CASE u = t
      <4>1. Len(started') \in 1..Len(started')
        BY <1>2
      <4> QED
        BY <1>2, <1>3, <3>1, <4>1
    <3>2. CASE u # t
      <4>1. pc'[u] # "new" <=> \E i \in 1..Len(started) : started[i] = u
        BY <1>3, <3>2 DEF CallsStart
      <4>2. \A i \in 1..Len(started) : i \in 1..Len(started')
        BY <1>2
      <4>3. \A i \in 1..Len(started') : started'[i] = u => i \in 1..Len(started)
        BY <1>2, <3>2
      <4> QED
        BY <1>2, <4>1, <4>2, <4>3
    <3> QED
      BY <3>1, <3>2
  <2>2. \A i, j \in 1..Len(started') : started'[i] = started'[j] => i = j
    BY <1>2, <1>5 DEF CallsStart
  <2> QED
    BY <1>3, <2>1, <2>2 DEF CallsStart
<1>9. NoneOvertakes'
  <2> SUFFICES ASSUME NEW u \in Tasks, NEW v \in Tasks, Precedes(u, v)'
               PROVE  Rank(u)' >= Rank(v)'
    BY DEF NoneOvertakes
  <2>1. CASE v = t
    BY <1>3, <2>1, RankTyped DEF Rank
  <2>2. CASE v # t
    BY <1>4, <1>6, <2>2 DEF NoneOvertakes
  <2> QED
    BY <2>1, <2>2
<1>10. ASSUME NEW u, NEW v, InTurn(u, v) PROVE InTurn(u, v)'
  BY <1>4, <1>6, <1>10 DEF InTurn
<1>11. LineTurns'
  <2>1. \A p \in 1..Len(jobs) : InTurn(jobs[p], t)'
    <3> TAKE p \in 1..Len(jobs)
    <3>1. PICK u : u = jobs[p]
      OBVIOUS
    <3>2. u \in Tasks => u # t /\ pc[u] # "new"
      BY <1>3, <3>1 DEF LineTurns
    <3>3. Rank(t)' = 0 /\ Rank(u)' \in 0..4
      BY <1>3, RankTyped DEF Rank
    <3>4. InTurn(u, t)'
      BY <1>7, <3>2, <3>3 DEF InTurn
    <3> QED
      BY <1>1, <3>1, <3>4 DEF InTurn, Precedes, Rank
  <2>2. \A q \in 1..Len(resumed) : InTurn(t, resumed[q])'
    <3> TAKE q \in 1..Len(resumed)
    <3>1. PICK u : u = resumed[q]
      OBVIOUS
    <3>2. u \in Tasks => Rank(u) >= 1 /\ Rank(u)' = Rank(u)
      BY <1>4, <3>1 DEF LineTurns
    <3>3. Rank(t)' = 0 /\ Rank(t) = 0
      BY <1>3 DEF Rank
    <3>4. u \in Tasks => u # t /\ pc[u] # "new"
      BY <3>2, <3>3 DEF Rank
    <3>5. InTurn(t, u)'
      BY <1>7, <3>2, <3>3, <3>4, RankTyped DEF InTurn
    <3> QED
      BY <1>1, <3>1, <3>5 DEF InTurn, Precedes, Rank
  <2>3. ASSUME NEW p \in 1..Len(jobs'), NEW q \in 1..Len(jobs'), p < q
        PROVE  InTurn(jobs[p], jobs[q])'
    <3>1. p \in 1..Len(jobs) /\ jobs'[p] = jobs[p]
      BY <1>1, <2>3
    <3>2. CASE q = Len(jobs')
      BY <1>1, <2>1, <3>1, <3>2 DEF InTurn, Precedes, Rank
    <3>3. CASE q # Len(jobs')
      <4>1. PICK u, v : u = jobs[p] /\ v = jobs[q]
        OBVIOUS
      <4>2. q \in 1..Len(jobs) /\ jobs'[q] = jobs[q]
        BY <1>1, <3>3
      <4>3. InTurn(u, v)'
        BY <1>10, <2>3, <3>1, <4>1, <4>2 DEF LineTurns
      <4> QED
        BY <3>1, <4>1, <4>2, <4>3 DEF InTurn, Precedes, Rank
    <3> QED
      BY <3>2, <3>3
  <2>4. ASSUME NEW p \in 1..Len(resumed'), NEW q \in 1..Len(resumed'), p < q
        PROVE  InTurn(resumed[p], resumed[q])'
    <3>1. PICK u, v : u = resumed[p] /\ v = resumed[q]
      OBVIOUS
    <3>2. InTurn(u, v)'
      BY <1>1, <1>10, <2>4, <3>1 DEF LineTurns
    <3> QED
      BY <1>1, <3>1, <3>2 DEF InTurn, Precedes, Rank
  <2>5. ASSUME NEW p \in 1..Len(jobs'), NEW q \in 1..Len(resumed')
        PROVE  InTurn(jobs[p], resumed[q])'
    <3>1. CASE p = Len(jobs')
      BY <1>1, <2>2, <3>1 DEF InTurn, Precedes, Rank
    <3>2. CASE p # Len(jobs')
      <4>1. PICK u, v : u = jobs[p] /\ v = resumed[q]
        OBVIOUS
      <4>2. p \in 1..Len(jobs) /\ jobs'[p] = jobs[p]
        BY <1>1, <3>2
      <4>3. InTurn(u, v)'
        BY <1>1, <1>10, <4>1, <4>2 DEF LineTurns
      <4> QED
        BY <1>1, <4>1, <4>2, <4>3 DEF InTurn, Precedes, Rank
    <3> QED
      BY <3>1, <3>2
  <2>6. ASSUME NEW u \in Tasks, pc'[u] \in JobPCs PROVE Queued(u)'
    <3>1. CASE u = t
      <4>1. Len(jobs') \in 1..Len(jobs') /\ jobs'[Len(jobs')] = t
        BY <1>1
      <4> QED
        BY <3>1, <4>1 DEF Queued
    <3>2. CASE u # t
      <4>1. Queued(u)
        BY <1>3, <2>6, <3>2 DEF LineTurns
      <4>2. \A p \in 1..Len(jobs) : p \in 1..Len(jobs')
        BY <1>1
      <4> QED
        BY <1>1, <4>1, <4>2 DEF Queued
    <3> QED
      BY <3>1, <3>2
  <2>7. ASSUME NEW p \in 1..Len(jobs'), jobs'[p] \in Tasks PROVE pc'[jobs'[p]] # "new"
    BY <1>1, <1>3, <2>7 DEF LineTurns
  <2>8. ASSUME NEW p \in 1..Len(resumed'), resumed'[p] \in Tasks PROVE Rank(resumed[p])' >= 1
    <3>1. PICK u : u = resumed[p]
      OBVIOUS
    <3>2. Rank(u)' >= 1
      BY <1>1, <1>4, <2>8, <3>1 DEF LineTurns
    <3> QED
      BY <1>1, <3>1, <3>2 DEF Rank
  <2> QED
    BY <2>3, <2>4, <2>5, <2>6, <2>7, <2>8 DEF LineTurns
<1> QED
  BY <1>6, <1>8, <1>9, <1>11

\* The event loop takes the first of the resumed to the end of the jobs, so the
\* line stays as it is, or lets it go.
LEMMA ResumeTurns ==
  ASSUME TypeOK, TurnInv, started' = started, \A t \in Tasks : pc'[t] = pc[t],
         \/ resumed' = resumed /\ jobs' \in {jobs, Post(Drainer)}
         \/ /\ resumed # <<>> /\ resumed' = Tail(resumed)
            /\ IF jobs' = jobs
               THEN NextResumed \in Tasks => pc[NextResumed] \notin JobPCs
               ELSE /\ jobs' = Post(NextResumed)
                    /\ NextResumed \in Tasks => pc[NextResumed] \in JobPCs
  PROVE  TurnInv'
<1> USE DEF TurnInv
<1>1. \A t \in Tasks : Rank(t)' = Rank(t)
  BY DEF Rank
<1>2. \A t, u : Precedes(t, u)' <=> Precedes(t, u)
  BY DEF Precedes
<1>3. CallsStart' /\ NoneOvertakes'
  BY <1>1, <1>2 DEF CallsStart, NoneOvertakes
<1>4. ASSUME NEW t, NEW u, InTurn(t, u) PROVE InTurn(t, u)'
  BY <1>1, <1>2, <1>4 DEF InTurn
<1>5. Drainer \notin Tasks /\ Len(jobs) \in Nat /\ Len(resumed) \in Nat
  BY BufferAssumption DEF TypeOK
\* Where the places of the new line come from.
<1> DEFINE Moved(from) ==
             /\ Len(resumed') = Len(resumed) - from
             /\ \A q \in 1..Len(resumed') : /\ q + from \in 1..Len(resumed)
                                            /\ resumed'[q] = resumed[q + from]
             /\ \A q \in 1..Len(resumed) :
                  \/ q - from \in 1..Len(resumed') /\ resumed'[q - from] = resumed[q]
                  \/ from = 1 /\ q = 1
             /\ from = 1 => resumed # <<>> /\ resumed' = Tail(resumed)
<1>a. Moved(0) \/ Moved(1)
  <2>1. CASE resumed' = resumed
    <3>1. Moved(0)
      BY <1>5, <2>1
    <3> QED
      BY <3>1
  <2>2. CASE resumed # <<>> /\ resumed' = Tail(resumed)
    <3>1. Moved(1)
      BY <2>2 DEF TypeOK
    <3> QED
      BY <3>1
  <2> QED
    BY <2>1, <2>2
<1> HIDE DEF Moved
<1>b. PICK from \in {0, 1} : Moved(from)
  BY <1>a
<1>6. /\ from \in {0, 1}
      /\ Len(resumed') = Len(resumed) - from
      /\ \A q \in 1..Len(resumed') : /\ q + from \in 1..Len(resumed)
                                     /\ resumed'[q] = resumed[q + from]
      /\ \A q \in 1..Len(resumed) :
           \/ q - from \in 1..Len(resumed') /\ resumed'[q - from] = resumed[q]
           \/ from = 1 /\ q = 1
      /\ from = 1 => resumed # <<>> /\ resumed' = Tail(resumed)
  BY <1>b DEF Moved
<1>7. \A p \in 1..Len(jobs) : p \in 1..Len(jobs') /\ jobs'[p] = jobs[p]
  <2>1. CASE jobs' = jobs
    BY <2>1
  <2>2. CASE jobs' # jobs
    <3>1. PICK c : jobs' = Append(jobs, c)
      BY <2>2 DEF Post
    <3> QED
      BY <3>1 DEF TypeOK
  <2> QED
    BY <2>1, <2>2
<1>8. ASSUME NEW p \in 1..Len(jobs'), p \notin 1..Len(jobs)
      PROVE  /\ p = Len(jobs) + 1
             /\ jobs'[p] \in Tasks => /\ from = 1 /\ 1 \in 1..Len(resumed)
                                      /\ jobs'[p] = resumed[1] /\ pc[jobs'[p]] \in JobPCs
  <2>1. CASE resumed' = resumed /\ jobs' = Post(Drainer)
    BY <1>5, <1>8, <2>1 DEF Post, TypeOK
  <2>2. CASE resumed # <<>> /\ resumed' = Tail(resumed) /\ jobs' = Post(NextResumed)
    <3>1. p = Len(jobs) + 1 /\ jobs'[p] = NextResumed
      <4>1. jobs \in Seq(Coroutines)
        BY DEF TypeOK
      <4>2. jobs' = Append(jobs, NextResumed)
        BY <1>8, <2>2 DEF Post
      <4>3. Len(jobs') = Len(jobs) + 1 /\ jobs'[Len(jobs) + 1] = NextResumed
        BY <4>1, <4>2
      <4> QED
        BY <1>8, <4>1, <4>3
    <3>2. NextResumed = resumed[1] /\ 1 \in 1..Len(resumed) /\ Len(resumed') # Len(resumed)
      BY <2>2 DEF NextResumed, TypeOK
    <3>3. from = 1
      BY <1>6, <3>2
    <3>4. jobs' # jobs
      BY <1>8
    <3> QED
      BY <3>1, <3>2, <3>3, <3>4
  <2> QED
    BY <1>8, <2>1, <2>2
<1>9. LineTurns'
  <2>1. ASSUME NEW p \in 1..Len(jobs'), NEW q \in 1..Len(jobs'), p < q
        PROVE  InTurn(jobs[p], jobs[q])'
    <3>1. PICK t, u : t = jobs'[p] /\ u = jobs'[q]
      OBVIOUS
    <3>2. p \in 1..Len(jobs) /\ jobs[p] = t
      BY <1>5, <1>7, <1>8, <2>1, <3>1
    <3>3. CASE q \in 1..Len(jobs)
      <4>1. InTurn(t, u)
        BY <1>7, <2>1, <3>1, <3>2, <3>3 DEF LineTurns
      <4> QED
        BY <1>4, <3>1, <4>1 DEF InTurn, Precedes, Rank
    <3>4. CASE q \notin 1..Len(jobs)
      <4>1. InTurn(t, u)
        BY <1>8, <3>1, <3>2, <3>4 DEF LineTurns, InTurn
      <4> QED
        BY <1>4, <3>1, <4>1 DEF InTurn, Precedes, Rank
    <3> QED
      BY <3>3, <3>4
  <2>2. ASSUME NEW p \in 1..Len(resumed'), NEW q \in 1..Len(resumed'), p < q
        PROVE  InTurn(resumed[p], resumed[q])'
    <3>1. PICK t, u : t = resumed'[p] /\ u = resumed'[q]
      OBVIOUS
    <3>2. InTurn(t, u)
      <4>1. p + from < q + from
        BY <1>6, <2>2
      <4> QED
        BY <1>6, <3>1, <4>1 DEF LineTurns
    <3> QED
      BY <1>4, <3>1, <3>2 DEF InTurn, Precedes, Rank
  <2>3. ASSUME NEW p \in 1..Len(jobs'), NEW q \in 1..Len(resumed')
        PROVE  InTurn(jobs[p], resumed[q])'
    <3>1. PICK t, u : t = jobs'[p] /\ u = resumed'[q]
      OBVIOUS
    <3>2. q + from \in 1..Len(resumed) /\ u = resumed[q + from]
      BY <1>6, <3>1
    <3>3. CASE p \in 1..Len(jobs)
      <4>1. InTurn(t, u)
        BY <1>7, <3>1, <3>2, <3>3 DEF LineTurns
      <4> QED
        BY <1>4, <3>1, <4>1 DEF InTurn, Precedes, Rank
    <3>4. CASE p \notin 1..Len(jobs)
      <4>1. t \in Tasks => t = resumed[1] /\ 1 \in 1..Len(resumed) /\ from = 1 /\ 1 < q + from
        BY <1>8, <3>1, <3>4
      <4>2. InTurn(t, u)
        BY <3>2, <4>1 DEF LineTurns, InTurn
      <4> QED
        BY <1>4, <3>1, <4>2 DEF InTurn, Precedes, Rank
    <3> QED
      BY <3>3, <3>4
  <2>4. ASSUME NEW t \in Tasks, pc'[t] \in JobPCs PROVE Queued(t)'
    <3>1. Queued(t)
      BY <2>4 DEF LineTurns
    <3>2. CASE \E p \in 1..Len(jobs) : jobs[p] = t
      BY <1>7, <3>2 DEF Queued
    <3>3. CASE \E q \in 1..Len(resumed) : resumed[q] = t
      <4>1. PICK q \in 1..Len(resumed) : resumed[q] = t
        BY <3>3
      <4>2. CASE q - from \in 1..Len(resumed') /\ resumed'[q - from] = resumed[q]
        BY <4>1, <4>2 DEF Queued
      <4>3. CASE from = 1 /\ q = 1
        <5>1. resumed # <<>> /\ resumed' = Tail(resumed) /\ NextResumed = t
          BY <1>6, <4>1, <4>3 DEF NextResumed, TypeOK
        <5>2. resumed' # resumed
          BY <1>5, <1>6, <4>3
        <5>3. jobs' = Post(t)
          BY <2>4, <5>1, <5>2
        <5>4. Len(jobs') \in 1..Len(jobs') /\ jobs'[Len(jobs')] = t
          BY <5>3 DEF Post, TypeOK
        <5> QED
          BY <5>4 DEF Queued
      <4> QED
        BY <1>6, <4>2, <4>3
    <3> QED
      BY <3>1, <3>2, <3>3 DEF Queued
  <2>5. ASSUME NEW p \in 1..Len(jobs'), jobs'[p] \in Tasks PROVE pc'[jobs'[p]] # "new"
    BY <1>7, <1>8, <2>5 DEF LineTurns, JobPCs
  <2>6. ASSUME NEW q \in 1..Len(resumed'), resumed'[q] \in Tasks PROVE Rank(resumed[q])' >= 1
    <3>1. PICK t : t = resumed'[q]
      OBVIOUS
    <3>2. Rank(t)' >= 1
      BY <1>1, <1>6, <2>6, <3>1 DEF LineTurns
    <3> QED
      BY <3>1, <3>2 DEF Rank
  <2> QED
    BY <2>1, <2>2, <2>3, <2>4, <2>5, <2>6 DEF LineTurns
<1> QED
  BY <1>3, <1>9

\* A crash ends all calls that were under way, and with them the line.
LEMMA CrashTurns ==
  ASSUME TypeOK, TurnInv, Crash
  PROVE  TurnInv' /\ \A t \in Tasks : Rank(t)' >= Rank(t)
<1> USE DEF TurnInv
<1>1. \A t \in Tasks : t \in Coroutines /\ t # Drainer
  BY BufferAssumption DEF Coroutines
<1>2. \A t \in Tasks : pc'[t] = IF pc[t] \in JobPCs \cup {"raised"} THEN "lost" ELSE pc[t]
  BY <1>1 DEF Crash
<1>3. /\ started' = started /\ jobs' = <<>> /\ resumed' = <<>>
      /\ Len(jobs') = 0 /\ Len(resumed') = 0
  BY DEF Crash, history
<1>4. \A t \in Tasks : /\ pc'[t] \in {"new"} \cup EndPCs
                       /\ pc'[t] = "new" <=> pc[t] = "new"
  BY <1>2 DEF CallsStart, JobPCs, EndPCs
<1>5. \A t \in Tasks : pc[t] # "new" => Rank(t)' = 4
  BY <1>4 DEF Rank, EndPCs
<1>6. CallsStart'
  BY <1>3, <1>4 DEF CallsStart
<1>7. NoneOvertakes'
  <2> SUFFICES ASSUME NEW t \in Tasks, NEW u \in Tasks, Precedes(t, u)'
               PROVE  Rank(t)' >= Rank(u)'
    BY DEF NoneOvertakes
  <2>1. pc[t] # "new" /\ pc[u] # "new"
    BY <1>3 DEF Precedes, CallsStart
  <2> QED
    BY <1>5, <2>1
<1>8. LineTurns'
  BY <1>3, <1>4 DEF LineTurns, JobPCs, EndPCs
<1>9. ASSUME NEW t \in Tasks PROVE Rank(t)' >= Rank(t)
  <2>1. CASE pc[t] = "new"
    BY <1>4, <2>1 DEF Rank
  <2>2. CASE pc[t] # "new"
    BY <1>5, <2>2, RankTyped
  <2> QED
    BY <2>1, <2>2
<1> QED
  BY <1>6, <1>7, <1>8, <1>9

\* A step that gives out no seq and inserts no row.
LEMMA NumbersStay ==
  ASSUME TypeOK, NumberInv, seqOf' = seqOf,
         conn'.rows \cup ever' \subseteq conn.rows \cup ever,
         \A t \in Tasks : Rank(t)' >= Rank(t) /\ (Holding(t)' => Holding(t)),
         \A t, u \in Tasks : Precedes(t, u)' /\ Numbered(u)' => Precedes(t, u)
  PROVE  NumberInv'
<1>1. \A r \in conn.rows \cup ever : r.task \in Tasks
  BY DEF TypeOK, Database, Row
<1>2. \A r \in conn'.rows \cup ever' : r.seq = seqOf'[r.task] /\ Rank(r.task)' >= 3
  <2> TAKE r \in conn'.rows \cup ever'
  <2>1. PICK t \in Tasks : t = r.task /\ r.seq = seqOf[t] /\ Rank(t) >= 3
    BY <1>1 DEF NumberInv
  <2>2. Rank(t)' >= 3
    <3>1. Rank(t) \in 0..4 /\ Rank(t)' \in 0..4 /\ Rank(t)' >= Rank(t)
      BY RankTyped DEF Rank
    <3> QED
      BY <2>1, <3>1
  <2> QED
    BY <2>1, <2>2 DEF Rank
<1>3. \A t \in Tasks : Numbered(t)' => Numbered(t)
  BY DEF Numbered
<1> QED
  BY <1>2, <1>3 DEF NumberInv

\* The seq of a call is above those of all the earlier calls that can still have a
\* row, and no later call has one yet.
LEMMA UpdateKeepsArrival ==
  ASSUME ArrivalInv, NEW t \in Tasks, UpdateCounter(t)
  PROVE  TurnInv' /\ NumberInv'
<1> USE DEF ArrivalInv
<1>1. TypeOK /\ RunJob(t, "update", "fetch") /\ t \in Coroutines /\ started' = started
  BY DEF IInv, UpdateCounter, Coroutines, history
<1>2. /\ pc[t] = "update" /\ pc'[t] = "fetch"
      /\ \A u \in Tasks : u # t => pc'[u] = pc[u]
  BY <1>1, RunJobMoves DEF Coroutines, PCs, JobPCs
<1>3. Rank(t) = 0 /\ Rank(t)' = 1
  BY <1>2 DEF Rank
<1>4. TurnInv'
  BY <1>1, <1>3, JobTurns DEF PCs, JobPCs
<1>5. /\ seqOf'[t] = conn.value + 1 /\ \A u \in Tasks : u # t => seqOf'[u] = seqOf[u]
      /\ conn'.rows = conn.rows /\ ever' = ever
      /\ conn.value \in Nat /\ \A u \in Tasks : seqOf[u] \in Nat
  <2>1. conn \in [value : Nat, nextId : Nat, rows : SUBSET Row] /\ seqOf \in [Tasks -> Nat]
    BY <1>1 DEF TypeOK, Database
  <2>2. conn' = [conn EXCEPT !.value = conn.value + 1]
    BY DEF UpdateCounter
  <2>3. conn'.rows = conn.rows
    BY <2>1, <2>2
  <2> QED
    BY <2>1, <2>3 DEF UpdateCounter, history
<1>6. \A r \in conn.rows \cup ever : r.task \in Tasks /\ r.task # t
  BY <1>1, <1>3 DEF TypeOK, Database, Row, NumberInv
<1>7. \A u \in Tasks : u # t => /\ Rank(u)' = Rank(u) /\ (Holding(u)' <=> Holding(u))
                                /\ (Numbered(u)' <=> Numbered(u))
  BY <1>2, <1>5 DEF Rank, Holding, Numbered
<1>8. ASSUME NEW u \in Tasks, u # t, Numbered(u) PROVE seqOf[u] <= conn.value
  <2>1. CASE Holding(u)
    BY <2>1 DEF IInv, CounterAhead
  <2>2. CASE \E r \in conn.rows \cup ever : r.task = u
    <3>1. PICK r \in conn.rows \cup ever : r.task = u
      BY <2>2
    <3>2. /\ r.seq = seqOf[u] /\ r.seq \in Nat /\ disk.value \in Nat
          /\ (r.seq <= conn.value \/ r.seq <= disk.value) /\ disk.value <= conn.value
      BY <1>1, <3>1 DEF NumberInv, IInv, CounterAhead, TypeOK, Database, Row
    <3> QED
      BY <1>5, <3>2
  <2> QED
    BY <1>8, <2>1, <2>2 DEF Numbered
<1>9. \A u \in Tasks : Numbered(u) => Rank(u) >= 1
  BY RankTyped DEF Numbered, Holding, Rank, NumberInv
<1>10. \A u, v : Precedes(u, v)' <=> Precedes(u, v)
  BY <1>1 DEF Precedes
<1>11. ASSUME NEW u \in Tasks, NEW v \in Tasks, Precedes(u, v), Numbered(u)', Numbered(v)'
       PROVE  seqOf'[u] < seqOf'[v]
  <2>1. u # v
    BY <1>1, <1>11, PrecedesIsStrict DEF TurnInv
  <2>2. CASE u = t
    <3>1. Rank(v) >= 1 /\ Rank(u) >= Rank(v)
      BY <1>7, <1>9, <1>11, <2>1, <2>2 DEF TurnInv, NoneOvertakes
    <3> QED
      BY <1>3, <2>2, <3>1, RankTyped
  <2>3. CASE v = t
    BY <1>5, <1>7, <1>8, <1>11, <2>1, <2>3
  <2>4. CASE u # t /\ v # t
    BY <1>5, <1>7, <1>11, <2>4 DEF NumberInv
  <2> QED
    BY <2>2, <2>3, <2>4
<1>12. \A r \in conn'.rows \cup ever' : r.seq = seqOf'[r.task] /\ Rank(r.task)' >= 3
  <2> TAKE r \in conn'.rows \cup ever'
  <2>1. PICK u \in Tasks : u = r.task /\ u # t /\ r.seq = seqOf[u] /\ Rank(u) >= 3
    BY <1>5, <1>6 DEF NumberInv
  <2>2. Rank(u)' >= 3 /\ r.seq = seqOf'[u]
    BY <1>5, <1>7, <2>1
  <2> QED
    BY <2>1, <2>2 DEF Rank
<1>13. NumberInv'
  BY <1>10, <1>11, <1>12 DEF NumberInv
<1> QED
  BY <1>4, <1>13

LEMMA InsertKeepsArrival ==
  ASSUME ArrivalInv, NEW t \in Tasks, InsertRow(t)
  PROVE  TurnInv' /\ NumberInv'
<1> USE DEF ArrivalInv
<1>1. TypeOK /\ RunJob(t, "insert", "commit") /\ t \in Coroutines /\ started' = started
  BY DEF IInv, InsertRow, Coroutines, history
<1>2. /\ pc[t] = "insert" /\ pc'[t] = "commit"
      /\ \A u \in Tasks : u # t => pc'[u] = pc[u]
  BY <1>1, RunJobMoves DEF Coroutines, PCs, JobPCs
<1>3. Rank(t) = 2 /\ Rank(t)' = 3 /\ Holding(t)
  BY <1>2 DEF Rank, Holding
<1>4. TurnInv'
  BY <1>1, <1>3, JobTurns DEF PCs, JobPCs
<1> DEFINE new == [id |-> conn.nextId, task |-> t, seq |-> seqOf[t]]
<1>5. /\ conn'.rows = conn.rows \cup {new} /\ ever' = ever /\ seqOf' = seqOf
      /\ new.task = t /\ new.seq = seqOf[t]
  BY DEF InsertRow, history
<1> HIDE DEF new
<1>6. \A u \in Tasks : u # t => Rank(u)' = Rank(u) /\ (Holding(u)' <=> Holding(u))
  BY <1>2 DEF Rank, Holding
<1>7. \A r \in conn'.rows \cup ever' : r.seq = seqOf'[r.task] /\ Rank(r.task)' >= 3
  <2> TAKE r \in conn'.rows \cup ever'
  <2>1. CASE r = new
    BY <1>3, <1>5, <2>1 DEF Rank
  <2>2. CASE r # new
    <3>1. PICK u \in Tasks : u = r.task /\ r.seq = seqOf[u] /\ Rank(u) >= 3
      BY <1>1, <1>5, <2>2 DEF NumberInv, TypeOK, Database, Row
    <3>2. Rank(u)' >= 3
      BY <1>3, <1>6, <3>1
    <3> QED
      BY <1>5, <3>1, <3>2 DEF Rank
  <2> QED
    BY <2>1, <2>2
<1>8. \A u \in Tasks : Numbered(u)' => Numbered(u)
  BY <1>3, <1>5, <1>6 DEF Numbered
<1>9. \A u, v : Precedes(u, v)' <=> Precedes(u, v)
  BY <1>1 DEF Precedes
<1>10. NumberInv'
  BY <1>5, <1>7, <1>8, <1>9 DEF NumberInv
<1> QED
  BY <1>4, <1>10

\* The other jobs: fetch, commit (which ends a call or raises) and the drain's.
LEMMA JobKeepsArrival ==
  ASSUME ArrivalInv, NEW c \in Coroutines, NEW at, NEW to \in PCs, RunJob(c, at, to),
         \/ c = Drainer
         \/ <<at, to>> \in {<<"fetch", "insert">>, <<"commit", "done">>, <<"commit", "raised">>},
         started' = started, seqOf' = seqOf,
         conn'.rows \cup ever' \subseteq conn.rows \cup ever
  PROVE  TurnInv' /\ NumberInv'
<1> USE DEF ArrivalInv
<1>1. /\ TypeOK /\ pc[c] = at /\ pc'[c] = to
      /\ \A d \in Coroutines : d # c => pc'[d] = pc[d]
  BY RunJobMoves DEF IInv
<1>2. c \in Tasks => /\ Rank(c)' = Rank(c) + 1
                     /\ to \in {"fetch", "insert", "commit"} \cup EndPCs
                     /\ (Holding(c)' => Holding(c))
  BY <1>1, BufferAssumption DEF Rank, Holding, EndPCs
<1>3. TurnInv'
  BY <1>1, <1>2, JobTurns
<1>4. ASSUME NEW u \in Tasks PROVE Rank(u)' >= Rank(u) /\ (Holding(u)' => Holding(u))
  <2>1. CASE u = c
    BY <1>2, <2>1, RankTyped
  <2>2. CASE u # c
    <3>1. pc'[u] = pc[u]
      BY <1>1, <2>2 DEF Coroutines
    <3>2. Rank(u)' = Rank(u) /\ (Holding(u)' <=> Holding(u))
      BY <3>1 DEF Rank, Holding
    <3> QED
      BY <3>2, RankTyped
  <2> QED
    BY <2>1, <2>2
<1>5. \A u, v \in Tasks : Precedes(u, v)' => Precedes(u, v)
  BY DEF Precedes
<1> QED
  BY <1>1, <1>3, <1>4, <1>5, NumbersStay

LEMMA LoopKeepsArrival ==
  ASSUME ArrivalInv, \/ \E t \in Tasks : StartEnqueue(t)
                     \/ StartDrain
                     \/ Resume
                     \/ \E done \in SUBSET batch : AckBatch(done)
                     \/ UNCHANGED vars
  PROVE  TurnInv' /\ NumberInv'
<1> USE DEF ArrivalInv
<1>1. TypeOK /\ Drainer \notin Tasks /\ Drainer \in Coroutines
  BY BufferAssumption DEF IInv, Coroutines
<1>2. ASSUME NEW t \in Tasks, StartEnqueue(t) PROVE TurnInv' /\ NumberInv'
  <2>1. TurnInv' /\ \A u, v : Precedes(u, v)' => Precedes(u, v) \/ v = t
    BY <1>1, <1>2, StartTurns
  <2>2. /\ pc[t] = "new" /\ pc'[t] = "update"
        /\ \A u \in Tasks : u # t => pc'[u] = pc[u]
        /\ UNCHANGED <<conn, ever, seqOf>>
    BY <1>1, <1>2 DEF StartEnqueue, TypeOK, Coroutines, dbVars
  <2>3. \A u \in Tasks : Rank(u)' = Rank(u) /\ (Holding(u)' <=> Holding(u))
    BY <2>2 DEF Rank, Holding
  <2>4. Rank(t) = 0 /\ ~Holding(t)'
    BY <2>2 DEF Rank, Holding
  <2>5. ~Numbered(t)'
    BY <2>2, <2>4 DEF Numbered, NumberInv
  <2>6. \A u \in Tasks : Rank(u)' >= Rank(u)
    BY <2>3, RankTyped
  <2> QED
    BY <1>1, <2>1, <2>2, <2>3, <2>5, <2>6, NumbersStay
<1>3. ASSUME TurnInv', UNCHANGED <<conn, ever, seqOf, started>>, \A t \in Tasks : pc'[t] = pc[t]
      PROVE  TurnInv' /\ NumberInv'
  <2>1. \A t \in Tasks : Rank(t)' = Rank(t) /\ (Holding(t)' <=> Holding(t))
    BY <1>3 DEF Rank, Holding
  <2>2. \A t, u \in Tasks : Precedes(t, u)' => Precedes(t, u)
    BY <1>3 DEF Precedes
  <2>3. \A t \in Tasks : Rank(t)' >= Rank(t)
    BY <2>1, RankTyped
  <2> QED
    BY <1>1, <1>3, <2>1, <2>2, <2>3, NumbersStay
<1>4. CASE StartDrain
  <2>1. \A t \in Tasks : pc'[t] = pc[t]
    BY <1>1, <1>4 DEF StartDrain, TypeOK, Coroutines
  <2>2. TurnInv'
    BY <1>1, <1>4, <2>1, ResumeTurns DEF StartDrain, history
  <2> QED
    BY <1>3, <1>4, <2>1, <2>2 DEF StartDrain, history, dbVars
<1>5. CASE Resume
  <2>1. \A t \in Tasks : pc'[t] = pc[t]
    <3>1. CASE UNCHANGED pc
      BY <3>1
    <3>2. CASE \E to \in {"idle", "sending"} : pc' = [pc EXCEPT ![Drainer] = to]
      BY <1>1, <3>2 DEF TypeOK, Coroutines
    <3> QED
      BY <1>5, <3>1, <3>2 DEF Resume
  <2>2. /\ resumed # <<>> /\ resumed' = Tail(resumed) /\ started' = started
        /\ Len(jobs) \in Nat
    BY <1>1, <1>5 DEF Resume, TypeOK
  <2>3. Post(NextResumed) # jobs
    <3>1. Len(Post(NextResumed)) = Len(jobs) + 1
      BY <1>1 DEF Post, TypeOK
    <3> QED
      BY <2>2, <3>1
  <2>4. \/ jobs' = Post(NextResumed) /\ pc[NextResumed] \in JobPCs
        \/ jobs' = jobs /\ (NextResumed \in Tasks => pc[NextResumed] \notin JobPCs)
    BY <1>1, <1>5 DEF Resume, EndPCs, JobPCs
  <2>5. TurnInv'
    BY <1>1, <2>1, <2>2, <2>3, <2>4, ResumeTurns
  <2> QED
    BY <1>3, <1>5, <2>1, <2>5 DEF Resume, dbVars
<1>6. ASSUME NEW done \in SUBSET batch, AckBatch(done) PROVE TurnInv' /\ NumberInv'
  <2>1. /\ \A t \in Tasks : pc'[t] = pc[t]
        /\ jobs' \in {jobs, Post(Drainer)}
        /\ UNCHANGED <<conn, ever, seqOf, started, resumed>>
    BY <1>1, <1>6 DEF AckBatch, TypeOK, Coroutines, dbVars
  <2>2. TurnInv'
    BY <1>1, <2>1, ResumeTurns
  <2> QED
    BY <1>3, <2>1, <2>2
<1>7. CASE UNCHANGED vars
  <2>1. /\ \A t \in Tasks : pc'[t] = pc[t]
        /\ jobs' \in {jobs, Post(Drainer)}
        /\ UNCHANGED <<conn, ever, seqOf, started, resumed>>
    BY <1>7 DEF vars, dbVars, loopVars, history
  <2>2. TurnInv'
    BY <1>1, <2>1, ResumeTurns
  <2> QED
    BY <1>3, <2>1, <2>2
<1> QED
  BY <1>2, <1>4, <1>5, <1>6, <1>7

LEMMA NextArrivalInv == ArrivalInv /\ [Next]_vars => ArrivalInv'
<1> SUFFICES ASSUME ArrivalInv, [Next]_vars PROVE TurnInv' /\ NumberInv'
  BY NextIInv DEF ArrivalInv
<1>1. TypeOK /\ TurnInv /\ NumberInv /\ Drainer \in Coroutines
  BY DEF ArrivalInv, IInv, Coroutines
<1>2. ASSUME NEW t \in Tasks, UpdateCounter(t) \/ InsertRow(t) PROVE TurnInv' /\ NumberInv'
  BY <1>2, UpdateKeepsArrival, InsertKeepsArrival
<1>3. ASSUME NEW t \in Tasks, FetchSeq(t) PROVE TurnInv' /\ NumberInv'
  <2>1. t \in Coroutines /\ "insert" \in PCs
    BY DEF Coroutines, PCs, JobPCs
  <2>2. RunJob(t, "fetch", "insert") /\ UNCHANGED <<conn, seqOf, started, ever>>
    BY <1>3 DEF FetchSeq, history
  <2> QED
    BY <2>1, <2>2, JobKeepsArrival
<1>4. ASSUME NEW c \in Coroutines, CommitSucceeds(c) PROVE TurnInv' /\ NumberInv'
  <2>1. /\ RunJob(c, "commit", "done") /\ "done" \in PCs
        /\ UNCHANGED <<conn, seqOf, started>> /\ ever' = ever \cup conn.rows
    BY <1>4 DEF CommitSucceeds, PCs, EndPCs
  <2> QED
    BY <2>1, JobKeepsArrival
<1>5. ASSUME NEW c \in Coroutines, CommitRaises(c) PROVE TurnInv' /\ NumberInv'
  <2>1. /\ RunJob(c, "commit", "raised") /\ "raised" \in PCs
        /\ UNCHANGED <<conn, seqOf, started, ever>>
    BY <1>5 DEF CommitRaises, PCs, EndPCs, dbVars, history
  <2> QED
    BY <2>1, JobKeepsArrival
<1>6. CASE SelectBatch \/ FetchBatch \/ DeleteAcked
  <2>1. PICK at, to \in PCs : RunJob(Drainer, at, to)
    BY <1>6 DEF SelectBatch, FetchBatch, DeleteAcked, PCs, JobPCs
  <2>2. conn'.rows \subseteq conn.rows
    <3>1. CASE SelectBatch \/ FetchBatch
      BY <3>1 DEF SelectBatch, FetchBatch, dbVars
    <3>2. CASE DeleteAcked
      <4> DEFINE left == {r \in conn.rows : \A a \in batch : a.id # r.id}
      <4>1. conn' = [conn EXCEPT !.rows = left] /\ left \subseteq conn.rows
        BY <3>2 DEF DeleteAcked
      <4>2. conn \in [value : Nat, nextId : Nat, rows : SUBSET Row]
        BY <1>1 DEF TypeOK, Database
      <4> HIDE DEF left
      <4> QED
        BY <4>1, <4>2
    <3> QED
      BY <1>6, <3>1, <3>2
  <2>3. UNCHANGED <<seqOf, started, ever>>
    BY <1>6 DEF SelectBatch, FetchBatch, DeleteAcked, history
  <2> QED
    BY <1>1, <2>1, <2>2, <2>3, JobKeepsArrival
<1>7. CASE Crash
  <2>1. TurnInv' /\ \A t \in Tasks : Rank(t)' >= Rank(t)
    BY <1>1, <1>7, CrashTurns
  <2>2. conn' = disk /\ UNCHANGED <<seqOf, started, ever>>
    BY <1>7 DEF Crash, history
  <2>3. conn'.rows \cup ever' \subseteq conn.rows \cup ever
    BY <2>2 DEF ArrivalInv, IInv, FileFollows
  <2>4. \A t \in Tasks : ~Holding(t)'
    BY <1>7, BufferAssumption DEF Crash, Holding, Coroutines, JobPCs
  <2>5. \A t, u \in Tasks : Precedes(t, u)' => Precedes(t, u)
    BY <2>2 DEF Precedes
  <2> QED
    BY <1>1, <2>1, <2>2, <2>3, <2>4, <2>5, NumbersStay
<1>8. CASE \/ \E t \in Tasks : StartEnqueue(t)
           \/ StartDrain \/ Resume
           \/ \E done \in SUBSET batch : AckBatch(done)
           \/ UNCHANGED vars
  BY <1>8, LoopKeepsArrival
<1> QED
  BY <1>2, <1>3, <1>4, <1>5, <1>6, <1>7, <1>8 DEF Next, Running, Worker

LEMMA InitArrivalInv == Init => ArrivalInv
<1> SUFFICES ASSUME Init PROVE ArrivalInv
  OBVIOUS
<1>1. /\ Len(jobs) = 0 /\ Len(resumed) = 0 /\ Len(started) = 0
      /\ conn.rows = {} /\ ever = {}
      /\ \A t \in Tasks : pc[t] = "new"
  BY BufferAssumption DEF Init, Coroutines
<1>2. TurnInv
  BY <1>1 DEF TurnInv, CallsStart, LineTurns, NoneOvertakes, Precedes, JobPCs
<1>3. NumberInv
  BY <1>1 DEF NumberInv, Precedes
<1> QED
  BY <1>2, <1>3, InitIInv DEF ArrivalInv

\* Overlapping enqueue() calls never overtake one another: they end in the order
\* in which they were made, and that is the order of their rows' seqs.
THEOREM CallsKeepTheirOrder == Spec => []ArrivalOrderKept
<1>1. Spec => []ArrivalInv
  BY InitArrivalInv, NextArrivalInv, PTL DEF Spec
<1>2. ArrivalInv => ArrivalOrderKept
  <2> SUFFICES ASSUME ArrivalInv,
                      NEW i \in 1..Len(started), NEW j \in 1..Len(started), i < j
               PROVE  /\ Ended(started[j]) => Ended(started[i])
                      /\ \A r, s \in ever :
                           r.task = started[i] /\ s.task = started[j] => r.seq < s.seq
    BY DEF ArrivalOrderKept
  <2>1. PICK t, u : t = started[i] /\ u = started[j]
    OBVIOUS
  <2>2. t \in Tasks /\ u \in Tasks /\ Precedes(t, u)
    BY <2>1 DEF ArrivalInv, IInv, TypeOK, Precedes
  <2>3. Ended(u) => Ended(t)
    <3> SUFFICES ASSUME Ended(u) PROVE Ended(t)
      OBVIOUS
    <3>1. Rank(u) = 4
      BY DEF Ended, EndPCs, Rank
    <3>2. Rank(t) = 4
      BY <2>2, <3>1, RankTyped DEF ArrivalInv, TurnInv, NoneOvertakes
    <3> QED
      BY <2>2, <3>2 DEF ArrivalInv, TurnInv, CallsStart, Ended, Rank
  <2>4. ASSUME NEW r \in ever, NEW s \in ever, r.task = t, s.task = u PROVE r.seq < s.seq
    <3>1. Numbered(t) /\ Numbered(u) /\ r.seq = seqOf[t] /\ s.seq = seqOf[u]
      BY <2>4 DEF Numbered, ArrivalInv, NumberInv
    <3> QED
      BY <2>2, <3>1 DEF ArrivalInv, NumberInv
  <2> QED
    BY <2>1, <2>3, <2>4
<1> QED
  BY <1>1, <1>2, PTL
=============================================================================
