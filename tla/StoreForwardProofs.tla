-------------------------- MODULE StoreForwardProofs --------------------------
(***************************************************************************)
(* Proofs about StoreForward, for any sets of alarms and readings, any     *)
(* poison items, batch size and number of attempts.                        *)
(*                                                                         *)
(* The argument: an answer that says "ok" travels only after the rows of   *)
(* the very slice the client waits for were inserted, so ackIds holds only *)
(* settled items; hence everything that is deleted, in the open            *)
(* transaction or in the file, is settled, and stays so.                   *)
(***************************************************************************)
EXTENDS StoreForward, FiniteSetTheorems, TLAPS

\* The tables hold an item once or not at all.
OneCopy == copies \in [Items -> {0, 1}]

\* An answer on its way tells the truth about the slice the client waits for.
AnswersTrue ==
  /\ reply = "ok" => waiting /\ pc \in Kinds /\ Slice \subseteq Stored
  /\ reply = "reject" => waiting /\ pc \in Kinds /\ Slice \subseteq refused
  /\ waiting => pc \in Kinds /\ attempt < MaxRetries

\* Acked items are settled; dropped ones were in a POST that was refused.
AcksSettled ==
  /\ ackIds \subseteq Settled
  /\ dropped \subseteq refused

\* What a call has written is in the transaction or settled; what the file has
\* and the transaction has not was deleted, and is settled.
RowsKept ==
  /\ disk \ conn \subseteq Settled
  /\ \A i \in Items : status[i] \in {"open", "returned"} => i \in conn \cup Settled
  /\ \A i \in Items : status[i] = "returned" => i \in disk \cup Settled

IInv == TypeOK /\ OneCopy /\ AnswersTrue /\ AcksSettled /\ RowsKept
-----------------------------------------------------------------------------
LEMMA InitIInv == Init => IInv
<1> SUFFICES ASSUME Init PROVE IInv
  OBVIOUS
<1>a. 0 \in 0..MaxRetries
  BY StoreForwardAssumption
<1>1. TypeOK
  BY <1>a DEF Init, TypeOK, Verdicts
<1>2. OneCopy /\ AnswersTrue /\ AcksSettled
  BY DEF Init, OneCopy, AnswersTrue, AcksSettled
<1>3. RowsKept
  BY DEF Init, RowsKept
<1> QED
  BY <1>1, <1>2, <1>3 DEF IInv

\* What is settled stays settled.
LEMMA SettledGrows ==
  ASSUME copies' = copies, dropped \subseteq dropped'
  PROVE  Stored' = Stored /\ Settled \subseteq Settled'
  BY DEF Stored, Settled

LEMMA EnqueueKeepsIInv ==
  ASSUME IInv, NEW i \in Items, Insert(i) \/ EnqueueCommits(i) \/ EnqueueRaises(i)
  PROVE  IInv'
<1> USE DEF IInv, bufferVars, cycleVars, cloudVars, history
<1>1. /\ UNCHANGED <<pc, batch, attempt, waiting, ackIds, wire, reply, copies, dropped, refused>>
  BY DEF Insert, EnqueueCommits, EnqueueRaises
<1>2. Stored' = Stored /\ Settled' = Settled /\ Slice' = Slice
  BY <1>1 DEF Stored, Settled, Slice
<1>3. OneCopy' /\ AnswersTrue' /\ AcksSettled'
  BY <1>1, <1>2 DEF OneCopy, AnswersTrue, AcksSettled
<1>4. TypeOK'
  <2>1. CASE Insert(i)
    BY <2>1, <1>1 DEF Insert, TypeOK
  <2>2. CASE EnqueueCommits(i) \/ EnqueueRaises(i)
    BY <2>2, <1>1 DEF EnqueueCommits, EnqueueRaises, TypeOK
  <2> QED
    BY <2>1, <2>2
<1>5. RowsKept'
  <2>1. CASE Insert(i)
    BY <2>1, <1>2 DEF Insert, RowsKept, TypeOK
  <2>2. CASE EnqueueCommits(i)
    BY <2>2, <1>2 DEF EnqueueCommits, RowsKept, TypeOK
  <2>3. CASE EnqueueRaises(i)
    BY <2>3, <1>2 DEF EnqueueRaises, RowsKept, TypeOK
  <2> QED
    BY <2>1, <2>2, <2>3
<1> QED
  BY <1>3, <1>4, <1>5

\* The end of a kind: acks are settled, no answer is awaited any more.
LEMMA ProceedKeepsIInv ==
  ASSUME IInv, pc \in Kinds,
         NEW acks \in SUBSET Items, Proceed(acks), acks \subseteq Settled',
         UNCHANGED <<bufferVars, batch, wire, copies, refused>>,
         dropped \subseteq dropped', dropped' \subseteq refused
  PROVE  IInv'
<1> USE DEF IInv, bufferVars
<1>1. Stored' = Stored /\ Settled \subseteq Settled'
  BY SettledGrows
<1>2. /\ pc' \in Kinds \cup {"idle", "delete"}
      /\ attempt' = 0 /\ waiting' = FALSE /\ reply' = "none" /\ ackIds' = acks
  BY DEF Proceed, Kinds
<1>a. 0 \in 0..MaxRetries
  BY StoreForwardAssumption
<1>3. TypeOK'
  BY <1>2, <1>a DEF TypeOK, Verdicts
<1>4. AnswersTrue' /\ AcksSettled' /\ OneCopy'
  BY <1>2 DEF AnswersTrue, AcksSettled, OneCopy
<1>5. RowsKept'
  BY <1>1 DEF RowsKept
<1> QED
  BY <1>3, <1>4, <1>5

LEMMA CycleKeepsIInv ==
  ASSUME IInv, Cycle
  PROVE  IInv'
<1> USE DEF IInv, bufferVars, cycleVars, cloudVars, history
<1>1. CASE Dequeue
  <2>1. batch' \subseteq conn
    BY <1>1 DEF Dequeue, Oldest
  <2>2. /\ pc' \in {"idle", "alarms"} /\ attempt' = 0 /\ ackIds' = {}
        /\ pc = "idle"
        /\ UNCHANGED <<bufferVars, waiting, wire, reply, copies, dropped, refused>>
    BY <1>1 DEF Dequeue
  <2>3. TypeOK'
    BY <2>1, <2>2, StoreForwardAssumption DEF TypeOK, Kinds
  <2>4. ~waiting /\ reply # "ok" /\ reply # "reject"
    BY <2>2 DEF AnswersTrue, Kinds
  <2> QED
    BY <2>2, <2>3, <2>4 DEF OneCopy, AnswersTrue, AcksSettled, RowsKept, Settled, Stored
<1>2. CASE SkipKind \/ GiveUp
  <2>1. pc \in Kinds /\ Proceed(ackIds) /\ ackIds \in SUBSET Items
    BY <1>2 DEF SkipKind, GiveUp, TypeOK
  <2>2. UNCHANGED <<bufferVars, batch, wire, copies, dropped, refused>>
    BY <1>2 DEF SkipKind, GiveUp
  <2>3. ackIds \subseteq Settled' /\ dropped \subseteq dropped' /\ dropped' \subseteq refused
    BY <2>2 DEF AcksSettled, Settled, Stored, TypeOK
  <2> QED
    BY <2>1, <2>2, <2>3, ProceedKeepsIInv DEF TypeOK
<1>3. CASE Post
  <2>1. pc \in Kinds /\ ~waiting /\ attempt < MaxRetries /\ waiting' = TRUE
    BY <1>3 DEF Post
  <2>2. UNCHANGED <<bufferVars, pc, batch, attempt, ackIds, reply, copies, dropped, refused>>
    BY <1>3 DEF Post
  <2>3. reply # "ok" /\ reply # "reject"
    BY <2>1 DEF AnswersTrue
  <2>4. wire' \subseteq Requests
    <3>1. attempt \in 0..(MaxRetries - 1)
      BY <2>1, StoreForwardAssumption DEF TypeOK
    <3>2. Slice \subseteq Items
      BY DEF Slice, TypeOK
    <3>3. Request(pc, Slice, attempt) \in Requests
      BY <2>1, <3>1, <3>2 DEF Request, Requests
    <3> QED
      BY <1>3, <3>3 DEF Post, TypeOK
  <2> QED
    BY <2>1, <2>2, <2>3, <2>4 DEF TypeOK, OneCopy, AnswersTrue, AcksSettled, RowsKept,
       Settled, Stored
<1>4. CASE ReadOk
  <2>1. Slice \subseteq Stored /\ pc \in Kinds /\ Slice \subseteq Items
    BY <1>4 DEF ReadOk, AnswersTrue, Slice, TypeOK
  <2>2. /\ Proceed(ackIds \cup Slice)
        /\ UNCHANGED <<bufferVars, batch, wire, copies, dropped, refused>>
    BY <1>4 DEF ReadOk
  <2>3. (ackIds \cup Slice) \subseteq Settled'
    BY <2>1, <2>2 DEF AcksSettled, Settled, Stored
  <2> QED
    BY <2>1, <2>2, <2>3, ProceedKeepsIInv DEF TypeOK, AcksSettled
<1>5. CASE ReadReject
  <2>1. Slice \subseteq refused /\ pc \in Kinds /\ Slice \subseteq Items
    BY <1>5 DEF ReadReject, AnswersTrue, Slice, TypeOK
  <2>2. /\ Proceed(ackIds \cup Slice) /\ dropped' = dropped \cup Slice
        /\ UNCHANGED <<bufferVars, batch, wire, copies, refused>>
    BY <1>5 DEF ReadReject
  <2>3. dropped' \subseteq refused
    BY <2>1, <2>2 DEF AcksSettled
  <2>4. (ackIds \cup Slice) \subseteq Settled'
    BY <2>2 DEF AcksSettled, Settled, Stored
  <2> QED
    BY <2>1, <2>2, <2>3, <2>4, ProceedKeepsIInv DEF TypeOK, AcksSettled
<1>6. CASE RetryLater
  <2>1. /\ waiting /\ waiting' = FALSE /\ attempt' = attempt + 1 /\ reply' = "none"
        /\ UNCHANGED <<bufferVars, pc, batch, ackIds, wire, copies, dropped, refused>>
    BY <1>6 DEF RetryLater
  <2>2. attempt < MaxRetries
    BY <2>1 DEF AnswersTrue
  <2>3. attempt' \in 0..MaxRetries
    BY <2>1, <2>2, StoreForwardAssumption DEF TypeOK
  <2>4. TypeOK'
    BY <2>1, <2>3 DEF TypeOK, Verdicts
  <2> QED
    BY <2>1, <2>4 DEF OneCopy, AnswersTrue, AcksSettled, RowsKept, Settled, Stored
<1>7. CASE CycleFails
  <2>1. /\ waiting /\ waiting' = FALSE /\ pc' = "idle" /\ ackIds' = {} /\ reply' = "none"
        /\ UNCHANGED <<bufferVars, batch, attempt, wire, copies, dropped, refused>>
    BY <1>7 DEF CycleFails
  <2> QED
    BY <2>1 DEF TypeOK, Verdicts, OneCopy, AnswersTrue, AcksSettled, RowsKept, Settled, Stored
<1>8. CASE DeleteAcked
  <2>1. /\ pc = "delete" /\ pc' = "commit" /\ conn' = conn \ ackIds
        /\ UNCHANGED <<disk, posOf, nextId, status, batch, attempt, waiting, ackIds,
                       wire, reply, copies, dropped, refused>>
    BY <1>8 DEF DeleteAcked
  <2>2. TypeOK' /\ OneCopy' /\ AcksSettled'
    BY <2>1 DEF TypeOK, OneCopy, AcksSettled, Settled, Stored
  <2>3. AnswersTrue'
    BY <2>1 DEF AnswersTrue, Kinds
  <2>4. RowsKept'
    BY <2>1 DEF RowsKept, AcksSettled, Settled, Stored
  <2> QED
    BY <2>2, <2>3, <2>4
<1>9. CASE AckCommits \/ AckRaises
  <2>1. /\ pc = "commit" /\ pc' = "idle" /\ disk' \in {disk, conn}
        /\ UNCHANGED <<conn, posOf, nextId, status, batch, attempt, waiting, ackIds,
                       wire, reply, copies, dropped, refused>>
    BY <1>9 DEF AckCommits, AckRaises
  <2>2. TypeOK' /\ OneCopy' /\ AcksSettled'
    BY <2>1 DEF TypeOK, OneCopy, AcksSettled, Settled, Stored
  <2>3. AnswersTrue'
    BY <2>1 DEF AnswersTrue, Kinds
  <2>4. RowsKept'
    BY <2>1 DEF RowsKept, Settled, Stored
  <2> QED
    BY <2>2, <2>3, <2>4
<1>10. CASE PostRaises
  <2>1. /\ ~waiting /\ ~waiting' /\ pc' = "idle" /\ ackIds' = {} /\ waiting' = waiting
        /\ UNCHANGED <<bufferVars, batch, attempt, wire, reply, copies, dropped, refused>>
    BY <1>10 DEF PostRaises
  <2> QED
    BY <2>1 DEF TypeOK, Verdicts, OneCopy, AnswersTrue, AcksSettled, RowsKept, Settled, Stored
<1> QED
  BY <1>1, <1>2, <1>3, <1>4, <1>5, <1>6, <1>7, <1>8, <1>9, <1>10 DEF Cycle

\* Handling a POST, in time or late, only adds rows that are missing; if its
\* answer is the one the client waits for, it speaks of the awaited slice.
LEMMA HandleKeepsIInv ==
  ASSUME IInv, NEW m \in wire, Handle(m)
  PROVE  IInv' /\ (\A i \in Items : copies[i] <= copies'[i])
<1> USE DEF IInv, bufferVars, cycleVars, history
<1>1. UNCHANGED <<conn, disk, posOf, nextId, status, pc, batch, attempt, waiting, ackIds,
                  dropped>>
  BY DEF Handle
<1>2. Slice' = Slice
  BY <1>1 DEF Slice
<1>3. CASE Accept(m)
  <2>1. /\ Ingest(m.items) /\ refused' = refused
        /\ \E v \in {"ok", "retry", "odd"} : Answer(m, v)
    BY <1>3 DEF Accept
  <2>2. /\ OneCopy'
        /\ \A i \in Items : copies[i] <= copies'[i]
        /\ \A i \in Items : i \in m.items => copies'[i] = 1
    BY <2>1 DEF OneCopy, Ingest
  <2>3. Stored \subseteq Stored' /\ Settled \subseteq Settled'
    BY <1>1, <2>2 DEF Stored, Settled, OneCopy
  <2>4. TypeOK'
    BY <1>1, <2>1, <2>2 DEF Handle, TypeOK, Answer, Verdicts, OneCopy
  <2>5. m = Request(pc, Slice, attempt) => Slice \subseteq Stored'
    <3>1. Slice \subseteq Items
      BY DEF Slice, TypeOK
    <3> QED
      BY <3>1, <2>2 DEF Request, Stored
  <2>6. AnswersTrue'
    BY <1>1, <1>2, <2>1, <2>3, <2>5 DEF AnswersTrue, Answer, Awaited
  <2> QED
    BY <1>1, <2>1, <2>2, <2>3, <2>4, <2>6 DEF AcksSettled, RowsKept
<1>4. CASE Refuse(m)
  <2>1. copies' = copies /\ Answer(m, "reject") /\ m.items \subseteq Items
    BY <1>4 DEF Refuse, TypeOK, Requests
  <2>a. /\ refused \subseteq refused' /\ refused' \subseteq Items
        /\ Awaited(m) => m.items \subseteq refused'
    BY <1>4, <2>1 DEF Refuse, TypeOK
  <2>2. Stored' = Stored /\ Settled' = Settled
    BY <1>1, <2>1 DEF Stored, Settled
  <2>3. TypeOK'
    BY <1>1, <2>1, <2>a DEF Handle, TypeOK, Answer, Verdicts
  <2>4. Awaited(m) => Slice \subseteq refused'
    BY <2>a DEF Awaited, Request
  <2>5. AnswersTrue'
    BY <1>1, <1>2, <2>1, <2>2, <2>a, <2>4 DEF AnswersTrue, Answer, Awaited
  <2> QED
    BY <1>1, <2>1, <2>2, <2>3, <2>a, <2>5 DEF AcksSettled, RowsKept, OneCopy
<1>5. CASE Fail(m)
  <2>1. /\ copies' = copies /\ refused' = refused
        /\ \E v \in {"retry", "odd"} : Answer(m, v)
    BY <1>5 DEF Fail
  <2>2. Stored' = Stored /\ Settled' = Settled
    BY <1>1, <2>1 DEF Stored, Settled
  <2>3. TypeOK'
    BY <1>1, <2>1 DEF Handle, TypeOK, Answer, Verdicts
  <2>4. AnswersTrue'
    BY <1>1, <1>2, <2>1, <2>2 DEF AnswersTrue, Answer, Awaited
  <2> QED
    BY <1>1, <2>1, <2>2, <2>3, <2>4 DEF AcksSettled, RowsKept, OneCopy
<1> QED
  BY <1>3, <1>4, <1>5 DEF Handle

LEMMA CrashKeepsIInv ==
  ASSUME IInv, Crash
  PROVE  IInv'
<1> USE DEF IInv, history
<1>1. /\ conn' = disk /\ pc' = "idle" /\ batch' = {} /\ attempt' = 0 /\ ~waiting'
      /\ waiting' \in BOOLEAN /\ ackIds' = {} /\ reply' = "none"
      /\ UNCHANGED <<disk, posOf, nextId, wire, copies, dropped, refused>>
  BY DEF Crash
<1>2. \A i \in Items : /\ status'[i] # "open"
                       /\ status'[i] = "returned" => status[i] = "returned"
  BY DEF Crash
<1>3. status' \in [Items -> {"new", "open", "returned", "raised"}]
  BY DEF Crash, TypeOK
<1>4. 0 \in 0..MaxRetries
  BY StoreForwardAssumption
<1>5. TypeOK'
  BY <1>1, <1>3, <1>4 DEF TypeOK, Verdicts
<1>6. OneCopy' /\ AnswersTrue' /\ AcksSettled'
  BY <1>1 DEF OneCopy, AnswersTrue, AcksSettled
<1>7. RowsKept'
  BY <1>1, <1>2 DEF RowsKept, Settled, Stored
<1> QED
  BY <1>5, <1>6, <1>7

LEMMA NextIInv == IInv /\ [Next]_vars => IInv'
<1> SUFFICES ASSUME IInv, [Next]_vars PROVE IInv'
  OBVIOUS
<1>1. CASE Running
  BY <1>1, EnqueueKeepsIInv, CycleKeepsIInv, HandleKeepsIInv DEF Running, Enqueue, Cloud
<1>2. CASE Crash
  BY <1>2, CrashKeepsIInv
<1>3. CASE UNCHANGED vars
  BY <1>3 DEF vars, bufferVars, cycleVars, cloudVars, history, IInv, TypeOK, OneCopy,
     AnswersTrue, AcksSettled, RowsKept, Settled, Stored, Slice
<1> QED
  BY <1>1, <1>2, <1>3 DEF Next

THEOREM IInvariant == Spec => []IInv
  BY InitIInv, NextIInv, PTL DEF Spec
-----------------------------------------------------------------------------
\* Every variable of the pipeline keeps its type, in every run.
THEOREM TypeCorrect == Spec => []TypeOK
  BY IInvariant, PTL DEF IInv

\* No data loss: an item whose enqueue() returned stays in the file until the cloud
\* has it or it is dropped, and what is dropped was in a POST that was refused for good.
THEOREM NothingIsLost == Spec => []NoLoss
<1>1. IInv => NoLoss
  BY DEF IInv, RowsKept, AcksSettled, NoLoss
<1> QED
  BY <1>1, IInvariant, PTL

\* Buffer, transmitter, network and cloud implement Delivery.
THEOREM ImplementsDelivery == Spec => DeliverySpec
<1>1. Init => D!DInit
  BY DEF Init, D!DInit
<1>2. IInv /\ [Next]_vars => [D!Commit \/ D!Ingest \/ D!Refuse]_(D!dvars)
  <2> SUFFICES ASSUME IInv, [Next]_vars
               PROVE  [D!Commit \/ D!Ingest \/ D!Refuse]_(D!dvars)
    OBVIOUS
  <2> USE DEF bufferVars, cycleVars, cloudVars, history
  <2>1. D!Held = Stored
    BY DEF D!Held, Stored, IInv, OneCopy
  <2>2. ASSUME disk' = conn, UNCHANGED <<copies, refused>> PROVE D!Commit
    BY <2>1, <2>2 DEF D!Commit, IInv, TypeOK, RowsKept, AcksSettled, Settled
  <2>3. ASSUME NEW m \in wire, Handle(m), refused' = refused PROVE D!Ingest
    <3>1. copies' \in [Items -> {0, 1}] /\ \A i \in Items : copies[i] <= copies'[i]
      BY <2>3, HandleKeepsIInv DEF IInv, OneCopy
    <3> QED
      BY <2>3, <3>1 DEF D!Ingest, Handle
  <2>4. ASSUME NEW m \in wire, Handle(m), Refuse(m) PROVE D!Refuse
    <3>1. refused \subseteq refused' /\ UNCHANGED <<disk, copies>>
      BY <2>4 DEF Handle, Refuse
    <3>2. refused' \subseteq Items
      BY <2>4, HandleKeepsIInv DEF IInv, TypeOK
    <3> QED
      BY <3>1, <3>2 DEF D!Refuse
  <2>5. ASSUME \/ \E i \in Items : Insert(i) \/ EnqueueRaises(i)
               \/ Dequeue \/ SkipKind \/ Post \/ PostRaises \/ GiveUp \/ ReadOk \/ ReadReject
               \/ RetryLater \/ CycleFails \/ DeleteAcked \/ AckRaises \/ Crash \/ UNCHANGED vars
        PROVE  UNCHANGED D!dvars
    BY <2>5 DEF D!dvars, Insert, EnqueueRaises, Dequeue, SkipKind, Post, PostRaises, GiveUp, ReadOk,
       ReadReject, RetryLater, CycleFails, DeleteAcked, AckRaises, Crash, vars
  <2>6. ASSUME AckCommits \/ \E i \in Items : EnqueueCommits(i) PROVE D!Commit
    <3>1. disk' = conn /\ UNCHANGED <<copies, refused>>
      BY <2>6 DEF AckCommits, EnqueueCommits
    <3> QED
      BY <2>2, <3>1
  <2>7. \A m \in wire : Handle(m) => refused' = refused \/ Refuse(m)
    BY DEF Handle, Accept, Fail
  <2> QED
    BY <2>3, <2>4, <2>5, <2>6, <2>7 DEF Next, Running, Enqueue, Cycle, Cloud
<1> QED
  BY <1>1, <1>2, IInvariant, PTL DEF Spec, DeliverySpec, D!DSpec
-----------------------------------------------------------------------------
(* The order of recovery.                                                  *)

\* An older row of j's kind is in the buffer.
Waits(i, j) ==
  /\ i \in conn /\ (i \in Alarms) = (j \in Alarms)
  /\ posOf[i] < posOf[j]

\* Whatever a member of the set has in front of it is in the set or settled.
Closed(items) == \A j \in items : \A i \in conn : Waits(i, j) => i \in items \cup Settled

Inserted(items) == \A i \in items : posOf[i] > 0

\* The rows are finitely many, their ids are given out in order, and batch, POSTs
\* (the late ones too) and what is settled leave no older row of their kind behind.
OrderInv ==
  /\ IsFiniteSet(conn) /\ IsFiniteSet(disk)
  /\ \A i \in Items : posOf[i] < nextId /\ (status[i] = "new" => posOf[i] = 0)
  /\ Inserted(conn) /\ Inserted(disk) /\ Inserted(batch) /\ Inserted(Settled)
  /\ \A m \in wire : Inserted(m.items) /\ Closed(m.items)
  /\ Closed(batch) /\ Closed(Settled)

LEMMA InitOrderInv == Init => OrderInv
<1> SUFFICES ASSUME Init PROVE OrderInv
  OBVIOUS
<1>1. Settled = {}
  BY DEF Init, Settled, Stored
<1>2. IsFiniteSet({})
  BY FS_EmptySet
<1> QED
  BY <1>1, <1>2 DEF Init, OrderInv, Inserted, Closed

\* The oldest rows of the buffer, up to any number, have nothing of their kind in
\* front of them that is not among them.
LEMMA OldestIsClosed ==
  ASSUME TypeOK, IsFiniteSet(conn), NEW j \in Oldest, NEW i \in conn, Waits(i, j)
  PROVE  i \in Oldest
<1> DEFINE Front(k) == {h \in conn : Before(h, k)}
<1>1. j \in conn /\ Cardinality(Front(j)) < BatchMax
  BY DEF Oldest
<1>2. Front(i) \subseteq Front(j)
  <2>1. ASSUME NEW h \in conn, Before(h, i) PROVE Before(h, j)
    <3>1. /\ h \in Items /\ i \in Items /\ j \in Items
          /\ posOf[h] \in Nat /\ posOf[i] \in Nat /\ posOf[j] \in Nat
      BY <1>1 DEF TypeOK
    <3> QED
      BY <2>1, <3>1, StoreForwardAssumption DEF Before, Waits, Items
  <2> QED
    BY <2>1
<1>3. IsFiniteSet(Front(i)) /\ IsFiniteSet(Front(j))
  BY FS_Subset
<1>4. Cardinality(Front(i)) <= Cardinality(Front(j))
  BY <1>2, <1>3, FS_Subset
<1>5. Cardinality(Front(i)) \in Nat /\ Cardinality(Front(j)) \in Nat
  BY <1>3, FS_CardinalityType
<1>6. Cardinality(Front(i)) < BatchMax
  BY <1>1, <1>4, <1>5, StoreForwardAssumption
<1> QED
  BY <1>6 DEF Oldest

\* No step puts an older row in front of an inserted one: a new row is the newest,
\* and what a crash brings back was deleted because it is settled.
LEMMA WaitsBefore ==
  ASSUME IInv, OrderInv, [Next]_vars,
         NEW j \in Items, posOf[j] > 0, NEW i \in Items, Waits(i, j)'
  PROVE  Waits(i, j) \/ i \in Settled
<1> USE DEF bufferVars, cycleVars, cloudVars, history
<1>1. ASSUME NEW k \in Items, Insert(k) PROVE Waits(i, j)
  <2>1. /\ conn' = conn \cup {k} /\ posOf' = [posOf EXCEPT ![k] = nextId]
        /\ posOf[k] = 0 /\ posOf[j] < nextId /\ posOf \in [Items -> Nat] /\ nextId \in Nat
    BY <1>1 DEF Insert, OrderInv, IInv, TypeOK
  <2>2. j # k /\ posOf'[j] = posOf[j]
    BY <2>1
  <2>3. i # k
    BY <2>1, <2>2 DEF Waits
  <2> QED
    BY <2>1, <2>2, <2>3 DEF Waits
<1>2. ASSUME posOf' = posOf, conn' \subseteq conn PROVE Waits(i, j)
  BY <1>2 DEF Waits
<1>3. CASE Crash
  BY <1>3 DEF Crash, Waits, IInv, RowsKept
<1>4. ASSUME NEW k \in Items, EnqueueCommits(k) \/ EnqueueRaises(k) PROVE Waits(i, j)
  BY <1>2, <1>4 DEF EnqueueCommits, EnqueueRaises
<1>5. CASE Cycle
  BY <1>2, <1>5 DEF Cycle, Dequeue, SkipKind, Post, PostRaises, GiveUp, ReadOk, ReadReject,
     RetryLater, CycleFails, DeleteAcked, AckCommits, AckRaises
<1>6. CASE Cloud
  BY <1>2, <1>6 DEF Cloud, Handle
<1>7. CASE UNCHANGED vars
  BY <1>2, <1>7 DEF vars
<1> QED
  BY <1>1, <1>3, <1>4, <1>5, <1>6, <1>7 DEF Next, Running, Enqueue

\* Rows get one id, once, and what is settled stays settled.
LEMMA IdsStay ==
  ASSUME IInv, OrderInv, [Next]_vars
  PROVE  /\ Settled \subseteq Settled'
         /\ \A i \in Items : posOf[i] > 0 => posOf'[i] = posOf[i]
         /\ \A i \in Items : posOf'[i] < nextId' /\ (status'[i] = "new" => posOf'[i] = 0)
<1> USE DEF bufferVars, cycleVars, cloudVars, history
<1>1. CASE \E i \in Items : Insert(i)
  <2>1. PICK k \in Items : Insert(k)
    BY <1>1
  <2>2. /\ posOf' = [posOf EXCEPT ![k] = nextId] /\ nextId' = nextId + 1
        /\ status' = [status EXCEPT ![k] = "open"] /\ posOf[k] = 0
        /\ UNCHANGED <<copies, dropped>>
    BY <2>1 DEF Insert, OrderInv
  <2> QED
    BY <2>2, SettledGrows DEF IInv, TypeOK, OrderInv
<1>2. CASE \E m \in wire : Handle(m)
  <2>1. \A i \in Items : copies[i] <= copies'[i] /\ copies[i] \in Nat /\ copies'[i] \in Nat
    BY <1>2, HandleKeepsIInv DEF IInv, TypeOK
  <2>2. UNCHANGED <<posOf, nextId, status, dropped>>
    BY <1>2 DEF Handle
  <2>3. Settled \subseteq Settled'
    BY <2>1, <2>2 DEF Settled, Stored
  <2> QED
    BY <2>2, <2>3 DEF OrderInv
<1>3. CASE \/ \E i \in Items : EnqueueCommits(i) \/ EnqueueRaises(i)
           \/ Cycle \/ Crash \/ UNCHANGED vars
  <2>1. UNCHANGED <<posOf, nextId, copies>> /\ dropped \subseteq dropped'
    BY <1>3 DEF EnqueueCommits, EnqueueRaises, Cycle, Dequeue, SkipKind, Post, PostRaises,
       GiveUp, ReadOk, ReadReject, RetryLater, CycleFails, DeleteAcked, AckCommits, AckRaises,
       Crash, vars
  <2>2. \A i \in Items : status'[i] = "new" => status[i] = "new"
    <3>1. CASE \E i \in Items : EnqueueCommits(i) \/ EnqueueRaises(i)
      BY <3>1 DEF EnqueueCommits, EnqueueRaises, IInv, TypeOK
    <3>2. CASE Crash
      BY <3>2 DEF Crash
    <3>3. CASE Cycle \/ UNCHANGED vars
      BY <3>3 DEF Cycle, Dequeue, SkipKind, Post, PostRaises, GiveUp, ReadOk, ReadReject,
         RetryLater, CycleFails, DeleteAcked, AckCommits, AckRaises, vars
    <3> QED
      BY <1>3, <3>1, <3>2, <3>3
  <2> QED
    BY <2>1, <2>2, SettledGrows DEF OrderInv
<1> QED
  BY <1>1, <1>2, <1>3 DEF Next, Running, Enqueue, Cloud

LEMMA BatchStaysClosed ==
  ASSUME IInv, IInv', OrderInv, [Next]_vars
  PROVE  Inserted(batch)' /\ Closed(batch)'
<1> USE DEF bufferVars, cycleVars, cloudVars, history
<1>1. batch' \in {batch, {}} \/ Dequeue
  BY DEF Next, Running, Enqueue, Cycle, Cloud, Insert, EnqueueCommits, EnqueueRaises, SkipKind,
     Post, PostRaises, GiveUp, ReadOk, ReadReject, RetryLater, CycleFails, DeleteAcked,
     AckCommits, AckRaises, Handle, Crash, vars
<1>2. CASE Dequeue
  <2>1. /\ batch' = Oldest /\ Oldest \subseteq conn
        /\ UNCHANGED <<conn, posOf, copies, dropped>>
    BY <1>2 DEF Dequeue, Oldest
  <2>2. ASSUME NEW j \in batch', NEW i \in conn', Waits(i, j)' PROVE i \in batch'
    BY <2>1, <2>2, OldestIsClosed DEF Waits, IInv, OrderInv
  <2> QED
    BY <2>1, <2>2 DEF Closed, Inserted, OrderInv
<1>3. CASE batch' = {}
  BY <1>3 DEF Closed, Inserted
<1>4. CASE batch' = batch
  <2>1. ASSUME NEW j \in batch PROVE posOf[j] > 0 /\ posOf'[j] > 0 /\ j \in Items
    BY <2>1, IdsStay DEF OrderInv, Inserted, IInv, TypeOK
  <2>2. ASSUME NEW j \in batch, NEW i \in conn', Waits(i, j)' PROVE i \in batch \cup Settled'
    <3>1. i \in Items
      BY DEF IInv, TypeOK
    <3>2. Waits(i, j) \/ i \in Settled
      BY <2>1, <2>2, <3>1, WaitsBefore
    <3> QED
      BY <3>2, IdsStay DEF OrderInv, Closed, Waits
  <2> QED
    BY <1>4, <2>1, <2>2 DEF Closed, Inserted
<1> QED
  BY <1>1, <1>2, <1>3, <1>4

LEMMA WireStaysClosed ==
  ASSUME IInv, IInv', OrderInv, [Next]_vars, NEW m \in wire'
  PROVE  Inserted(m.items)' /\ Closed(m.items)'
<1> USE DEF bufferVars, cycleVars, cloudVars, history
<1>1. PICK items : items = m.items
  OBVIOUS
<1>2. items \subseteq Items
  BY <1>1 DEF IInv, TypeOK, Requests
<1>3. Inserted(items) /\ Closed(items)
  <2>1. CASE m \in wire
    BY <1>1, <2>1 DEF OrderInv
  <2>2. CASE m \notin wire
    <3>1. Post
      BY <2>2 DEF Next, Running, Enqueue, Cycle, Cloud, Insert, EnqueueCommits, EnqueueRaises,
         Dequeue, SkipKind, PostRaises, GiveUp, ReadOk, ReadReject, RetryLater, CycleFails,
         DeleteAcked, AckCommits, AckRaises, Handle, Crash, vars
    <3>2. m = Request(pc, Slice, attempt) /\ pc \in Kinds
      BY <2>2, <3>1 DEF Post
    <3>3. items = batch \cap OfKind(pc) /\ batch \subseteq Items /\ conn \subseteq Items
      BY <1>1, <3>2 DEF Request, Slice, IInv, TypeOK
    <3>4. ASSUME NEW j \in items, NEW i \in conn, Waits(i, j) PROVE i \in items \cup Settled
      <4>1. i \in batch \cup Settled
        BY <3>3, <3>4 DEF OrderInv, Closed
      <4>2. i \in OfKind(pc)
        BY <3>2, <3>3, <3>4, StoreForwardAssumption DEF Waits, OfKind, Kinds, Items
      <4> QED
        BY <3>3, <4>1, <4>2
    <3> QED
      BY <3>3, <3>4 DEF OrderInv, Inserted, Closed
  <2> QED
    BY <2>1, <2>2
<1>4. ASSUME NEW j \in items PROVE posOf[j] > 0 /\ posOf'[j] > 0 /\ j \in Items
  BY <1>2, <1>3, <1>4, IdsStay DEF Inserted
<1>5. ASSUME NEW j \in items, NEW i \in conn', Waits(i, j)' PROVE i \in items \cup Settled'
  <2>1. i \in Items
    BY DEF IInv, TypeOK
  <2>2. Waits(i, j) \/ i \in Settled
    BY <1>4, <1>5, <2>1, WaitsBefore
  <2> QED
    BY <1>3, <2>2, IdsStay DEF Closed, Waits
<1> QED
  BY <1>1, <1>4, <1>5 DEF Inserted, Closed

\* What becomes settled in a step is a POST or the slice of the batch, as a whole.
LEMMA SettledStaysClosed ==
  ASSUME IInv, IInv', OrderInv, [Next]_vars
  PROVE  Inserted(Settled)' /\ Closed(Settled)'
<1> USE DEF bufferVars, cycleVars, cloudVars, history
<1>1. PICK new : /\ Settled' = Settled \cup new
                 /\ new \subseteq Items /\ Inserted(new) /\ Closed(new)
  <2>1. CASE \E m \in wire : Handle(m) /\ Accept(m)
    <3>1. PICK m \in wire : Handle(m) /\ Accept(m)
      BY <2>1
    <3>2. /\ m.items \subseteq Items /\ Inserted(m.items) /\ Closed(m.items)
          /\ Ingest(m.items) /\ dropped' = dropped
      BY <3>1 DEF OrderInv, IInv, TypeOK, Requests, Handle, Accept
    <3>3. Stored' = Stored \cup m.items
      BY <3>2 DEF Stored, Ingest, IInv, OneCopy
    <3> QED
      BY <3>2, <3>3 DEF Settled
  <2>2. CASE ReadReject
    <3>1. Settled' = Settled \cup Slice
      BY <2>2 DEF ReadReject, Settled, Stored
    <3>2. Slice \subseteq batch /\ Slice \subseteq Items /\ pc \in Kinds
      BY <2>2 DEF Slice, IInv, TypeOK, ReadReject, AnswersTrue
    <3>3. ASSUME NEW j \in Slice, NEW i \in conn, Waits(i, j) PROVE i \in Slice \cup Settled
      <4>1. i \in batch \cup Settled
        BY <3>2, <3>3 DEF OrderInv, Closed
      <4>2. i \in OfKind(pc)
        BY <3>2, <3>3, StoreForwardAssumption DEF Slice, Waits, OfKind, Kinds, Items, IInv, TypeOK
      <4> QED
        BY <4>1, <4>2 DEF Slice
    <3> QED
      BY <3>1, <3>2, <3>3 DEF OrderInv, Inserted, Closed
  <2>3. CASE UNCHANGED <<copies, dropped>>
    <3> DEFINE new == {}
    <3>1. Settled' = Settled \cup new /\ new \subseteq Items
      BY <2>3 DEF Settled, Stored
    <3>2. Inserted(new) /\ Closed(new)
      BY DEF Inserted, Closed
    <3> HIDE DEF new
    <3> QED
      BY <3>1, <3>2
  <2> QED
    BY <2>1, <2>2, <2>3 DEF Next, Running, Enqueue, Cycle, Cloud, Insert, EnqueueCommits,
       EnqueueRaises, Dequeue, SkipKind, Post, PostRaises, GiveUp, ReadOk, RetryLater,
       CycleFails, DeleteAcked, AckCommits, AckRaises, Handle, Refuse, Fail, Crash, vars
<1>2. ASSUME NEW j \in Settled' PROVE posOf[j] > 0 /\ posOf'[j] > 0 /\ j \in Items
  <2>1. j \in Items /\ posOf[j] > 0
    BY <1>1, <1>2 DEF OrderInv, Inserted, Settled, Stored, IInv, TypeOK
  <2> QED
    BY <2>1, IdsStay
<1>3. ASSUME NEW j \in Settled', NEW i \in conn', Waits(i, j)' PROVE i \in Settled'
  <2>1. i \in Items
    BY DEF IInv, TypeOK
  <2>2. Waits(i, j) \/ i \in Settled
    BY <1>2, <1>3, <2>1, WaitsBefore
  <2> QED
    BY <1>1, <1>3, <2>2 DEF OrderInv, Closed, Waits
<1> QED
  BY <1>2, <1>3 DEF Inserted, Closed

LEMMA NextOrderInv == IInv /\ OrderInv /\ [Next]_vars => OrderInv'
<1> SUFFICES ASSUME IInv, OrderInv, [Next]_vars PROVE OrderInv'
  OBVIOUS
<1> USE DEF bufferVars, cycleVars, cloudVars, history
<1>1. IInv'
  BY NextIInv
<1>2. ASSUME NEW i \in conn' \cup disk'
      PROVE  i \in conn \cup disk \/ (i \in Items /\ Insert(i))
  BY <1>2 DEF Next, Running, Enqueue, Cycle, Cloud, Insert, EnqueueCommits, EnqueueRaises, Dequeue,
     SkipKind, Post, PostRaises, GiveUp, ReadOk, ReadReject, RetryLater, CycleFails, DeleteAcked,
     AckCommits, AckRaises, Handle, Crash, vars
<1>3. Inserted(conn)' /\ Inserted(disk)'
  <2>1. ASSUME NEW i \in conn' \cup disk' PROVE posOf'[i] > 0
    <3>1. CASE i \in Items /\ Insert(i)
      <4>1. posOf'[i] = nextId /\ nextId \in Nat /\ posOf[i] \in Nat /\ posOf[i] < nextId
        BY <3>1 DEF Insert, IInv, TypeOK, OrderInv
      <4> QED
        BY <4>1
    <3>2. CASE i \in conn \cup disk
      BY <3>2, IdsStay DEF OrderInv, Inserted, IInv, TypeOK
    <3> QED
      BY <1>2, <3>1, <3>2
  <2> QED
    BY <2>1 DEF Inserted
<1>4. IsFiniteSet(conn') /\ IsFiniteSet(disk')
  <2>1. CASE \E i \in Items : Insert(i)
    BY <2>1, FS_AddElement DEF Insert, OrderInv
  <2>2. CASE conn' \subseteq conn /\ (disk' = disk \/ disk' = conn)
    BY <2>2, FS_Subset DEF OrderInv
  <2>3. CASE Crash
    BY <2>3 DEF Crash, OrderInv
  <2> QED
    BY <2>1, <2>2, <2>3 DEF Next, Running, Enqueue, Cycle, Cloud, EnqueueCommits, EnqueueRaises,
       Dequeue, SkipKind, Post, PostRaises, GiveUp, ReadOk, ReadReject, RetryLater, CycleFails,
       DeleteAcked, AckCommits, AckRaises, Handle, vars
<1> QED
  BY <1>1, <1>3, <1>4, IdsStay, BatchStaysClosed, WireStaysClosed, SettledStaysClosed DEF OrderInv

\* Within a kind nothing overtakes: while a row is still to be sent, no later row
\* of its kind has been stored or dropped before it, whatever is lost, late,
\* repeated or restarted.
THEOREM RecoveryInOrder == Spec => []InOrder
<1>1. Spec => []OrderInv
  <2>1. Init => OrderInv
    BY InitOrderInv
  <2>2. IInv /\ OrderInv /\ [Next]_vars => OrderInv'
    BY NextOrderInv
  <2> QED
    BY <2>1, <2>2, IInvariant, PTL DEF Spec
<1>2. OrderInv => InOrder
  BY DEF OrderInv, Closed, Waits, InOrder
<1> QED
  BY <1>1, <1>2, PTL
=============================================================================
