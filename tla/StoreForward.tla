----------------------------- MODULE StoreForward -----------------------------
(***************************************************************************)
(* The way of an item from enqueue() to the cloud's tables: the buffer at  *)
(* the grain of transactions (SqliteBuffer has the grain below), the drain *)
(* cycle of transmitter.py with its retries, the network, and the two      *)
(* ingestion handlers of the cloud.                                        *)
(*                                                                         *)
(* A POST that the client has given up on may still be handled later; an   *)
(* answer may be lost after the rows were inserted; the collector may die  *)
(* and restart between any two steps, keeping only what was committed.     *)
(***************************************************************************)
EXTENDS Naturals, FiniteSets

CONSTANTS
  Alarms, Readings,
  Poison,          \* items that fail the cloud's validation (HTTP 422)
  Unsendable,      \* items, like a NaN value, whose POST may raise before it is sent
  BatchMax,        \* TRANSMIT_BATCH_MAX
  MaxRetries,      \* attempts for one batch of one kind
  MaxInFlight      \* bound: POSTs not handled yet; older ones are lost

Items == Alarms \cup Readings

ASSUME StoreForwardAssumption ==
  /\ Alarms \cap Readings = {}
  /\ Poison \subseteq Items /\ Unsendable \subseteq Items
  /\ BatchMax \in Nat \ {0}
  /\ MaxRetries \in Nat \ {0}
  /\ MaxInFlight \in Nat \ {0}

VARIABLES
  conn,      \* rows in the buffer as the shared connection sees them
  disk,      \* rows in the buffer as last committed
  posOf,     \* row ids: the order in which items were inserted (0: not yet)
  nextId,    \* the id of the next row
  status,    \* what became of the enqueue() call of each item
  pc,        \* where the transmit loop is
  batch,     \* items dequeued in this cycle
  attempt,   \* attempts made for the current kind
  waiting,   \* a POST is out and the client waits for its answer
  ackIds,    \* acked_ids of this cycle
  wire,      \* POSTs the cloud may still handle
  reply,     \* the answer on its way back to the waiting client
  copies,    \* rows of each item in the cloud's tables
  dropped,   \* history: items acked because their batch was refused
  refused    \* history: items of the POSTs whose answer was a permanent 4xx

bufferVars == <<conn, disk, posOf, nextId, status>>
cycleVars  == <<pc, batch, attempt, waiting, ackIds>>
cloudVars  == <<wire, reply, copies>>
history    == <<dropped, refused>>
vars == <<bufferVars, cycleVars, cloudVars, history>>

Kinds == {"alarms", "readings"}
OfKind(k) == IF k = "alarms" THEN Alarms ELSE Readings
Verdicts == {"none", "ok", "retry", "reject", "odd"}

Stored  == {i \in Items : copies[i] > 0}
Settled == Stored \cup dropped

Init ==
  /\ conn = {} /\ disk = {}
  /\ posOf = [i \in Items |-> 0] /\ nextId = 1
  /\ status = [i \in Items |-> "new"]
  /\ pc = "idle" /\ batch = {} /\ attempt = 0 /\ waiting = FALSE /\ ackIds = {}
  /\ wire = {} /\ reply = "none"
  /\ copies = [i \in Items |-> 0]
  /\ dropped = {} /\ refused = {}
-----------------------------------------------------------------------------
(* enqueue(): the INSERT makes the row visible to the transmit loop; the   *)
(* commit makes it, and everything else in the transaction, durable.       *)

Insert(i) ==
  /\ status[i] = "new"
  /\ status' = [status EXCEPT ![i] = "open"]
  /\ conn' = conn \cup {i}
  /\ posOf' = [posOf EXCEPT ![i] = nextId]
  /\ nextId' = nextId + 1
  /\ UNCHANGED <<disk, cycleVars, cloudVars, history>>

EnqueueCommits(i) ==
  /\ status[i] = "open"
  /\ status' = [status EXCEPT ![i] = "returned"]
  /\ disk' = conn
  /\ UNCHANGED <<conn, posOf, nextId, cycleVars, cloudVars, history>>

EnqueueRaises(i) ==
  /\ status[i] = "open"
  /\ status' = [status EXCEPT ![i] = "raised"]
  /\ UNCHANGED <<conn, disk, posOf, nextId, cycleVars, cloudVars, history>>
-----------------------------------------------------------------------------
(* transmit_once().                                                        *)

NewestFirst(i, j) ==            \* mutant: ORDER BY id DESC
  \/ i \in Alarms /\ j \in Readings
  \/ /\ (i \in Alarms) = (j \in Alarms)
     /\ posOf[i] > posOf[j]

\* ORDER BY (kind = 'alarm') DESC, id ASC LIMIT max_items
Before(i, j) ==
  \/ i \in Alarms /\ j \in Readings
  \/ /\ (i \in Alarms) = (j \in Alarms)
     /\ posOf[i] < posOf[j]

Oldest == {i \in conn : Cardinality({j \in conn : Before(j, i)}) < BatchMax}

Dequeue ==
  /\ pc = "idle"
  /\ batch' = Oldest
  /\ attempt' = 0 /\ ackIds' = {}
  /\ pc' = IF Oldest = {} THEN "idle" ELSE "alarms"
  /\ UNCHANGED <<bufferVars, waiting, cloudVars, history>>

\* What is sent: the rows of the batch that are of the kind being sent.
Slice == batch \cap OfKind(pc)

\* Where the cycle goes when it is done with the current kind.
Proceed(acks) ==
  /\ pc' = CASE pc = "alarms" -> "readings"
             [] pc = "readings" /\ acks # {} -> "delete"
             [] OTHER -> "idle"
  /\ attempt' = 0 /\ waiting' = FALSE /\ reply' = "none"
  /\ ackIds' = acks

SkipKind ==
  /\ pc \in Kinds /\ Slice = {}
  /\ Proceed(ackIds)
  /\ UNCHANGED <<bufferVars, batch, wire, copies, history>>

Request(k, items, n) == [kind |-> k, items |-> items, attempt |-> n]

Post ==
  /\ pc \in Kinds /\ Slice # {} /\ ~waiting
  /\ attempt < MaxRetries
  /\ waiting' = TRUE
  /\ \E late \in SUBSET wire :
       /\ Cardinality(late) < MaxInFlight
       /\ wire' = late \cup {Request(pc, Slice, attempt)}
  /\ UNCHANGED <<bufferVars, pc, batch, attempt, ackIds, reply, copies, history>>

\* The batch cannot be encoded: ValueError is not caught, see CycleFails.
PostRaises ==
  /\ pc \in Kinds /\ Slice \cap Unsendable # {} /\ ~waiting
  /\ attempt < MaxRetries
  /\ pc' = "idle" /\ ackIds' = {}
  /\ UNCHANGED <<bufferVars, batch, attempt, waiting, cloudVars, history>>

RetryForEver ==                 \* mutant: the attempts start all over again
  /\ pc \in Kinds /\ ~waiting /\ attempt = MaxRetries
  /\ attempt' = 0
  /\ UNCHANGED <<bufferVars, pc, batch, waiting, ackIds, cloudVars, history>>

ExhaustedIsAcked ==             \* mutant: None is taken for success
  /\ pc \in Kinds /\ ~waiting /\ attempt = MaxRetries
  /\ Proceed(ackIds \cup Slice)
  /\ UNCHANGED <<bufferVars, batch, wire, copies, history>>

\* The loop over attempts is over: the rows stay in the buffer.
GiveUp ==
  /\ pc \in Kinds /\ ~waiting /\ attempt = MaxRetries
  /\ Proceed(ackIds)
  /\ UNCHANGED <<bufferVars, batch, wire, copies, history>>

ReadOk ==
  /\ waiting /\ reply = "ok"
  /\ Proceed(ackIds \cup Slice)
  /\ UNCHANGED <<bufferVars, batch, wire, copies, history>>

RejectKeepsRows ==              \* mutant: a refused batch stays buffered
  /\ waiting /\ reply = "reject"
  /\ Proceed(ackIds)
  /\ UNCHANGED <<bufferVars, batch, wire, copies, history>>

RejectDropsBatch ==             \* mutant: the readings go with the alarms
  /\ waiting /\ reply = "reject"
  /\ Proceed(ackIds \cup batch)
  /\ dropped' = dropped \cup Slice
  /\ UNCHANGED <<bufferVars, batch, wire, copies, refused>>

\* PERMANENT_REJECTION, any 4xx but 408 and 429: acked without delivery, to unblock
\* the channel.
ReadReject ==
  /\ waiting /\ reply = "reject"
  /\ Proceed(ackIds \cup Slice)
  /\ dropped' = dropped \cup Slice
  /\ UNCHANGED <<bufferVars, batch, wire, copies, refused>>

\* 5xx, 408, 429, an unreadable body, a broken connection, or no answer within
\* the timeout (an answer on its way is lost); then the backoff.
RetryLater ==
  /\ waiting
  /\ waiting' = FALSE /\ attempt' = attempt + 1 /\ reply' = "none"
  /\ UNCHANGED <<bufferVars, pc, batch, ackIds, wire, copies, history>>

\* A 2xx whose body is JSON but not an object: TypeError is not caught, the
\* cycle ends in _transmit_loop()'s except clause and nothing is acked.
CycleFails ==
  /\ waiting /\ reply = "odd"
  /\ pc' = "idle" /\ waiting' = FALSE /\ ackIds' = {} /\ reply' = "none"
  /\ UNCHANGED <<bufferVars, batch, attempt, wire, copies, history>>

DeleteAcked ==
  /\ pc = "delete"
  /\ conn' = conn \ ackIds
  /\ pc' = "commit"
  /\ UNCHANGED <<disk, posOf, nextId, status, batch, attempt, waiting, ackIds, cloudVars, history>>

AckCommits ==
  /\ pc = "commit"
  /\ disk' = conn
  /\ pc' = "idle"
  /\ UNCHANGED <<conn, posOf, nextId, status, batch, attempt, waiting, ackIds, cloudVars, history>>

\* The commit raises: the DELETE waits for the next commit of any coroutine.
AckRaises ==
  /\ pc = "commit"
  /\ pc' = "idle"
  /\ UNCHANGED <<bufferVars, batch, attempt, waiting, ackIds, cloudVars, history>>
-----------------------------------------------------------------------------
(* The cloud.                                                              *)

\* A body validates as a whole.
Valid(items) == items \cap Poison = {}

\* INSERT .. ON CONFLICT DO NOTHING, one statement for the whole batch.
Ingest(items) ==
  copies' = [i \in Items |-> IF i \in items /\ copies[i] = 0 THEN 1 ELSE copies[i]]

\* The verdict reaches the client if it still waits for this very POST.
Awaited(m) == waiting /\ m = Request(pc, Slice, attempt)

Answer(m, verdict) == reply' = IF Awaited(m) THEN verdict ELSE reply

\* The rows are inserted; the answer may say so, or fail on its way (a proxy's
\* 502, a body cut short), or be a body transmit_once() does not expect.
Accept(m) ==
  /\ Valid(m.items)
  /\ Ingest(m.items)
  /\ \E verdict \in {"ok", "retry", "odd"} : Answer(m, verdict)
  /\ UNCHANGED refused

\* A permanent 4xx for the whole batch: the 422 of a body that does not validate, or,
\* whatever is in it, the 404, 403 or 413 of a proxy or of another deployment.
Refuse(m) ==
  /\ UNCHANGED copies
  /\ refused' = IF Awaited(m) THEN refused \cup m.items ELSE refused
  /\ Answer(m, "reject")

\* The handler fails, or a proxy answers for it: nothing is inserted.
Fail(m) ==
  /\ UNCHANGED <<copies, refused>>
  /\ \E verdict \in {"retry", "odd"} : Answer(m, verdict)

\* A POST is handled once, at any time after it was sent, or never: Post drops
\* those the network has lost.
Handle(m) ==
  /\ Accept(m) \/ Refuse(m) \/ Fail(m)
  /\ wire' = wire \ {m}
  /\ UNCHANGED <<bufferVars, cycleVars, dropped>>
-----------------------------------------------------------------------------
\* The collector dies and restarts: only what was committed is left.
Crash ==
  /\ conn' = disk
  /\ status' = [i \in Items |-> IF status[i] = "open" THEN "raised" ELSE status[i]]
  /\ pc' = "idle" /\ batch' = {} /\ attempt' = 0 /\ waiting' = FALSE /\ ackIds' = {}
  /\ reply' = "none"
  /\ UNCHANGED <<disk, posOf, nextId, wire, copies, history>>

Enqueue == \E i \in Items : Insert(i) \/ EnqueueCommits(i) \/ EnqueueRaises(i)

Cycle ==
  \/ Dequeue \/ SkipKind \/ Post \/ PostRaises \/ GiveUp
  \/ ReadOk \/ ReadReject \/ RetryLater \/ CycleFails
  \/ DeleteAcked \/ AckCommits \/ AckRaises

Cloud == \E m \in wire : Handle(m)

Running == Enqueue \/ Cycle \/ Cloud

Next == Running \/ Crash

Spec == Init /\ [][Next]_vars

\* The cloud is reachable often enough for a kind: of its POSTs it does not fail,
\* and does not answer too late, every time: it takes those that validate, and
\* refuses the others.
AnswersNow(k, verdict) == pc = k /\ reply' = verdict /\ Cloud

Reachable(k) ==
  /\ SF_vars(AnswersNow(k, "ok")) /\ SF_vars(~Valid(Slice) /\ AnswersNow(k, "reject"))
  /\ SF_vars(pc = k /\ ReadOk)    /\ SF_vars(pc = k /\ ReadReject)

\* A run without a crash in which the transmit loop keeps going, and in which
\* the cloud is reachable for alarms.
UninterruptedSpec ==
  Init /\ [][Running]_vars /\ WF_vars(Cycle) /\ Reachable("alarms")
-----------------------------------------------------------------------------
Requests == [kind : Kinds, items : SUBSET Items, attempt : 0..(MaxRetries - 1)]

TypeOK ==
  /\ conn \subseteq Items /\ disk \subseteq Items
  /\ posOf \in [Items -> Nat] /\ nextId \in Nat
  /\ status \in [Items -> {"new", "open", "returned", "raised"}]
  /\ pc \in Kinds \cup {"idle", "delete", "commit"}
  /\ batch \subseteq Items /\ ackIds \subseteq Items
  /\ attempt \in 0..MaxRetries /\ waiting \in BOOLEAN
  /\ wire \subseteq Requests /\ reply \in Verdicts
  /\ copies \in [Items -> Nat]
  /\ dropped \subseteq Items /\ refused \subseteq Items

\* No data loss: an item whose enqueue() has returned is in the file, or in the
\* cloud, or was dropped, and dropped is only what was itself in a POST that got a
\* permanent 4xx: whatever is lost, late, repeated or restarted.
NoLoss ==
  /\ \A i \in Items : status[i] = "returned" => i \in disk \cup Settled
  /\ dropped \subseteq refused

\* Recovery ordering: within a kind, nothing overtakes.  While an item is still
\* to be sent, no later one of its kind has been stored or dropped before it.
InOrder ==
  \A i, j \in Items :
    /\ (i \in Alarms) = (j \in Alarms) /\ 0 < posOf[i] /\ posOf[i] < posOf[j]
    /\ i \in conn /\ j \in Settled
    => i \in Settled

\* The channel is never blocked for good: if readings find the cloud reachable
\* too, every row that is in the buffer ends in the cloud, or is dropped with a
\* refused batch; a poison item at the head of the queue does not hold up the
\* others for ever.
EveryItemSettles ==
  Reachable("readings") => \A i \in Items : i \in conn ~> i \in Settled

\* Readings that are never answered do not keep an alarm for good, not even one
\* that comes while they are being retried.
AlarmsSettle == \A i \in Alarms : i \in conn ~> i \in Settled

\* Buffer, transmitter and cloud together implement Delivery.
D == INSTANCE Delivery WITH pending <- disk
DeliverySpec == D!DSpec
-----------------------------------------------------------------------------
(* Statements of the repository's comments that the code does not keep.    *)

\* transmitter.py, class docstring: transmit_once() acks what landed, "so a
\* readings failure never blocks a successful alarm send from being committed": what
\* a cycle has acked has left the buffer when the cycle ends.
LandedIsCommitted ==
  [][pc # "idle" /\ pc' = "idle" /\ ~Crash => ackIds \cap conn' = {}]_vars

\* buffer.py, class docstring: alarms are always drained ahead of readings: no
\* POST of readings goes out while an alarm is left waiting in the buffer.
ReadingsNeverAhead ==
  [][\A m \in wire' \ wire : m.kind = "readings" => Alarms \cap conn \subseteq batch]_vars
=============================================================================
