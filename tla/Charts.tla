--------------------------------- MODULE Charts ---------------------------------
(***************************************************************************)
(* The continuous aggregate readings_1min beside the archiver.  A policy   *)
(* of TimescaleDB recomputes, run by run, the buckets of a sliding window  *)
(* out of the rows that are in the hot store; the charts read only what it *)
(* has written.  Rows come late when a collector drains its buffer after   *)
(* an outage, and leave the hot store when their day is archived: neither  *)
(* may cost the chart a point it has.                                      *)
(*                                                                         *)
(* Time is counted in buckets.  The aggregate is seen as the rows that its *)
(* buckets have taken in.                                                  *)
(***************************************************************************)
EXTENDS Archiver

CONSTANTS
  BucketOf,         \* the bucket of each row's timestamp
  BucketsPerDay,
  RetentionDays,    \* RETENTION of the archiver
  StartOffset, EndOffset,   \* of the policy, in buckets
  MaxDelay          \* at most so many buckets lie between two runs of the policy

DayOfBucket(b) == b \div BucketsPerDay

ASSUME ChartsAssumption ==
  /\ BucketsPerDay \in Nat \ {0} /\ RetentionDays \in Nat
  /\ StartOffset \in Nat /\ EndOffset \in Nat /\ MaxDelay \in Nat \ {0}
  /\ BucketOf \in [Rows -> Nat]
  /\ \A r \in Rows : DayOf[r] = DayOfBucket(BucketOf[r])
  /\ EndOffset + MaxDelay < StartOffset
  /\ StartOffset <= RetentionDays * BucketsPerDay

VARIABLES
  clock,     \* the bucket of the present
  idle,      \* buckets since the policy ran last
  charted,   \* rows that are part of readings_1min
  onTime     \* history: rows that were stored while the policy reached their bucket

chartVars == <<clock, idle, charted, onTime>>
allVars == <<vars, chartVars>>

\* WITH NO DATA.
ChartsInit ==
  /\ Init
  /\ clock = (cutoff + RetentionDays) * BucketsPerDay
  /\ idle = 0 /\ charted = {} /\ onTime = {}
-----------------------------------------------------------------------------
\* The next run of the policy comes before its window has left the row behind.
InReach(r) == clock + (MaxDelay - idle) < BucketOf[r] + StartOffset

\* No reading is of the future.
Receive(r) ==
  /\ BucketOf[r] <= clock
  /\ Ingest(r)
  /\ onTime' = IF InReach(r) THEN onTime \cup {r} ELSE onTime
  /\ UNCHANGED <<clock, idle, charted>>

\* The policy is run often enough.  The cutoff follows the clock by whole days.
Tick ==
  /\ idle < MaxDelay
  /\ clock' = clock + 1 /\ idle' = idle + 1
  /\ IF DayOfBucket(clock + 1) > DayOfBucket(clock) THEN NextDay ELSE UNCHANGED vars
  /\ UNCHANGED <<charted, onTime>>

WholeHistory(b) ==              \* mutant: start_offset => NULL
  b + EndOffset < clock

OneInterval(b) ==               \* mutant: a window no longer than the schedule interval
  clock - MaxDelay < b /\ b + EndOffset < clock

\* The buckets that lie wholly between now - start_offset and now - end_offset.
InWindow(b) ==
  clock - StartOffset < b /\ b + EndOffset < clock

\* Those buckets are what the hot store has now; the others are not touched.
Refresh ==
  /\ charted' = {r \in charted : ~InWindow(BucketOf[r])}
                  \cup {r \in hot : InWindow(BucketOf[r])}
  /\ idle' = 0
  /\ UNCHANGED <<vars, clock, onTime>>

ArchiverRuns(j) == Step(j) /\ UNCHANGED chartVars
ArchiverDies(j) == Crash(j) /\ UNCHANGED chartVars

ChartsNext ==
  \/ \E r \in Rows : Receive(r)
  \/ Tick \/ Refresh
  \/ \E j \in Jobs : ArchiverRuns(j) \/ ArchiverDies(j)

\* The scheduler starts the archiver again and again, it runs on, and a write that
\* is tried again and again succeeds in the end, but for the bad days.
ChartsSpec ==
  /\ ChartsInit /\ [][ChartsNext]_allVars
  /\ \A j \in Jobs :
       /\ WF_allVars(ArchiverRuns(j))
       /\ \A d \in Days : SF_allVars(day[j] = d /\ WriteSucceeds(j) /\ UNCHANGED chartVars)
-----------------------------------------------------------------------------
\* What a chart shows stays, also after its rows went to cold storage: the window
\* of the policy never reaches a day that the archiver has deleted.
ChartedStays == [][charted \subseteq charted']_allVars

\* A reading that is stored while the policy still reaches its bucket is in the charts,
\* or waits in the hot store for a run that is not too late: no run passes it by, and
\* the archiver does not take it first.
OnTimeIsCharted ==
  \A r \in onTime : r \in charted \/ (r \in hot /\ InReach(r))
-----------------------------------------------------------------------------
(* A statement of the migration and the design that the code does not keep. *)

\* The charts lose no reading, however late it reaches the cloud.
LateIsCharted == \A r \in hot : r \in charted \/ InReach(r)
=============================================================================
