---------------------------- MODULE ArchiverProofs ----------------------------
(***************************************************************************)
(* Proofs about Archiver, for any rows, days, failures and crashes, and    *)
(* about Charts, which composes it with the policy of the aggregate.       *)
(***************************************************************************)
EXTENDS Charts, FiniteSetTheorems, TLAPS

-----------------------------------------------------------------------------
(* Types.                                                                  *)

LEMMA HotCount ==
  ASSUME TypeOK, NEW d
  PROVE  Cardinality(HotRows(d)) \in 0..Cardinality(Rows)
<1>1. HotRows(d) \subseteq Rows
  BY DEF TypeOK, HotRows, RowsOf
<1> QED
  BY <1>1, ArchiverAssumption, FS_Subset, FS_CardinalityType

LEMMA BrokenType == Broken \in [rows : SUBSET Rows, readable : BOOLEAN]
BY DEF Broken

LEMMA TypeStep == TypeOK /\ [Next]_vars => TypeOK'
<1> SUFFICES ASSUME TypeOK, [Next]_vars PROVE TypeOK'
  OBVIOUS
<1> USE ArchiverAssumption DEF TypeOK, Places, jobVars, Goto, OldestFirst
<1>1. ASSUME NEW r \in Rows, Ingest(r) PROVE TypeOK'
  BY <1>1 DEF Ingest
<1>2. CASE NextDay
  <2>1. cutoff' \in Days /\ cutoff < cutoff' /\ \A d \in Days : d \in Nat
    BY <1>2 DEF NextDay
  <2>2. \A d \in Days : d < cutoff => d < cutoff'
    BY <2>1
  <2> QED
    BY <1>2, <2>1, <2>2 DEF NextDay
<1>3. ASSUME NEW j \in Jobs, Step(j) PROVE TypeOK'
  <2>1. CASE FindEligible(j)
    BY <2>1 DEF FindEligible, Eligible
  <2>2. ASSUME NEW d \in Days, TakeDay(j, d) PROVE TypeOK'
    <3>1. \A e \in todo[j] \ {d} : d < e
      <4> SUFFICES ASSUME NEW e \in todo[j] \ {d} PROVE d < e
        OBVIOUS
      <4>1. d \in Nat /\ e \in Nat /\ d <= e /\ e # d
        BY <2>2 DEF TakeDay
      <4> QED
        BY <4>1
    <3>2. d < cutoff
      BY <2>2 DEF TakeDay
    <3> QED
      BY <2>2, <3>1, <3>2 DEF TakeDay
  <2>3. CASE JobEnds(j)
    BY <2>3 DEF JobEnds
  <2>4. CASE Export(j)
    BY <2>4 DEF Export, HotRows
  <2>5. CASE WriteSucceeds(j)
    BY <2>5 DEF WriteSucceeds, FileOf
  <2>6. CASE WriteTruncates(j) \/ WriteRaises(j)
    <3>1. file' \in [Days -> [rows : SUBSET Rows, readable : BOOLEAN]]
      BY <2>6, BrokenType DEF WriteTruncates, WriteRaises
    <3>2. CASE WriteTruncates(j)
      BY <3>1, <3>2 DEF WriteTruncates
    <3>3. CASE WriteRaises(j)
      BY <3>1, <3>3 DEF WriteRaises
    <3> QED
      BY <2>6, <3>2, <3>3
  <2>7. CASE Count(j)
    BY <2>7, HotCount DEF Count
  <2>8. CASE Compare(j)
    BY <2>8 DEF Compare
  <2>9. CASE DeleteDay(j)
    BY <2>9 DEF DeleteDay
  <2> QED
    BY <1>3, <2>1, <2>2, <2>3, <2>4, <2>5, <2>6, <2>7, <2>8, <2>9 DEF Step, Write
<1>4. ASSUME NEW j \in Jobs, Crash(j) PROVE TypeOK'
  <2>1. file' \in [Days -> [rows : SUBSET Rows, readable : BOOLEAN]]
    BY <1>4, BrokenType DEF Crash
  <2> QED
    BY <1>4, <2>1 DEF Crash
<1>5. CASE UNCHANGED vars
  BY <1>5 DEF vars
<1> QED
  BY <1>1, <1>2, <1>3, <1>4, <1>5 DEF Next

LEMMA TypeInit == Init => TypeOK
<1> SUFFICES ASSUME Init PROVE TypeOK
  OBVIOUS
<1>1. Cardinality(Rows) \in Nat
  BY ArchiverAssumption, FS_CardinalityType
<1>2. file \in [Days -> [rows : SUBSET Rows, readable : BOOLEAN]]
  BY DEF Init, Broken
<1>3. counted \in [Jobs -> 0..Cardinality(Rows)]
  BY <1>1 DEF Init
<1>4. crashes \in 0..MaxCrashes
  BY ArchiverAssumption DEF Init
<1> QED
  BY <1>2, <1>3, <1>4 DEF Init, TypeOK, Places, OldestFirst

\* Every variable keeps its type, and a job at work is at a day before the
\* cutoff and before all days it has left to do.
THEOREM TypeCorrect == Spec => []TypeOK
<1>1. TypeOK /\ [Next]_vars => TypeOK'
  BY TypeStep
<1> QED
  BY TypeInit, <1>1, PTL DEF Spec

\* Only a job's deletion takes rows out of the hot store.
LEMMA OnlyOldLeave ==
  ASSUME TypeOK, [Next]_vars, NEW r \in hot, r \notin hot'
  PROVE  DayOf[r] < cutoff
<1>1. PICK j \in Jobs : DeleteDay(j)
  BY DEF Next, vars, Ingest, NextDay, Step, Write, FindEligible, TakeDay, JobEnds,
     Export, WriteSucceeds, WriteTruncates, WriteRaises, Count, Compare, Crash
<1>2. DayOf[r] = day[j]
  BY <1>1 DEF DeleteDay, RowsOf, TypeOK
<1>3. day[j] < cutoff
  BY <1>1 DEF DeleteDay, TypeOK, OldestFirst
<1> QED
  BY <1>2, <1>3

\* A job deletes only a day before the cutoff it was given, and the cutoff only
\* grows: no row of a day that must be kept leaves the hot store, for any number
\* of overlapping jobs, late rows, failures and crashes.
THEOREM RetainedDaysStay == Spec => RetainedDaysAreKept
<1>1. TypeOK /\ [Next]_vars => [\A r \in hot \ hot' : DayOf[r] < cutoff]_vars
  BY OnlyOldLeave
<1> QED
  BY TypeCorrect, <1>1, PTL DEF Spec, RetainedDaysAreKept
-----------------------------------------------------------------------------
(* One job at a time and no late rows.  A day then either has all its rows *)
(* in the hot store, or none and they are in its file; the rows of a day a *)
(* job works on do not change until the job deletes them.                  *)

StoredRows(d) == stored \cap RowsOf(d)

Whole(d)   == StoredRows(d) \subseteq hot
AgedOut(d) == d < cutoff /\ HotRows(d) = {} /\ StoredRows(d) \subseteq Cold(d)

DaysAreWhole == \A d \in Days : Whole(d) \/ AgedOut(d)

Working(j) == pc[j] \notin {"idle", "next"}
Pending(d) == d < cutoff /\ HotRows(d) # {}

JobsArePending ==
  \A j \in Jobs :
    /\ pc[j] # "idle" => \A d \in todo[j] : Pending(d)
    /\ Working(j) => Pending(day[j]) /\ day[j] \notin todo[j]

CopyIsWhole ==
  \A j \in Jobs :
    /\ pc[j] \in {"write", "count", "compare", "delete"} => copy[j] = HotRows(day[j])
    /\ pc[j] \in {"count", "compare"} => file[day[j]] \in {FileOf(copy[j]), Broken}
    /\ pc[j] = "delete" => file[day[j]] = FileOf(copy[j])

IInv == TypeOK /\ DaysAreWhole /\ JobsArePending /\ CopyIsWhole

LEMMA InitIInv == Init => IInv
BY TypeInit DEF Init, IInv, DaysAreWhole, Whole, StoredRows, JobsArePending,
   Working, CopyIsWhole

\* Steps that leave hot, stored and cutoff alone disturb no day they do not write.
LEMMA SameHot ==
  ASSUME hot' = hot, stored' = stored, cutoff' = cutoff, NEW d
  PROVE  /\ HotRows(d)' = HotRows(d) /\ Whole(d)' = Whole(d)
         /\ Pending(d)' = Pending(d)
         /\ file'[d] = file[d] => AgedOut(d)' = AgedOut(d)
BY DEF HotRows, Whole, StoredRows, Pending, AgedOut, Cold

\* The rows of a pending day are all in the hot store.
LEMMA PendingIsWhole ==
  ASSUME IInv, NEW d \in Days, Pending(d)
  PROVE  Whole(d) /\ ~AgedOut(d)
BY DEF IInv, DaysAreWhole, Pending, AgedOut

LEMMA IngestKeeps ==
  ASSUME ~LateRows, IInv, NEW r \in Rows, Ingest(r)
  PROVE  IInv'
<1>1. TypeOK'
  BY TypeStep DEF IInv, Next
<1>2. \A d \in Days : d < cutoff => DayOf[r] # d
  BY ArchiverAssumption DEF Ingest, IInv, TypeOK
<1>3. \A d \in Days : d < cutoff => HotRows(d)' = HotRows(d) /\ StoredRows(d)' = StoredRows(d)
  BY <1>2 DEF Ingest, HotRows, StoredRows, RowsOf
<1>4. \A d \in Days : Whole(d) => Whole(d)'
  BY DEF Ingest, Whole, StoredRows, RowsOf
<1>5. \A d \in Days : AgedOut(d) => AgedOut(d)'
  BY <1>3 DEF Ingest, AgedOut, Cold
<1>6. \A d \in Days : Pending(d) => Pending(d)'
  BY <1>3 DEF Ingest, Pending
<1>7. DaysAreWhole'
  BY <1>4, <1>5 DEF IInv, DaysAreWhole
<1>8. JobsArePending'
  BY <1>6 DEF IInv, TypeOK, JobsArePending, Working, Ingest, jobVars
<1>9. CopyIsWhole'
  BY <1>3 DEF IInv, TypeOK, JobsArePending, CopyIsWhole, Working, Pending, Ingest,
     jobVars, FileOf, Broken
<1> QED
  BY <1>1, <1>7, <1>8, <1>9 DEF IInv

LEMMA NextDayKeeps ==
  ASSUME IInv, NextDay
  PROVE  IInv'
<1>1. TypeOK'
  BY TypeStep DEF IInv, Next
<1>2. \A d \in Days : d < cutoff => d < cutoff'
  BY ArchiverAssumption DEF NextDay, IInv, TypeOK
<1>3. \A d \in Days : /\ HotRows(d)' = HotRows(d) /\ Whole(d)' = Whole(d)
                      /\ Pending(d) => Pending(d)'
                      /\ AgedOut(d) => AgedOut(d)'
  BY <1>2 DEF NextDay, HotRows, Whole, StoredRows, Pending, AgedOut, Cold
<1> QED
  BY <1>1, <1>3 DEF IInv, TypeOK, DaysAreWhole, JobsArePending, CopyIsWhole, Working,
     NextDay, jobVars, FileOf, Broken

\* A step of the only job.
LEMMA StepKeeps ==
  ASSUME IInv, NEW j \in Jobs, \A i \in Jobs : i = j, Step(j) \/ Crash(j)
  PROVE  IInv'
<1>1. TypeOK'
  BY TypeStep DEF IInv, Next
<1>2. day[j] \in Days /\ \A d \in todo[j] : d \in Days
  BY DEF IInv, TypeOK
<1> USE DEF Goto
<1>3. ASSUME hot' = hot, stored' = stored, cutoff' = cutoff, file' = file,
             JobsArePending', CopyIsWhole'
      PROVE  IInv'
  BY <1>1, <1>3, SameHot DEF IInv, DaysAreWhole
<1>4. ASSUME hot' = hot, stored' = stored, cutoff' = cutoff, pc[j] = "write",
             NEW f, file' = [file EXCEPT ![day[j]] = f],
             JobsArePending', CopyIsWhole'
      PROVE  IInv'
  <2>1. Whole(day[j])
    BY <1>2, <1>4, PendingIsWhole DEF IInv, JobsArePending, Working
  <2>2. \A d \in Days : d # day[j] => file'[d] = file[d]
    BY <1>4 DEF IInv, TypeOK
  <2>3. DaysAreWhole'
    BY <1>4, <2>1, <2>2, SameHot DEF IInv, DaysAreWhole
  <2> QED
    BY <1>1, <1>4, <2>3 DEF IInv
<1>5. CASE FindEligible(j)
  <2>1. pc'[j] = "next" /\ todo'[j] = Eligible
    BY <1>5 DEF FindEligible, IInv, TypeOK
  <2>2. JobsArePending' /\ CopyIsWhole'
    BY <1>5, <2>1, SameHot DEF FindEligible, JobsArePending, CopyIsWhole, Working,
       Eligible, Pending
  <2> QED
    BY <1>3, <1>5, <2>2 DEF FindEligible
<1>6. ASSUME NEW d \in Days, TakeDay(j, d) PROVE IInv'
  <2>1. /\ pc'[j] = "export" /\ day'[j] = d /\ todo'[j] = todo[j] \ {d}
        /\ d \in todo[j] /\ pc[j] = "next"
    BY <1>6 DEF TakeDay, IInv, TypeOK
  <2>2. JobsArePending' /\ CopyIsWhole'
    BY <1>6, <2>1, SameHot DEF TakeDay, IInv, JobsArePending, CopyIsWhole, Working
  <2> QED
    BY <1>3, <1>6, <2>2 DEF TakeDay
<1>7. CASE JobEnds(j)
  <2>1. pc'[j] = "idle"
    BY <1>7 DEF JobEnds, IInv, TypeOK
  <2>2. JobsArePending' /\ CopyIsWhole'
    BY <2>1 DEF JobsArePending, CopyIsWhole, Working
  <2> QED
    BY <1>3, <1>7, <2>2 DEF JobEnds
<1>8. CASE Export(j)
  <2>1. pc'[j] = "write" /\ copy'[j] = HotRows(day[j]) /\ pc[j] = "export"
    BY <1>8 DEF Export, IInv, TypeOK
  <2>2. JobsArePending' /\ CopyIsWhole'
    BY <1>8, <2>1, SameHot DEF Export, IInv, JobsArePending, CopyIsWhole, Working
  <2> QED
    BY <1>3, <1>8, <2>2 DEF Export
<1>9. CASE WriteSucceeds(j) \/ WriteTruncates(j)
  <2>1. pc'[j] = "count" /\ pc[j] = "write"
    BY <1>9 DEF WriteSucceeds, WriteTruncates, IInv, TypeOK
  <2>2. PICK f \in {FileOf(copy[j]), Broken} : file' = [file EXCEPT ![day[j]] = f]
    BY <1>9 DEF WriteSucceeds, WriteTruncates
  <2>3. file'[day[j]] \in {FileOf(copy[j]), Broken}
    BY <1>2, <2>2 DEF IInv, TypeOK
  <2>4. /\ hot' = hot /\ stored' = stored /\ cutoff' = cutoff
        /\ todo' = todo /\ day' = day /\ copy' = copy
    BY <1>9 DEF WriteSucceeds, WriteTruncates
  <2>5. JobsArePending' /\ CopyIsWhole'
    BY <2>1, <2>3, <2>4, SameHot DEF IInv, JobsArePending, CopyIsWhole, Working,
       FileOf, Broken
  <2> QED
    BY <1>4, <2>1, <2>2, <2>4, <2>5
<1>10. CASE WriteRaises(j)
  <2>1. pc'[j] = "next" /\ pc[j] = "write"
    BY <1>10 DEF WriteRaises, IInv, TypeOK
  <2>2. JobsArePending' /\ CopyIsWhole'
    BY <1>10, <2>1, SameHot DEF WriteRaises, IInv, JobsArePending, CopyIsWhole, Working
  <2> QED
    BY <1>4, <1>10, <2>1, <2>2 DEF WriteRaises
<1>11. CASE Count(j)
  <2>1. pc'[j] = "compare" /\ pc[j] = "count"
    BY <1>11 DEF Count, IInv, TypeOK
  <2>2. JobsArePending' /\ CopyIsWhole'
    BY <1>11, <2>1, SameHot DEF Count, IInv, JobsArePending, CopyIsWhole, Working,
       FileOf, Broken
  <2> QED
    BY <1>3, <1>11, <2>2 DEF Count
<1>12. CASE Compare(j)
  <2>1. pc[j] = "compare" /\ pc'[j] = IF CountsMatch(j) THEN "delete" ELSE "next"
    BY <1>12 DEF Compare, IInv, TypeOK
  <2>2. CountsMatch(j) => file[day[j]] = FileOf(copy[j])
    BY <2>1 DEF CountsMatch, IInv, CopyIsWhole, Broken
  <2>3. JobsArePending'
    BY <1>12, <2>1, SameHot DEF Compare, IInv, JobsArePending, Working
  <2>4. CopyIsWhole'
    <3>1. /\ hot' = hot /\ stored' = stored /\ cutoff' = cutoff
          /\ file' = file /\ day' = day /\ copy' = copy
      BY <1>12 DEF Compare
    <3>2. HotRows(day[j])' = HotRows(day[j])
      BY <3>1, SameHot
    <3>3. copy[j] = HotRows(day[j])
      BY <2>1 DEF IInv, CopyIsWhole
    <3>4. CASE CountsMatch(j)
      BY <2>1, <2>2, <3>1, <3>2, <3>3, <3>4 DEF CopyIsWhole, FileOf
    <3>5. CASE ~CountsMatch(j)
      BY <2>1, <3>5 DEF CopyIsWhole
    <3> QED
      BY <3>4, <3>5
  <2> QED
    BY <1>3, <1>12, <2>3, <2>4 DEF Compare
<1>13. CASE DeleteDay(j)
  <2>1. pc[j] = "delete" /\ pc'[j] = "next"
    BY <1>13 DEF DeleteDay, IInv, TypeOK
  <2>2. Whole(day[j]) /\ Pending(day[j])
    BY <1>2, <2>1, PendingIsWhole DEF IInv, JobsArePending, Working
  <2>3. StoredRows(day[j]) \subseteq Cold(day[j])
    <3>1. file[day[j]] = FileOf(HotRows(day[j]))
      BY <2>1 DEF IInv, CopyIsWhole
    <3>2. Cold(day[j]) = HotRows(day[j])
      BY <3>1 DEF Cold, FileOf
    <3> QED
      BY <2>2, <3>2 DEF Whole, StoredRows, HotRows
  <2>4. ASSUME NEW d \in Days, d = day[j] PROVE AgedOut(d)'
    BY <1>13, <2>2, <2>3, <2>4 DEF DeleteDay, AgedOut, Pending, HotRows, StoredRows, Cold
  <2>5. \A d \in Days : d # day[j] =>
          HotRows(d)' = HotRows(d) /\ Whole(d)' = Whole(d) /\ AgedOut(d)' = AgedOut(d)
    BY <1>13 DEF DeleteDay, HotRows, RowsOf, Whole, StoredRows, AgedOut, Cold
  <2>6. DaysAreWhole'
    <3> SUFFICES ASSUME NEW d \in Days PROVE Whole(d)' \/ AgedOut(d)'
      BY DEF DaysAreWhole
    <3>1. CASE d = day[j]
      BY <2>4, <3>1
    <3>2. CASE d # day[j]
      BY <2>5, <3>2 DEF IInv, DaysAreWhole
    <3> QED
      BY <3>1, <3>2
  <2>7. JobsArePending' /\ CopyIsWhole'
    BY <1>2, <1>13, <2>1, <2>5 DEF DeleteDay, IInv, JobsArePending, CopyIsWhole,
       Working, Pending
  <2> QED
    BY <1>1, <2>6, <2>7 DEF IInv
<1>14. CASE Crash(j)
  <2>1. pc'[j] = "idle"
    BY <1>14 DEF Crash, IInv, TypeOK
  <2>2. JobsArePending' /\ CopyIsWhole'
    BY <2>1 DEF JobsArePending, CopyIsWhole, Working
  <2>3. CASE file' = file
    BY <1>3, <1>14, <2>2, <2>3 DEF Crash
  <2>4. CASE pc[j] = "write" /\ file' = [file EXCEPT ![day[j]] = Broken]
    BY <1>4, <1>14, <2>2, <2>4 DEF Crash
  <2> QED
    BY <1>14, <2>3, <2>4 DEF Crash
<1> QED
  BY <1>5, <1>6, <1>7, <1>8, <1>9, <1>10, <1>11, <1>12, <1>13, <1>14 DEF Step, Write

\* When jobs do not overlap and no row older than the cutoff is ingested, no
\* reading vanishes: through failed, truncated and interrupted writes it is in the
\* hot store or in the file of its day.
THEOREM NoReadingVanishes ==
  ASSUME ~LateRows, \A i, j \in Jobs : i = j
  PROVE  Spec => []NothingVanishes
<1>1. IInv /\ [Next]_vars => IInv'
  <2> SUFFICES ASSUME IInv, [Next]_vars PROVE IInv'
    OBVIOUS
  <2>1. CASE UNCHANGED vars
    BY <2>1 DEF vars, jobVars, IInv, TypeOK, OldestFirst, DaysAreWhole, Whole, StoredRows,
       AgedOut, HotRows, Cold, JobsArePending, Working, Pending, CopyIsWhole
  <2> QED
    BY <2>1, IngestKeeps, NextDayKeeps, StepKeeps DEF Next
<1>2. IInv => NothingVanishes
  <2> SUFFICES ASSUME IInv, NEW r \in stored PROVE r \in hot \cup Cold(DayOf[r])
    BY DEF NothingVanishes
  <2>1. DayOf[r] \in Days /\ r \in StoredRows(DayOf[r])
    BY ArchiverAssumption DEF IInv, TypeOK, StoredRows, RowsOf
  <2> QED
    BY <2>1 DEF IInv, DaysAreWhole, Whole, AgedOut
<1> QED
  BY InitIInv, <1>1, <1>2, PTL DEF Spec
-----------------------------------------------------------------------------
(* The continuous aggregate beside the archiver.  The window of the policy *)
(* lies within the days that are kept, so its rows are all still hot.      *)

LEMMA DivDef ==
  ASSUME NEW n \in Nat, NEW k \in Nat \ {0}
  PROVE  n \div k \in Nat /\ k * (n \div k) <= n /\ n < k * (n \div k) + k
BY SMT

\* One bucket on, it is the same day or the next.
LEMMA DivStep ==
  ASSUME NEW n \in Nat, NEW k \in Nat \ {0}
  PROVE  (n + 1) \div k \in {n \div k, n \div k + 1}
BY DivDef, SMT

\* A bucket less than d days ago is of a day at most d days ago.
LEMMA DivWithin ==
  ASSUME NEW n \in Nat, NEW k \in Nat \ {0}, NEW m \in Nat, NEW d \in Nat, n < m + d * k
  PROVE  n \div k <= m \div k + d
BY DivDef, SMT

\* The archiver's cutoff is RetentionDays before the day of the present.
CutoffFollows == DayOfBucket(clock) = cutoff + RetentionDays

\* A charted row that is not hot any more is older than the window.
ChartedIsSafe == \A r \in charted : r \in hot \/ BucketOf[r] + StartOffset <= clock

ChartsIInv ==
  /\ TypeOK
  /\ clock \in Nat /\ idle \in 0..MaxDelay
  /\ charted \subseteq Rows /\ onTime \subseteq Rows
  /\ CutoffFollows
  /\ ChartedIsSafe

LEMMA ChartsInitIInv == ChartsInit => ChartsIInv
<1> SUFFICES ASSUME ChartsInit PROVE ChartsIInv
  OBVIOUS
<1>1. TypeOK
  BY TypeInit DEF ChartsInit
<1>2. cutoff \in Nat
  BY ArchiverAssumption DEF ChartsInit, Init
<1>3. cutoff + RetentionDays \in Nat
  BY <1>2, ChartsAssumption
<1>4. clock \in Nat /\ clock \div BucketsPerDay = cutoff + RetentionDays
  BY <1>3, ChartsAssumption, DivDef DEF ChartsInit
<1> QED
  BY <1>1, <1>4, ChartsAssumption
  DEF ChartsInit, ChartsIInv, CutoffFollows, ChartedIsSafe, DayOfBucket

\* Whatever the charts do, the archiver and its readings take a step of Archiver
\* or none.
LEMMA ChartsStepIsArchivers == [ChartsNext]_allVars => [Next]_vars
BY DEF ChartsNext, allVars, Receive, Tick, Refresh, ArchiverRuns, ArchiverDies, Next

\* A row whose bucket is younger than the window's start is of a day that is kept.
LEMMA WindowIsKept ==
  ASSUME ChartsIInv, NEW r \in Rows, clock < BucketOf[r] + StartOffset
  PROVE  cutoff <= DayOf[r]
<1>1. /\ BucketOf[r] \in Nat /\ clock \in Nat /\ cutoff \in Nat
      /\ DayOf[r] = BucketOf[r] \div BucketsPerDay
      /\ clock \div BucketsPerDay = cutoff + RetentionDays
  BY ChartsAssumption, ArchiverAssumption
  DEF ChartsIInv, TypeOK, CutoffFollows, DayOfBucket
<1>2. RetentionDays * BucketsPerDay \in Nat /\ StartOffset <= RetentionDays * BucketsPerDay
  BY ChartsAssumption
<1>3. clock < BucketOf[r] + RetentionDays * BucketsPerDay
  BY <1>1, <1>2, ChartsAssumption
<1>4. clock \div BucketsPerDay <= BucketOf[r] \div BucketsPerDay + RetentionDays
  BY <1>1, <1>3, ChartsAssumption, DivWithin
<1>5. BucketOf[r] \div BucketsPerDay \in Nat
  BY <1>1, ChartsAssumption, DivDef
<1> QED
  BY <1>1, <1>4, <1>5, ChartsAssumption

LEMMA ChartsStepKeeps ==
  ASSUME ChartsIInv, [ChartsNext]_allVars
  PROVE  ChartsIInv'
<1>1. TypeOK'
  BY TypeStep, ChartsStepIsArchivers DEF ChartsIInv
<1>2. ASSUME UNCHANGED <<clock, idle, charted>>, onTime' \subseteq Rows, cutoff' = cutoff,
             \A r \in hot \ hot' : DayOf[r] < cutoff
      PROVE  ChartsIInv'
  <2>1. ASSUME NEW r \in charted
        PROVE  r \in hot' \/ BucketOf[r] + StartOffset <= clock
    <3>1. CASE r \in hot /\ clock < BucketOf[r] + StartOffset
      <4>1. cutoff <= DayOf[r] /\ DayOf[r] \in Nat /\ cutoff \in Nat
        BY <3>1, WindowIsKept, ArchiverAssumption DEF ChartsIInv, TypeOK
      <4> QED
        BY <1>2, <3>1, <4>1
    <3>2. BucketOf[r] \in Nat /\ clock \in Nat /\ StartOffset \in Nat
      BY ChartsAssumption DEF ChartsIInv
    <3> QED
      BY <3>1, <3>2 DEF ChartsIInv, ChartedIsSafe
  <2> QED
    BY <1>1, <1>2, <2>1
    DEF ChartsIInv, CutoffFollows, DayOfBucket, ChartedIsSafe
<1>3. ASSUME NEW r \in Rows, Receive(r) PROVE ChartsIInv'
  <2>1. onTime' \subseteq Rows
    BY <1>3 DEF Receive, ChartsIInv
  <2> QED
    BY <1>2, <1>3, <2>1 DEF Receive, Ingest
<1>4. CASE Tick
  <2>1. clock \in Nat /\ clock' = clock + 1 /\ idle' \in 0..MaxDelay
        /\ charted' = charted /\ onTime' = onTime
    BY <1>4, ChartsAssumption DEF Tick, ChartsIInv
  <2>2. hot' = hot
    BY <1>4 DEF Tick, NextDay, vars
  <2>3. ChartedIsSafe'
    <3> SUFFICES ASSUME NEW r \in charted
                 PROVE  r \in hot \/ BucketOf[r] + StartOffset <= clock + 1
      BY <2>1, <2>2 DEF ChartedIsSafe
    <3>1. BucketOf[r] \in Nat /\ StartOffset \in Nat
      BY ChartsAssumption DEF ChartsIInv
    <3> QED
      BY <2>1, <3>1 DEF ChartsIInv, ChartedIsSafe
  <2>4. CutoffFollows'
    <3>1. clock' \div BucketsPerDay \in {clock \div BucketsPerDay, clock \div BucketsPerDay + 1}
      BY <2>1, ChartsAssumption, DivStep
    <3>2. cutoff \in Nat /\ RetentionDays \in Nat /\ clock \div BucketsPerDay = cutoff + RetentionDays
      BY ArchiverAssumption, ChartsAssumption
      DEF ChartsIInv, TypeOK, CutoffFollows, DayOfBucket
    <3> DEFINE newDay == clock' \div BucketsPerDay > clock \div BucketsPerDay
    <3>3. CASE newDay
      <4>1. cutoff' = cutoff + 1
        BY <1>4, <2>1, <3>3 DEF Tick, NextDay, DayOfBucket
      <4> QED
        BY <3>1, <3>2, <3>3, <4>1 DEF CutoffFollows, DayOfBucket
    <3>4. CASE ~newDay
      <4>1. cutoff' = cutoff
        BY <1>4, <2>1, <3>4 DEF Tick, DayOfBucket, vars
      <4> QED
        BY <3>1, <3>2, <3>4, <4>1 DEF CutoffFollows, DayOfBucket
    <3> QED
      BY <3>3, <3>4
  <2> QED
    BY <1>1, <2>1, <2>3, <2>4 DEF ChartsIInv
<1>5. CASE Refresh
  <2>1. hot' = hot /\ clock' = clock /\ cutoff' = cutoff /\ idle' = 0 /\ onTime' = onTime
    BY <1>5 DEF Refresh, vars
  <2>2. charted' \subseteq charted \cup hot
    BY <1>5 DEF Refresh
  <2> QED
    BY <1>1, <2>1, <2>2, ChartsAssumption
    DEF ChartsIInv, CutoffFollows, DayOfBucket, ChartedIsSafe, TypeOK
<1>6. ASSUME NEW j \in Jobs, ArchiverRuns(j) \/ ArchiverDies(j) PROVE ChartsIInv'
  <2>1. UNCHANGED chartVars /\ cutoff' = cutoff
    BY <1>6
    DEF ArchiverRuns, ArchiverDies, chartVars, Step, Write, FindEligible, TakeDay, JobEnds, Export,
        WriteSucceeds, WriteTruncates, WriteRaises, Count, Compare, DeleteDay, Crash
  <2>2. \A r \in hot \ hot' : DayOf[r] < cutoff
    BY <1>6, OnlyOldLeave, ChartsStepIsArchivers
    DEF ChartsIInv, ArchiverRuns, ArchiverDies, Next
  <2> QED
    BY <1>2, <2>1, <2>2 DEF chartVars, ChartsIInv
<1>7. CASE UNCHANGED allVars
  BY <1>2, <1>7 DEF allVars, vars, chartVars, ChartsIInv
<1> QED
  BY <1>3, <1>4, <1>5, <1>6, <1>7 DEF ChartsNext

LEMMA ChartsInvariant == ChartsSpec => []ChartsIInv
<1>1. ChartsIInv /\ [ChartsNext]_allVars => ChartsIInv'
  BY ChartsStepKeeps
<1> QED
  BY ChartsInitIInv, <1>1, PTL DEF ChartsSpec

\* The archiver beside the aggregate is the archiver: whatever is proved of the
\* one holds of the other.
THEOREM ChartsKeepArchiver == ChartsSpec => Spec
<1>1. ChartsInit => Init
  BY DEF ChartsInit
<1> QED
  BY <1>1, ChartsStepIsArchivers, PTL DEF ChartsSpec, Spec

LEMMA ChartedStaysStep ==
  ASSUME ChartsIInv, [ChartsNext]_allVars
  PROVE  charted \subseteq charted'
<1>1. CASE Refresh
  <2>1. ASSUME NEW r \in charted, InWindow(BucketOf[r]) PROVE r \in hot
    <3>1. BucketOf[r] \in Nat /\ clock \in Nat /\ StartOffset \in Nat
      BY ChartsAssumption DEF ChartsIInv
    <3> QED
      BY <2>1, <3>1 DEF InWindow, ChartsIInv, ChartedIsSafe
  <2> QED
    BY <1>1, <2>1 DEF Refresh
<1>2. CASE ~Refresh
  BY <1>2
  DEF ChartsNext, allVars, chartVars, Receive, Tick, ArchiverRuns, ArchiverDies
<1> QED
  BY <1>1, <1>2

\* What a chart shows stays, also after its rows went to cold storage, for any
\* policy whose window is no longer than the retention, and any clock.
THEOREM ChartsLoseNothing == ChartsSpec => ChartedStays
<1>1. ChartsIInv /\ [ChartsNext]_allVars => [charted \subseteq charted']_allVars
  BY ChartedStaysStep
<1> QED
  BY ChartsInvariant, <1>1, PTL DEF ChartsSpec, ChartedStays

\* A hot row that the policy still reaches is taken in by its next run, or reached by
\* one after it: it is hot until then.
LEMMA ReachedRowStep ==
  ASSUME ChartsIInv, [ChartsNext]_allVars, NEW r \in hot, InReach(r)
  PROVE  r \in charted' \/ (r \in hot' /\ InReach(r)')
<1>1. /\ BucketOf[r] \in Nat /\ clock \in Nat /\ idle \in 0..MaxDelay /\ r \in Rows
      /\ StartOffset \in Nat /\ EndOffset \in Nat /\ MaxDelay \in Nat
      /\ EndOffset + MaxDelay < StartOffset
  BY ChartsAssumption DEF ChartsIInv, TypeOK
<1>2. r \in hot'
  <2>1. clock < BucketOf[r] + StartOffset
    BY <1>1 DEF InReach
  <2>2. cutoff <= DayOf[r] /\ DayOf[r] \in Nat /\ cutoff \in Nat
    BY <1>1, <2>1, WindowIsKept, ArchiverAssumption DEF ChartsIInv, TypeOK
  <2>3. \A q \in hot \ hot' : DayOf[q] < cutoff
    BY OnlyOldLeave, ChartsStepIsArchivers DEF ChartsIInv, vars
  <2> QED
    BY <2>2, <2>3
<1>3. CASE Tick
  <2>1. clock' = clock + 1 /\ idle' = idle + 1
    BY <1>3 DEF Tick
  <2>2. InReach(r)'
    BY <1>1, <2>1 DEF InReach
  <2> QED
    BY <1>2, <2>2
<1>4. CASE Refresh
  <2>1. clock' = clock /\ idle' = 0
    BY <1>4 DEF Refresh
  <2>2. CASE InWindow(BucketOf[r])
    BY <1>4, <2>2 DEF Refresh
  <2>3. CASE ~InWindow(BucketOf[r])
    <3>1. InReach(r)'
      BY <1>1, <2>1, <2>3 DEF InReach, InWindow
    <3> QED
      BY <1>2, <3>1
  <2> QED
    BY <2>2, <2>3
<1>5. CASE UNCHANGED <<clock, idle>>
  BY <1>2, <1>5 DEF InReach
<1> QED
  BY <1>3, <1>4, <1>5
  DEF ChartsNext, allVars, chartVars, Receive, ArchiverRuns, ArchiverDies

LEMMA OnTimeStep ==
  ASSUME ChartsIInv, OnTimeIsCharted, [ChartsNext]_allVars
  PROVE  OnTimeIsCharted'
<1>1. ASSUME NEW r \in onTime PROVE r \in charted' \/ (r \in hot' /\ InReach(r)')
  <2>1. CASE r \in charted
    BY <2>1, ChartedStaysStep
  <2>2. CASE r \in hot /\ InReach(r)
    BY <2>2, ReachedRowStep
  <2> QED
    BY <2>1, <2>2 DEF OnTimeIsCharted
<1>2. ASSUME NEW q \in Rows, Receive(q), NEW r \in onTime' \ onTime
      PROVE  r \in hot' /\ InReach(r)'
  <2>1. r = q /\ InReach(q)
    BY <1>2 DEF Receive
  <2>2. q \in hot' /\ clock' = clock /\ idle' = idle
    BY <1>2 DEF Receive, Ingest
  <2> QED
    BY <2>1, <2>2 DEF InReach
<1>3. ASSUME \A q \in Rows : ~Receive(q) PROVE onTime' = onTime
  BY <1>3 DEF ChartsNext, allVars, chartVars, Tick, Refresh, ArchiverRuns, ArchiverDies
<1> QED
  BY <1>1, <1>2, <1>3 DEF OnTimeIsCharted

\* A reading that is stored in time gets into the charts: until a run of the policy has
\* taken it in, it is in the hot store and a run is still to come that reaches it,
\* whatever the archiver does meanwhile, for any policy that ChartsAssumption allows.
THEOREM OnTimeRowsAreCharted == ChartsSpec => []OnTimeIsCharted
<1>1. ChartsInit => OnTimeIsCharted
  BY DEF ChartsInit, OnTimeIsCharted
<1>2. ChartsIInv /\ OnTimeIsCharted /\ [ChartsNext]_allVars => OnTimeIsCharted'
  BY OnTimeStep
<1> QED
  BY ChartsInvariant, <1>1, <1>2, PTL DEF ChartsSpec

\* With one job and no late rows no reading vanishes beside the aggregate either,
\* and no row of a day that must be kept leaves the hot store.
THEOREM ChartsKeepReadings ==
  ASSUME ~LateRows, \A i, j \in Jobs : i = j
  PROVE  ChartsSpec => []NothingVanishes /\ RetainedDaysAreKept
BY ChartsKeepArchiver, NoReadingVanishes, RetainedDaysStay, PTL
=============================================================================
