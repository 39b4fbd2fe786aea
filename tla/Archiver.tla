-------------------------------- MODULE Archiver --------------------------------
(***************************************************************************)
(* Ageing readings out of the hot store: run_archival_job() copies every   *)
(* day before the retention cutoff to a Parquet file, compares the row     *)
(* counts and deletes the day.  Every statement is a transaction of its    *)
(* own; ingestion goes on beside it, jobs may crash, and a write may fail  *)
(* or leave a file that cannot be read.                                    *)
(***************************************************************************)
EXTENDS Naturals, FiniteSets

CONSTANTS
  Rows,            \* primary keys of readings
  Days,            \* UTC days, 1..n
  DayOf,           \* the day of each row
  Jobs,            \* invocations of the script that may overlap
  BadDays,         \* days whose file can never be written
  LateRows,        \* environment: rows older than the cutoff are ingested
  MaxCrashes       \* bound

ASSUME ArchiverAssumption ==
  /\ Days \subseteq Nat
  /\ DayOf \in [Rows -> Days]
  /\ IsFiniteSet(Rows)
  /\ BadDays \subseteq Days
  /\ LateRows \in BOOLEAN
  /\ MaxCrashes \in Nat

VARIABLES
  hot,      \* rows of the table readings
  file,     \* each day's Parquet file: its rows, and whether it can be read
  cutoff,   \* first day that must be kept
  pc,       \* where each job is
  todo,     \* days a job has found and not tried yet
  day,      \* the day it is at
  copy,     \* rows it has exported
  counted,  \* the hot store's row count it has read
  crashes,
  stored    \* history: every row that ever was in the hot store

jobVars == <<pc, todo, day, copy, counted, crashes>>
vars == <<hot, file, cutoff, jobVars, stored>>

FileOf(rs) == [rows |-> rs, readable |-> TRUE]
Broken == [rows |-> {}, readable |-> FALSE]

RowsOf(d) == {r \in Rows : DayOf[r] = d}
HotRows(d) == hot \cap RowsOf(d)

Init ==
  /\ hot = {} /\ stored = {}
  /\ file = [d \in Days |-> Broken]
  /\ cutoff \in Days
  /\ pc = [j \in Jobs |-> "idle"] /\ todo = [j \in Jobs |-> {}]
  /\ day \in [Jobs -> Days]
  /\ copy = [j \in Jobs |-> {}] /\ counted = [j \in Jobs |-> 0]
  /\ crashes = 0
-----------------------------------------------------------------------------
(* The rest of the system.                                                 *)

\* INSERT .. ON CONFLICT DO NOTHING; usually the rows are less than a year old.
Ingest(r) ==
  /\ LateRows \/ DayOf[r] >= cutoff
  /\ hot' = hot \cup {r} /\ stored' = stored \cup {r}
  /\ UNCHANGED <<file, cutoff, jobVars>>

NextDay ==
  /\ cutoff + 1 \in Days
  /\ cutoff' = cutoff + 1
  /\ UNCHANGED <<hot, file, jobVars, stored>>
-----------------------------------------------------------------------------
(* run_archival_job() and archive_partition().                             *)

Goto(j, place) == pc' = [pc EXCEPT ![j] = place]

EligibleWithCutoff ==           \* mutant: the day of the cutoff is not kept
  {d \in Days : d <= cutoff /\ HotRows(d) # {}}

\* SELECT DISTINCT date_trunc('day', ..) WHERE timestamp_utc < cutoff
Eligible == {d \in Days : d < cutoff /\ HotRows(d) # {}}

FindEligible(j) ==
  /\ pc[j] = "idle"
  /\ Eligible # {}
  /\ todo' = [todo EXCEPT ![j] = Eligible]
  /\ Goto(j, "next")
  /\ UNCHANGED <<hot, file, cutoff, day, copy, counted, crashes, stored>>

\* Oldest first.
TakeDay(j, d) ==
  /\ pc[j] = "next"
  /\ d \in todo[j] /\ \A e \in todo[j] : d <= e
  /\ todo' = [todo EXCEPT ![j] = @ \ {d}]
  /\ day' = [day EXCEPT ![j] = d]
  /\ Goto(j, "export")
  /\ UNCHANGED <<hot, file, cutoff, copy, counted, crashes, stored>>

JobEnds(j) ==
  /\ pc[j] = "next"
  /\ todo[j] = {}
  /\ Goto(j, "idle")
  /\ UNCHANGED <<hot, file, cutoff, todo, day, copy, counted, crashes, stored>>

Export(j) ==
  /\ pc[j] = "export"
  /\ copy' = [copy EXCEPT ![j] = HotRows(day[j])]
  /\ Goto(j, "write")
  /\ UNCHANGED <<hot, file, cutoff, todo, day, counted, crashes, stored>>

WriteSucceeds(j) ==
  /\ pc[j] = "write"
  /\ day[j] \notin BadDays
  /\ file' = [file EXCEPT ![day[j]] = FileOf(copy[j])]
  /\ Goto(j, "count")
  /\ UNCHANGED <<hot, cutoff, todo, day, copy, counted, crashes, stored>>

\* The file is written, but truncated.
WriteTruncates(j) ==
  /\ pc[j] = "write"
  /\ file' = [file EXCEPT ![day[j]] = Broken]
  /\ Goto(j, "count")
  /\ UNCHANGED <<hot, cutoff, todo, day, copy, counted, crashes, stored>>

JobAborts(j) ==                 \* mutant: one failure ends the job
  /\ pc[j] = "write"
  /\ file' = [file EXCEPT ![day[j]] = Broken]
  /\ todo' = [todo EXCEPT ![j] = {}]
  /\ Goto(j, "next")
  /\ UNCHANGED <<hot, cutoff, day, copy, counted, crashes, stored>>

\* The write raises; the job goes on with the next day.
WriteRaises(j) ==
  /\ pc[j] = "write"
  /\ file' = [file EXCEPT ![day[j]] = Broken]
  /\ Goto(j, "next")
  /\ UNCHANGED <<hot, cutoff, todo, day, copy, counted, crashes, stored>>

Count(j) ==
  /\ pc[j] = "count"
  /\ counted' = [counted EXCEPT ![j] = Cardinality(HotRows(day[j]))]
  /\ Goto(j, "compare")
  /\ UNCHANGED <<hot, file, cutoff, todo, day, copy, crashes, stored>>

FileExists(j) == TRUE           \* mutant: any file will do

\* The row count read back out of the file.
CountsMatch(j) ==
  file[day[j]].readable /\ Cardinality(file[day[j]].rows) = counted[j]

Compare(j) ==
  /\ pc[j] = "compare"
  /\ Goto(j, IF CountsMatch(j) THEN "delete" ELSE "next")
  /\ UNCHANGED <<hot, file, cutoff, todo, day, copy, counted, crashes, stored>>

DeleteDay(j) ==
  /\ pc[j] = "delete"
  /\ hot' = hot \ RowsOf(day[j])
  /\ Goto(j, "next")
  /\ UNCHANGED <<file, cutoff, todo, day, copy, counted, crashes, stored>>

\* The process dies, maybe in the middle of a write.
Crash(j) ==
  /\ pc[j] # "idle" /\ crashes < MaxCrashes
  /\ crashes' = crashes + 1
  /\ \/ file' = file
     \/ pc[j] = "write" /\ file' = [file EXCEPT ![day[j]] = Broken]
  /\ Goto(j, "idle")
  /\ todo' = [todo EXCEPT ![j] = {}]
  /\ UNCHANGED <<hot, cutoff, day, copy, counted, stored>>

Write(j) == WriteSucceeds(j) \/ WriteTruncates(j) \/ WriteRaises(j)

Step(j) ==
  \/ FindEligible(j) \/ \E d \in Days : TakeDay(j, d)
  \/ JobEnds(j)
  \/ Export(j) \/ Write(j) \/ Count(j) \/ Compare(j) \/ DeleteDay(j)

Next ==
  \/ \E r \in Rows : Ingest(r)
  \/ NextDay
  \/ \E j \in Jobs : Step(j) \/ Crash(j)

Spec == Init /\ [][Next]_vars
-----------------------------------------------------------------------------
Places == {"idle", "next", "export", "write", "count", "compare", "delete"}

\* A job is at an old day, and all the old days left are after it.
OldestFirst(j) ==
  /\ pc[j] # "idle" => \A d \in todo[j] : d < cutoff
  /\ pc[j] \notin {"idle", "next"} =>
       day[j] < cutoff /\ \A d \in todo[j] : day[j] < d

TypeOK ==
  /\ hot \subseteq Rows /\ stored \subseteq Rows
  /\ file \in [Days -> [rows : SUBSET Rows, readable : BOOLEAN]]
  /\ cutoff \in Days
  /\ pc \in [Jobs -> Places] /\ todo \in [Jobs -> SUBSET Days] /\ day \in [Jobs -> Days]
  /\ copy \in [Jobs -> SUBSET Rows] /\ counted \in [Jobs -> 0..Cardinality(Rows)]
  /\ \A j \in Jobs : OldestFirst(j)
  /\ crashes \in 0..MaxCrashes

Cold(d) == file[d].rows

\* No reading vanishes: a row that was ever stored is in the hot store or in the
\* Parquet file of its day, at every moment of every job.
NothingVanishes == \A r \in stored : r \in hot \cup Cold(DayOf[r])

\* No row of a day that must be kept leaves the hot store.
RetainedDaysAreKept ==
  [][\A r \in hot \ hot' : DayOf[r] < cutoff]_vars

\* A day the scheduler finds old enough leaves the hot store, whatever happens to
\* the files of other days.
DaysAgeOut ==
  \A d \in Days \ BadDays : d < cutoff ~> HotRows(d) = {}

-----------------------------------------------------------------------------
(* A statement of the plan document that the code does not keep.           *)

\* A row that is only in cold storage stays there.
ColdIsKept ==
  [][\A d \in Days : \A r \in Cold(d) \ hot : r \in Cold(d)' \cup hot']_vars
=============================================================================
