---- MODULE MCCharts ----
(* Three days of two buckets.  The file of the first day can never be      *)
(* written, the second day has two rows, the last never grows old.         *)
EXTENDS Charts

CONSTANTS r1, r2, r3, r4, j1, j2

MCDays == 1..3
FourRows == {r1, r2, r3, r4}
MCBucketOf == [r \in FourRows |->
  CASE r = r1 -> 3 [] r = r2 -> 4 [] r = r3 -> 5 [] r = r4 -> 6]
MCDayOf == [r \in FourRows |-> MCBucketOf[r] \div 2]
OneJob == {j1}
TwoJobs == {j1, j2}
====
