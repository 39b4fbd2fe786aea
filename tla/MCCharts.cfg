CONSTANTS
  r1 = r1
  r2 = r2
  r3 = r3
  r4 = r4
  j1 = j1
  j2 = j2
  Rows <- FourRows
  Days <- MCDays
  DayOf <- MCDayOf
  Jobs <- OneJob
  BadDays = {1}
  LateRows = FALSE
  MaxCrashes = 2
  BucketOf <- MCBucketOf
  BucketsPerDay = 2
  RetentionDays = 2
  StartOffset = 4
  EndOffset = 1
  MaxDelay = 2
SPECIFICATION ChartsSpec
INVARIANTS
  NothingVanishes
  OnTimeIsCharted
PROPERTIES
  RetainedDaysAreKept
  DaysAgeOut
  ChartedStays
