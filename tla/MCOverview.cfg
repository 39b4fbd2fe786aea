CONSTANTS
  p1 = p1
  PLCs <- OnePLC
  TagsOf <- TwoTags
  Alarms <- TwoAlarms
  PageSize = 1
  MaxReports = 1
  FeedsMayFail = TRUE
SPECIFICATION AppFairSpec
INVARIANTS
  SparklinesFollow
PROPERTIES
  AlarmIsSeen
