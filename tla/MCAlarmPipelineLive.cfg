CONSTANTS
  t1 = t1
  t2 = t2
  p1 = p1
  p2 = p2
  PlcOf <- MCPlcOf
  None = None
  NaN = NaN
  Tags <- TwoTags
  Values = {2, 3}
  Qualities = {"Good"}
  Configs <- LateTag
  MayRaise = FALSE
  MaxChanges = 1
  MaxFaults = 1
SPECIFICATION FairSpec
CHECK_DEADLOCK FALSE
PROPERTY BreachIsAlarmed
