CONSTANTS
  t1 = t1
  t2 = t2
  p1 = p1
  p2 = p2
  PlcOf <- MCPlcOf
  None = None
  NaN = NaN
  Tags <- OneTag
  Values = {1, 2, 3}
  Qualities = {"Good", "Bad"}
  Configs <- MovingLimits
  MayRaise = TRUE
  MaxChanges = 3
  MaxFaults = 1
SPECIFICATION Spec
CHECK_DEADLOCK FALSE
INVARIANTS
  AlarmsAreTraceable
  NoFlood
  StateIsOnRecord
