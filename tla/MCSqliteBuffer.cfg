CONSTANTS
  t1 = t1
  t2 = t2
  t3 = t3
  Drainer = drainer
  Tasks <- MCTasks
  AlarmTasks <- MCAlarmTasks
  BatchMax = 2
SPECIFICATION FairSpec
INVARIANTS
  SeqNeverReused
  EnqueuedIsKept
  OnlyAckedLeave
  ArrivalOrderKept
PROPERTIES
  EveryCallSettles
  QueueSpec
