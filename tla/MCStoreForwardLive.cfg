CONSTANTS
  a1 = a1
  r1 = r1
  r2 = r2
  Alarms <- OneAlarm
  Readings <- OneReading
  Poison <- OneAlarm
  Unsendable <- NoItem
  BatchMax = 1
  MaxRetries = 2
  MaxInFlight = 2
SPECIFICATION UninterruptedSpec
PROPERTIES
  EveryItemSettles
  AlarmsSettle
