CONSTANTS
  a1 = a1
  r1 = r1
  r2 = r2
  Alarms <- OneAlarm
  Readings <- TwoReadings
  Poison <- OneAlarm
  Unsendable <- OneReading
  BatchMax = 2
  MaxRetries = 1
  MaxInFlight = 2
SPECIFICATION Spec
INVARIANTS
  NoLoss
  InOrder
PROPERTY DeliverySpec
