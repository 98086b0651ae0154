\* A retention period that reaches back beyond the epoch, and a ring that holds
\* every mail, so that nothing can lag.
CONSTANTS
  Message = {m1, m2}
  QueueCapacity = 2
  Slots = 2
  RetentionPeriod = 9
  MinRetentionInterval = 1
  StartNow = 3
  MaxNow = 4
  BelowEpoch = 20
SPECIFICATION StorageSpec
PROPERTY AllEmailStored
CHECK_DEADLOCK FALSE
