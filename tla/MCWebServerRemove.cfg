\* A Remove command against the storage task, with room for every mail in the ring.
CONSTANTS
  Message = {m1, m2}
  Conn = {c1}
  Named = {m1, m2}
  MaxInbox = 1
  QueueCapacity = 2
  Slots = 2
  RetentionPeriod = 0
  MinRetentionInterval = 1
  StartNow = 0
  MaxNow = 0
  BelowEpoch = 1
SPECIFICATION WebSafety
PROPERTY RemoveDeletes
CHECK_DEADLOCK FALSE
