\* Liveness of the storage task: two mails through one slot, a retention period of
\* one second and a clock far enough from the epoch and from its bound.
CONSTANTS
  Message = {m1, m2}
  QueueCapacity = 1
  Slots = 1
  RetentionPeriod = 1
  MinRetentionInterval = 1
  StartNow = 1
  MaxNow = 4
  BelowEpoch = 1
SPECIFICATION StorageSpec
INVARIANT TaskLives
PROPERTIES EveryMailSettles OldMailExpires StopsWhenCancelled
CHECK_DEADLOCK FALSE
