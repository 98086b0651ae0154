\* Four mails through a ring of two slots.  The clock starts so close to the epoch
\* that a purge can fail, panic or succeed.
CONSTANTS
  Message = {m1, m2, m3, m4}
  QueueCapacity = 2
  Slots = 2
  RetentionPeriod = 2
  MinRetentionInterval = 1
  StartNow = 0
  MaxNow = 3
  BelowEpoch = 1
SYMMETRY Symmetry
SPECIFICATION StorageSafety
INVARIANTS StorageTypeOK Accounting LossNeedsOverrun ExpiredWasOld
PROPERTY ImplementsMailStore
\* All mails sent and the clock at its bound: the instance is over.
CHECK_DEADLOCK FALSE
