\* Two mails through one slot, so that a websocket task can lag, and a client that
\* reads, stalls, breaks the protocol, leaves, or sends commands, of which two can wait, so
\* that a Remove meets other commands; beside it the HTTP handlers.  The mails are not
\* told apart, so that commands that name one of them are enough.  Nobody stops the
\* storage task, and without a retention period it does not stop by itself: a poisoned
\* lock is looked at in MCStorage.cfg.  The queue may be closed.  When the mails are all
\* sent and removed and the connection is gone there is no further step.
CONSTANTS
  Message = {m1, m2}
  Conn = {c1}
  Named = {m1}
  MaxInbox = 2
  QueueCapacity = 1
  Slots = 1
  RetentionPeriod = 0
  MinRetentionInterval = 1
  StartNow = 0
  MaxNow = 0
  BelowEpoch = 1
SPECIFICATION RunningSpec
INVARIANTS WebTypeOK DeliveryContiguous DisconnectNeedsOverrun
PROPERTIES ImplementsStorage DeadClientsReaped RemoveIsCarriedOut ReaderIsTold
CHECK_DEADLOCK FALSE
