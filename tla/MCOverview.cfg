\* Two mails, one tab whose channel holds one command, and a queue without loss; the
\* websocket takes one command at a time.  No retention period: nothing may expire.
\* When the mails are all sent and removed there may be no further step.
CONSTANTS
  Message = {m1, m2}
  Conn = {c1}
  NoMessage = NoMessage
  MaxInbox = 1
  ChannelCapacity = 1
  QueueCapacity = 2
  Slots = 2
  RetentionPeriod = 0
  MinRetentionInterval = 1
  StartNow = 0
  MaxNow = 0
  BelowEpoch = 1
SYMMETRY Symmetry
SPECIFICATION OverviewSafety
INVARIANTS OverviewTypeOK ListAccounts TwiceByRaceOnly DeliveryContiguous
PROPERTIES NothingReappears RemovalsArrive ImplementsWebServer
CHECK_DEADLOCK FALSE
