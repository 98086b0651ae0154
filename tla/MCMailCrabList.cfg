\* One mail of one client, one tab, and nothing that could be lost on the way.
CONSTANTS
  Message = {m1}
  Conn = {c1}
  NoMessage = NoMessage
  MaxInbox = 1
  ChannelCapacity = 1
  QueueCapacity = 2
  Slots = 2
  RetentionPeriod = 0
  MinRetentionInterval = 1
  StartNow = 0
  MaxNow = 0
  BelowEpoch = 1
  Address = {a1}
  Line = {header}
  Header = {header}
  NoAddress = NoAddress
  MaxRcpts = 1
  MaxLines = 1
  MaxMails = 1
SPECIFICATION MailCrabSpec
INVARIANT QueuedMailListed
CHECK_DEADLOCK FALSE
