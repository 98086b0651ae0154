\* One recipient or line of an abandoned transaction is enough.
CONSTANTS
  Address = {a1}
  Line = {header, text}
  Header = {header}
  NoAddress = NoAddress
  MaxRcpts = 2
  MaxLines = 2
  MaxMails = 2
SPECIFICATION SmtpSpec
INVARIANT RecipientsAsLogged
CHECK_DEADLOCK FALSE
