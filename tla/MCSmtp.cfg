\* Two mails, of up to two recipients and two lines each, over any number of
\* connections.
CONSTANTS
  Address = {a1, a2}
  Line = {header, text}
  Header = {header}
  NoAddress = NoAddress
  MaxRcpts = 2
  MaxLines = 2
  MaxMails = 2
SYMMETRY Symmetry
SPECIFICATION SmtpSpec
INVARIANTS SmtpTypeOK EnvelopeIsOwn BodyIsOwn AnswersAreTrue
PROPERTY FeedsTheQueue
\* A client that has sent all its mails in the data state has nothing more to say.
CHECK_DEADLOCK FALSE
