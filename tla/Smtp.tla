-------------------------------- MODULE Smtp --------------------------------
(***************************************************************************)
(* One SMTP client at a time talking to MailCrab: the connection loop      *)
(* (mailcrab/src/smtp/connection.rs), which processes a line and writes    *)
(* the answer before it reads the next, the mailin session it drives       *)
(* (external), and the MailHandler the session calls back                  *)
(* (mailcrab/src/smtp/handler.rs), which collects a transaction and        *)
(* publishes it as a mail.  Connections share nothing but the queue, so    *)
(* one of them at a time, with a reconnect, shows all a handler can do.    *)
(*                                                                         *)
(* The session and the handler keep the transaction each on its own.  The  *)
(* session drops its copy on RSET, on a new HELO and at the end of the     *)
(* data; the handler hears of the last only.                               *)
(***************************************************************************)
EXTENDS Naturals, Sequences

CONSTANTS
  Address,    \* envelope addresses
  Line,       \* lines of a mail
  Header,     \* those the parser takes for a header
  NoAddress,  \* the empty String an envelope starts with
  MaxRcpts,   \* bound: recipients collected
  MaxLines,   \* bound: lines collected
  MaxMails    \* bound: mails sent, over all connections

ASSUME SmtpAssumption ==
  /\ NoAddress \notin Address
  /\ Header \subseteq Line
  /\ MaxRcpts \in Nat /\ MaxLines \in Nat /\ MaxMails \in Nat

VARIABLES
  session,     \* the state of the mailin session
  path,        \* its view of the transaction: reverse path, forward paths
  lines,       \* history: the lines sent since DATA
  envelope,    \* MailHandler.envelope_from and envelope_recipients
  buffer,      \* MailHandler.buffer
  reply,      \* the answer still to be written, if any
  attempts,    \* mails sent (DATA ended), which numbers them
  published,   \* the mails on the queue
  receivers,   \* some Receiver of the queue is alive
  told,        \* history: what the client was told of each mail
  staleRcpts,  \* history: recipients were given in a transaction that came to nothing
  staleLines   \* history: lines were sent in a transaction that came to nothing

sessionVars == <<session, path, lines>>
handlerVars == <<envelope, buffer>>
queueVars   == <<attempts, published>>
staleVars   == <<staleRcpts, staleLines>>
smtpVars == <<sessionVars, handlerVars, queueVars, staleVars, reply, receivers, told>>

SessionState == {"idle", "hello", "mail", "rcpt", "data", "closed"}
NoPath == [from |-> NoAddress, rcpts |-> <<>>]

\* "queued" and "refused" answer the end of the data; "other" is any other answer.
Reply == {"none", "other", "queued", "refused", "goodbye"}

SmtpInit ==
  /\ session = "idle" /\ path = NoPath /\ lines = <<>>
  /\ envelope = NoPath /\ buffer = <<>>
  /\ reply = "other"
  /\ attempts = 0 /\ published = <<>>
  /\ receivers = TRUE
  /\ told = [n \in 1 .. MaxMails |-> "nothing"]
  /\ staleRcpts = FALSE /\ staleLines = FALSE

-----------------------------------------------------------------------------
(* The client's lines.  One is processed only when the answer to the one   *)
(* before it is written.                                                   *)

Reads(states) == reply = "none" /\ session \in states

Goto(state) == session' = state

\* Faulty variant: the session as well keeps the transaction.
AbandonKeepsPath ==
  /\ Goto("hello")
  /\ staleRcpts' = (staleRcpts \/ path.rcpts # <<>>)
  /\ reply' = "other"
  /\ UNCHANGED <<path, handlerVars, queueVars, lines, staleLines, receivers, told>>

\* The session forgets the transaction; the handler is not told.
Abandon ==
  /\ Goto("hello")
  /\ path' = NoPath
  /\ staleRcpts' = (staleRcpts \/ path.rcpts # <<>>)
  /\ reply' = "other"
  /\ UNCHANGED <<handlerVars, queueVars, lines, staleLines, receivers, told>>

Helo == Reads({"idle", "hello", "mail", "rcpt"}) /\ Abandon

Rset == Reads({"hello", "mail", "rcpt"}) /\ Abandon

Mail(a) ==
  /\ Reads({"hello"})
  /\ Goto("mail")
  /\ path' = [from |-> a, rcpts |-> <<>>]
  /\ envelope' = [envelope EXCEPT !.from = a]
  /\ reply' = "other"
  /\ UNCHANGED <<buffer, queueVars, staleVars, lines, receivers, told>>

Rcpt(a) ==
  /\ Reads({"mail", "rcpt"})
  /\ Len(envelope.rcpts) < MaxRcpts
  /\ Goto("rcpt")
  /\ path' = [path EXCEPT !.rcpts = Append(@, a)]
  /\ envelope' = [envelope EXCEPT !.rcpts = Append(@, a)]
  /\ reply' = "other"
  /\ UNCHANGED <<buffer, queueVars, staleVars, lines, receivers, told>>

DataStart ==
  /\ Reads({"rcpt"})
  /\ attempts < MaxMails
  /\ Goto("data")
  /\ lines' = <<>>
  /\ reply' = "other"
  /\ UNCHANGED <<handlerVars, queueVars, staleVars, path, receivers, told>>

\* Data lines are not answered.
Data(l) ==
  /\ Reads({"data"})
  /\ Len(buffer) < MaxLines
  /\ lines' = Append(lines, l)
  /\ buffer' = Append(buffer, l)
  /\ UNCHANGED <<envelope, queueVars, staleVars, session, path, reply, receivers, told>>

\* After an error answer to the end of the data mailin may or may not count the
\* data as ended: the next lines are commands or more data.
AfterError ==
  \/ Goto("hello") /\ path' = NoPath
  \/ Goto("data") /\ UNCHANGED path

\* mail_parser (external) gives up on a text in which it finds no header.
Parsed == \E i \in 1 .. Len(buffer) : buffer[i] \in Header

(* parse_mail when the parser gives up: the handler keeps what it has.     *)
DataEndUnparsed ==
  /\ Reads({"data"}) /\ attempts < MaxMails
  /\ ~Parsed
  /\ attempts' = attempts + 1
  /\ AfterError /\ lines' = <<>>
  /\ staleRcpts' = (staleRcpts \/ path.rcpts # <<>>)
  /\ staleLines' = (staleLines \/ lines # <<>>)
  /\ reply' = "refused"
  /\ UNCHANGED <<handlerVars, published, receivers, told>>

\* The message that parse_mail makes of what the handler holds, and, for the
\* properties, what the client sent and whether anything stale could be in it.
Composed ==
  [id |-> attempts + 1, from |-> envelope.from, rcpts |-> envelope.rcpts, data |-> buffer,
   path |-> path, lines |-> lines, staleRcpts |-> staleRcpts, staleLines |-> staleLines]

\* Faulty variant: the buffer is not cleared.
BufferKept == envelope' = NoPath /\ UNCHANGED buffer

\* mem::take of the envelope, buffer.clear().
HandlerEmptied == envelope' = NoPath /\ buffer' = <<>>

\* Faulty variant: the result of tx.send is ignored.
SendErrorIgnored ==
  /\ Reads({"data"}) /\ attempts < MaxMails
  /\ Parsed /\ ~receivers
  /\ attempts' = attempts + 1
  /\ HandlerEmptied
  /\ staleRcpts' = FALSE /\ staleLines' = FALSE
  /\ Goto("hello") /\ path' = NoPath /\ lines' = <<>>
  /\ reply' = "queued"
  /\ UNCHANGED <<published, receivers, told>>

\* parse_mail when the queue has no receiver left: the handler is emptied already.
DataEndUnsent ==
  /\ Reads({"data"}) /\ attempts < MaxMails
  /\ Parsed /\ ~receivers
  /\ attempts' = attempts + 1
  /\ HandlerEmptied
  /\ staleRcpts' = FALSE /\ staleLines' = FALSE
  /\ AfterError /\ lines' = <<>>
  /\ reply' = "refused"
  /\ UNCHANGED <<published, receivers, told>>

\* Faulty variant: a mail is sent once for each of its recipients.
SentPerRecipient ==
  /\ Reads({"data"}) /\ attempts < MaxMails
  /\ Parsed /\ receivers
  /\ attempts' = attempts + 1
  /\ published' = published \o [i \in 1 .. Len(envelope.rcpts) |-> Composed]
  /\ HandlerEmptied
  /\ staleRcpts' = FALSE /\ staleLines' = FALSE
  /\ Goto("hello") /\ path' = NoPath /\ lines' = <<>>
  /\ reply' = "queued"
  /\ UNCHANGED <<receivers, told>>

DataEnd ==
  /\ Reads({"data"}) /\ attempts < MaxMails
  /\ Parsed /\ receivers
  /\ attempts' = attempts + 1
  /\ published' = Append(published, Composed)
  /\ HandlerEmptied
  /\ staleRcpts' = FALSE /\ staleLines' = FALSE
  /\ Goto("hello") /\ path' = NoPath /\ lines' = <<>>
  /\ reply' = "queued"
  /\ UNCHANGED <<receivers, told>>

Quit ==
  /\ Reads({"idle", "hello", "mail", "rcpt"})
  /\ reply' = "goodbye"
  /\ UNCHANGED <<sessionVars, handlerVars, queueVars, staleVars, receivers, told>>

\* NOOP, VRFY and whatever the session does not understand in its state.
OtherLine ==
  /\ Reads({"idle", "hello", "mail", "rcpt"})
  /\ reply' = "other"
  /\ UNCHANGED <<sessionVars, handlerVars, queueVars, staleVars, receivers, told>>

-----------------------------------------------------------------------------
(* The connection. *)

WriteResponse ==
  /\ reply \notin {"none", "goodbye"}
  /\ told' = IF reply = "other" THEN told ELSE [told EXCEPT ![attempts] = reply]
  /\ reply' = "none"
  /\ UNCHANGED <<sessionVars, handlerVars, queueVars, staleVars, receivers>>

\* Faulty variant: the connections share one handler.
ConnectionEndsHandlerStays ==
  /\ Goto("closed") /\ path' = NoPath /\ lines' = <<>>
  /\ staleRcpts' = FALSE /\ staleLines' = FALSE
  /\ reply' = "none"
  /\ UNCHANGED <<handlerVars, queueVars, receivers, told>>

\* The session is dropped with its handler, a clone made for this connection.
ConnectionEnds ==
  /\ Goto("closed") /\ path' = NoPath /\ lines' = <<>>
  /\ envelope' = NoPath /\ buffer' = <<>>
  /\ staleRcpts' = FALSE /\ staleLines' = FALSE
  /\ reply' = "none"
  /\ UNCHANGED <<queueVars, receivers, told>>

WriteGoodbye == reply = "goodbye" /\ ConnectionEnds

\* End of file, or an error while reading or writing: the answer is lost.
Disconnect == session # "closed" /\ ConnectionEnds

\* A new connection; the greeting is its first answer.
Accept ==
  /\ session = "closed"
  /\ Goto("idle")
  /\ reply' = "other"
  /\ UNCHANGED <<path, lines, handlerVars, queueVars, staleVars, receivers, told>>

\* The caller of development_mail_server drops its handle.
DropReceivers ==
  /\ receivers
  /\ receivers' = FALSE
  /\ UNCHANGED <<sessionVars, handlerVars, queueVars, staleVars, reply, told>>

-----------------------------------------------------------------------------
ClientLine ==
  \/ Helo \/ Rset \/ DataStart \/ Quit \/ OtherLine
  \/ \E a \in Address : Mail(a) \/ Rcpt(a)
  \/ \E l \in Line : Data(l)
  \/ DataEndUnparsed \/ DataEndUnsent

\* What the connection does on its own: the queue and its receivers stay as they are.
ConnectionNext ==
  \/ ClientLine
  \/ WriteResponse \/ WriteGoodbye
  \/ Disconnect \/ Accept

SmtpNext == ConnectionNext \/ DataEnd \/ DropReceivers

SmtpSpec == SmtpInit /\ [][SmtpNext]_smtpVars

-----------------------------------------------------------------------------
Path == [from : Address \cup {NoAddress}, rcpts : Seq(Address)]

PublishedMail ==
  [id : Nat, from : Address \cup {NoAddress}, rcpts : Seq(Address), data : Seq(Line),
   path : Path, lines : Seq(Line), staleRcpts : BOOLEAN, staleLines : BOOLEAN]

(* The state is well formed: the session has a transaction exactly between *)
(* MAIL and the end of the data.                                           *)
SmtpTypeOK ==
  /\ session \in SessionState /\ reply \in Reply
  /\ path \in Path /\ envelope \in Path
  /\ lines \in Seq(Line) /\ buffer \in Seq(Line)
  /\ published \in Seq(PublishedMail)
  /\ attempts \in 0 .. MaxMails
  /\ receivers \in BOOLEAN /\ staleRcpts \in BOOLEAN /\ staleLines \in BOOLEAN
  /\ told \in [1 .. MaxMails -> {"nothing", "queued", "refused"}]
  /\ session \in {"idle", "hello", "closed"} => path = NoPath
  /\ session \in {"mail", "rcpt", "data"} => path.from \in Address

(* A published mail has the sender of its own transaction and, unless an   *)
(* earlier one of the connection with recipients was reset or not parsed,  *)
(* its recipients.                                                         *)
EnvelopeIsOwn ==
  \A i \in 1 .. Len(published) :
    LET p == published[i] IN
      /\ p.from = p.path.from
      /\ ~p.staleRcpts => p.rcpts = p.path.rcpts

(* A published mail holds the lines of its own transaction, unless an      *)
(* earlier one of this connection was not parsed.                          *)
BodyIsOwn ==
  \A i \in 1 .. Len(published) :
    ~published[i].staleLines => published[i].data = published[i].lines

(* What a client is told is true: "queued" of a mail that is on the queue, *)
(* "refused" of one that is not.  A lost answer leaves it in the dark.     *)
Queued(n) == \E i \in 1 .. Len(published) : published[i].id = n

AnswersAreTrue ==
  \A n \in 1 .. MaxMails :
    /\ told[n] = "queued" => Queued(n)
    /\ told[n] = "refused" => ~Queued(n)

(* What the mail server puts on the queue is what the storage task and the *)
(* websocket tasks take for granted (Publish in Storage): one mail at a    *)
(* time, and each mail once, whatever its client does and sends again.     *)
Queue == INSTANCE Broadcast WITH
  Message <- 1 .. MaxMails, QueueCapacity <- 1, Slots <- 1,
  log <- [i \in DOMAIN published |-> published[i].id], txOpen <- TRUE

SendsOne == \E n \in 1 .. MaxMails : Queue!Send(n)

FeedsTheQueue == [][SendsOne]_published

-----------------------------------------------------------------------------
(* handler.rs:91 logs "Incoming message on {domain} from {from} to {to}"   *)
(* with the recipients of the session: they are those of the mail.         *)
RecipientsAsLogged ==
  \A i \in 1 .. Len(published) : published[i].rcpts = published[i].path.rcpts
=============================================================================
