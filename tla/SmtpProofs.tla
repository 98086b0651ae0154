---------------------------- MODULE SmtpProofs ----------------------------
(***************************************************************************)
(* Proofs about the SMTP handler, for every set of addresses and lines and *)
(* every bound on recipients, lines and mails.                             *)
(***************************************************************************)
EXTENDS Smtp, TLAPS

(* The handler follows the session as long as nothing stale is in it.  When *)
(* the queue has no receiver it can be empty while the data goes on.       *)
HandlerFollows ==
  /\ session \in {"mail", "rcpt"} \/ (session = "data" /\ receivers) =>
       /\ envelope.from = path.from
       /\ ~staleRcpts => envelope.rcpts = path.rcpts
  /\ session = "data" /\ ~staleRcpts => envelope.rcpts \in {path.rcpts, <<>>}
  /\ session \notin {"mail", "rcpt", "data"} /\ ~staleRcpts => envelope.rcpts = <<>>
  /\ session = "data" /\ ~staleLines => buffer = lines
  /\ session # "data" /\ ~staleLines => buffer = <<>>

(* The numbers of the mails, and the answer that is still to be written.   *)
Numbering ==
  /\ \A i \in 1 .. Len(published) : published[i].id \in 1 .. attempts
  /\ \A n \in 1 .. MaxMails : n > attempts => told[n] = "nothing"
  /\ reply \in {"queued", "refused"} => attempts >= 1
  /\ reply = "queued" => Queued(attempts)
  /\ reply = "refused" => ~Queued(attempts)

SmtpInv ==
  /\ SmtpTypeOK /\ HandlerFollows /\ Numbering
  /\ EnvelopeIsOwn /\ BodyIsOwn /\ AnswersAreTrue

LEMMA NoPathIsPath == NoPath \in Path /\ NoPath.from = NoAddress /\ NoPath.rcpts = <<>>
  BY DEF NoPath, Path

LEMMA SmtpInvInit == SmtpInit => SmtpInv
  <1> SUFFICES ASSUME SmtpInit
               PROVE  SmtpInv
    OBVIOUS
  <1>1. Len(published) = 0 /\ published \in Seq(PublishedMail)
    BY DEF SmtpInit
  <1>2. told \in [1 .. MaxMails -> {"nothing", "queued", "refused"}]
    BY DEF SmtpInit
  <1>3. SmtpTypeOK
    <2>1. /\ session = "idle" /\ reply = "other" /\ attempts = 0
          /\ receivers = TRUE /\ staleRcpts = FALSE /\ staleLines = FALSE
      BY DEF SmtpInit
    <2>2. path \in Path /\ envelope \in Path /\ path = NoPath
      BY NoPathIsPath DEF SmtpInit
    <2>3. lines \in Seq(Line) /\ buffer \in Seq(Line)
      BY DEF SmtpInit
    <2>4. attempts \in 0 .. MaxMails
      BY <2>1, SmtpAssumption
    <2>5. QED
      BY <1>1, <1>2, <2>1, <2>2, <2>3, <2>4 DEF SmtpTypeOK, SessionState, Reply
  <1>4. HandlerFollows
    BY NoPathIsPath DEF SmtpInit, HandlerFollows
  <1>5. Numbering /\ EnvelopeIsOwn /\ BodyIsOwn /\ AnswersAreTrue
    BY <1>1 DEF SmtpInit, Numbering, EnvelopeIsOwn, BodyIsOwn, AnswersAreTrue
  <1>6. QED
    BY <1>3, <1>4, <1>5 DEF SmtpInv

-----------------------------------------------------------------------------
(* A step that publishes nothing keeps what is said of published mails.    *)
LEMMA PublishedStable ==
  ASSUME SmtpInv, UNCHANGED published
  PROVE  EnvelopeIsOwn' /\ BodyIsOwn'
  BY DEF SmtpInv, EnvelopeIsOwn, BodyIsOwn

(* A step in the middle of a transaction keeps the numbering. *)
LEMMA NumberingStable ==
  ASSUME SmtpInv, UNCHANGED <<published, attempts, told>>,
         reply' \notin {"queued", "refused"}
  PROVE  Numbering' /\ AnswersAreTrue'
  BY DEF SmtpInv, Numbering, AnswersAreTrue, Queued

LEMMA CommandStep ==
  ASSUME SmtpInv,
         \/ Helo \/ Rset \/ DataStart \/ Quit \/ OtherLine
         \/ \E a \in Address : Mail(a) \/ Rcpt(a)
         \/ \E l \in Line : Data(l)
  PROVE  SmtpInv'
  <1> USE DEF Reads, Goto, sessionVars, handlerVars, queueVars, staleVars
  <1>1. EnvelopeIsOwn' /\ BodyIsOwn' /\ Numbering' /\ AnswersAreTrue'
    <2>1. UNCHANGED <<published, attempts, told>> /\ reply' \notin {"queued", "refused"}
      BY DEF Helo, Rset, Abandon, DataStart, Quit, OtherLine, Mail, Rcpt, Data
    <2>2. QED
      BY <2>1, PublishedStable, NumberingStable
  <1>2. ASSUME Helo \/ Rset
        PROVE  SmtpTypeOK' /\ HandlerFollows'
    BY <1>2, NoPathIsPath
    DEF SmtpInv, SmtpTypeOK, HandlerFollows, Helo, Rset, Abandon, SessionState, Reply, Path
  <1>3. CASE DataStart
    BY <1>1, <1>3 DEF SmtpInv, SmtpTypeOK, HandlerFollows, DataStart, SessionState, Reply
  <1>4. CASE Quit \/ OtherLine
    BY <1>1, <1>4 DEF SmtpInv, SmtpTypeOK, HandlerFollows, Quit, OtherLine, Reply
  <1>5. ASSUME NEW a \in Address, Mail(a)
        PROVE  SmtpTypeOK' /\ HandlerFollows'
    BY <1>5, SmtpAssumption
    DEF SmtpInv, SmtpTypeOK, HandlerFollows, Mail, SessionState, Reply, Path
  <1>6. ASSUME NEW a \in Address, Rcpt(a)
        PROVE  SmtpTypeOK' /\ HandlerFollows'
    <2>1. /\ path \in Path /\ envelope \in Path /\ path.from \in Address
          /\ SmtpTypeOK /\ HandlerFollows /\ session \in {"mail", "rcpt"}
      BY <1>6 DEF SmtpInv, SmtpTypeOK, Rcpt
    <2>2. /\ path' \in Path /\ path'.from = path.from
          /\ path'.rcpts = Append(path.rcpts, a)
      BY <1>6, <2>1 DEF Rcpt, Path
    <2>3. /\ envelope' \in Path /\ envelope'.from = envelope.from
          /\ envelope'.rcpts = Append(envelope.rcpts, a)
          /\ envelope'.rcpts # <<>>
      <3>1. envelope.rcpts \in Seq(Address)
        BY <2>1 DEF Path
      <3>2. Append(envelope.rcpts, a) \in Seq(Address) /\ Append(envelope.rcpts, a) # <<>>
        BY <3>1
      <3>3. envelope' = [envelope EXCEPT !.rcpts = Append(@, a)]
        BY <1>6 DEF Rcpt
      <3>4. QED
        BY <2>1, <3>2, <3>3 DEF Path
    <2>4. /\ session' = "rcpt" /\ reply' = "other"
          /\ UNCHANGED <<buffer, attempts, published, staleRcpts, staleLines, lines, receivers, told>>
      BY <1>6 DEF Rcpt
    <2>5. SmtpTypeOK'
      BY <2>1, <2>2, <2>3, <2>4 DEF SmtpTypeOK, SessionState, Reply
    <2>6. HandlerFollows'
      BY <2>1, <2>2, <2>3, <2>4 DEF HandlerFollows
    <2>7. QED
      BY <2>5, <2>6
  <1>7. ASSUME NEW l \in Line, Data(l)
        PROVE  SmtpTypeOK' /\ HandlerFollows'
    BY <1>7 DEF SmtpInv, SmtpTypeOK, HandlerFollows, Data
  <1>8. QED
    BY <1>1, <1>2, <1>3, <1>4, <1>5, <1>6, <1>7 DEF SmtpInv

LEMMA ConnectionStep ==
  ASSUME SmtpInv, WriteResponse \/ WriteGoodbye \/ Disconnect \/ Accept \/ DropReceivers
  PROVE  SmtpInv'
  <1> USE DEF Goto, sessionVars, handlerVars, queueVars, staleVars
  <1>1. CASE WriteResponse
    <2>1. UNCHANGED <<session, path, lines, envelope, buffer, attempts, published,
                      staleRcpts, staleLines, receivers>> /\ reply' = "none"
      BY <1>1 DEF WriteResponse
    <2>2. HandlerFollows' /\ EnvelopeIsOwn' /\ BodyIsOwn'
      BY <2>1, PublishedStable DEF SmtpInv, HandlerFollows
    <2>3. CASE reply = "other"
      <3>1. told' = told
        BY <1>1, <2>3 DEF WriteResponse
      <3>2. SmtpTypeOK'
        BY <2>1, <3>1 DEF SmtpInv, SmtpTypeOK, Reply
      <3>3. Numbering' /\ AnswersAreTrue'
        BY <2>1, <3>1, NumberingStable
      <3>4. QED
        BY <2>2, <3>2, <3>3 DEF SmtpInv
    <2>4. CASE reply \in {"queued", "refused"}
      <3>1. told' = [told EXCEPT ![attempts] = reply]
        BY <1>1, <2>4 DEF WriteResponse
      <3>2. attempts \in 1 .. MaxMails /\ MaxMails \in Nat
        BY <2>4, SmtpAssumption DEF SmtpInv, SmtpTypeOK, Numbering
      <3>3. /\ told' \in [1 .. MaxMails -> {"nothing", "queued", "refused"}]
            /\ told'[attempts] = reply
            /\ \A n \in 1 .. MaxMails : n # attempts => told'[n] = told[n]
        BY <2>4, <3>1, <3>2 DEF SmtpInv, SmtpTypeOK
      <3>4. SmtpTypeOK'
        BY <2>1, <3>3 DEF SmtpInv, SmtpTypeOK, Reply
      <3>5. Numbering'
        BY <2>1, <3>2, <3>3 DEF SmtpInv, Numbering
      <3>6. \A n \in 1 .. MaxMails : Queued(n)' = Queued(n)
        BY <2>1 DEF Queued
      <3>7. AnswersAreTrue'
        BY <2>4, <3>2, <3>3, <3>6 DEF SmtpInv, AnswersAreTrue, Numbering
      <3>8. QED
        BY <2>2, <3>4, <3>5, <3>7 DEF SmtpInv
    <2>5. QED
      BY <1>1, <2>3, <2>4 DEF WriteResponse, SmtpInv, SmtpTypeOK, Reply
  <1>2. CASE ConnectionEnds
    <2>1. UNCHANGED <<published, attempts, told>> /\ reply' = "none"
      BY <1>2 DEF ConnectionEnds
    <2>2. /\ session' = "closed" /\ path' = NoPath /\ lines' = <<>>
          /\ envelope' = NoPath /\ buffer' = <<>>
          /\ staleRcpts' = FALSE /\ staleLines' = FALSE /\ receivers' = receivers
      BY <1>2 DEF ConnectionEnds
    <2>3. lines' \in Seq(Line) /\ buffer' \in Seq(Line) /\ path' \in Path /\ envelope' \in Path
      BY <2>2, NoPathIsPath
    <2>4. SmtpTypeOK'
      BY <2>1, <2>2, <2>3 DEF SmtpInv, SmtpTypeOK, SessionState, Reply
    <2>5. HandlerFollows'
      BY <2>2, NoPathIsPath DEF HandlerFollows
    <2>6. QED
      BY <2>1, <2>4, <2>5, PublishedStable, NumberingStable DEF SmtpInv
  <1>3. CASE Accept
    <2>1. UNCHANGED <<published, attempts, told>> /\ reply' = "other"
      BY <1>3 DEF Accept
    <2>2. SmtpTypeOK' /\ HandlerFollows'
      BY <1>3 DEF Accept, SmtpInv, SmtpTypeOK, HandlerFollows, SessionState, Reply
    <2>3. QED
      BY <2>1, <2>2, PublishedStable, NumberingStable DEF SmtpInv
  <1>4. CASE DropReceivers
    <2>1. /\ UNCHANGED <<session, path, lines, envelope, buffer, attempts, published,
                          staleRcpts, staleLines, reply, told>>
          /\ receivers' = FALSE
      BY <1>4 DEF DropReceivers
    <2>2. SmtpTypeOK' /\ HandlerFollows'
      BY <2>1 DEF SmtpInv, SmtpTypeOK, HandlerFollows
    <2>3. Numbering' /\ AnswersAreTrue'
      BY <2>1 DEF SmtpInv, Numbering, AnswersAreTrue, Queued
    <2>4. QED
      BY <2>1, <2>2, <2>3, PublishedStable DEF SmtpInv
  <1>5. QED
    BY <1>1, <1>2, <1>3, <1>4 DEF WriteGoodbye, Disconnect

-----------------------------------------------------------------------------
(* The end of the data. *)

LEMMA RefusedStep ==
  ASSUME SmtpInv, DataEndUnparsed \/ DataEndUnsent
  PROVE  SmtpInv'
  <1> USE DEF Reads, Goto, sessionVars, handlerVars, queueVars, staleVars
  <1>1. /\ attempts' = attempts + 1 /\ attempts < MaxMails /\ attempts \in Nat
        /\ reply' = "refused" /\ UNCHANGED <<published, told, receivers>>
        /\ session = "data"
    BY SmtpAssumption DEF DataEndUnparsed, DataEndUnsent, SmtpInv, SmtpTypeOK
  <1>2. \A i \in 1 .. Len(published) : published[i].id \in 1 .. attempts
    BY DEF SmtpInv, Numbering
  <1>3. \A n \in 1 .. MaxMails : Queued(n)' = Queued(n)
    BY <1>1 DEF Queued
  <1>4. ~Queued(attempts)'
    BY <1>1, <1>2 DEF Queued
  <1>5. Numbering' /\ AnswersAreTrue'
    BY <1>1, <1>2, <1>3, <1>4 DEF SmtpInv, Numbering, AnswersAreTrue
  <1>6. lines' \in Seq(Line) /\ lines' = <<>>
    <2>1. lines' = <<>>
      BY DEF DataEndUnparsed, DataEndUnsent
    <2>2. QED
      BY <2>1
  <1>7. /\ session' \in {"hello", "data"} /\ path' \in Path
        /\ session' = "hello" => path' = NoPath
        /\ session' = "data" => path' = path
    BY NoPathIsPath DEF DataEndUnparsed, DataEndUnsent, AfterError, SmtpInv, SmtpTypeOK
  <1>8. attempts' \in 0 .. MaxMails
    BY <1>1, SmtpAssumption
  <1>9. CASE DataEndUnparsed
    <2>1. /\ UNCHANGED <<envelope, buffer>>
          /\ staleRcpts' = (staleRcpts \/ path.rcpts # <<>>)
          /\ staleLines' = (staleLines \/ lines # <<>>)
      BY <1>9 DEF DataEndUnparsed
    <2>2. staleRcpts' \in BOOLEAN /\ staleLines' \in BOOLEAN
      BY <2>1, Zenon
    <2>3. /\ ~staleRcpts' => ~staleRcpts /\ path.rcpts = <<>>
          /\ ~staleLines' => ~staleLines /\ lines = <<>>
      BY <2>1, Zenon
    <2>4. UNCHANGED <<envelope, buffer>>
      BY <2>1
    <2>5. SmtpTypeOK'
      BY <1>1, <1>6, <1>7, <1>8, <2>2, <2>4 DEF SmtpInv, SmtpTypeOK, SessionState, Reply
    <2>6. HandlerFollows'
      BY <1>1, <1>6, <1>7, <2>3, <2>4 DEF SmtpInv, HandlerFollows
    <2>7. QED
      BY <1>1, <1>5, <2>5, <2>6, PublishedStable DEF SmtpInv
  <1>10. CASE DataEndUnsent
    <2>1. /\ envelope' = NoPath /\ buffer' = <<>> /\ receivers = FALSE
          /\ staleRcpts' = FALSE /\ staleLines' = FALSE
      BY <1>10 DEF DataEndUnsent, HandlerEmptied, SmtpInv, SmtpTypeOK
    <2>2. buffer' \in Seq(Line) /\ envelope' \in Path
      BY <2>1, NoPathIsPath
    <2>3. SmtpTypeOK'
      BY <1>1, <1>6, <1>7, <1>8, <2>1, <2>2 DEF SmtpInv, SmtpTypeOK, SessionState, Reply
    <2>4. HandlerFollows'
      BY <1>1, <1>6, <1>7, <2>1, NoPathIsPath DEF HandlerFollows
    <2>5. QED
      BY <1>1, <1>5, <2>3, <2>4, PublishedStable DEF SmtpInv
  <1>11. QED
    BY <1>9, <1>10

LEMMA QueuedStep ==
  ASSUME SmtpInv, DataEnd
  PROVE  SmtpInv'
  <1> USE DEF Reads, Goto, sessionVars, handlerVars, queueVars, staleVars
  <1>1. /\ attempts' = attempts + 1 /\ attempts < MaxMails /\ attempts \in Nat
        /\ reply' = "queued" /\ UNCHANGED <<told, receivers>>
        /\ session = "data" /\ session' = "hello" /\ receivers = TRUE
        /\ path' = NoPath /\ lines' = <<>> /\ envelope' = NoPath /\ buffer' = <<>>
        /\ staleRcpts' = FALSE /\ staleLines' = FALSE
    BY SmtpAssumption DEF DataEnd, HandlerEmptied, SmtpInv, SmtpTypeOK
  <1>2. Composed \in PublishedMail
    BY <1>1 DEF Composed, PublishedMail, SmtpInv, SmtpTypeOK, Path
  <1>3. /\ published \in Seq(PublishedMail) /\ published' = Append(published, Composed)
    BY DEF DataEnd, SmtpInv, SmtpTypeOK
  <1>4. /\ published' \in Seq(PublishedMail) /\ Len(published') = Len(published) + 1
        /\ \A i \in 1 .. Len(published) : published'[i] = published[i]
        /\ published'[Len(published) + 1] = Composed
    BY <1>2, <1>3
  <1>5. /\ Composed.id = attempts + 1 /\ Composed.from = Composed.path.from
        /\ ~Composed.staleRcpts => Composed.rcpts = Composed.path.rcpts
        /\ ~Composed.staleLines => Composed.data = Composed.lines
    BY <1>1 DEF Composed, SmtpInv, HandlerFollows
  <1>6. Len(published) \in Nat
    BY <1>3
  <1>7. EnvelopeIsOwn' /\ BodyIsOwn'
    BY <1>4, <1>5, <1>6 DEF SmtpInv, EnvelopeIsOwn, BodyIsOwn
  <1>8. \A i \in 1 .. Len(published') : published'[i].id \in 1 .. attempts'
    BY <1>1, <1>4, <1>5, <1>6 DEF SmtpInv, Numbering
  <1>9. Queued(attempts)'
    BY <1>1, <1>4, <1>5, <1>6 DEF Queued
  <1>10. \A n \in 1 .. MaxMails : n # attempts + 1 => Queued(n)' = Queued(n)
    BY <1>4, <1>5, <1>6 DEF Queued
  <1>11. told[attempts + 1] = "nothing"
    <2>1. attempts + 1 \in 1 .. MaxMails /\ attempts + 1 > attempts
      BY <1>1, SmtpAssumption
    <2>2. QED
      BY <2>1 DEF SmtpInv, Numbering
  <1>12. Numbering' /\ AnswersAreTrue'
    BY <1>1, <1>8, <1>9, <1>10, <1>11 DEF SmtpInv, Numbering, AnswersAreTrue
  <1>13. buffer' \in Seq(Line) /\ lines' \in Seq(Line) /\ path' \in Path /\ envelope' \in Path
    BY <1>1, NoPathIsPath
  <1>14. SmtpTypeOK'
    <2>1. attempts' \in 0 .. MaxMails
      BY <1>1, SmtpAssumption
    <2>2. QED
      BY <1>1, <1>4, <1>13, <2>1 DEF SmtpInv, SmtpTypeOK, SessionState, Reply
  <1>15. HandlerFollows'
    BY <1>1, NoPathIsPath DEF HandlerFollows
  <1>16. QED
    BY <1>7, <1>12, <1>14, <1>15 DEF SmtpInv

LEMMA SmtpInvStep == SmtpInv /\ [SmtpNext]_smtpVars => SmtpInv'
  <1> SUFFICES ASSUME SmtpInv, [SmtpNext]_smtpVars
               PROVE  SmtpInv'
    OBVIOUS
  <1>1. CASE UNCHANGED smtpVars
    BY <1>1
    DEF smtpVars, sessionVars, handlerVars, queueVars, staleVars, SmtpInv, SmtpTypeOK,
        HandlerFollows, Numbering, EnvelopeIsOwn, BodyIsOwn, AnswersAreTrue, Queued
  <1>2. QED
    BY <1>1, CommandStep, ConnectionStep, RefusedStep, QueuedStep DEF SmtpNext, ConnectionNext, ClientLine

-----------------------------------------------------------------------------
(* The session, the handler and the queue are well formed at every step.   *)
THEOREM SmtpTypeCorrect == SmtpSpec => []SmtpTypeOK
  <1>1. SmtpInv => SmtpTypeOK
    BY DEF SmtpInv
  <1>2. QED
    BY <1>1, SmtpInvInit, SmtpInvStep, PTL DEF SmtpSpec

(* A published mail has the sender and the recipients of its own           *)
(* transaction, unless an earlier one was reset or not parsed.             *)
THEOREM TransactionsKeptApart == SmtpSpec => []EnvelopeIsOwn
  <1>1. SmtpInv => EnvelopeIsOwn
    BY DEF SmtpInv
  <1>2. QED
    BY <1>1, SmtpInvInit, SmtpInvStep, PTL DEF SmtpSpec

(* A published mail is made of the lines of its own transaction, unless an *)
(* earlier mail was not parsed.                                            *)
THEOREM BodiesKeptApart == SmtpSpec => []BodyIsOwn
  <1>1. SmtpInv => BodyIsOwn
    BY DEF SmtpInv
  <1>2. QED
    BY <1>1, SmtpInvInit, SmtpInvStep, PTL DEF SmtpSpec

(* A client that is told "queued" has its mail on the queue, one that is   *)
(* told "refused" has not, also when answers get lost.                     *)
THEOREM AnswersAreTruthful == SmtpSpec => []AnswersAreTrue
  <1>1. SmtpInv => AnswersAreTrue
    BY DEF SmtpInv
  <1>2. QED
    BY <1>1, SmtpInvInit, SmtpInvStep, PTL DEF SmtpSpec
-----------------------------------------------------------------------------
(* The numbers of the published mails are a queue of their own, which a    *)
(* mail that is published joins at its end.                                *)
LEMMA NumbersAppend ==
  ASSUME SmtpInv, DataEnd
  PROVE  [i \in DOMAIN published' |-> published'[i].id]
           = Append([i \in DOMAIN published |-> published[i].id], attempts + 1)
  <1> DEFINE ids  == [i \in DOMAIN published |-> published[i].id]
             ids2 == [i \in DOMAIN published' |-> published'[i].id]
             n    == Len(published)
  <1>1. Composed \in PublishedMail /\ Composed.id = attempts + 1
    <2>1. attempts \in Nat
      BY SmtpAssumption DEF SmtpInv, SmtpTypeOK
    <2>2. Composed \in PublishedMail
      BY <2>1 DEF Composed, PublishedMail, SmtpInv, SmtpTypeOK, Path
    <2>3. Composed.id = attempts + 1
      BY DEF Composed
    <2>4. QED
      BY <2>2, <2>3
  <1>2. published \in Seq(PublishedMail) /\ published' = Append(published, Composed) /\ n \in Nat
    BY DEF DataEnd, SmtpInv, SmtpTypeOK
  <1>3. /\ DOMAIN published = 1 .. n /\ DOMAIN published' = 1 .. n + 1
        /\ \A i \in 1 .. n : published'[i] = published[i]
        /\ published'[n + 1] = Composed
    BY <1>1, <1>2
  <1>4. attempts + 1 \in Nat /\ \A i \in 1 .. n : published[i].id \in Nat
    <2>1. attempts + 1 \in Nat
      BY SmtpAssumption DEF SmtpInv, SmtpTypeOK
    <2>2. \A p \in PublishedMail : p.id \in Nat
      BY DEF PublishedMail
    <2>3. \A i \in 1 .. n : published[i] \in PublishedMail
      BY <1>2
    <2>4. QED
      BY <2>1, <2>2, <2>3
  <1>5. ids \in Seq(Nat) /\ Len(ids) = n
    <2>1. ids \in [1 .. n -> Nat]
      BY <1>3, <1>4
    <2>2. QED
      BY <1>2, <2>1
  <1>6. /\ Append(ids, attempts + 1) = [i \in 1 .. n + 1 |-> IF i = n + 1 THEN attempts + 1 ELSE ids[i]]
    BY <1>4, <1>5
  <1>7. ids2 = [i \in 1 .. n + 1 |-> IF i = n + 1 THEN attempts + 1 ELSE ids[i]]
    <2>1. \A i \in 1 .. n + 1 :
            published'[i].id = IF i = n + 1 THEN attempts + 1 ELSE ids[i]
      BY <1>1, <1>2, <1>3
    <2>2. QED
      BY <1>3, <2>1
  <1>8. QED
    BY <1>6, <1>7

(* Every mail is sent once, and one at a time: the mail server does what   *)
(* the queue of Storage and WebServer expects of it.                       *)
THEOREM QueueIsFed == SmtpSpec => FeedsTheQueue
  <1>1. SmtpInv /\ [SmtpNext]_smtpVars
          => [SendsOne]_published
    <2> SUFFICES ASSUME SmtpInv, [SmtpNext]_smtpVars
                 PROVE  [SendsOne]_published
      OBVIOUS
    <2>1. CASE DataEnd
      <3>1. attempts + 1 \in 1 .. MaxMails
        BY <2>1, SmtpAssumption DEF DataEnd, SmtpInv, SmtpTypeOK
      <3>2. attempts + 1 \notin {[i \in DOMAIN published |-> published[i].id][j] :
                                   j \in DOMAIN [i \in DOMAIN published |-> published[i].id]}
        <4>1. DOMAIN published = 1 .. Len(published) /\ attempts \in Nat
          BY SmtpAssumption DEF SmtpInv, SmtpTypeOK
        <4>2. \A j \in DOMAIN published : published[j].id # attempts + 1
          BY <4>1 DEF SmtpInv, Numbering
        <4>3. QED
          BY <4>2
      <3>3. Queue!Send(attempts + 1)
        BY <2>1, <3>2, NumbersAppend DEF Queue!Send, Queue!Published, Queue!ToSet
      <3>4. SendsOne
        BY <3>1, <3>3 DEF SendsOne, Queue!Send
      <3>5. QED
        BY <3>4
    <2>2. CASE UNCHANGED smtpVars
      BY <2>2 DEF smtpVars, queueVars
    <2>3. CASE SmtpNext /\ ~DataEnd
      BY <2>3
      DEF SmtpNext, ConnectionNext, ClientLine, Helo, Rset, Abandon, DataStart, Quit, OtherLine, Mail, Rcpt,
          Data, DataEndUnparsed, DataEndUnsent, WriteResponse, WriteGoodbye, Disconnect,
          ConnectionEnds, Accept, DropReceivers, queueVars
    <2>4. QED
      BY <2>1, <2>2, <2>3
  <1>2. QED
    BY <1>1, SmtpInvInit, SmtpInvStep, PTL DEF SmtpSpec, FeedsTheQueue
=============================================================================
