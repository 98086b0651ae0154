--------------------------- MODULE MailCrabProofs ---------------------------
(***************************************************************************)
(* Proofs about the whole product, from an SMTP client to the list in a    *)
(* browser tab: any number of tabs, mails and other SMTP clients, and      *)
(* every bound of either side.                                             *)
(***************************************************************************)
EXTENDS MailCrab, OverviewProofs, SmtpProofs

(* The mails of the client are in the queue in the order of their numbers. *)
Placing ==
  /\ places \in Seq(Nat) /\ Len(places) = Len(published)
  /\ \A i \in 1 .. Len(published) : places[i] \in 1 .. Len(log)
  /\ \A i, j \in 1 .. Len(published) :
       i < j => places[i] < places[j] /\ published[i].id < published[j].id

MailCrabInv == OverviewInv /\ SmtpInv /\ Placing

-----------------------------------------------------------------------------
(* A step of the product is a step of either side, or both at once.        *)

LEMMA MailSentIsBoth ==
  ASSUME MailSent
  PROVE  SmtpNext /\ OverviewNext
  <1>1. PICK m \in Message : Publish(m)
    BY DEF MailSent
  <1>2. ServerStep /\ UNCHANGED tabVars
    BY <1>1 DEF MailSent, ServerStep
  <1>3. QED
    BY <1>2 DEF MailSent, SmtpNext, OverviewNext

LEMMA StepIsSmtpStep == [MailCrabNext]_mailCrabVars => [SmtpNext]_smtpVars
  BY MailSentIsBoth DEF MailCrabNext, mailCrabVars, SmtpStep, OverviewStep, SmtpNext

LEMMA StepIsOverviewStep == [MailCrabNext]_mailCrabVars => [OverviewNext]_allVars
  BY MailSentIsBoth DEF MailCrabNext, mailCrabVars, SmtpStep, OverviewStep

LEMMA LogStays ==
  ASSUME MailCrabInv, [OverviewNext]_allVars
  PROVE  /\ Len(log) \in Nat /\ Len(log') \in Nat
         /\ Len(log) <= Len(log')
         /\ \A i \in 1 .. Len(log) : log'[i] = log[i]
  <1>1. [WebNext]_webVars
    BY OverviewStepIsWebStep DEF MailCrabInv
  <1>2. WebTypeOK /\ Shape
    BY WebInvIsTypeOK DEF MailCrabInv, OverviewInv, WebInv
  <1>3. [StorageNextStep]_storageVars
    BY <1>1, <1>2, WebStepIsStorageStep
  <1>4. QED
    BY <1>2, <1>3, LogGrows

-----------------------------------------------------------------------------
LEMMA MailCrabInvInit == MailCrabInit => MailCrabInv
  <1> SUFFICES ASSUME MailCrabInit
               PROVE  MailCrabInv
    OBVIOUS
  <1>1. OverviewInv /\ SmtpInv
    BY OverviewInvInit, SmtpInvInit DEF MailCrabInit
  <1>2. places = <<>> /\ published = <<>>
    BY DEF MailCrabInit, SmtpInit
  <1>3. Placing
    BY <1>2 DEF Placing
  <1>4. QED
    BY <1>1, <1>3 DEF MailCrabInv

(* A mail that is sent takes the next number, and the next place.          *)
LEMMA PlacingSent ==
  ASSUME MailCrabInv, MailSent
  PROVE  Placing'
  <1> DEFINE n == Len(published)
  <1>1. /\ published \in Seq(PublishedMail) /\ attempts \in Nat
        /\ \A i \in 1 .. n : published[i].id \in 1 .. attempts
    BY SmtpAssumption DEF MailCrabInv, SmtpInv, SmtpTypeOK, Numbering
  <1>2. /\ published' = Append(published, Composed) /\ Composed.id = attempts + 1
        /\ places' = Append(places, Len(log) + 1)
    BY DEF MailSent, DataEnd, Composed, NextSent
  <1>3. log \in Seq(Message) /\ Len(log') = Len(log) + 1
    <2>1. log \in Seq(Message)
      BY DEF MailCrabInv, OverviewInv, WebInv, Shape, StorageTypeOK
    <2>2. PICK m \in Message : Send(m)
      BY DEF MailSent, Publish
    <2>3. QED
      BY <2>1, <2>2, SendAppends
  <1>4. /\ places \in Seq(Nat) /\ Len(places) = n
        /\ \A i \in 1 .. n : places[i] \in 1 .. Len(log)
        /\ \A i, j \in 1 .. n : i < j => places[i] < places[j] /\ published[i].id < published[j].id
    BY DEF MailCrabInv, Placing
  <1>5. /\ Len(published') = n + 1 /\ Len(places') = n + 1 /\ places' \in Seq(Nat)
        /\ \A i \in 1 .. n : published'[i] = published[i] /\ places'[i] = places[i]
        /\ published'[n + 1].id = attempts + 1 /\ places'[n + 1] = Len(log) + 1
    BY <1>1, <1>2, <1>3, <1>4
  <1>6. ASSUME NEW i \in 1 .. n + 1
        PROVE  places'[i] \in 1 .. Len(log')
    <2>1. n \in Nat /\ Len(log) \in Nat
      BY <1>1, <1>3
    <2>2. CASE i = n + 1
      BY <1>3, <1>5, <2>1, <2>2
    <2>3. CASE i \in 1 .. n
      BY <1>3, <1>4, <1>5, <2>1, <2>3
    <2>4. QED
      BY <2>1, <2>2, <2>3
  <1>7. ASSUME NEW i \in 1 .. n + 1, NEW j \in 1 .. n + 1, i < j
        PROVE  places'[i] < places'[j] /\ published'[i].id < published'[j].id
    <2>1. n \in Nat /\ i \in 1 .. n
      BY <1>1, <1>7
    <2>2. CASE j = n + 1
      <3>1. places'[i] \in 1 .. Len(log) /\ published'[i].id \in 1 .. attempts
        BY <1>1, <1>4, <1>5, <2>1
      <3>2. places'[j] = Len(log) + 1 /\ published'[j].id = attempts + 1
        BY <1>5, <2>2
      <3>3. QED
        BY <1>1, <1>3, <3>1, <3>2
    <2>3. CASE j \in 1 .. n
      BY <1>4, <1>5, <1>7, <2>1, <2>3
    <2>4. QED
      BY <2>1, <2>2, <2>3
  <1>8. QED
    BY <1>5, <1>6, <1>7 DEF Placing

LEMMA MailCrabInvStep == MailCrabInv /\ [MailCrabNext]_mailCrabVars => MailCrabInv'
  <1> SUFFICES ASSUME MailCrabInv, [MailCrabNext]_mailCrabVars
               PROVE  MailCrabInv'
    OBVIOUS
  <1>1. OverviewInv' /\ SmtpInv'
    BY StepIsOverviewStep, StepIsSmtpStep, OverviewInvStep, SmtpInvStep DEF MailCrabInv
  <1>2. ASSUME UNCHANGED <<published, places>>
        PROVE  Placing'
    <2>1. Len(log) \in Nat /\ Len(log') \in Nat /\ Len(log) <= Len(log')
      BY StepIsOverviewStep, LogStays
    <2>2. QED
      BY <1>2, <2>1 DEF MailCrabInv, Placing
  <1>3. SmtpStep => UNCHANGED <<published, places>>
    BY DEF SmtpStep, ConnectionNext, ClientLine, Helo, Rset, Abandon, DataStart, Quit,
       OtherLine, Mail, Rcpt, Data, DataEndUnparsed, DataEndUnsent, WriteResponse,
       WriteGoodbye, Disconnect, ConnectionEnds, Accept, queueVars
  <1>4. OverviewStep \/ UNCHANGED mailCrabVars => UNCHANGED <<published, places>>
    BY DEF OverviewStep, mailCrabVars, smtpVars, queueVars
  <1>5. Placing'
    BY <1>2, <1>3, <1>4, PlacingSent DEF MailCrabNext
  <1>6. QED
    BY <1>1, <1>5 DEF MailCrabInv

-----------------------------------------------------------------------------
(* The numbers, the places and the names of the client's mails determine   *)
(* one another.                                                            *)
LEMMA NumbersArePlaces ==
  ASSUME MailCrabInv, NEW i \in DOMAIN published, NEW j \in DOMAIN published
  PROVE  /\ MailAt(i) = log[places[i]] /\ MailAt(i) \in Published /\ places[i] \in 1 .. Len(log)
         /\ MailAt(i) = MailAt(j) => i = j
         /\ published[i].id = published[j].id => i = j
         /\ published[i].id < published[j].id => places[i] < places[j]
         /\ published[i].id \in 1 .. MaxMails
  <1>1. /\ published \in Seq(PublishedMail) /\ attempts \in 0 .. MaxMails
        /\ \A k \in 1 .. Len(published) : published[k].id \in 1 .. attempts
    BY DEF MailCrabInv, SmtpInv, SmtpTypeOK, Numbering
  <1>2. /\ \A k \in 1 .. Len(published) : places[k] \in 1 .. Len(log)
        /\ \A k, l \in 1 .. Len(published) :
             k < l => places[k] < places[l] /\ published[k].id < published[l].id
    BY DEF MailCrabInv, Placing
  <1>3. log \in Seq(Message) /\ SentOnce
    BY DEF MailCrabInv, OverviewInv, Books, WebInv, Shape, StorageTypeOK
  <1>4. i \in 1 .. Len(published) /\ j \in 1 .. Len(published) /\ Len(published) \in Nat
    BY <1>1
  <1>5. i < j \/ i = j \/ j < i
    BY <1>4
  <1>6. published[i].id \in 1 .. MaxMails /\ published[i].id \in Nat /\ published[j].id \in Nat
    BY <1>1, <1>4, SmtpAssumption
  <1>7. places[i] \in 1 .. Len(log) /\ places[j] \in 1 .. Len(log) /\ Len(log) \in Nat
    BY <1>2, <1>3, <1>4
  <1>8. MailAt(i) \in Published
    BY <1>3, <1>7, PublishedIsLog DEF MailAt
  <1>9. MailAt(i) = MailAt(j) => places[i] = places[j]
    BY <1>3, <1>7 DEF MailAt, SentOnce
  <1>10. MailAt(i) = MailAt(j) => i = j
    BY <1>2, <1>4, <1>5, <1>7, <1>9
  <1>11. published[i].id = published[j].id => i = j
    BY <1>2, <1>4, <1>5, <1>6
  <1>12. published[i].id < published[j].id => places[i] < places[j]
    BY <1>2, <1>4, <1>5, <1>6
  <1>13. QED
    BY <1>6, <1>7, <1>8, <1>10, <1>11, <1>12 DEF MailAt

LEMMA IsMailFacts ==
  ASSUME MailCrabInv, NEW n, NEW m, IsMail(n, m)
  PROVE  /\ n \in 1 .. MaxMails
         /\ m \in Published
         /\ \A k : IsMail(k, m) => k = n
  <1>1. PICK i \in DOMAIN published : published[i].id = n /\ MailAt(i) = m
    BY DEF IsMail
  <1>2. ASSUME NEW k, IsMail(k, m)
        PROVE  k = n
    <2>1. PICK j \in DOMAIN published : published[j].id = k /\ MailAt(j) = m
      BY <1>2 DEF IsMail
    <2>2. QED
      BY <1>1, <2>1, NumbersArePlaces
  <1>3. QED
    BY <1>1, <1>2, NumbersArePlaces

LEMMA QueuedIsMail ==
  ASSUME MailCrabInv, NEW n \in 1 .. MaxMails, told[n] = "queued"
  PROVE  \E m \in Published : IsMail(n, m)
  <1>1. PICK i \in 1 .. Len(published) : published[i].id = n
    BY DEF MailCrabInv, SmtpInv, AnswersAreTrue, Queued
  <1>2. i \in DOMAIN published
    BY <1>1 DEF MailCrabInv, SmtpInv, SmtpTypeOK
  <1>3. MailAt(i) \in Published
    BY <1>2, NumbersArePlaces
  <1>4. QED
    BY <1>1, <1>2, <1>3 DEF IsMail

LEMMA AnswersHoldNow == MailCrabInv => AnswersHold
  <1> SUFFICES ASSUME MailCrabInv, NEW n \in 1 .. MaxMails
               PROVE  /\ told[n] = "queued" =>
                           \E m \in Outstanding \cup storage \cup deleted \cup expired \cup missed :
                             IsMail(n, m) /\ \A k \in 1 .. MaxMails : IsMail(k, m) => k = n
                      /\ told[n] = "refused" => \A m \in Message : ~IsMail(n, m)
    BY DEF AnswersHold
  <1>1. Published = Outstanding \cup storage \cup deleted \cup expired \cup missed
    BY DEF MailCrabInv, OverviewInv, Books, Accounting
  <1>2. ASSUME told[n] = "refused", NEW m, IsMail(n, m)
        PROVE  FALSE
    BY <1>2 DEF MailCrabInv, SmtpInv, SmtpTypeOK, AnswersAreTrue, Queued, IsMail
  <1>3. ASSUME told[n] = "queued"
        PROVE  \E m \in Outstanding \cup storage \cup deleted \cup expired \cup missed :
                 IsMail(n, m) /\ \A k \in 1 .. MaxMails : IsMail(k, m) => k = n
    <2>1. PICK m \in Published : IsMail(n, m)
      BY <1>3, QueuedIsMail
    <2>2. \A k : IsMail(k, m) => k = n
      BY <2>1, IsMailFacts
    <2>3. QED
      BY <1>1, <2>1, <2>2
  <1>4. QED
    BY <1>2, <1>3

LEMMA SentInOrderNow == MailCrabInv => SentInOrder
  <1> SUFFICES ASSUME MailCrabInv, NEW c \in Conn,
                      NEW k1 \in DOMAIN sent[c], NEW k2 \in DOMAIN sent[c],
                      NEW n1 \in 1 .. MaxMails, NEW n2 \in 1 .. MaxMails,
                      IsMail(n1, sent[c][k1]), IsMail(n2, sent[c][k2]), n1 < n2
               PROVE  k1 < k2
    BY DEF SentInOrder
  <1>1. PICK i \in DOMAIN published : published[i].id = n1 /\ MailAt(i) = sent[c][k1]
    BY DEF IsMail
  <1>2. PICK j \in DOMAIN published : published[j].id = n2 /\ MailAt(j) = sent[c][k2]
    BY DEF IsMail
  <1>3. places[i] < places[j] /\ places[i] \in 1 .. Len(log) /\ places[j] \in 1 .. Len(log)
        /\ MailAt(i) = log[places[i]] /\ MailAt(j) = log[places[j]]
    BY <1>1, <1>2, NumbersArePlaces
  <1>4. /\ sent[c] \in Seq(Message) /\ wsNext[c] \in Nat /\ WsOK(c)
        /\ log \in Seq(Message) /\ SentOnce
    BY DEF MailCrabInv, OverviewInv, Books, WebInv, WsTypeOK, Shape, StorageTypeOK
  <1>5. /\ k1 \in 1 .. Len(sent[c]) /\ k2 \in 1 .. Len(sent[c])
        /\ Len(log) \in Nat /\ wsStart[c] \in Nat \ {0}
    BY <1>4 DEF WsOK
  <1>6. ASSUME NEW k \in 1 .. Len(sent[c]), NEW p \in 1 .. Len(log), log[p] = sent[c][k]
        PROVE  p = wsStart[c] + k - 1
    <2>1. sent[c][k] = log[wsStart[c] + k - 1] /\ wsStart[c] + k - 1 <= Len(log)
      BY <1>4 DEF WsOK
    <2>2. wsStart[c] + k - 1 \in 1 .. Len(log)
      BY <1>5, <2>1
    <2>3. QED
      BY <1>4, <1>6, <2>1, <2>2 DEF SentOnce
  <1>7. places[i] = wsStart[c] + k1 - 1 /\ places[j] = wsStart[c] + k2 - 1
    BY <1>1, <1>2, <1>3, <1>5, <1>6
  <1>8. QED
    BY <1>3, <1>5, <1>7

LEMMA QueuedIsListedNow == MailCrabInv => QueuedIsListed
  <1> SUFFICES ASSUME MailCrabInv, NEW t \in Conn, NEW n \in 1 .. MaxMails,
                      fetch[t] = "applied", wsTask[t] \in Active, told[n] = "queued"
               PROVE  \E m \in Message :
                        /\ IsMail(n, m)
                        /\ m \in storage => m \in Listed(t) \cup removed[t] \cup ToCome(t)
                                                     \cup replaced[t] \cup InTheGap(t)
    BY DEF QueuedIsListed
  <1>1. ListAccounts
    BY ListsAddUpNow DEF MailCrabInv
  <1>2. Published \subseteq Message
    BY PublishedIsLog DEF MailCrabInv, OverviewInv, WebInv, Shape, StorageTypeOK
  <1>3. QED
    BY <1>1, <1>2, QueuedIsMail DEF ListAccounts

LEMMA QueuedIsKeptNow ==
  MailCrabInv /\ LossNeedsOverrun /\ ExpiredWasOld /\ TaskLives => QueuedIsKept
  <1> SUFFICES ASSUME MailCrabInv, LossNeedsOverrun, ExpiredWasOld, TaskLives,
                      RetentionPeriod = 0, Len(log) <= Slots
               PROVE  /\ \A n \in 1 .. MaxMails : told[n] = "queued" =>
                           \E m \in Outstanding \cup storage \cup deleted : IsMail(n, m)
                      /\ storageTask \in {"select", "inserting"} \/ cancelled
    BY DEF QueuedIsKept
  <1>1. log \in Seq(Message) /\ Slots \in Nat /\ missed \subseteq Published
    BY CapacityAssumption
    DEF MailCrabInv, OverviewInv, WebInv, Shape, StorageTypeOK, Books, Accounting
  <1>2. expired = {}
    BY DEF ExpiredWasOld
  <1>3. missed = {}
    <2> SUFFICES ASSUME NEW m \in missed
                 PROVE  FALSE
      OBVIOUS
    <2>1. PICK i \in 1 .. Len(log) : log[i] = m
      BY <1>1, PublishedIsLog
    <2>2. i + Slots <= Len(log)
      BY <2>1 DEF LossNeedsOverrun
    <2>3. QED
      BY <1>1, <2>1, <2>2
  <1>4. Published = Outstanding \cup storage \cup deleted
    BY <1>2, <1>3 DEF MailCrabInv, OverviewInv, Books, Accounting
  <1>5. storageTask \in {"select", "inserting"} \/ cancelled
    BY RetentionAssumption
    DEF MailCrabInv, OverviewInv, WebInv, Shape, StorageTypeOK, TaskState, TaskLives
  <1>6. QED
    BY <1>4, <1>5, QueuedIsMail

-----------------------------------------------------------------------------
(* Beside the rest of the product the SMTP handler does what Smtp says:    *)
(* joining the two at tx.send takes nothing away and adds nothing.         *)
THEOREM ProductImplementsSmtp == MailCrabSpec => ImplementsSmtp
  <1>1. MailCrabInit => SmtpInit
    BY DEF MailCrabInit
  <1>2. QED
    BY <1>1, StepIsSmtpStep, PTL DEF MailCrabSpec, ImplementsSmtp, SmtpSpec

(* And what is behind the queue does what Overview says, so that every     *)
(* theorem about the storage task, the web server and the tabs holds of    *)
(* the product.                                                            *)
THEOREM ProductImplementsOverview == MailCrabSpec => ImplementsOverview
  <1>1. MailCrabInit => OverviewInit
    BY DEF MailCrabInit
  <1>2. QED
    BY <1>1, StepIsOverviewStep, PTL DEF MailCrabSpec, ImplementsOverview, OverviewSafety

(* Seen from the whole product the map is a MailStore: a mail arrives at   *)
(* most once and unread, is never unread again once opened, and never      *)
(* returns.                                                                *)
THEOREM ProductImplementsMailStore == MailCrabSpec => ImplementsMailStore
  BY ProductImplementsOverview, OverviewImplementsWebServer, WebServerImplementsStorage,
     StorageImplementsMailStore, PTL
  DEF ImplementsOverview, ImplementsWebServer, ImplementsStorage

(* What a client is told of a mail holds to the end: a mail that was       *)
(* "queued" is accounted for, as one mail of its own, and a mail that was  *)
(* "refused" is nowhere.                                                   *)
THEOREM AnswersAreKept == MailCrabSpec => []AnswersHold
  BY AnswersHoldNow, MailCrabInvInit, MailCrabInvStep, PTL DEF MailCrabSpec

(* Every websocket client is sent the mails of an SMTP client in the order *)
(* in which they were sent, whatever others send in between.               *)
THEOREM OrderIsKept == MailCrabSpec => []SentInOrder
  BY SentInOrderNow, MailCrabInvInit, MailCrabInvStep, PTL DEF MailCrabSpec

(* A mail whose client was told "queued", and which is still in the map,   *)
(* is in the list of every tab that has its answer and is subscribed,      *)
(* unless it was removed there, is on its way, or fell into one of the two *)
(* races of the request with the websocket.                                *)
THEOREM QueuedReachesTheTabs == MailCrabSpec => []QueuedIsListed
  BY QueuedIsListedNow, MailCrabInvInit, MailCrabInvStep, PTL DEF MailCrabSpec

(* No mail is lost between the client and the map while the ring has not   *)
(* gone round, and none leaves the map but by a removal, when messages are *)
(* kept forever.                                                           *)
THEOREM QueuedMailIsKept == MailCrabSpec => []QueuedIsKept
  <1>1. MailCrabSpec => []LossNeedsOverrun /\ []ExpiredWasOld /\ []TaskLives
    BY ProductImplementsOverview, OverviewImplementsWebServer, WebServerImplementsStorage,
       LossOnlyByOverrun, OnlyOldExpires, OnlyCancelEndsTheTask, PTL
    DEF ImplementsOverview, ImplementsWebServer, ImplementsStorage
  <1>2. MailCrabSpec => []MailCrabInv
    BY MailCrabInvInit, MailCrabInvStep, PTL DEF MailCrabSpec
  <1>3. QED
    BY <1>1, <1>2, QueuedIsKeptNow, PTL
=============================================================================
