------------------------------ MODULE MailCrab ------------------------------
(***************************************************************************)
(* The whole product, from an SMTP client to the list in a browser tab:    *)
(* Smtp beside Overview, which is the queue, the storage task, the web     *)
(* server and the tabs.  The SMTP handler and the rest meet at the queue   *)
(* only (run() in backend/src/main.rs hands the Sender to mail_server and  *)
(* the Receiver to storage and to the web server): a mail is published by  *)
(* tx.send in the handler.                                                 *)
(*                                                                         *)
(* Smtp follows one client at a time, over its connections.  The other     *)
(* connections of the server are here as what they do to the queue, the    *)
(* Publish steps of Overview, in any order with those of the client.       *)
(***************************************************************************)
EXTENDS Overview, Smtp

VARIABLE places  \* history: where in log the published mails of the client are

mailCrabVars == <<allVars, smtpVars, places>>

MailCrabInit == OverviewInit /\ SmtpInit /\ places = <<>>

\* tx.send in parse_mail: the handler's step and the queue's are one.
MailSent ==
  /\ DataEnd
  /\ \E m \in Message : Publish(m)
  /\ places' = Append(places, NextSent)
  /\ UNCHANGED <<wsVars, tabVars>>

\* AppState keeps a Receiver as long as the service runs: DropReceivers is no step.
SmtpStep == ConnectionNext /\ UNCHANGED <<places, allVars>>

OverviewStep == OverviewNext /\ UNCHANGED <<smtpVars, places>>

MailCrabNext == MailSent \/ SmtpStep \/ OverviewStep

MailCrabSpec == MailCrabInit /\ [][MailCrabNext]_mailCrabVars

-----------------------------------------------------------------------------
(* The mail the client's i-th published message has become.                *)
MailAt(i) == log[places[i]]

(* What a client is told holds for the whole product: a mail that was      *)
(* "queued" is on its way to the map, in the map, or left it or missed it  *)
(* for a reason that has a name, and no other mail of the client is that   *)
(* one; a mail that was "refused" is nowhere.                              *)
IsMail(n, m) == \E i \in DOMAIN published : published[i].id = n /\ MailAt(i) = m

AnswersHold ==
  \A n \in 1 .. MaxMails :
    /\ told[n] = "queued" =>
         \E m \in Outstanding \cup storage \cup deleted \cup expired \cup missed :
           IsMail(n, m) /\ \A k \in 1 .. MaxMails : IsMail(k, m) => k = n
    /\ told[n] = "refused" => \A m \in Message : ~IsMail(n, m)

(* The mails of one client come to every websocket client in the order in  *)
(* which it sent them.                                                     *)
SentInOrder ==
  \A c \in Conn : \A k1, k2 \in DOMAIN sent[c], n1, n2 \in 1 .. MaxMails :
    IsMail(n1, sent[c][k1]) /\ IsMail(n2, sent[c][k2]) /\ n1 < n2 => k1 < k2

(* A tab that has its answer and is subscribed lists every mail the client *)
(* was told is "queued" and the map still has, but for the removals of the *)
(* tab and the two races of ListAccounts.                                  *)
QueuedIsListed ==
  \A t \in Conn, n \in 1 .. MaxMails :
    fetch[t] = "applied" /\ wsTask[t] \in Active /\ told[n] = "queued" =>
      \E m \in Message :
        /\ IsMail(n, m)
        /\ m \in storage => m \in Listed(t) \cup removed[t] \cup ToCome(t)
                                     \cup replaced[t] \cup InTheGap(t)

(* README.md:34 "All email is stored in memory while the application is    *)
(* running", as far as it is so: when messages are kept forever, and as    *)
(* long as the queue has not been through its ring once, a mail that was   *)
(* "queued" is on its way to the map or in it until a client removes it,   *)
(* and the storage task is there to take it until it is told to stop.      *)
QueuedIsKept ==
  RetentionPeriod = 0 /\ Len(log) <= Slots =>
    /\ \A n \in 1 .. MaxMails : told[n] = "queued" =>
         \E m \in Outstanding \cup storage \cup deleted : IsMail(n, m)
    /\ storageTask \in {"select", "inserting"} \/ cancelled

(* Neither side notices that the other is there.                           *)
ImplementsSmtp     == SmtpSpec
ImplementsOverview == OverviewSafety

-----------------------------------------------------------------------------
(* README.md:43 "The frontend initially performs a call to /api/messages   *)
(* to receive all existing email metadata and then subscribes for new      *)
(* messages using the websocket connection": a tab that has its answer,    *)
(* and has been told of all that was sent since it subscribed, lists every *)
(* mail the server has and that it has not removed, whose sender was told  *)
(* "queued".                                                               *)
QueuedMailListed ==
  \A t \in Conn, n \in 1 .. MaxMails, m \in storage :
    /\ fetch[t] = "applied" /\ wsTask[t] \in Active /\ ToCome(t) = {}
    /\ told[n] = "queued" /\ IsMail(n, m)
    => m \in Listed(t) \cup removed[t]
=============================================================================
