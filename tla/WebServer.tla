----------------------------- MODULE WebServer -----------------------------
(***************************************************************************)
(* The web server (backend/src/web_server.rs) beside the storage task: one *)
(* task per websocket, which forwards every new mail to its client, pings  *)
(* it and carries out its commands, and the HTTP handlers, which read and  *)
(* change the map.  All of them run on other threads than the storage task *)
(* and meet it at the queue and at the lock of the map only.               *)
(*                                                                         *)
(* A websocket task awaits its socket inside a branch of its select!, so a *)
(* client that does not read holds up its own task and no other.           *)
(***************************************************************************)
EXTENDS Storage

CONSTANTS
  Conn,      \* websocket connections; a client that comes back is a new one
  MaxInbox   \* bound: commands on their way from one client to its task

ASSUME InboxAssumption == MaxInbox \in Nat \ {0}

VARIABLES
  wsTask,   \* where the task of each connection is
  wsNext,   \* the cursor of its receiver
  wsStart,  \* history: the cursor it started with
  peer,     \* what its client does
  inbox,    \* the commands its client has sent and it has not read
  sent      \* history: the mails it has written to the socket

wsVars  == <<wsTask, wsNext, wsStart, peer, inbox, sent>>
webVars == <<storageVars, wsVars>>

(* "upgraded": the handshake is answered and the task not yet subscribed;  *)
(* "sending", "pinging": it awaits socket.send.                            *)
WsState == {"none", "upgraded", "select", "sending", "pinging", "closed"}
Active  == {"select", "sending", "pinging"}

(* A stalled client is connected and does not read.  A closed one is known *)
(* to the kernel as gone, a vanished one is not: nothing more comes from   *)
(* it, and only sending to it fails in the end.  One that has broken the   *)
(* websocket protocol is still there: what it sends after that is not      *)
(* read, but sending to it works.                                          *)
PeerState == {"reading", "stalled", "broken", "closed", "vanished"}
Connected == {"reading", "stalled"}   \* and keeps to the protocol
Away      == {"closed", "vanished"}

Command ==
  [action : {"Open", "Remove"}, id : Message] \cup [action : {"RemoveAll", "unknown"}]

Live(c) == wsTask[c] \notin {"none", "closed"}

\* The ids a client can name: it has been told of them or has listed them.
Known(c) == ToSet(sent[c]) \cup storage \cup deleted \cup expired

CommandOf(c) ==
  [action : {"Open", "Remove"}, id : Known(c)] \cup [action : {"RemoveAll", "unknown"}]

WebInit ==
  /\ StorageInit
  /\ wsTask  = [c \in Conn |-> "none"]
  /\ wsNext  = [c \in Conn |-> 1]
  /\ wsStart = [c \in Conn |-> 1]
  /\ peer    = [c \in Conn |-> "reading"]
  /\ inbox   = [c \in Conn |-> <<>>]
  /\ sent    = [c \in Conn |-> <<>>]

-----------------------------------------------------------------------------
(* The clients. *)

ClientConnect(c) ==
  /\ wsTask[c] = "none"
  /\ wsTask' = [wsTask EXCEPT ![c] = "upgraded"]
  /\ UNCHANGED <<storageVars, wsNext, wsStart, peer, inbox, sent>>

ClientSend(c) ==
  /\ Live(c) /\ peer[c] \in Connected
  /\ Len(inbox[c]) < MaxInbox
  /\ \E cmd \in CommandOf(c) : inbox' = [inbox EXCEPT ![c] = Append(@, cmd)]
  /\ UNCHANGED <<storageVars, wsTask, wsNext, wsStart, peer, sent>>

ClientChanges(c) ==
  /\ Live(c) /\ peer[c] \notin Away
  /\ \E p \in IF peer[c] = "broken" THEN Away ELSE PeerState :
       peer' = [peer EXCEPT ![c] = p]
  /\ UNCHANGED <<storageVars, wsTask, wsNext, wsStart, inbox, sent>>

-----------------------------------------------------------------------------
(* The websocket task. *)

(* The closure given to on_upgrade starts to run and resubscribes. *)
WsSubscribe(c) ==
  /\ wsTask[c] = "upgraded"
  /\ wsTask'  = [wsTask EXCEPT ![c] = "select"]
  /\ wsNext'  = [wsNext EXCEPT ![c] = NextSent]
  /\ wsStart' = [wsStart EXCEPT ![c] = NextSent]
  /\ UNCHANGED <<storageVars, peer, inbox, sent>>

WsPing(c) ==
  /\ wsTask[c] = "select"
  /\ wsTask' = [wsTask EXCEPT ![c] = "pinging"]
  /\ UNCHANGED <<storageVars, wsNext, wsStart, peer, inbox, sent>>

\* Faulty variant: the newest mail is taken, as from a watch channel.
RecvLatest(c) ==
  /\ wsTask[c] = "select"
  /\ Ready(wsNext[c])
  /\ wsTask' = [wsTask EXCEPT ![c] = "sending"]
  /\ wsNext' = [wsNext EXCEPT ![c] = NextSent]
  /\ UNCHANGED <<storageVars, wsStart, peer, inbox, sent>>

WsRecv(c) ==
  /\ wsTask[c] = "select"
  /\ Ready(wsNext[c])
  /\ wsTask' = [wsTask EXCEPT ![c] = "sending"]
  /\ wsNext' = [wsNext EXCEPT ![c] = @ + 1]
  /\ UNCHANGED <<storageVars, wsStart, peer, inbox, sent>>

\* Faulty variant: `active` is not cleared.
StaysActive(c) ==
  /\ wsTask' = [wsTask EXCEPT ![c] = "select"]
  /\ UNCHANGED <<storageVars, wsNext, wsStart, peer, inbox, sent>>

\* active = false: the receiver and the socket are dropped, with what was not read.
WsClose(c) ==
  /\ wsTask' = [wsTask EXCEPT ![c] = "closed"]
  /\ inbox' = [inbox EXCEPT ![c] = <<>>]
  /\ UNCHANGED <<storageVars, wsNext, wsStart, peer, sent>>

\* Faulty variant: a lag is logged and the client is kept.
LagTolerated(c) ==
  /\ wsTask[c] = "select"
  /\ Lagged(wsNext[c])
  /\ wsNext' = [wsNext EXCEPT ![c] = Oldest]
  /\ UNCHANGED <<storageVars, wsTask, wsStart, peer, inbox, sent>>

\* recv() fails: the client is disconnected, whatever the error.
WsRecvFails(c) ==
  /\ wsTask[c] = "select"
  /\ Lagged(wsNext[c]) \/ Closed(wsNext[c])
  /\ WsClose(c)

\* socket.send returns: the text (or the ping) is with the kernel.
WsSendDone(c) ==
  /\ wsTask[c] \in {"sending", "pinging"}
  /\ wsTask' = [wsTask EXCEPT ![c] = "select"]
  /\ sent' = IF wsTask[c] = "sending"
             THEN [sent EXCEPT ![c] = Append(@, log[wsNext[c] - 1])] ELSE sent
  /\ UNCHANGED <<storageVars, wsNext, wsStart, peer, inbox>>

WsSendFails(c) ==
  /\ wsTask[c] \in {"sending", "pinging"}
  /\ peer[c] \in Away
  /\ WsClose(c)

\* Faulty variant: a client that does not read for a while counts as gone.
StalledIsClosed(c) ==
  /\ wsTask[c] = "select"
  /\ peer[c] # "reading"
  /\ WsClose(c)

\* Close, None, or an error from the socket, which a client that broke the protocol
\* causes as well; what it sent before that is read first.
WsSocketClosed(c) ==
  /\ wsTask[c] = "select"
  /\ peer[c] = "closed" \/ (peer[c] = "broken" /\ inbox[c] = <<>>)
  /\ WsClose(c)

(* One command, under one write lock; a poisoned lock, or a text that is   *)
(* no Action, leaves the map alone.                                        *)
Carry(cmd) ==
  \/ cmd.action = "Open" /\ OpenMessage(cmd.id)
  \/ cmd.action = "Remove" /\ RemoveMessage(cmd.id)
  \/ cmd.action = "RemoveAll" /\ ClearStorage
  \/ (cmd.action = "unknown" \/ Poisoned) /\ UNCHANGED storageVars

\* Faulty variant: try_write, and the command is dropped when the lock is taken.
CommandIfUnlocked(c) ==
  /\ wsTask[c] = "select"
  /\ inbox[c] # <<>>
  /\ inbox' = [inbox EXCEPT ![c] = Tail(@)]
  /\ Carry(Head(inbox[c])) \/ UNCHANGED storageVars
  /\ UNCHANGED <<wsTask, wsNext, wsStart, peer, sent>>

\* Faulty variant: of the commands that wait only the newest is carried out.
NewestCommandOnly(c) ==
  /\ wsTask[c] = "select"
  /\ inbox[c] # <<>>
  /\ inbox' = [inbox EXCEPT ![c] = <<>>]
  /\ Carry(Last(inbox[c]))
  /\ UNCHANGED <<wsTask, wsNext, wsStart, peer, sent>>

WsCommand(c) ==
  /\ wsTask[c] = "select"
  /\ inbox[c] # <<>>
  /\ inbox' = [inbox EXCEPT ![c] = Tail(@)]
  /\ Carry(Head(inbox[c]))
  /\ UNCHANGED <<wsTask, wsNext, wsStart, peer, sent>>

-----------------------------------------------------------------------------
(* The HTTP handlers; on a poisoned lock they answer 500.                  *)

\* Faulty variant: the entry is replaced by an empty one.
DeleteByDefault(m) == ~Poisoned /\ RemoveByReset(m) /\ UNCHANGED wsVars

HttpDelete(m) == RemoveMessage(m) /\ UNCHANGED wsVars

HttpDeleteAll == ClearStorage /\ UNCHANGED wsVars

-----------------------------------------------------------------------------
(* The branch of the select! that waits on the queue, and the one that     *)
(* waits on the socket.                                                    *)
QueueBranch(c)  == WsRecv(c) \/ WsRecvFails(c)
SocketBranch(c) == WsSocketClosed(c) \/ WsCommand(c)

WsStep(c) ==
  \/ WsSubscribe(c) \/ WsPing(c)
  \/ QueueBranch(c) \/ SocketBranch(c)
  \/ WsSendDone(c) \/ WsSendFails(c)

ClientStep(c) == ClientConnect(c) \/ ClientSend(c) \/ ClientChanges(c)

HttpStep == HttpDeleteAll \/ \E m \in Message : HttpDelete(m)

WebNext ==
  \/ (Environment \/ StorageStep) /\ UNCHANGED wsVars
  \/ HttpStep
  \/ \E c \in Conn : ClientStep(c) \/ WsStep(c)

WebSafety == WebInit /\ [][WebNext]_webVars

(* select! picks at random among the ready branches, so that a branch that *)
(* is ready again and again is taken; a send to a client that reads        *)
(* completes; a client that is gone makes the sends fail sooner or later   *)
(* (the kernel gives up retransmitting).  A stalled client owes nothing,   *)
(* nor does one that broke the protocol, and no client has to send, to     *)
(* read or to leave.  Nothing is asked of the storage task.                *)
WebFairness ==
  \A c \in Conn :
    /\ WF_webVars(WsSubscribe(c))
    /\ SF_webVars(WsPing(c))
    /\ SF_webVars(QueueBranch(c))
    /\ SF_webVars(SocketBranch(c))
    /\ SF_webVars(WsSendFails(c))
    /\ WF_webVars(peer[c] \notin {"stalled", "broken"} /\ WsSendDone(c))

WebSpec == WebSafety /\ WebFairness

-----------------------------------------------------------------------------
(* The state is well formed.                                               *)
WebTypeOK ==
  /\ StorageTypeOK
  /\ wsTask \in [Conn -> WsState]
  /\ peer \in [Conn -> PeerState]
  /\ wsNext \in [Conn -> Nat] /\ wsStart \in [Conn -> Nat]
  /\ sent \in [Conn -> Seq(Message)] /\ inbox \in [Conn -> Seq(Command)]
  /\ \A c \in Conn :
       /\ wsStart[c] \in 1 .. wsNext[c] /\ wsNext[c] <= Len(log) + 1
       /\ Len(inbox[c]) <= MaxInbox

(* A client is sent a gapless run of the queue, in order and without       *)
(* repetition, from the moment its task subscribed up to the cursor; the   *)
(* mail being sent is the last.  A lagging client is disconnected before   *)
(* it would see a gap.                                                     *)
InFlight(c) == IF wsTask[c] = "sending" THEN 1 ELSE 0

DeliveryContiguous ==
  \A c \in Conn :
    /\ \A i \in 1 .. Len(sent[c]) :
         /\ wsStart[c] + i - 1 <= Len(log)
         /\ sent[c][i] = log[wsStart[c] + i - 1]
    /\ wsTask[c] \in Active =>
         wsStart[c] + Len(sent[c]) + InFlight(c) = wsNext[c]

(* A client that is there and has not broken the protocol is disconnected  *)
(* only when the queue has run over (or was closed): Slots mails came      *)
(* behind the first one it was not sent.                                   *)
DisconnectNeedsOverrun ==
  \A c \in Conn :
    wsTask[c] = "closed" /\ peer[c] \in Connected /\ txOpen
      => wsStart[c] + Len(sent[c]) + Slots <= Len(log)

(* Whatever the clients and the websocket tasks do, the map and the queue  *)
(* behave as Storage says, so that what holds there holds here.            *)
ImplementsStorage == StorageSafety

(* A task whose client has gone, with or without a word, ends: closing is  *)
(* seen by recv, vanishing by a ping that fails even if no mail comes.     *)
DeadClientsReaped ==
  \A c \in Conn :
    wsTask[c] \in Active /\ peer[c] \in Away ~> wsTask[c] = "closed"

(* A client that keeps reading is sent every mail that was sent to the     *)
(* queue after its subscription, or is disconnected.                       *)
ReaderIsTold ==
  \A c \in Conn, i \in 1 .. Cardinality(Message) :
    wsTask[c] \in Active /\ i \in wsStart[c] .. Len(log)
      ~> \/ Len(sent[c]) > i - wsStart[c] \/ wsTask[c] = "closed"
         \/ peer[c] \in {"stalled", "broken"}

(* A Remove command for a mail in the map gets it out of the map: neither  *)
(* mails and pings nor the commands that wait before and behind it keep    *)
(* the task from it.  One that comes before the insert is not meant here   *)
(* (RemoveDeletes).                                                        *)
RemoveIsCarriedOut ==
  \A c \in Conn, m \in Message :
    /\ wsTask[c] \in Active
    /\ m \in storage
    /\ [action |-> "Remove", id |-> m] \in ToSet(inbox[c])
    ~> m \notin storage \/ wsTask[c] = "closed" \/ peer[c] # "reading" \/ Poisoned

-----------------------------------------------------------------------------
(* README.md:45 "The backend also accepts a few commands over the          *)
(* websocket, to mark a message as opened, to delete a single message or   *)
(* delete all messages": a Remove command deletes its mail.                *)
RemoveDeletes ==
  [][\A c \in Conn, m \in Message :
       WsCommand(c) /\ Head(inbox[c]) = [action |-> "Remove", id |-> m]
         => m \in deleted' \cup expired']_webVars
=============================================================================
