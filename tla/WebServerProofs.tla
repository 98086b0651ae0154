-------------------------- MODULE WebServerProofs --------------------------
(***************************************************************************)
(* Proofs about the web server and the storage task together, for every    *)
(* set of mails and connections, ring size, retention period and clock.    *)
(***************************************************************************)
EXTENDS WebServer, StorageProofs

(* The first mail of a queue of commands is a command. *)
LEMMA HeadIsCommand ==
  ASSUME WebTypeOK, NEW c \in Conn, inbox[c] # <<>>
  PROVE  Head(inbox[c]) \in Command /\ Tail(inbox[c]) \in Seq(Command)
                                    /\ Len(Tail(inbox[c])) <= MaxInbox
  <1>1. inbox[c] \in Seq(Command) /\ Len(inbox[c]) <= MaxInbox
    BY DEF WebTypeOK
  <1>2. QED
    BY <1>1, InboxAssumption

(* A command changes the map as a handler of Storage does, or not at all.  *)
LEMMA CarryIsWebStep ==
  ASSUME NEW cmd \in Command, Carry(cmd)
  PROVE  WebStep \/ UNCHANGED storageVars
  <1>1. CASE cmd.action \in {"Open", "Remove"}
    <2>1. cmd.id \in Message
      BY <1>1 DEF Command
    <2>2. QED
      BY <1>1, <2>1 DEF Carry, WebStep
  <1>2. CASE cmd.action \notin {"Open", "Remove"}
    BY <1>2 DEF Carry, WebStep
  <1>3. QED
    BY <1>1, <1>2

(* Every step of the web server is a step of Storage, or none. *)
LEMMA WebStepIsStorageStep ==
  ASSUME WebTypeOK, [WebNext]_webVars
  PROVE  [StorageNextStep]_storageVars
  <1>1. CASE (Environment \/ StorageStep) /\ UNCHANGED wsVars
    BY <1>1 DEF StorageNextStep
  <1>2. CASE HttpStep
    BY <1>2 DEF HttpStep, HttpDelete, HttpDeleteAll, StorageNextStep, WebStep
  <1>3. ASSUME NEW c \in Conn, ClientStep(c)
        PROVE  UNCHANGED storageVars
    BY <1>3 DEF ClientStep, ClientConnect, ClientSend, ClientChanges
  <1>4. ASSUME NEW c \in Conn, WsStep(c)
        PROVE  [StorageNextStep]_storageVars
    <2>1. CASE WsCommand(c)
      BY <2>1, HeadIsCommand, CarryIsWebStep DEF WsCommand, StorageNextStep
    <2>2. CASE ~WsCommand(c)
      BY <1>4, <2>2
      DEF WsStep, QueueBranch, SocketBranch, WsSubscribe, WsPing, WsRecv, WsRecvFails,
          WsSendDone, WsSendFails, WsSocketClosed, WsClose
    <2>3. QED
      BY <2>1, <2>2
  <1>5. CASE UNCHANGED webVars
    BY <1>5 DEF webVars
  <1>6. QED
    BY <1>1, <1>2, <1>3, <1>4, <1>5 DEF WebNext

(* The queue only grows. *)
LEMMA LogGrows ==
  ASSUME Shape, [StorageNextStep]_storageVars
  PROVE  /\ log \in Seq(Message) /\ Len(log) \in Nat /\ Len(log') \in Nat
         /\ Len(log) <= Len(log')
         /\ \A i \in 1 .. Len(log) : log'[i] = log[i]
  <1>1. log \in Seq(Message)
    BY DEF Shape, StorageTypeOK
  <1>2. ASSUME NEW m \in Message, Publish(m)
        PROVE  /\ Len(log') = Len(log) + 1
               /\ \A i \in 1 .. Len(log) : log'[i] = log[i]
    BY <1>1, <1>2, SendAppends DEF Publish
  <1>3. (\E m \in Message : Publish(m)) \/ log' = log
    BY DEF StorageNextStep, Environment, StorageStep, Receive, Tick, WebStep, SendersGone,
        DropSenders, AdvanceClock, Cancel, StorageRecv, StorageLagged, StorageInsert,
        TickPurge, TickBeforeEpoch, TickUnderflow, RetentionTick,
        StorageStop, OpenMessage, RemoveMessage, ClearStorage, storageVars, channelVars
  <1>4. QED
    BY <1>1, <1>2, <1>3

-----------------------------------------------------------------------------
(* Type correctness and contiguous delivery, proved together: what a task  *)
(* writes is a mail of the queue only because its cursor is where delivery *)
(* has got to.                                                             *)

WsTypeOK ==
  /\ wsTask \in [Conn -> WsState]
  /\ peer \in [Conn -> PeerState]
  /\ wsNext \in [Conn -> Nat] /\ wsStart \in [Conn -> Nat]
  /\ sent \in [Conn -> Seq(Message)] /\ inbox \in [Conn -> Seq(Command)]

(* The cursors and the deliveries of one connection. *)
WsOK(c) ==
  /\ wsStart[c] \in 1 .. wsNext[c] /\ wsNext[c] <= Len(log) + 1
  /\ Len(inbox[c]) <= MaxInbox
  /\ \A i \in 1 .. Len(sent[c]) :
       /\ wsStart[c] + i - 1 <= Len(log)
       /\ sent[c][i] = log[wsStart[c] + i - 1]
  /\ wsTask[c] \in Active =>
       wsStart[c] + Len(sent[c]) + InFlight(c) = wsNext[c]
  /\ wsTask[c] \in {"none", "upgraded"} => sent[c] = <<>>

WebInv == Shape /\ WsTypeOK /\ \A c \in Conn : WsOK(c)

LEMMA WebInvIsTypeOK == WebInv => WebTypeOK /\ DeliveryContiguous
  BY DEF WebInv, WsTypeOK, WsOK, WebTypeOK, Shape, DeliveryContiguous

LEMMA WebInvInit == WebInit => WebInv
  <1> SUFFICES ASSUME WebInit
               PROVE  WebInv
    OBVIOUS
  <1>1. Shape
    BY ShapeInit DEF WebInit
  <1>2. WsTypeOK
    BY DEF WebInit, WsTypeOK, WsState, PeerState
  <1>3. ASSUME NEW c \in Conn
        PROVE  WsOK(c)
    <2>1. /\ wsTask[c] = "none" /\ wsNext[c] = 1 /\ wsStart[c] = 1
          /\ inbox[c] = <<>> /\ sent[c] = <<>>
      BY DEF WebInit
    <2>2. Len(log) \in Nat
      BY <1>1 DEF Shape, StorageTypeOK
    <2>3. QED
      BY <2>1, <2>2, InboxAssumption DEF WsOK, Active
  <1>4. QED
    BY <1>1, <1>2, <1>3 DEF WebInv

(* A connection no step of which is taken keeps its invariant while the    *)
(* queue grows.                                                            *)
LEMMA WsOKStable ==
  ASSUME WebInv, [StorageNextStep]_storageVars, NEW c \in Conn,
         /\ wsTask'[c] = wsTask[c] /\ wsNext'[c] = wsNext[c]
         /\ wsStart'[c] = wsStart[c] /\ sent'[c] = sent[c],
         Len(inbox'[c]) <= MaxInbox
  PROVE  WsOK(c)'
  <1>1. WsOK(c) /\ Shape
    BY DEF WebInv
  <1>2. /\ Len(log) \in Nat /\ Len(log') \in Nat /\ Len(log) <= Len(log')
        /\ \A i \in 1 .. Len(log) : log'[i] = log[i]
    BY <1>1, LogGrows
  <1>3. wsStart[c] \in Nat \ {0} /\ wsNext[c] \in Nat /\ sent[c] \in Seq(Message)
    BY <1>1 DEF WsOK, WebInv, WsTypeOK
  <1>4. \A i \in 1 .. Len(sent[c]) :
          wsStart[c] + i - 1 <= Len(log') /\ sent[c][i] = log'[wsStart[c] + i - 1]
    <2> SUFFICES ASSUME NEW i \in 1 .. Len(sent[c])
                 PROVE  wsStart[c] + i - 1 <= Len(log') /\ sent[c][i] = log'[wsStart[c] + i - 1]
      OBVIOUS
    <2>1. wsStart[c] + i - 1 <= Len(log) /\ sent[c][i] = log[wsStart[c] + i - 1]
      BY <1>1 DEF WsOK
    <2>2. wsStart[c] + i - 1 \in 1 .. Len(log)
      BY <1>2, <1>3, <2>1
    <2>3. QED
      BY <1>2, <2>1, <2>2
  <1>5. InFlight(c)' = InFlight(c)
    BY DEF InFlight
  <1>6. wsStart'[c] \in 1 .. wsNext'[c] /\ wsNext'[c] <= Len(log') + 1
    BY <1>1, <1>2, <1>3 DEF WsOK
  <1>7. \A i \in 1 .. Len(sent'[c]) :
          /\ wsStart'[c] + i - 1 <= Len(log')
          /\ sent'[c][i] = log'[wsStart'[c] + i - 1]
    BY <1>4
  <1>8. /\ wsTask'[c] \in Active =>
             wsStart'[c] + Len(sent'[c]) + InFlight(c)' = wsNext'[c]
        /\ wsTask'[c] \in {"none", "upgraded"} => sent'[c] = <<>>
    BY <1>1, <1>5 DEF WsOK
  <1>9. QED
    BY <1>6, <1>7, <1>8 DEF WsOK

(* A step of connection c touches no other connection. *)
LEMMA OthersStable ==
  ASSUME WebInv, NEW c \in Conn, ClientStep(c) \/ WsStep(c), NEW d \in Conn, d # c
  PROVE  /\ wsTask'[d] = wsTask[d] /\ wsNext'[d] = wsNext[d]
         /\ wsStart'[d] = wsStart[d] /\ sent'[d] = sent[d] /\ inbox'[d] = inbox[d]
         /\ peer'[d] = peer[d]
  BY DEF WebInv, WsTypeOK, ClientStep, ClientConnect, ClientSend, ClientChanges, WsStep,
         QueueBranch, SocketBranch, WsSubscribe, WsPing, WsRecv, WsRecvFails, WsSendDone,
         WsSendFails, WsSocketClosed, WsClose, WsCommand

(* The ids a client can name are ids of mails. *)
LEMMA CommandOfIsCommand ==
  ASSUME WebInv, NEW c \in Conn
  PROVE  CommandOf(c) \subseteq Command
  <1>1. sent[c] \in Seq(Message)
    BY DEF WebInv, WsTypeOK
  <1>2. ToSet(sent[c]) \subseteq Message
    BY <1>1 DEF ToSet
  <1>3. Known(c) \subseteq Message
    BY <1>2 DEF Known, WebInv, Shape, StorageTypeOK
  <1>4. QED
    BY <1>3 DEF CommandOf, Command

LEMMA ClientStepOK ==
  ASSUME WebInv, NEW c \in Conn, ClientStep(c), [StorageNextStep]_storageVars
  PROVE  WsTypeOK' /\ WsOK(c)'
  <1> USE DEF WsTypeOK, WsState, PeerState
  <1>1. WsTypeOK /\ WsOK(c)
    BY DEF WebInv
  <1>2. CASE ClientConnect(c)
    <2>1. WsTypeOK'
      BY <1>1, <1>2 DEF ClientConnect
    <2>2. UNCHANGED <<log, wsNext, wsStart, sent, inbox>> /\ wsTask'[c] = "upgraded"
      BY <1>1, <1>2 DEF ClientConnect, storageVars, channelVars
    <2>3. wsTask[c] = "none"
      BY <1>2 DEF ClientConnect
    <2>4. QED
      BY <1>1, <2>1, <2>2, <2>3 DEF WsOK, Active
  <1>3. CASE ClientSend(c)
    <2>1. PICK cmd \in CommandOf(c) : inbox' = [inbox EXCEPT ![c] = Append(@, cmd)]
      BY <1>3 DEF ClientSend
    <2>2. cmd \in Command
      BY CommandOfIsCommand
    <2>3. WsTypeOK'
      BY <1>1, <1>3, <2>1, <2>2 DEF ClientSend
    <2>4. Len(inbox[c]) < MaxInbox /\ Len(inbox[c]) \in Nat
      BY <1>1, <1>3 DEF ClientSend
    <2>5. Len(inbox'[c]) = Len(inbox[c]) + 1
      BY <1>1, <2>1
    <2>6. Len(inbox'[c]) <= MaxInbox
      BY <2>4, <2>5, InboxAssumption
    <2>7. QED
      BY <1>3, <2>3, <2>6, WsOKStable DEF ClientSend
  <1>4. CASE ClientChanges(c)
    <2>1. PICK p \in PeerState : peer' = [peer EXCEPT ![c] = p]
      BY <1>4 DEF ClientChanges, Away
    <2>2. UNCHANGED <<storageVars, wsTask, wsNext, wsStart, inbox, sent>>
      BY <1>4 DEF ClientChanges
    <2>3. WsTypeOK'
      BY <1>1, <2>1, <2>2
    <2>4. QED
      BY <1>1, <2>2, <2>3, WsOKStable DEF WsOK
  <1>5. QED
    BY <1>2, <1>3, <1>4 DEF ClientStep

LEMMA WsStepOK ==
  ASSUME WebInv, NEW c \in Conn, WsStep(c), [StorageNextStep]_storageVars
  PROVE  WsTypeOK' /\ WsOK(c)'
  <1> USE DEF WsTypeOK, WsState, PeerState
  <1>1. WsTypeOK /\ WsOK(c) /\ log \in Seq(Message) /\ Len(log) \in Nat
    BY DEF WebInv, Shape, StorageTypeOK
  <1>2. /\ wsStart[c] \in Nat \ {0} /\ wsNext[c] \in Nat /\ wsStart[c] <= wsNext[c]
        /\ sent[c] \in Seq(Message) /\ Len(sent[c]) \in Nat
    BY <1>1 DEF WsOK
  <1>3. CASE WsSubscribe(c)
    <2>1. WsTypeOK'
      BY <1>1, <1>3 DEF WsSubscribe, NextSent
    <2>2. /\ wsTask'[c] = "select" /\ wsNext'[c] = Len(log) + 1
          /\ wsStart'[c] = Len(log) + 1 /\ sent[c] = <<>>
          /\ UNCHANGED <<log, sent, inbox>>
      BY <1>1, <1>3 DEF WsSubscribe, NextSent, WsOK, storageVars, channelVars
    <2>3. QED
      BY <1>1, <2>1, <2>2 DEF WsOK, InFlight
  <1>4. CASE WsPing(c)
    <2>1. WsTypeOK'
      BY <1>1, <1>4 DEF WsPing
    <2>2. /\ wsTask[c] = "select" /\ wsTask'[c] = "pinging"
          /\ UNCHANGED <<log, wsNext, wsStart, sent, inbox>>
      BY <1>1, <1>4 DEF WsPing, storageVars, channelVars
    <2>3. QED
      BY <1>1, <2>1, <2>2 DEF WsOK, InFlight, Active
  <1>5. CASE WsRecv(c)
    <2>1. WsTypeOK'
      BY <1>1, <1>5 DEF WsRecv
    <2>2. /\ wsTask[c] = "select" /\ wsTask'[c] = "sending" /\ wsNext[c] <= Len(log)
          /\ wsNext'[c] = wsNext[c] + 1
          /\ UNCHANGED <<log, wsStart, sent, inbox>>
      BY <1>1, <1>5 DEF WsRecv, Ready, storageVars, channelVars
    <2>3. QED
      BY <1>1, <1>2, <2>1, <2>2 DEF WsOK, InFlight, Active
  <1>6. ASSUME WsClose(c)
        PROVE  WsTypeOK' /\ WsOK(c)'
    <2>1. WsTypeOK'
      BY <1>1, <1>6 DEF WsClose
    <2>2. /\ wsTask'[c] = "closed" /\ inbox'[c] = <<>>
          /\ UNCHANGED <<log, wsNext, wsStart, sent>>
      BY <1>1, <1>6 DEF WsClose, storageVars, channelVars
    <2>3. QED
      BY <1>1, <2>1, <2>2, InboxAssumption DEF WsOK, Active
  <1>7. CASE WsSendDone(c) /\ wsTask[c] = "pinging"
    <2>1. WsTypeOK'
      BY <1>1, <1>7 DEF WsSendDone
    <2>2. /\ wsTask'[c] = "select"
          /\ UNCHANGED <<log, wsNext, wsStart, sent, inbox>>
      BY <1>1, <1>7 DEF WsSendDone, storageVars, channelVars
    <2>3. QED
      BY <1>1, <1>7, <2>1, <2>2 DEF WsOK, InFlight, Active
  <1>8. CASE WsSendDone(c) /\ wsTask[c] = "sending"
    <2>1. wsStart[c] + Len(sent[c]) + 1 = wsNext[c] /\ wsNext[c] <= Len(log) + 1
      BY <1>1, <1>8 DEF WsOK, InFlight, Active
    <2>2. wsNext[c] - 1 \in 1 .. Len(log)
      BY <1>1, <1>2, <2>1
    <2>3. log[wsNext[c] - 1] \in Message
      BY <1>1, <2>2
    <2>4. sent' = [sent EXCEPT ![c] = Append(@, log[wsNext[c] - 1])]
      BY <1>8 DEF WsSendDone
    <2>5. WsTypeOK'
      BY <1>1, <1>8, <2>3, <2>4 DEF WsSendDone
    <2>6. /\ wsTask'[c] = "select"
          /\ UNCHANGED <<log, wsNext, wsStart, inbox>>
      BY <1>1, <1>8 DEF WsSendDone, storageVars, channelVars
    <2>7. sent'[c] = Append(sent[c], log[wsNext[c] - 1])
      BY <1>1, <2>4
    <2>8. /\ Len(sent'[c]) = Len(sent[c]) + 1
          /\ \A i \in 1 .. Len(sent[c]) : sent'[c][i] = sent[c][i]
          /\ sent'[c][Len(sent[c]) + 1] = log[wsNext[c] - 1]
      BY <1>2, <2>3, <2>7
    <2>9. \A i \in 1 .. Len(sent'[c]) :
            /\ wsStart[c] + i - 1 <= Len(log)
            /\ sent'[c][i] = log[wsStart[c] + i - 1]
      <3> SUFFICES ASSUME NEW i \in 1 .. Len(sent[c]) + 1
                   PROVE  /\ wsStart[c] + i - 1 <= Len(log)
                          /\ sent'[c][i] = log[wsStart[c] + i - 1]
        BY <2>8
      <3>1. CASE i \in 1 .. Len(sent[c])
        BY <1>1, <2>8, <3>1 DEF WsOK
      <3>2. CASE i = Len(sent[c]) + 1
        <4>1. wsStart[c] + i - 1 = wsNext[c] - 1
          BY <1>2, <2>1, <3>2
        <4>2. QED
          BY <2>2, <2>8, <3>2, <4>1
      <3>3. QED
        BY <1>2, <3>1, <3>2
    <2>10. wsStart[c] + Len(sent'[c]) = wsNext[c]
      BY <1>2, <2>1, <2>8
    <2>11. QED
      BY <1>1, <1>2, <2>5, <2>6, <2>8, <2>9, <2>10 DEF WsOK, InFlight
  <1>9. CASE WsCommand(c)
    <2>1. Tail(inbox[c]) \in Seq(Command) /\ Len(Tail(inbox[c])) <= MaxInbox
      BY <1>9, HeadIsCommand, WebInvIsTypeOK DEF WsCommand
    <2>2. WsTypeOK'
      BY <1>1, <1>9, <2>1 DEF WsCommand
    <2>3. /\ UNCHANGED <<wsTask, wsNext, wsStart, sent>>
          /\ Len(inbox'[c]) <= MaxInbox
      BY <1>1, <1>9, <2>1 DEF WsCommand
    <2>4. QED
      BY <2>2, <2>3, WsOKStable
  <1>10. QED
    BY <1>3, <1>4, <1>5, <1>6, <1>7, <1>8, <1>9
    DEF WsStep, QueueBranch, SocketBranch, WsRecvFails, WsSendFails, WsSocketClosed, WsSendDone

LEMMA WebInvStep == WebInv /\ [WebNext]_webVars => WebInv'
  <1> SUFFICES ASSUME WebInv, [WebNext]_webVars
               PROVE  WebInv'
    OBVIOUS
  <1>1. [StorageNextStep]_storageVars
    BY WebStepIsStorageStep, WebInvIsTypeOK
  <1>2. Shape'
    BY <1>1, ShapeStep DEF WebInv
  <1>3. CASE UNCHANGED wsVars
    <2>1. WsTypeOK'
      BY <1>3 DEF WebInv, WsTypeOK, wsVars
    <2>2. ASSUME NEW d \in Conn
          PROVE  WsOK(d)'
      BY <1>1, <1>3, WsOKStable DEF wsVars, WebInv, WsOK
    <2>3. QED
      BY <1>2, <2>1, <2>2 DEF WebInv
  <1>4. ASSUME NEW c \in Conn, ClientStep(c) \/ WsStep(c)
        PROVE  WebInv'
    <2>1. WsTypeOK' /\ WsOK(c)'
      BY <1>1, <1>4, ClientStepOK, WsStepOK
    <2>2. ASSUME NEW d \in Conn, d # c
          PROVE  WsOK(d)'
      <3>1. Len(inbox[d]) <= MaxInbox
        BY DEF WebInv, WsOK
      <3>2. QED
        BY <1>1, <1>4, <2>2, <3>1, OthersStable, WsOKStable
    <2>3. QED
      BY <1>2, <2>1, <2>2 DEF WebInv
  <1>5. QED
    BY <1>3, <1>4 DEF WebNext, HttpStep, HttpDelete, HttpDeleteAll, webVars, wsVars

-----------------------------------------------------------------------------
(* Who is disconnected. *)

LEMMA ClosedStays ==
  ASSUME WebInv, [WebNext]_webVars, NEW c \in Conn, wsTask[c] = "closed"
  PROVE  /\ wsTask'[c] = "closed" /\ peer'[c] = peer[c]
         /\ wsStart'[c] = wsStart[c] /\ sent'[c] = sent[c]
  <1>1. CASE UNCHANGED wsVars
    BY <1>1 DEF wsVars
  <1>2. ASSUME NEW d \in Conn, ClientStep(d) \/ WsStep(d)
        PROVE  d # c
    BY <1>2
    DEF ClientStep, ClientConnect, ClientSend, ClientChanges, Live, WsStep, WsSubscribe,
        WsPing, QueueBranch, WsRecv, WsRecvFails, SocketBranch, WsSocketClosed, WsCommand,
        WsSendDone, WsSendFails
  <1>3. ASSUME NEW d \in Conn, ClientStep(d) \/ WsStep(d)
        PROVE  /\ wsTask'[c] = "closed" /\ peer'[c] = peer[c]
               /\ wsStart'[c] = wsStart[c] /\ sent'[c] = sent[c]
    BY <1>2, <1>3, OthersStable
  <1>4. QED
    BY <1>1, <1>3 DEF WebNext, HttpStep, HttpDelete, HttpDeleteAll, webVars, wsVars

LEMMA ClosingNeedsReason ==
  ASSUME WebInv, [WebNext]_webVars, NEW c \in Conn,
         wsTask[c] # "closed", wsTask'[c] = "closed", peer'[c] \in Connected
  PROVE  /\ wsTask[c] = "select" /\ (Lagged(wsNext[c]) \/ Closed(wsNext[c]))
         /\ UNCHANGED <<storageVars, wsStart, sent>>
  <1>1. wsTask \in [Conn -> WsState] /\ peer \in [Conn -> PeerState]
    BY DEF WebInv, WsTypeOK
  <1>2. ~UNCHANGED wsTask
    OBVIOUS
  <1>3. PICK d \in Conn : ClientStep(d) \/ WsStep(d)
    BY <1>2 DEF WebNext, HttpStep, HttpDelete, HttpDeleteAll, webVars, wsVars
  <1>4. d = c
    BY <1>3, OthersStable
  <1>5. WsClose(c) /\ UNCHANGED peer
    <2>1. ClientConnect(c) => wsTask'[c] = "upgraded"
      BY <1>1 DEF ClientConnect
    <2>2. ~ClientStep(c)
      BY <1>2, <2>1 DEF ClientStep, ClientSend, ClientChanges
    <2>3. ~WsSubscribe(c) /\ ~WsPing(c) /\ ~WsRecv(c) /\ ~WsSendDone(c) /\ ~WsCommand(c)
      BY <1>1 DEF WsSubscribe, WsPing, WsRecv, WsSendDone, WsCommand
    <2>4. QED
      BY <1>3, <1>4, <2>2, <2>3
      DEF WsStep, QueueBranch, WsRecvFails, SocketBranch, WsSocketClosed, WsSendFails, WsClose
  <1>6. WsRecvFails(c)
    <2>1. ~WsSendFails(c) /\ ~WsSocketClosed(c)
      BY <1>5 DEF WsSendFails, WsSocketClosed, Connected, Away
    <2>2. ~ClientStep(c) /\ ~WsSubscribe(c) /\ ~WsPing(c) /\ ~WsRecv(c) /\ ~WsSendDone(c)
            /\ ~WsCommand(c)
      BY <1>1, <1>5
      DEF ClientStep, ClientConnect, ClientSend, ClientChanges, WsSubscribe, WsPing, WsRecv,
          WsSendDone, WsCommand, WsClose
    <2>3. QED
      BY <1>3, <1>4, <2>1, <2>2 DEF WsStep, QueueBranch, SocketBranch
  <1>7. QED
    BY <1>5, <1>6 DEF WsRecvFails, WsClose

LEMMA DisconnectStep ==
  ASSUME WebInv, DisconnectNeedsOverrun, [WebNext]_webVars
  PROVE  DisconnectNeedsOverrun'
  <1> SUFFICES ASSUME NEW c \in Conn, wsTask'[c] = "closed", peer'[c] \in Connected, txOpen'
               PROVE  wsStart'[c] + Len(sent'[c]) + Slots <= Len(log')
    BY DEF DisconnectNeedsOverrun
  <1>1. [StorageNextStep]_storageVars /\ Shape
    BY WebStepIsStorageStep, WebInvIsTypeOK DEF WebInv
  <1>2. Len(log) \in Nat /\ Len(log') \in Nat /\ Len(log) <= Len(log')
    BY <1>1, LogGrows
  <1>3. wsStart[c] \in Nat /\ Len(sent[c]) \in Nat /\ wsNext[c] \in Nat
    BY DEF WebInv, WsTypeOK
  <1>4. txOpen
    BY <1>1
    DEF StorageNextStep, Environment, StorageStep, Receive, Tick, WebStep, Publish, Send,
        SendersGone, DropSenders, AdvanceClock, Cancel, StorageRecv, StorageLagged,
        StorageInsert, TickPurge, TickBeforeEpoch, TickUnderflow, RetentionTick,
        StorageStop, OpenMessage, RemoveMessage, ClearStorage, storageVars, channelVars
  <1>5. CASE wsTask[c] = "closed"
    <2>1. /\ peer'[c] = peer[c] /\ wsStart'[c] = wsStart[c] /\ sent'[c] = sent[c]
      BY <1>5, ClosedStays
    <2>2. wsStart[c] + Len(sent[c]) + Slots <= Len(log)
      BY <1>4, <1>5, <2>1 DEF DisconnectNeedsOverrun
    <2>3. QED
      BY <1>2, <1>3, <2>1, <2>2, SlotsPositive
  <1>6. CASE wsTask[c] # "closed"
    <2>1. /\ wsTask[c] = "select" /\ Lagged(wsNext[c])
          /\ UNCHANGED <<storageVars, wsStart, sent>>
      BY <1>4, <1>6, ClosingNeedsReason DEF Closed
    <2>2. wsStart[c] + Len(sent[c]) = wsNext[c]
      BY <1>3, <2>1 DEF WebInv, WsOK, Active, InFlight
    <2>3. wsNext[c] < Oldest
      BY <2>1 DEF Lagged
    <2>4. wsNext[c] + Slots <= Len(log)
      <3>1. wsNext[c] >= 1
        BY <1>3 DEF WebInv, WsOK
      <3>2. QED
        BY <1>2, <1>3, <2>3, <3>1, SlotsPositive DEF Oldest
    <2>5. log' = log
      BY <2>1 DEF storageVars, channelVars
    <2>6. QED
      BY <2>1, <2>2, <2>4, <2>5
  <1>7. QED
    BY <1>5, <1>6

-----------------------------------------------------------------------------
(* The state of every websocket task is well formed at every step.         *)
THEOREM WebTypeCorrect == WebSafety => []WebTypeOK
  <1>1. QED
    BY WebInvInit, WebInvStep, WebInvIsTypeOK, PTL DEF WebSafety

(* Each client is sent a gapless, ordered, duplicate-free run of the queue *)
(* from its subscription on, whatever the clients, the other tasks and the *)
(* ring size do.                                                           *)
THEOREM DeliveryIsContiguous == WebSafety => []DeliveryContiguous
  <1>1. QED
    BY WebInvInit, WebInvStep, WebInvIsTypeOK, PTL DEF WebSafety

(* A client that stays is disconnected only after as many mails as the     *)
(* ring holds came behind the first one it was not sent.                   *)
THEOREM OnlyOverrunDisconnects == WebSafety => []DisconnectNeedsOverrun
  <1>1. WebInit => DisconnectNeedsOverrun
    BY DEF WebInit, DisconnectNeedsOverrun
  <1>2. QED
    BY <1>1, DisconnectStep, WebInvInit, WebInvStep, PTL DEF WebSafety

(* Beside any number of clients the storage task and the map still behave  *)
(* as Storage says.                                                        *)
THEOREM WebServerImplementsStorage == WebSafety => ImplementsStorage
  <1>1. WebInit => StorageInit
    BY DEF WebInit
  <1>2. WebInv /\ [WebNext]_webVars => [StorageNextStep]_storageVars
    BY WebStepIsStorageStep, WebInvIsTypeOK
  <1>3. QED
    BY <1>1, <1>2, WebInvInit, WebInvStep, PTL
    DEF WebSafety, ImplementsStorage, StorageSafety

(* So the books balance, and losses need an overrun, whatever the clients  *)
(* and the websocket tasks do.                                             *)
COROLLARY WebBooksBalance == WebSafety => []Accounting /\ []LossNeedsOverrun
  BY WebServerImplementsStorage, BooksBalance, LossOnlyByOverrun, PTL DEF ImplementsStorage
=============================================================================
