--------------------------- MODULE OverviewProofs ---------------------------
(***************************************************************************)
(* Proofs about the tabs beside the server, for every set of mails and     *)
(* tabs, every channel and ring size, retention period and clock.          *)
(***************************************************************************)
EXTENDS Overview, WebServerProofs

(* What the list of a tab holds of a mail is due to the answer, or to an   *)
(* announcement that came after it.                                        *)
Old(t, m) == fetch[t] = "applied" /\ m \in Answered(t)
New(t, m) == \E k \in appliedAt[t] + 1 .. seen[t] : sent[t][k] = m

Due(t, m) ==
  \/ Places(messages[t], m) = 0
  \/ Places(messages[t], m) = 1 /\ (Old(t, m) \/ New(t, m))
  \/ Places(messages[t], m) = 2 /\ Old(t, m) /\ New(t, m)

(* A tab names what it knows of; of what it was given, nothing gets lost   *)
(* but by its own removals and by the answer.                              *)
TabOK(t) ==
  /\ Listed(t) \cup Answered(t) \subseteq Known(t)
  /\ \A i \in 1 .. Len(commands[t]) : commands[t][i] \in CommandOf(t)
  /\ fetch[t] # "applied" => replaced[t] = {} /\ appliedAt[t] = 0
  /\ fetch[t] = "applied" => Answered(t) \subseteq Listed(t) \cup removed[t]
  /\ Delivered(t) \subseteq Listed(t) \cup removed[t] \cup replaced[t]
  /\ \A m \in Message : Due(t, m)
  /\ \A m \in Message : Places(answer[t], m) <= 1

OverviewInv == WebInv /\ Books /\ OverviewTypeOK /\ \A t \in Conn : TabOK(t)

-----------------------------------------------------------------------------
(* The tabs beside the server are clients as WebServer has them.           *)

LEMMA CommandsAreKnown ==
  ASSUME OverviewInv, NEW t \in Conn, commands[t] # <<>>
  PROVE  /\ Head(commands[t]) \in CommandOf(t)
         /\ Len(Tail(commands[t])) = Len(commands[t]) - 1
         /\ Tail(commands[t]) \in Seq(Command)
         /\ \A i \in 1 .. Len(commands[t]) - 1 : Tail(commands[t])[i] = commands[t][i + 1]
         /\ Len(commands[t]) \in Nat
  <1>1. commands[t] \in Seq(Command)
    BY DEF OverviewInv, OverviewTypeOK
  <1>2. Len(commands[t]) >= 1 /\ Head(commands[t]) = commands[t][1]
    BY <1>1
  <1>3. commands[t][1] \in CommandOf(t)
    BY <1>1, <1>2 DEF OverviewInv, TabOK
  <1>4. QED
    BY <1>1, <1>2, <1>3

LEMMA ServerStepIsWebStep == ServerStep => WebNext
  BY DEF ServerStep, WebNext, Environment, TabLost, ClientStep

LEMMA TabStepIsWebStep ==
  ASSUME OverviewInv, NEW t \in Conn, TabStep(t)
  PROVE  ClientSend(t) \/ UNCHANGED webVars
  <1>1. CASE Forward(t)
    BY <1>1, CommandsAreKnown DEF Forward, Reaches, ClientSend
  <1>2. CASE ~Forward(t)
    BY <1>2
    DEF TabStep, ListMessages, FetchFails, AnswerArrives, Announced, ForwardFails,
        RemoveSelected, RemoveAll, Select
  <1>3. QED
    BY <1>1, <1>2

LEMMA OverviewStepIsWebStep ==
  ASSUME OverviewInv, [OverviewNext]_allVars
  PROVE  [WebNext]_webVars
  <1>1. CASE UNCHANGED allVars
    BY <1>1 DEF allVars
  <1>2. ASSUME NEW t \in Conn, ClientSend(t)
        PROVE  WebNext
    BY <1>2 DEF WebNext, ClientStep
  <1>3. QED
    BY <1>1, <1>2, ServerStepIsWebStep, TabStepIsWebStep DEF OverviewNext

-----------------------------------------------------------------------------
(* What a step of the server leaves alone.                                 *)

(* A mail that a client can name it can name for good.                     *)
LEMMA MapGrows ==
  ASSUME [StorageNextStep]_storageVars, Shape
  PROVE  storage \cup deleted \cup expired \subseteq (storage \cup deleted \cup expired)'
  <1>1. CASE TickPurge
    BY <1>1, PurgeRemoves DEF Shape, StorageTypeOK, TickPurge, RetentionTick
  <1>2. CASE ~TickPurge
    BY <1>2
    DEF StorageNextStep, Environment, StorageStep, Receive, Tick, WebStep, SendersGone,
        AdvanceClock, Cancel, StorageRecv, StorageLagged, StorageInsert, Publish,
        TickBeforeEpoch, TickUnderflow, RetentionTick, StorageStop, OpenMessage,
        RemoveMessage, ClearStorage, storageVars, mapVars, taskVars
  <1>3. QED
    BY <1>1, <1>2

LEMMA SentGrows ==
  ASSUME WebInv, [WebNext]_webVars, NEW c \in Conn
  PROVE  /\ sent[c] \in Seq(Message) /\ sent'[c] \in Seq(Message)
         /\ Len(sent[c]) <= Len(sent'[c])
         /\ \A i \in 1 .. Len(sent[c]) : sent'[c][i] = sent[c][i]
         /\ ToSet(sent[c]) \subseteq ToSet(sent'[c])
  <1>1. WebInv'
    BY WebInvStep
  <1>2. sent[c] \in Seq(Message) /\ sent'[c] \in Seq(Message)
    BY <1>1 DEF WebInv, WsTypeOK
  <1>3. CASE sent'[c] = sent[c]
    BY <1>2, <1>3
  <1>4. ASSUME NEW m, sent'[c] = Append(sent[c], m)
        PROVE  /\ Len(sent[c]) <= Len(sent'[c])
               /\ \A i \in 1 .. Len(sent[c]) : sent'[c][i] = sent[c][i]
    <2>1. Len(sent'[c]) = Len(sent[c]) + 1
      BY <1>2, <1>4
    <2>2. QED
      BY <1>2, <1>4, <2>1
  <1>5. sent'[c] = sent[c] \/ \E m : sent'[c] = Append(sent[c], m)
    <2>1. sent \in [Conn -> Seq(Message)]
      BY DEF WebInv, WsTypeOK
    <2>2. CASE UNCHANGED wsVars
      BY <2>2 DEF wsVars
    <2>3. ASSUME NEW d \in Conn, ClientStep(d)
          PROVE  UNCHANGED sent
      BY <2>3 DEF ClientStep, ClientConnect, ClientSend, ClientChanges
    <2>4. ASSUME NEW d \in Conn, WsStep(d)
          PROVE  sent'[c] = sent[c] \/ \E m : sent'[c] = Append(sent[c], m)
      BY <2>1, <2>4
      DEF WsStep, QueueBranch, SocketBranch, WsSubscribe, WsPing, WsRecv, WsRecvFails,
          WsSendDone, WsSendFails, WsSocketClosed, WsClose, WsCommand
    <2>5. QED
      BY <2>2, <2>3, <2>4
      DEF WebNext, HttpStep, HttpDelete, HttpDeleteAll, webVars, wsVars
  <1>6. QED
    <2>1. /\ Len(sent[c]) <= Len(sent'[c])
          /\ \A i \in 1 .. Len(sent[c]) : sent'[c][i] = sent[c][i]
      BY <1>2, <1>3, <1>4, <1>5
    <2>2. ToSet(sent[c]) \subseteq ToSet(sent'[c])
      BY <1>2, <2>1 DEF ToSet
    <2>3. QED
      BY <1>2, <2>1, <2>2

LEMMA KnownGrows ==
  ASSUME WebInv, [WebNext]_webVars, NEW c \in Conn
  PROVE  Known(c) \subseteq Known(c)' /\ CommandOf(c) \subseteq CommandOf(c)'
  <1>1. [StorageNextStep]_storageVars
    BY WebStepIsStorageStep, WebInvIsTypeOK
  <1>2. Known(c) \subseteq Known(c)'
    BY <1>1, MapGrows, SentGrows DEF Known, WebInv
  <1>3. QED
    BY <1>2 DEF CommandOf

(* A tab that takes no step stays as it is.                                *)
LEMMA TabStable ==
  ASSUME OverviewInv, [WebNext]_webVars, NEW t \in Conn,
         /\ messages'[t] = messages[t] /\ answer'[t] = answer[t] /\ fetch'[t] = fetch[t]
         /\ seen'[t] = seen[t] /\ commands'[t] = commands[t] /\ removed'[t] = removed[t]
         /\ replaced'[t] = replaced[t] /\ appliedAt'[t] = appliedAt[t]
  PROVE  TabOK(t)'
  <1>1. TabOK(t) /\ seen[t] \in Nat /\ appliedAt[t] \in Nat /\ seen[t] <= Len(sent[t])
    BY DEF OverviewInv, OverviewTypeOK
  <1>2. /\ Known(t) \subseteq Known(t)' /\ CommandOf(t) \subseteq CommandOf(t)'
        /\ sent[t] \in Seq(Message) /\ \A i \in 1 .. Len(sent[t]) : sent'[t][i] = sent[t][i]
    BY KnownGrows, SentGrows DEF OverviewInv
  <1>3. \A i \in 1 .. seen[t] : sent'[t][i] = sent[t][i]
    BY <1>1, <1>2
  <1>4. Listed(t)' = Listed(t) /\ Answered(t)' = Answered(t)
    BY DEF Listed, Answered, IdsOf, Places
  <1>5. Delivered(t)' = Delivered(t)
    BY <1>3 DEF Delivered
  <1>6. \A m \in Message : New(t, m)' <=> New(t, m)
    BY <1>1, <1>3 DEF New
  <1>7. \A m \in Message : Due(t, m)' <=> Due(t, m)
    BY <1>4, <1>6 DEF Due, Old, Places
  <1>8. QED
    BY <1>1, <1>2, <1>4, <1>5, <1>7 DEF TabOK, Places

-----------------------------------------------------------------------------
(* The steps of a tab.  None of them changes what the server has sent or   *)
(* what the map holds or has held.                                         *)

LEMMA ServerUntouched ==
  ASSUME OverviewInv, NEW t \in Conn, TabStep(t)
  PROVE  /\ UNCHANGED <<storageVars, wsTask, wsNext, wsStart, peer, sent>>
         /\ \A d \in Conn : Known(d)' = Known(d) /\ CommandOf(d)' = CommandOf(d)
  <1>1. UNCHANGED <<storageVars, wsTask, wsNext, wsStart, peer, sent>>
    BY TabStepIsWebStep DEF ClientSend, webVars, wsVars
  <1>2. UNCHANGED <<storage, deleted, expired>>
    BY <1>1 DEF storageVars, mapVars, taskVars
  <1>3. QED
    BY <1>1, <1>2 DEF Known, CommandOf

LEMMA ListFacts ==
  ASSUME OverviewTypeOK, NEW t \in Conn
  PROVE  /\ messages[t] \in List /\ answer[t] \in List
         /\ \A m \in Message :
              /\ messages[t][m].opened \in Nat /\ messages[t][m].unopened \in Nat
              /\ messages[t][m] = [opened |-> messages[t][m].opened,
                                   unopened |-> messages[t][m].unopened]
              /\ Places(messages[t], m) \in Nat /\ Places(answer[t], m) \in Nat
  BY DEF OverviewTypeOK, List, Places

LEMMA EmptyFacts ==
  /\ EmptyList \in List /\ IdsOf(EmptyList) = {} /\ Absent \in [opened : Nat, unopened : Nat]
  /\ \A m \in Message : Places(EmptyList, m) = 0
  BY DEF EmptyList, List, IdsOf, Places, Absent

LEMMA ListingFacts ==
  ASSUME OverviewInv
  PROVE  /\ Listing \in List
         /\ IdsOf(Listing) = storage
         /\ \A m \in Message : Places(Listing, m) \in {0, 1}
  <1>1. storage \subseteq Message /\ opened \subseteq storage
    BY DEF OverviewInv, WebInv, Shape, StorageTypeOK
  <1>2. ASSUME NEW m \in Message
        PROVE  /\ Listing[m] \in [opened : Nat, unopened : Nat]
               /\ Listing[m].opened + Listing[m].unopened = IF m \in storage THEN 1 ELSE 0
    <2>1. CASE m \in opened
      <3>1. Listing[m] = [opened |-> 1, unopened |-> 0]
        BY <2>1 DEF Listing
      <3>2. QED
        BY <1>1, <2>1, <3>1
    <2>2. CASE m \in storage \ opened
      <3>1. Listing[m] = [opened |-> 0, unopened |-> 1]
        BY <2>2 DEF Listing
      <3>2. QED
        BY <2>2, <3>1
    <2>3. CASE m \notin storage
      <3>1. Listing[m] = [opened |-> 0, unopened |-> 0]
        BY <1>1, <2>3 DEF Listing, Absent
      <3>2. QED
        BY <2>3, <3>1
    <2>4. QED
      BY <2>1, <2>2, <2>3
  <1>3. Listing \in List
    BY <1>2 DEF List, Listing
  <1>4. QED
    BY <1>1, <1>2, <1>3 DEF IdsOf, Places

(* The mail announced next is not listed for an earlier announcement.      *)
LEMMA AnnouncedIsNew ==
  ASSUME OverviewInv, NEW t \in Conn, seen[t] < Len(sent[t])
  PROVE  /\ sent[t][seen[t] + 1] \in Message
         /\ sent[t][seen[t] + 1] \in Known(t)
         /\ ~New(t, sent[t][seen[t] + 1])
  <1>1. /\ sent[t] \in Seq(Message) /\ seen[t] \in Nat /\ appliedAt[t] \in Nat
        /\ log \in Seq(Message) /\ wsStart[t] \in Nat \ {0} /\ SentOnce
    BY DEF OverviewInv, OverviewTypeOK, WebInv, WsTypeOK, WsOK, Shape, StorageTypeOK, Books
  <1>2. \A i \in 1 .. Len(sent[t]) :
          /\ wsStart[t] + i - 1 \in 1 .. Len(log)
          /\ sent[t][i] = log[wsStart[t] + i - 1]
    BY <1>1 DEF OverviewInv, WebInv, WsOK
  <1>3. \A i, j \in 1 .. Len(sent[t]) : sent[t][i] = sent[t][j] => i = j
    <2>1. ASSUME NEW i \in 1 .. Len(sent[t]), NEW j \in 1 .. Len(sent[t]),
                 sent[t][i] = sent[t][j]
          PROVE  i = j
      <3>1. wsStart[t] + i - 1 = wsStart[t] + j - 1
        BY <1>1, <1>2, <2>1 DEF SentOnce
      <3>2. QED
        BY <1>1, <3>1
    <2>2. QED
      BY <2>1
  <1>4. seen[t] + 1 \in 1 .. Len(sent[t])
    BY <1>1
  <1>5. QED
    BY <1>1, <1>3, <1>4 DEF New, Known, ToSet

LEMMA AnnouncedStep ==
  ASSUME OverviewInv, NEW t \in Conn, Announced(t)
  PROVE  OverviewTypeOK' /\ TabOK(t)'
  <1> DEFINE m == sent[t][seen[t] + 1]
  <1>1. /\ m \in Message /\ m \in Known(t) /\ ~New(t, m)
        /\ seen[t] < Len(sent[t])
    BY AnnouncedIsNew DEF Announced
  <1>2. /\ messages' = [messages EXCEPT ![t][m].unopened = @ + 1]
        /\ seen' = [seen EXCEPT ![t] = @ + 1]
        /\ UNCHANGED <<selected, fetch, answer, commands, removed, replaced, appliedAt, sent>>
    BY DEF Announced, webVars, wsVars
  <1>3. /\ OverviewTypeOK /\ TabOK(t) /\ messages \in [Conn -> List]
        /\ seen \in [Conn -> Nat] /\ appliedAt[t] \in Nat /\ appliedAt[t] <= seen[t]
    BY DEF OverviewInv, OverviewTypeOK
  <1>4. /\ messages'[t] \in List
        /\ \A d \in Conn \ {t} : messages'[d] = messages[d]
        /\ messages' \in [Conn -> List]
    <2>1. messages'[t] = [messages[t] EXCEPT ![m] = [messages[t][m] EXCEPT !.unopened = @ + 1]]
      BY <1>2, <1>3
    <2>2. [messages[t][m] EXCEPT !.unopened = @ + 1] \in [opened : Nat, unopened : Nat]
      <3>1. messages[t][m] \in [opened : Nat, unopened : Nat]
        BY <1>1, <1>3 DEF List
      <3>2. QED
        BY <3>1
    <2>3. messages'[t] \in List
      BY <1>1, <1>3, <2>1, <2>2 DEF List
    <2>4. QED
      BY <1>2, <1>3, <2>3
  <1>5. /\ Places(messages'[t], m) = Places(messages[t], m) + 1
        /\ \A n \in Message \ {m} : Places(messages'[t], n) = Places(messages[t], n)
    BY <1>1, <1>2, <1>3, ListFacts DEF Places, List
  <1>6. seen'[t] = seen[t] + 1 /\ seen' \in [Conn -> Nat]
        /\ \A d \in Conn \ {t} : seen'[d] = seen[d]
    BY <1>2, <1>3
  <1>7. OverviewTypeOK'
    <2>1. Len(sent[t]) \in Nat
      BY DEF OverviewInv, WebInv, WsTypeOK
    <2>2. seen'[t] <= Len(sent[t]) /\ appliedAt[t] <= seen'[t]
      BY <1>1, <1>3, <1>6, <2>1
    <2>3. QED
      BY <1>2, <1>3, <1>4, <1>6, <2>2 DEF OverviewTypeOK
  <1>8. /\ Listed(t)' = Listed(t) \cup {m}
        /\ Answered(t)' = Answered(t)
    <2>1. \A n \in Message : Places(messages[t], n) \in Nat
      BY <1>3, ListFacts
    <2>2. \A n \in Message :
            Places(messages'[t], n) > 0 <=> Places(messages[t], n) > 0 \/ n = m
      BY <1>1, <1>5, <2>1
    <2>3. QED
      BY <1>1, <1>2, <2>2 DEF Listed, Answered, IdsOf
  <1>9. Delivered(t)' = Delivered(t) \cup {m}
    BY <1>2, <1>3, <1>6 DEF Delivered
  <1>10. \A n \in Message : New(t, n)' <=> New(t, n) \/ n = m
    BY <1>2, <1>3, <1>6 DEF New
  <1>11. ASSUME NEW n \in Message
         PROVE  Due(t, n)'
    <2>1. Due(t, n) /\ Places(messages[t], n) \in Nat /\ Due(t, m)
      BY <1>1, <1>3, ListFacts DEF TabOK
    <2>2. Old(t, n)' <=> Old(t, n)
      BY <1>2, <1>8 DEF Old
    <2>3. CASE n = m
      BY <1>1, <1>5, <1>10, <2>1, <2>2, <2>3 DEF Due
    <2>4. CASE n # m
      BY <1>5, <1>10, <2>1, <2>2, <2>4 DEF Due
    <2>5. QED
      BY <2>3, <2>4
  <1>12. Known(t)' = Known(t) /\ CommandOf(t)' = CommandOf(t)
    BY ServerUntouched DEF TabStep
  <1>13. QED
    BY <1>1, <1>2, <1>3, <1>7, <1>8, <1>9, <1>11, <1>12 DEF TabOK

(* A command that is tried is known, and the channel stays in its bounds.  *)
LEMMA TrySendFacts ==
  ASSUME OverviewInv, NEW t \in Conn, NEW cmd \in CommandOf(t), TrySend(t, cmd)
  PROVE  /\ commands' \in [Conn -> Seq(Command)]
         /\ \A d \in Conn \ {t} : commands'[d] = commands[d]
         /\ Len(commands'[t]) <= ChannelCapacity
         /\ \A i \in 1 .. Len(commands'[t]) : commands'[t][i] \in CommandOf(t)
  <1>1. /\ commands \in [Conn -> Seq(Command)] /\ Len(commands[t]) <= ChannelCapacity
        /\ commands[t] \in Seq(Command)
        /\ \A i \in 1 .. Len(commands[t]) : commands[t][i] \in CommandOf(t)
    BY DEF OverviewInv, OverviewTypeOK, TabOK
  <1>2. cmd \in Command
    BY CommandOfIsCommand DEF OverviewInv
  <1>3. CASE Room(t)
    <2>1. /\ commands' = [commands EXCEPT ![t] = Append(@, cmd)]
          /\ Len(commands[t]) < ChannelCapacity
      BY <1>3 DEF TrySend, Room
    <2>2. /\ Append(commands[t], cmd) \in Seq(Command)
          /\ Len(Append(commands[t], cmd)) = Len(commands[t]) + 1
          /\ Append(commands[t], cmd)[Len(commands[t]) + 1] = cmd
          /\ \A i \in 1 .. Len(commands[t]) : Append(commands[t], cmd)[i] = commands[t][i]
      BY <1>1, <1>2
    <2>3. Len(commands[t]) \in Nat /\ ChannelCapacity \in Nat
      BY <1>1, TabAssumption
    <2>4. commands'[t] = Append(commands[t], cmd)
      BY <1>1, <2>1
    <2>5. QED
      BY <1>1, <2>1, <2>2, <2>3, <2>4
  <1>4. CASE ~Room(t)
    BY <1>1, <1>4 DEF TrySend
  <1>5. QED
    BY <1>3, <1>4

LEMMA SelectStep ==
  ASSUME OverviewInv, NEW t \in Conn, NEW m \in Message, Select(t, m)
  PROVE  OverviewTypeOK' /\ TabOK(t)'
  <1>1. /\ OverviewTypeOK /\ TabOK(t) /\ messages \in [Conn -> List]
        /\ m \in Listed(t) /\ selected' \in [Conn -> Message \cup {NoMessage}]
        /\ UNCHANGED <<fetch, answer, seen, removed, replaced, appliedAt, sent>>
    BY DEF OverviewInv, OverviewTypeOK, Select, webVars, wsVars
  <1>2. Known(t)' = Known(t) /\ CommandOf(t)' = CommandOf(t)
    BY ServerUntouched DEF TabStep
  <1>3. /\ messages' \in [Conn -> List]
        /\ \A d \in Conn \ {t} : messages'[d] = messages[d]
        /\ \A n \in Message : Places(messages'[t], n) = Places(messages[t], n)
    <2>1. CASE messages[t][m].unopened = 0
      BY <1>1, <2>1 DEF Select
    <2>2. CASE messages[t][m].unopened # 0
      <3> DEFINE row == [opened |-> messages[t][m].opened + 1,
                     unopened |-> messages[t][m].unopened - 1]
      <3>1. messages' = [messages EXCEPT ![t] = [messages[t] EXCEPT ![m] = row]]
        BY <1>1, <2>2 DEF Select, List
      <3>2. /\ messages[t][m] \in [opened : Nat, unopened : Nat]
            /\ messages[t] \in List
        BY <1>1 DEF List
      <3>3. /\ row \in [opened : Nat, unopened : Nat]
            /\ row.opened + row.unopened = messages[t][m].opened + messages[t][m].unopened
        BY <2>2, <3>2
      <3>4. [messages[t] EXCEPT ![m] = row] \in List
        BY <3>2, <3>3 DEF List
      <3>5. ASSUME NEW n \in Message
            PROVE  Places(messages'[t], n) = Places(messages[t], n)
        <4>1. messages'[t] = [messages[t] EXCEPT ![m] = row]
          BY <1>1, <3>1
        <4>2. messages'[t][n] = IF n = m THEN row ELSE messages[t][n]
          BY <3>2, <4>1 DEF List
        <4>3. QED
          BY <3>3, <4>2 DEF Places
      <3>6. QED
        BY <1>1, <3>1, <3>4, <3>5
    <2>3. QED
      BY <2>1, <2>2
  <1>4. Listed(t)' = Listed(t) /\ Answered(t)' = Answered(t) /\ Delivered(t)' = Delivered(t)
    BY <1>1, <1>3 DEF Listed, Answered, IdsOf, Delivered
  <1>5. /\ commands' \in [Conn -> Seq(Command)]
        /\ \A d \in Conn : Len(commands'[d]) <= ChannelCapacity
        /\ \A i \in 1 .. Len(commands'[t]) : commands'[t][i] \in CommandOf(t)
    <2>1. [action |-> "Open", id |-> m] \in CommandOf(t)
      BY <1>1 DEF TabOK, CommandOf
    <2>2. CASE UNCHANGED commands
      BY <1>1, <2>2 DEF OverviewTypeOK, TabOK
    <2>3. CASE TrySend(t, [action |-> "Open", id |-> m])
      BY <1>1, <2>1, <2>3, TrySendFacts DEF OverviewTypeOK
    <2>4. QED
      BY <2>2, <2>3 DEF Select
  <1>6. OverviewTypeOK'
    BY <1>1, <1>3, <1>5 DEF OverviewTypeOK
  <1>7. \A n \in Message : Due(t, n)'
    BY <1>1, <1>3, <1>4 DEF Due, Old, New, TabOK
  <1>8. QED
    BY <1>1, <1>2, <1>4, <1>5, <1>6, <1>7 DEF TabOK

(* A removal takes mails from the list and remembers them.                 *)
LEMMA RemovalStep ==
  ASSUME OverviewInv, NEW t \in Conn, RemoveSelected(t) \/ RemoveAll(t)
  PROVE  OverviewTypeOK' /\ TabOK(t)'
  <1>1. /\ OverviewTypeOK /\ TabOK(t) /\ messages \in [Conn -> List] /\ messages[t] \in List
        /\ UNCHANGED <<selected, fetch, answer, seen, replaced, appliedAt, sent>>
        /\ removed \in [Conn -> SUBSET Message] /\ Listed(t) \subseteq Message
    BY DEF OverviewInv, OverviewTypeOK, RemoveSelected, RemoveAll, webVars, wsVars, Listed, IdsOf
  <1>2. Known(t)' = Known(t) /\ CommandOf(t)' = CommandOf(t)
    BY ServerUntouched DEF TabStep
  <1>3. PICK gone \in SUBSET Listed(t), cmd \in CommandOf(t) :
          /\ TrySend(t, cmd)
          /\ removed' = [removed EXCEPT ![t] = @ \cup gone]
          /\ messages' \in [Conn -> List]
          /\ \A d \in Conn \ {t} : messages'[d] = messages[d]
          /\ \A n \in gone : Places(messages'[t], n) = 0
          /\ \A n \in Message \ gone : Places(messages'[t], n) = Places(messages[t], n)
    <2>1. CASE RemoveSelected(t)
      <3> DEFINE s == selected[t]
      <3>1. s \in Listed(t) /\ s \in Message
        BY <1>1, <2>1 DEF RemoveSelected
      <3>2. [action |-> "Remove", id |-> s] \in CommandOf(t)
        BY <1>1, <3>1 DEF TabOK, CommandOf
      <3>3. messages' = [messages EXCEPT ![t] = [messages[t] EXCEPT ![s] = Absent]]
        BY <1>1, <2>1 DEF RemoveSelected
      <3>4. [messages[t] EXCEPT ![s] = Absent] \in List
        BY <1>1, EmptyFacts DEF List
      <3>5. /\ Places(messages'[t], s) = 0
            /\ \A n \in Message \ {s} : Places(messages'[t], n) = Places(messages[t], n)
        BY <1>1, <3>1, <3>3 DEF Places, Absent, List
      <3>6. QED
        BY <1>1, <2>1, <3>1, <3>2, <3>3, <3>4, <3>5 DEF RemoveSelected
    <2>2. CASE RemoveAll(t)
      <3>1. [action |-> "RemoveAll"] \in CommandOf(t)
        BY DEF CommandOf
      <3>2. messages' = [messages EXCEPT ![t] = EmptyList]
        BY <2>2 DEF RemoveAll
      <3>3. messages'[t] = EmptyList /\ messages' \in [Conn -> List]
        BY <1>1, <3>2, EmptyFacts
      <3>4. ASSUME NEW n \in Message \ Listed(t)
            PROVE  Places(messages[t], n) = 0
        <4>1. Places(messages[t], n) \in Nat
          BY <1>1, ListFacts
        <4>2. QED
          BY <4>1 DEF Listed, IdsOf
      <3>5. \A n \in Message \ Listed(t) : Places(messages'[t], n) = Places(messages[t], n)
        BY <3>3, <3>4, EmptyFacts
      <3>6. \A n \in Listed(t) : Places(messages'[t], n) = 0
        BY <1>1, <3>3, EmptyFacts
      <3>7. QED
        BY <1>1, <2>2, <3>1, <3>2, <3>3, <3>5, <3>6 DEF RemoveAll
    <2>3. QED
      BY <2>1, <2>2
  <1>4. \A n \in Message : Places(messages[t], n) \in Nat
    BY <1>1, ListFacts
  <1>5. /\ Listed(t)' = Listed(t) \ gone /\ Answered(t)' = Answered(t)
        /\ Delivered(t)' = Delivered(t)
    BY <1>1, <1>3, <1>4 DEF Listed, Answered, IdsOf, Delivered
  <1>6. removed' \in [Conn -> SUBSET Message] /\ removed'[t] = removed[t] \cup gone
    BY <1>1, <1>3
  <1>7. OverviewTypeOK'
    BY <1>1, <1>3, <1>6, TrySendFacts DEF OverviewTypeOK
  <1>8. \A n \in Message : Due(t, n)'
    <2>1. \A n \in Message : (Old(t, n)' <=> Old(t, n)) /\ (New(t, n)' <=> New(t, n))
      BY <1>1, <1>5 DEF Old, New
    <2>2. QED
      BY <1>1, <1>3, <2>1 DEF Due, TabOK
  <1>9. QED
    BY <1>1, <1>2, <1>3, <1>5, <1>6, <1>7, <1>8, TrySendFacts DEF TabOK

-----------------------------------------------------------------------------
(* The steps of the request for the list.                                  *)

LEMMA FetchStep ==
  ASSUME OverviewInv, NEW t \in Conn, ListMessages(t) \/ FetchFails(t) \/ AnswerArrives(t)
  PROVE  OverviewTypeOK' /\ TabOK(t)'
  <1>1. /\ OverviewTypeOK /\ TabOK(t) /\ messages \in [Conn -> List] /\ answer[t] \in List
        /\ UNCHANGED <<selected, seen, commands, removed, sent>>
        /\ answer \in [Conn -> List] /\ fetch \in [Conn -> FetchState]
        /\ seen[t] \in Nat
        /\ replaced \in [Conn -> SUBSET Message] /\ appliedAt \in [Conn -> Nat]
    BY DEF OverviewInv, OverviewTypeOK, ListMessages, FetchFails, AnswerArrives, webVars, wsVars
  <1>2. Known(t)' = Known(t) /\ CommandOf(t)' = CommandOf(t)
    BY ServerUntouched DEF TabStep
  <1>3. Delivered(t)' = Delivered(t)
    BY <1>1 DEF Delivered
  <1>4. \A n \in Message : Places(messages[t], n) \in Nat /\ Places(answer[t], n) \in Nat
    BY <1>1, ListFacts
  <1>5. CASE ListMessages(t)
    <2>1. /\ fetch[t] = "asked" /\ fetch' = [fetch EXCEPT ![t] = "answered"]
          /\ answer' = [answer EXCEPT ![t] = Listing]
          /\ UNCHANGED <<messages, replaced, appliedAt>>
      BY <1>5 DEF ListMessages
    <2>2. /\ answer'[t] = Listing /\ answer' \in [Conn -> List]
          /\ fetch' \in [Conn -> FetchState] /\ fetch'[t] = "answered"
      BY <1>1, <2>1, ListingFacts DEF FetchState
    <2>3. OverviewTypeOK'
      BY <1>1, <2>1, <2>2 DEF OverviewTypeOK
    <2>4. Listed(t)' = Listed(t) /\ Answered(t)' \subseteq Known(t)
      BY <2>1, <2>2, ListingFacts DEF Listed, Answered, Known
    <2>5. \A n \in Message : Places(answer'[t], n) <= 1
      BY <2>2, ListingFacts
    <2>6. \A n \in Message : Due(t, n)'
      BY <1>1, <2>1, <2>2 DEF Due, Old, New, TabOK
    <2>7. QED
      BY <1>1, <1>2, <1>3, <2>1, <2>2, <2>3, <2>4, <2>5, <2>6 DEF TabOK
  <1>6. CASE FetchFails(t)
    <2>1. /\ fetch[t] # "applied" /\ fetch' = [fetch EXCEPT ![t] = "failed"]
          /\ UNCHANGED <<messages, answer, replaced, appliedAt>>
      BY <1>6 DEF FetchFails
    <2>2. fetch' \in [Conn -> FetchState] /\ fetch'[t] = "failed"
      BY <1>1, <2>1 DEF FetchState
    <2>3. OverviewTypeOK'
      BY <1>1, <2>1, <2>2 DEF OverviewTypeOK
    <2>4. Listed(t)' = Listed(t) /\ Answered(t)' = Answered(t)
      BY <2>1 DEF Listed, Answered
    <2>5. \A n \in Message : Due(t, n)'
      BY <1>1, <2>1, <2>2 DEF Due, Old, New, TabOK
    <2>6. QED
      BY <1>1, <1>2, <1>3, <2>1, <2>2, <2>3, <2>4, <2>5 DEF TabOK
  <1>7. CASE AnswerArrives(t)
    <2>1. /\ fetch[t] = "answered" /\ fetch' = [fetch EXCEPT ![t] = "applied"]
          /\ messages' = [messages EXCEPT ![t] = answer[t]]
          /\ replaced' = [replaced EXCEPT ![t] = Listed(t) \ Answered(t)]
          /\ appliedAt' = [appliedAt EXCEPT ![t] = seen[t]]
          /\ UNCHANGED answer
      BY <1>7 DEF AnswerArrives
    <2>2. /\ messages'[t] = answer[t] /\ messages' \in [Conn -> List]
          /\ fetch' \in [Conn -> FetchState] /\ fetch'[t] = "applied"
          /\ appliedAt'[t] = seen[t] /\ appliedAt' \in [Conn -> Nat]
          /\ replaced'[t] = Listed(t) \ Answered(t) /\ replaced' \in [Conn -> SUBSET Message]
      <3>1. Listed(t) \subseteq Message
        BY DEF Listed, IdsOf
      <3>2. QED
        BY <1>1, <2>1, <3>1 DEF FetchState
    <2>3. OverviewTypeOK'
      BY <1>1, <2>1, <2>2 DEF OverviewTypeOK
    <2>4. Listed(t)' = Answered(t) /\ Answered(t)' = Answered(t)
      BY <2>1, <2>2 DEF Listed, Answered
    <2>5. \A n \in Message : Due(t, n)'
      <3>1. \A n \in Message : Places(answer[t], n) \in {0, 1}
        BY <1>1, <1>4 DEF TabOK
      <3>2. \A n \in Message : Places(answer[t], n) = 1 => Old(t, n)'
        BY <2>2, <2>4 DEF Old, Answered, IdsOf
      <3>3. QED
        BY <2>2, <3>1, <3>2 DEF Due
    <2>6. Delivered(t) \subseteq Answered(t) \cup removed[t] \cup replaced'[t]
      BY <1>1, <2>1, <2>2 DEF TabOK
    <2>7. QED
      BY <1>1, <1>2, <1>3, <2>1, <2>2, <2>3, <2>4, <2>5, <2>6 DEF TabOK
  <1>8. QED
    BY <1>5, <1>6, <1>7

(* A command goes, to the websocket or nowhere.                            *)
LEMMA ForwardStep ==
  ASSUME OverviewInv, NEW t \in Conn, Forward(t) \/ ForwardFails(t)
  PROVE  OverviewTypeOK' /\ TabOK(t)'
  <1>1. /\ OverviewTypeOK /\ TabOK(t) /\ commands \in [Conn -> Seq(Command)]
        /\ commands[t] # <<>> /\ commands' = [commands EXCEPT ![t] = Tail(@)]
        /\ UNCHANGED <<messages, selected, fetch, answer, seen, removed, replaced,
                       appliedAt, sent>>
    BY DEF OverviewInv, OverviewTypeOK, Forward, ForwardFails, webVars, wsVars
  <1>2. Known(t)' = Known(t) /\ CommandOf(t)' = CommandOf(t)
    BY ServerUntouched DEF TabStep
  <1>3. /\ commands'[t] = Tail(commands[t]) /\ commands' \in [Conn -> Seq(Command)]
        /\ \A d \in Conn \ {t} : commands'[d] = commands[d]
        /\ Len(commands'[t]) <= ChannelCapacity
        /\ \A i \in 1 .. Len(commands'[t]) : commands'[t][i] \in CommandOf(t)
    <2>1. /\ Len(Tail(commands[t])) = Len(commands[t]) - 1
          /\ Tail(commands[t]) \in Seq(Command) /\ Len(commands[t]) \in Nat
          /\ \A i \in 1 .. Len(commands[t]) - 1 : Tail(commands[t])[i] = commands[t][i + 1]
      BY <1>1, CommandsAreKnown
    <2>2. commands'[t] = Tail(commands[t]) /\ Len(commands[t]) <= ChannelCapacity
      BY <1>1 DEF OverviewTypeOK
    <2>3. \A i \in 1 .. Len(commands[t]) : commands[t][i] \in CommandOf(t)
      BY <1>1 DEF TabOK
    <2>4. \A i \in 1 .. Len(commands'[t]) : commands'[t][i] \in CommandOf(t)
      BY <2>1, <2>2, <2>3
    <2>5. QED
      BY <1>1, <2>1, <2>2, <2>4, TabAssumption
  <1>4. OverviewTypeOK'
    BY <1>1, <1>3 DEF OverviewTypeOK
  <1>5. /\ Listed(t)' = Listed(t) /\ Answered(t)' = Answered(t)
        /\ Delivered(t)' = Delivered(t)
    BY <1>1 DEF Listed, Answered, Delivered
  <1>6. \A n \in Message : Due(t, n)'
    BY <1>1, <1>5 DEF Due, Old, New, TabOK
  <1>7. QED
    BY <1>1, <1>2, <1>3, <1>4, <1>5, <1>6 DEF TabOK

-----------------------------------------------------------------------------
LEMMA OverviewInvInit == OverviewInit => OverviewInv
  <1> SUFFICES ASSUME OverviewInit
               PROVE  OverviewInv
    OBVIOUS
  <1>1. WebInv /\ Books
    BY WebInvInit, BooksInit DEF OverviewInit, WebInit
  <1>2. sent = [c \in Conn |-> <<>>]
    BY DEF OverviewInit, WebInit
  <1>3. OverviewTypeOK
    BY <1>2, EmptyFacts, TabAssumption DEF OverviewInit, TabInit, OverviewTypeOK, FetchState
  <1>4. ASSUME NEW t \in Conn
        PROVE  TabOK(t)
    <2>1. /\ messages[t] = EmptyList /\ answer[t] = EmptyList /\ fetch[t] = "asked"
          /\ seen[t] = 0 /\ commands[t] = <<>> /\ replaced[t] = {} /\ appliedAt[t] = 0
      BY DEF OverviewInit, TabInit
    <2>2. Listed(t) = {} /\ Answered(t) = {} /\ Delivered(t) = {}
      BY <2>1, EmptyFacts DEF Listed, Answered, Delivered
    <2>3. \A m \in Message : Due(t, m)
      BY <2>1, EmptyFacts DEF Due
    <2>4. QED
      BY <2>1, <2>2, <2>3, EmptyFacts DEF TabOK
  <1>5. QED
    BY <1>1, <1>3, <1>4 DEF OverviewInv

LEMMA TabStepAlone ==
  ASSUME NEW t \in Conn, TabStep(t), OverviewTypeOK, NEW d \in Conn, d # t
  PROVE  /\ messages'[d] = messages[d] /\ answer'[d] = answer[d] /\ fetch'[d] = fetch[d]
         /\ seen'[d] = seen[d] /\ commands'[d] = commands[d] /\ removed'[d] = removed[d]
         /\ replaced'[d] = replaced[d] /\ appliedAt'[d] = appliedAt[d]
  <1> USE DEF OverviewTypeOK
  <1>1. CASE ListMessages(t) \/ FetchFails(t) \/ AnswerArrives(t) \/ Announced(t)
    BY <1>1 DEF ListMessages, FetchFails, AnswerArrives, Announced
  <1>2. CASE Forward(t) \/ ForwardFails(t)
    BY <1>2 DEF Forward, ForwardFails
  <1>3. CASE RemoveSelected(t) \/ RemoveAll(t) \/ \E m \in Message : Select(t, m)
    BY <1>3 DEF RemoveSelected, RemoveAll, Select, TrySend
  <1>4. QED
    BY <1>1, <1>2, <1>3 DEF TabStep

LEMMA OverviewInvStep == OverviewInv /\ [OverviewNext]_allVars => OverviewInv'
  <1> SUFFICES ASSUME OverviewInv, [OverviewNext]_allVars
               PROVE  OverviewInv'
    OBVIOUS
  <1>1. [WebNext]_webVars
    BY OverviewStepIsWebStep
  <1>2. WebInv' /\ Books'
    BY <1>1, WebInvStep, WebStepIsStorageStep, WebInvIsTypeOK, BooksStep DEF OverviewInv
  <1>3. CASE UNCHANGED tabVars
    <2>1. \A t \in Conn : TabOK(t)'
      BY <1>1, <1>3, TabStable DEF tabVars
    <2>2. \A t \in Conn : seen[t] <= Len(sent'[t])
      <3>1. ASSUME NEW t \in Conn
            PROVE  seen[t] <= Len(sent'[t])
        <4>1. seen[t] \in Nat /\ seen[t] <= Len(sent[t])
          BY DEF OverviewInv, OverviewTypeOK
        <4>2. /\ Len(sent[t]) <= Len(sent'[t])
              /\ Len(sent[t]) \in Nat /\ Len(sent'[t]) \in Nat
          BY <1>1, SentGrows DEF OverviewInv
        <4>3. QED
          BY <4>1, <4>2
      <3>2. QED
        BY <3>1
    <2>3. OverviewTypeOK'
      BY <1>3, <2>2 DEF tabVars, OverviewInv, OverviewTypeOK
    <2>4. QED
      BY <1>2, <2>1, <2>3 DEF OverviewInv
  <1>4. ASSUME NEW t \in Conn, TabStep(t)
        PROVE  OverviewInv'
    <2>1. OverviewTypeOK' /\ TabOK(t)'
      BY <1>4, AnnouncedStep, SelectStep, RemovalStep, FetchStep, ForwardStep DEF TabStep
    <2>2. ASSUME NEW d \in Conn, d # t
          PROVE  TabOK(d)'
      BY <1>1, <1>4, <2>2, TabStepAlone, TabStable DEF OverviewInv
    <2>3. QED
      BY <1>2, <2>1, <2>2 DEF OverviewInv
  <1>5. QED
    BY <1>3, <1>4 DEF OverviewNext, allVars

-----------------------------------------------------------------------------
(* A Remove on its way.                                                    *)

LEMMA AppendKeeps ==
  ASSUME NEW S, NEW s \in Seq(S), NEW y \in S
  PROVE  ToSet(Append(s, y)) = ToSet(s) \cup {y}
  <1>1. /\ Len(Append(s, y)) = Len(s) + 1 /\ Len(s) \in Nat
        /\ Append(s, y)[Len(s) + 1] = y
        /\ \A i \in 1 .. Len(s) : Append(s, y)[i] = s[i]
    OBVIOUS
  <1>2. DOMAIN s = 1 .. Len(s) /\ DOMAIN Append(s, y) = 1 .. Len(s) + 1
    BY <1>1
  <1>3. \A i \in 1 .. Len(s) : i \in 1 .. Len(s) + 1
    BY <1>1
  <1>4. Len(s) + 1 \in 1 .. Len(s) + 1
    BY <1>1
  <1>5. ToSet(s) \cup {y} \subseteq ToSet(Append(s, y))
    BY <1>1, <1>2, <1>3, <1>4 DEF ToSet
  <1>6. \A i \in 1 .. Len(s) + 1 : i \in 1 .. Len(s) \/ i = Len(s) + 1
    BY <1>1
  <1>7. ToSet(Append(s, y)) \subseteq ToSet(s) \cup {y}
    BY <1>1, <1>2, <1>6 DEF ToSet
  <1>8. QED
    BY <1>5, <1>7

LEMMA TailKeeps ==
  ASSUME NEW S, NEW s \in Seq(S), s # <<>>
  PROVE  ToSet(s) \subseteq {Head(s)} \cup ToSet(Tail(s))
  <1>1. /\ Len(s) \in Nat \ {0} /\ Head(s) = s[1] /\ Len(Tail(s)) = Len(s) - 1
        /\ Tail(s) \in Seq(S)
        /\ \A i \in 1 .. Len(s) - 1 : Tail(s)[i] = s[i + 1]
    OBVIOUS
  <1>2. DOMAIN s = 1 .. Len(s) /\ DOMAIN Tail(s) = 1 .. Len(s) - 1
    BY <1>1
  <1>3. SUFFICES ASSUME NEW i \in 1 .. Len(s), i # 1
                 PROVE  s[i] \in ToSet(Tail(s))
    BY <1>1, <1>2 DEF ToSet
  <1>4. i - 1 \in 1 .. Len(s) - 1 /\ (i - 1) + 1 = i
    BY <1>1, <1>3
  <1>5. s[i] = Tail(s)[i - 1]
    BY <1>1, <1>4
  <1>6. QED
    BY <1>2, <1>4, <1>5 DEF ToSet

LEMMA TailTakes ==
  ASSUME NEW S, NEW s \in Seq(S), s # <<>>
  PROVE  ToSet(Tail(s)) \subseteq ToSet(s) /\ Head(s) \in ToSet(s)
  <1>1. /\ Len(s) \in Nat \ {0} /\ Head(s) = s[1] /\ Len(Tail(s)) = Len(s) - 1
        /\ Tail(s) \in Seq(S)
        /\ \A i \in 1 .. Len(s) - 1 : Tail(s)[i] = s[i + 1]
    OBVIOUS
  <1>2. DOMAIN s = 1 .. Len(s) /\ DOMAIN Tail(s) = 1 .. Len(s) - 1
    BY <1>1
  <1>3. \A i \in 1 .. Len(s) - 1 : i + 1 \in 1 .. Len(s)
    BY <1>1
  <1>4. 1 \in 1 .. Len(s)
    BY <1>1
  <1>5. QED
    BY <1>1, <1>2, <1>3, <1>4 DEF ToSet

(* The commands in a socket name mails that the server has had.            *)
InboxKnown == \A c \in Conn : ToSet(inbox[c]) \subseteq CommandOf(c)

LEMMA InboxStep ==
  ASSUME WebInv, [WebNext]_webVars, NEW c \in Conn
  PROVE  ToSet(inbox'[c]) \subseteq ToSet(inbox[c]) \cup CommandOf(c)
  <1>1. /\ inbox \in [Conn -> Seq(Command)] /\ inbox[c] \in Seq(Command)
        /\ CommandOf(c) \subseteq Command
    BY CommandOfIsCommand DEF WebInv, WsTypeOK
  <1>2. CASE inbox'[c] = inbox[c]
    BY <1>2
  <1>3. ASSUME NEW d \in Conn, d # c, ClientStep(d) \/ WsStep(d)
        PROVE  inbox'[c] = inbox[c]
    BY <1>3, OthersStable
  <1>4. CASE ClientStep(c)
    <2>1. CASE ClientSend(c)
      <3>1. PICK cmd \in CommandOf(c) : inbox' = [inbox EXCEPT ![c] = Append(@, cmd)]
        BY <2>1 DEF ClientSend
      <3>2. inbox'[c] = Append(inbox[c], cmd) /\ cmd \in Command
        BY <1>1, <3>1
      <3>3. QED
        BY <1>1, <3>2, AppendKeeps
    <2>2. CASE ~ClientSend(c)
      BY <1>2, <1>4, <2>2 DEF ClientStep, ClientConnect, ClientChanges
    <2>3. QED
      BY <2>1, <2>2
  <1>5. CASE WsStep(c)
    <2>1. CASE WsCommand(c)
      <3>1. inbox[c] # <<>> /\ inbox'[c] = Tail(inbox[c])
        BY <1>1, <2>1 DEF WsCommand
      <3>2. QED
        BY <1>1, <3>1, TailTakes
    <2>2. CASE inbox'[c] = <<>>
      BY <2>2 DEF ToSet
    <2>3. CASE ~WsCommand(c) /\ inbox'[c] # <<>>
      <3>1. ~WsClose(c)
        BY <1>1, <2>3 DEF WsClose
      <3>2. inbox' = inbox
        BY <1>5, <2>3, <3>1
        DEF WsStep, QueueBranch, SocketBranch, WsSubscribe, WsPing, WsRecv, WsRecvFails,
            WsSendDone, WsSendFails, WsSocketClosed
      <3>3. QED
        BY <3>2
    <2>4. QED
      BY <2>1, <2>2, <2>3
  <1>6. CASE UNCHANGED wsVars
    BY <1>6 DEF wsVars
  <1>7. QED
    BY <1>2, <1>3, <1>4, <1>5, <1>6 DEF WebNext, HttpStep, HttpDelete, HttpDeleteAll, webVars

LEMMA InboxKnownInit == OverviewInit => InboxKnown
  BY DEF OverviewInit, WebInit, InboxKnown, ToSet

LEMMA InboxKnownStep ==
  OverviewInv /\ InboxKnown /\ [OverviewNext]_allVars => InboxKnown'
  <1> SUFFICES ASSUME OverviewInv, InboxKnown, [OverviewNext]_allVars, NEW c \in Conn
               PROVE  ToSet(inbox'[c]) \subseteq CommandOf(c)'
    BY DEF InboxKnown
  <1>1. WebInv /\ [WebNext]_webVars
    BY OverviewStepIsWebStep DEF OverviewInv
  <1>2. ToSet(inbox'[c]) \subseteq ToSet(inbox[c]) \cup CommandOf(c)
    BY <1>1, InboxStep
  <1>3. CommandOf(c) \subseteq CommandOf(c)'
    BY <1>1, KnownGrows
  <1>4. QED
    BY <1>2, <1>3 DEF InboxKnown

(* A mail that a Remove names was sent to the queue once.                  *)
LEMMA NamedWasPublished ==
  ASSUME OverviewInv, InboxKnown, NEW t \in Conn, NEW m,
         [action |-> "Remove", id |-> m] \in ToSet(inbox[t])
  PROVE  m \in Published
  <1>1. m \in Known(t)
    <2>1. [action |-> "Remove", id |-> m] \in CommandOf(t)
      BY DEF InboxKnown
    <2>2. PICK c \in [action : {"Open", "Remove"}, id : Known(t)]
                    \cup [action : {"RemoveAll", "unknown"}] :
            c = [action |-> "Remove", id |-> m]
      BY <2>1 DEF CommandOf
    <2>3. c \notin [action : {"RemoveAll", "unknown"}]
      BY <2>2
    <2>4. QED
      BY <2>2, <2>3
  <1>2. /\ sent[t] \in Seq(Message) /\ log \in Seq(Message) /\ WsOK(t)
        /\ wsStart[t] \in Nat \ {0}
    BY DEF OverviewInv, WebInv, Shape, StorageTypeOK, WsTypeOK, WsOK
  <1>3. ASSUME NEW i \in 1 .. Len(sent[t])
        PROVE  sent[t][i] \in Published
    <2>1. wsStart[t] + i - 1 \in 1 .. Len(log) /\ sent[t][i] = log[wsStart[t] + i - 1]
      BY <1>2 DEF WsOK
    <2>2. QED
      BY <1>2, <2>1, PublishedIsLog
  <1>4. ToSet(sent[t]) \subseteq Published
    BY <1>2, <1>3 DEF ToSet
  <1>5. storage \cup deleted \cup expired \subseteq Published
    BY DEF OverviewInv, Books, Accounting
  <1>6. QED
    BY <1>1, <1>4, <1>5 DEF Known

(* The tab puts commands into its channel, or forwards the first one.      *)
LEMMA TabKeepsRemove ==
  ASSUME OverviewInv, NEW t \in Conn, NEW d \in Conn, TabStep(d),
         NEW m \in Message, RemoveUnderWay(t, m), Reaches(t)
  PROVE  RemoveUnderWay(t, m)'
  <1> DEFINE remove == [action |-> "Remove", id |-> m]
  <1>1. /\ commands \in [Conn -> Seq(Command)] /\ inbox \in [Conn -> Seq(Command)]
        /\ remove \in Command
    BY DEF OverviewInv, OverviewTypeOK, WebInv, WsTypeOK, Command
  <1>2. CASE Forward(d)
    <2>1. CASE d # t
      BY <1>1, <1>2, <2>1 DEF Forward, RemoveUnderWay
    <2>2. CASE d = t
      <3>1. Head(commands[t]) \in Command
        BY <1>1, <1>2, <2>2 DEF Forward
      <3>2. /\ inbox'[t] = Append(inbox[t], Head(commands[t]))
            /\ commands'[t] = Tail(commands[t])
        BY <1>1, <1>2, <2>2 DEF Forward
      <3>3. ToSet(inbox[t]) \cup {Head(commands[t])} \subseteq ToSet(inbox'[t])
        BY <1>1, <3>1, <3>2, AppendKeeps
      <3>4. ToSet(commands[t]) \subseteq {Head(commands[t])} \cup ToSet(commands'[t])
        <4>1. commands[t] \in Seq(Command) /\ commands[t] # <<>>
          BY <1>1, <1>2, <2>2 DEF Forward
        <4>2. QED
          BY <3>2, <4>1, TailKeeps
      <3>5. QED
        BY <3>3, <3>4 DEF RemoveUnderWay
    <2>3. QED
      BY <2>1, <2>2
  <1>3. CASE ForwardFails(d)
    <2>1. d # t
      BY <1>3 DEF ForwardFails
    <2>2. QED
      BY <1>1, <1>3, <2>1 DEF ForwardFails, RemoveUnderWay, webVars, wsVars
  <1>4. ASSUME NEW cmd \in Command, TrySend(d, cmd), inbox' = inbox
        PROVE  RemoveUnderWay(t, m)'
    <2>1. CASE commands'[t] = commands[t]
      BY <1>4, <2>1 DEF RemoveUnderWay
    <2>2. CASE commands'[t] # commands[t]
      <3>1. commands'[t] = Append(commands[t], cmd)
        BY <1>1, <1>4, <2>2 DEF TrySend
      <3>2. ToSet(commands[t]) \subseteq ToSet(commands'[t])
        BY <1>1, <3>1, AppendKeeps
      <3>3. QED
        BY <1>4, <3>2 DEF RemoveUnderWay
    <2>3. QED
      BY <2>1, <2>2
  <1>5. CASE RemoveSelected(d)
    <2>1. [action |-> "Remove", id |-> selected[d]] \in Command
      BY <1>5 DEF RemoveSelected, Listed, IdsOf, Command
    <2>2. QED
      BY <1>4, <1>5, <2>1 DEF RemoveSelected, webVars, wsVars
  <1>6. CASE RemoveAll(d)
    BY <1>4, <1>6 DEF RemoveAll, Command, webVars, wsVars
  <1>7. ASSUME NEW n \in Message, Select(d, n)
        PROVE  RemoveUnderWay(t, m)'
    <2>1. [action |-> "Open", id |-> n] \in Command
      BY DEF Command
    <2>2. inbox' = inbox
      BY <1>7 DEF Select, webVars, wsVars
    <2>3. TrySend(d, [action |-> "Open", id |-> n]) \/ UNCHANGED commands
      BY <1>7 DEF Select
    <2>4. QED
      BY <1>4, <2>1, <2>2, <2>3 DEF RemoveUnderWay
  <1>8. CASE ListMessages(d) \/ FetchFails(d) \/ AnswerArrives(d) \/ Announced(d)
    BY <1>8
    DEF ListMessages, FetchFails, AnswerArrives, Announced, RemoveUnderWay, webVars, wsVars
  <1>9. QED
    BY <1>2, <1>3, <1>5, <1>6, <1>7, <1>8 DEF TabStep

(* The server takes commands from the socket one by one, or closes it.     *)
LEMMA ServerKeepsRemove ==
  ASSUME OverviewInv, InboxKnown, ServerStep, UNCHANGED tabVars, NEW t \in Conn,
         NEW m \in Message, RemoveUnderWay(t, m), Live(t)', ~Poisoned
  PROVE  RemoveUnderWay(t, m)' \/ GoneForGood(m)' \/ m \in Outstanding
  <1> DEFINE remove == [action |-> "Remove", id |-> m]
  <1>1. /\ inbox \in [Conn -> Seq(Command)] /\ wsTask \in [Conn -> WsState]
        /\ commands' = commands
    BY DEF OverviewInv, WebInv, WsTypeOK, tabVars
  <1>2. CASE inbox'[t] = inbox[t]
    BY <1>1, <1>2 DEF RemoveUnderWay
  <1>3. ASSUME NEW c \in Conn, WsCommand(c), c = t
        PROVE  RemoveUnderWay(t, m)' \/ GoneForGood(m)' \/ m \in Outstanding
    <2>1. inbox[t] \in Seq(Command) /\ inbox[t] # <<>> /\ inbox'[t] = Tail(inbox[t])
      BY <1>1, <1>3 DEF WsCommand
    <2>2. ToSet(inbox[t]) \subseteq {Head(inbox[t])} \cup ToSet(inbox'[t])
      BY <2>1, TailKeeps
    <2>3. CASE Head(inbox[t]) = remove
      <3>1. RemoveMessage(m)
        BY <1>3, <2>3 DEF WsCommand, Carry
      <3>2. m \in Published
        BY <2>1, <2>3, TailTakes, NamedWasPublished
      <3>3. m \in Outstanding \cup storage \cup deleted \cup expired \cup missed
        BY <3>2 DEF OverviewInv, Books, Accounting
      <3>4. /\ deleted' = deleted \cup (storage \cap {m})
            /\ expired' = expired /\ missed' = missed
        BY <3>1 DEF RemoveMessage, taskVars
      <3>5. QED
        BY <3>3, <3>4 DEF GoneForGood
    <2>4. CASE Head(inbox[t]) # remove
      BY <1>1, <2>2, <2>4 DEF RemoveUnderWay
    <2>5. QED
      BY <2>3, <2>4
  <1>4. ASSUME NEW c \in Conn, WsStep(c), ~WsCommand(c) \/ c # t
        PROVE  inbox'[t] = inbox[t]
    <2>1. c = t => ~WsClose(c)
      BY <1>1 DEF WsClose, Live
    <2>2. QED
      BY <1>1, <1>4, <2>1
      DEF WsStep, QueueBranch, SocketBranch, WsSubscribe, WsPing, WsRecv, WsRecvFails,
          WsSendDone, WsSendFails, WsSocketClosed, WsClose, WsCommand
  <1>5. CASE ~\E c \in Conn : WsStep(c)
    <2>1. inbox' = inbox
      BY <1>5
      DEF ServerStep, HttpStep, HttpDelete, HttpDeleteAll, ClientConnect, TabLost,
          ClientChanges, wsVars
    <2>2. QED
      BY <1>2, <2>1
  <1>6. QED
    BY <1>2, <1>3, <1>4, <1>5

-----------------------------------------------------------------------------
(* The tabs' lists, requests and channels are well formed at every step.   *)
THEOREM OverviewTypeCorrect == OverviewSafety => []OverviewTypeOK
  <1>1. OverviewInv => OverviewTypeOK
    BY DEF OverviewInv
  <1>2. QED
    BY <1>1, OverviewInvInit, OverviewInvStep, PTL DEF OverviewSafety

(* The tabs are clients of the kind that WebServer specifies: they name    *)
(* only mails they can know of.                                            *)
THEOREM OverviewImplementsWebServer == OverviewSafety => ImplementsWebServer
  <1>1. OverviewInit => WebInit
    BY DEF OverviewInit
  <1>2. OverviewInv /\ [OverviewNext]_allVars => [WebNext]_webVars
    BY OverviewStepIsWebStep
  <1>3. QED
    BY <1>1, <1>2, OverviewInvInit, OverviewInvStep, PTL
    DEF OverviewSafety, ImplementsWebServer, WebSafety

LEMMA ListsAddUpNow == OverviewInv => ListAccounts
  <1> SUFFICES ASSUME OverviewInv, NEW t \in Conn, fetch[t] = "applied",
                      wsTask[t] \in Active, NEW m \in storage
               PROVE  m \in Listed(t) \cup removed[t] \cup ToCome(t)
                               \cup replaced[t] \cup InTheGap(t)
    BY DEF ListAccounts
  <1>1. /\ log \in Seq(Message) /\ TabOK(t) /\ WsOK(t)
        /\ seen[t] \in Nat /\ seen[t] <= Len(sent[t]) /\ Len(sent[t]) \in Nat
        /\ wsStart[t] \in Nat \ {0} /\ Len(log) \in Nat
    <2>1. TabOK(t) /\ WsOK(t)
      BY DEF OverviewInv, WebInv
    <2>2. log \in Seq(Message)
      BY DEF OverviewInv, WebInv, Shape, StorageTypeOK
    <2>3. seen[t] \in Nat /\ seen[t] <= Len(sent[t])
      BY DEF OverviewInv, OverviewTypeOK
    <2>4. sent[t] \in Seq(Message) /\ wsNext[t] \in Nat
      BY DEF OverviewInv, WebInv, WsTypeOK
    <2>5. wsStart[t] \in Nat \ {0}
      BY <2>1, <2>4 DEF WsOK
    <2>6. QED
      BY <2>1, <2>2, <2>3, <2>4, <2>5
  <1>2. PICK i \in 1 .. Len(log) : m = log[i]
    <2>1. m \in Published
      BY DEF OverviewInv, Books, Accounting
    <2>2. QED
      BY <1>1, <2>1, PublishedIsLog
  <1>3. CASE i < wsStart[t]
    <2>1. m \in InTheGap(t) \cup Answered(t)
      BY <1>1, <1>2, <1>3 DEF InTheGap
    <2>2. QED
      BY <1>1, <2>1 DEF TabOK
  <1>4. CASE wsStart[t] <= i /\ i < wsStart[t] + seen[t]
    <2> DEFINE k == i - wsStart[t] + 1
    <2>1. k \in 1 .. seen[t] /\ k \in 1 .. Len(sent[t]) /\ wsStart[t] + k - 1 = i
      BY <1>1, <1>4
    <2>2. sent[t][k] = m
      BY <1>1, <1>2, <2>1 DEF WsOK
    <2>3. m \in Delivered(t)
      BY <2>1, <2>2 DEF Delivered
    <2>4. QED
      BY <1>1, <2>3 DEF TabOK
  <1>5. CASE wsStart[t] + seen[t] <= i
    BY <1>1, <1>2, <1>5 DEF ToCome
  <1>6. QED
    BY <1>1, <1>3, <1>4, <1>5

(* A mail of the server is listed in a tab, removed there, on its way, or  *)
(* lost in one of the two windows between the request and the websocket.   *)
THEOREM ListsAddUp == OverviewSafety => []ListAccounts
  BY ListsAddUpNow, OverviewInvInit, OverviewInvStep, PTL DEF OverviewSafety

(* A mail is listed twice only by an announcement behind an answer that    *)
(* has it, and never three times.                                          *)
THEOREM DuplicatesNeedTheRace == OverviewSafety => []TwiceByRaceOnly
  <1>1. OverviewInv => TwiceByRaceOnly
    BY DEF OverviewInv, TwiceByRaceOnly, TabOK, Due, Old, New
  <1>2. QED
    BY <1>1, OverviewInvInit, OverviewInvStep, PTL DEF OverviewSafety

(* What has left the list, and is neither in an answer nor in an           *)
(* announcement under way, does not come back.                             *)
THEOREM RemovedStaysAway == OverviewSafety => NothingReappears
  <1> DEFINE A == \A t \in Conn, m \in Message :
       /\ fetch[t] \in {"applied", "failed"}
       /\ m \in Published \ ToCome(t)
       /\ m \notin Listed(t)
       => m \notin Listed(t)'
  <1>1. ASSUME OverviewInv, [OverviewNext]_allVars, NEW t \in Conn, NEW m \in Message,
               fetch[t] \in {"applied", "failed"}, m \in Published \ ToCome(t),
               m \notin Listed(t), m \in Listed(t)'
        PROVE  FALSE
    <2>1. messages'[t] # messages[t]
      BY <1>1 DEF Listed
    <2>2. TabStep(t)
      BY <1>1, <2>1, TabStepAlone DEF OverviewNext, tabVars, allVars, OverviewInv
    <2>3. /\ messages \in [Conn -> List] /\ OverviewTypeOK
          /\ log \in Seq(Message) /\ seen[t] \in Nat /\ WsOK(t) /\ wsStart[t] \in Nat \ {0}
          /\ sent[t] \in Seq(Message)
      BY <1>1
      DEF OverviewInv, OverviewTypeOK, WebInv, WsTypeOK, WsOK, Shape, StorageTypeOK
    <2>4. Places(messages[t], m) = 0
      <3>1. Places(messages[t], m) \in Nat
        BY <2>3, ListFacts
      <3>2. QED
        BY <1>1, <3>1 DEF Listed, IdsOf
    <2>5. Places(messages'[t], m) # 0
      BY <1>1 DEF Listed, IdsOf
    <2>6. CASE Announced(t)
      <3>1. /\ seen[t] < Len(sent[t])
            /\ messages'[t] = [messages[t] EXCEPT ![sent[t][seen[t] + 1]].unopened = @ + 1]
        BY <2>3, <2>6 DEF Announced
      <3>2. m = sent[t][seen[t] + 1]
        <4>1. messages[t] \in List /\ m \in Message
          BY <1>1, <2>3
        <4>2. m # sent[t][seen[t] + 1] => messages'[t][m] = messages[t][m]
          BY <3>1, <4>1 DEF List
        <4>3. QED
          BY <2>4, <2>5, <4>2 DEF Places
      <3>3. seen[t] + 1 \in 1 .. Len(sent[t])
        BY <2>3, <3>1
      <3>4. m = log[wsStart[t] + seen[t]] /\ wsStart[t] + seen[t] <= Len(log)
        BY <2>3, <3>2, <3>3 DEF WsOK
      <3>5. m \in ToCome(t)
        BY <2>3, <3>4 DEF ToCome
      <3>6. QED
        BY <1>1, <3>5
    <2>7. CASE RemoveSelected(t) \/ RemoveAll(t)
      <3>1. CASE RemoveSelected(t)
        <4>1. messages'[t] = [messages[t] EXCEPT ![selected[t]] = Absent]
          BY <2>3, <3>1 DEF RemoveSelected
        <4>2. messages'[t][m] \in {messages[t][m], Absent}
          BY <2>3, <4>1 DEF List
        <4>3. QED
          BY <2>4, <2>5, <4>2 DEF Places, Absent
      <3>2. CASE RemoveAll(t)
        BY <2>3, <2>5, <3>2, EmptyFacts DEF RemoveAll
      <3>3. QED
        BY <2>7, <3>1, <3>2
    <2>8. ASSUME NEW n \in Message, Select(t, n)
          PROVE  FALSE
      <3>1. n \in Listed(t)
        BY <2>8 DEF Select
      <3>2. n # m
        BY <1>1, <3>1
      <3>3. messages'[t][m] = messages[t][m]
        BY <2>3, <2>8, <3>2 DEF Select, List
      <3>4. QED
        BY <2>4, <2>5, <3>3 DEF Places
    <2>9. CASE ListMessages(t) \/ FetchFails(t) \/ AnswerArrives(t)
      BY <1>1, <2>1, <2>9 DEF ListMessages, FetchFails, AnswerArrives
    <2>10. CASE Forward(t) \/ ForwardFails(t)
      BY <2>1, <2>10 DEF Forward, ForwardFails
    <2>11. QED
      BY <2>2, <2>6, <2>7, <2>8, <2>9, <2>10 DEF TabStep
  <1>2. OverviewInv /\ [OverviewNext]_allVars => [A]_allVars
    BY <1>1
  <1>3. QED
    BY <1>2, OverviewInvInit, OverviewInvStep, PTL DEF OverviewSafety, NothingReappears

(* A Remove is not lost on its way: the mail has left the server for good, *)
(* or has not been inserted yet, unless the connection breaks or the lock  *)
(* is poisoned.                                                            *)
THEOREM RemovesGetThrough == OverviewSafety => RemovalsArrive
  <1> DEFINE A == \A t \in Conn, m \in Message :
       RemoveUnderWay(t, m) /\ ~RemoveUnderWay(t, m)'
         => \/ GoneForGood(m)'
            \/ m \in Outstanding
            \/ ~Reaches(t) \/ ~Live(t)' \/ Poisoned
  <1>1. OverviewInv /\ InboxKnown /\ [OverviewNext]_allVars => [A]_allVars
    BY TabKeepsRemove, ServerKeepsRemove DEF OverviewNext
  <1>2. QED
    BY <1>1, OverviewInvInit, OverviewInvStep, InboxKnownInit, InboxKnownStep, PTL
    DEF OverviewSafety, RemovalsArrive
=============================================================================
