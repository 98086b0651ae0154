------------------------------ MODULE Overview ------------------------------
(***************************************************************************)
(* The frontend (frontend/src/overview.rs, websocket.rs, api.rs) beside    *)
(* the server: a browser tab keeps a copy of the list of mails.  It asks   *)
(* for the list over HTTP and opens a websocket at the same time, and      *)
(* neither waits for the other.  The user selects and removes mails in the *)
(* tab's own list; the commands that tell the server go through a bounded  *)
(* channel and the websocket, and no answer comes back.                    *)
(*                                                                         *)
(* A tab is a Conn: overview.rs opens one websocket when it is created and *)
(* never a second one.  The announcements that wait in the socket and in   *)
(* the channel to the component are the mails of sent behind the cursor    *)
(* `seen`; a full channel only makes its reader wait.                      *)
(*                                                                         *)
(* A list is a bag of entries: the server sorts its answer by time and the *)
(* tab appends to what it has, but every operation finds its entries by id *)
(* and not by place, so that a list is, for every mail, how many of its    *)
(* entries are marked as opened and how many are not.                      *)
(***************************************************************************)
EXTENDS WebServer

CONSTANTS
  ChannelCapacity,  \* commands the channel to the websocket holds (32 and one per sender)
  NoMessage         \* nothing selected, the empty id

ASSUME TabAssumption ==
  /\ ChannelCapacity \in Nat \ {0}
  /\ NoMessage \notin Message

VARIABLES
  messages,   \* Overview.messages: what the tab lists
  selected,   \* Overview.selected
  fetch,      \* the request for the list
  answer,     \* the list in the answer to it
  seen,       \* how many of the mails in sent the component has got
  commands,   \* the channel of Actions to the websocket
  removed,    \* history: mails this tab took from its list
  replaced,   \* history: mails that were listed, and not in the answer, when it came
  appliedAt   \* history: seen when the answer came

tabVars == <<messages, selected, fetch, answer, seen, commands,
             removed, replaced, appliedAt>>
allVars == <<webVars, tabVars>>

FetchState == {"asked", "answered", "applied", "failed"}
List == [Message -> [opened : Nat, unopened : Nat]]

Absent    == [opened |-> 0, unopened |-> 0]
EmptyList == [m \in Message |-> Absent]

Places(list, m) == list[m].opened + list[m].unopened
IdsOf(list)     == {m \in Message : Places(list, m) > 0}

Listed(t)    == IdsOf(messages[t])
Answered(t)  == IdsOf(answer[t])
Delivered(t) == {sent[t][i] : i \in 1 .. seen[t]}

TabInit ==
  /\ messages = [t \in Conn |-> EmptyList]
  /\ selected = [t \in Conn |-> NoMessage]
  /\ fetch    = [t \in Conn |-> "asked"]
  /\ answer   = [t \in Conn |-> EmptyList]
  /\ seen     = [t \in Conn |-> 0]
  /\ commands = [t \in Conn |-> <<>>]
  /\ removed  = [t \in Conn |-> {}]
  /\ replaced = [t \in Conn |-> {}]
  /\ appliedAt = [t \in Conn |-> 0]

OverviewInit == WebInit /\ TabInit

-----------------------------------------------------------------------------
(* The request for the list. *)

\* The metadata of the mails in the map.
Listing ==
  [m \in Message |-> CASE m \in opened            -> [opened |-> 1, unopened |-> 0]
                       [] m \in storage \ opened -> [opened |-> 0, unopened |-> 1]
                       [] OTHER                   -> Absent]

\* GET /api/messages, under one read lock.
ListMessages(t) ==
  /\ fetch[t] = "asked"
  /\ ~Poisoned
  /\ fetch' = [fetch EXCEPT ![t] = "answered"]
  /\ answer' = [answer EXCEPT ![t] = Listing]
  /\ UNCHANGED <<webVars, messages, selected, seen, commands, removed, replaced, appliedAt>>

\* The request or its answer is lost, or the lock is poisoned: the task that
\* asked panics, and nobody asks again.
FetchFails(t) ==
  /\ fetch[t] \in {"asked", "answered"}
  /\ fetch' = [fetch EXCEPT ![t] = "failed"]
  /\ UNCHANGED <<webVars, messages, selected, answer, seen, commands, removed,
                 replaced, appliedAt>>

\* Faulty variant: the answer is put behind what is listed already.
AnswerAppended(t) ==
  /\ fetch[t] = "answered"
  /\ fetch'    = [fetch EXCEPT ![t] = "applied"]
  /\ messages' = [messages EXCEPT ![t] = [m \in Message |->
       [opened   |-> @[m].opened + answer[t][m].opened,
        unopened |-> @[m].unopened + answer[t][m].unopened]]]
  /\ appliedAt' = [appliedAt EXCEPT ![t] = seen[t]]
  /\ UNCHANGED <<webVars, selected, answer, seen, commands, removed, replaced>>

\* Faulty variant: the answer is kept and applied whenever the list is drawn.
AnswerKept(t) ==
  /\ fetch[t] \in {"answered", "applied"}
  /\ fetch'     = [fetch EXCEPT ![t] = "applied"]
  /\ messages'  = [messages EXCEPT ![t] = answer[t]]
  /\ replaced'  = [replaced EXCEPT ![t] = Listed(t) \ Answered(t)]
  /\ appliedAt' = [appliedAt EXCEPT ![t] = seen[t]]
  /\ UNCHANGED <<webVars, selected, answer, seen, commands, removed>>

\* Msg::Messages: the answer replaces the list, whatever was announced meanwhile.
AnswerArrives(t) ==
  /\ fetch[t] = "answered"
  /\ fetch'     = [fetch EXCEPT ![t] = "applied"]
  /\ messages'  = [messages EXCEPT ![t] = answer[t]]
  /\ replaced'  = [replaced EXCEPT ![t] = Listed(t) \ Answered(t)]
  /\ appliedAt' = [appliedAt EXCEPT ![t] = seen[t]]
  /\ UNCHANGED <<webVars, selected, answer, seen, commands, removed>>

-----------------------------------------------------------------------------
(* The websocket. *)

\* Faulty variant: what is announced while the list is loading is ignored.
AnnouncedUnlessLoading(t) ==
  /\ seen[t] < Len(sent[t])
  /\ seen' = [seen EXCEPT ![t] = @ + 1]
  /\ messages' = IF fetch[t] = "applied"
                 THEN [messages EXCEPT ![t][sent[t][seen[t] + 1]].unopened = @ + 1]
                 ELSE messages
  /\ UNCHANGED <<webVars, selected, fetch, answer, commands, removed, replaced, appliedAt>>

\* Msg::Message: the next announcement is listed, without a look at the list.
Announced(t) ==
  /\ seen[t] < Len(sent[t])
  /\ seen' = [seen EXCEPT ![t] = @ + 1]
  /\ messages' = [messages EXCEPT ![t][sent[t][seen[t] + 1]].unopened = @ + 1]
  /\ UNCHANGED <<webVars, selected, fetch, answer, commands, removed, replaced, appliedAt>>

\* The socket is open, as far as the browser knows, and what it is given gets out.
Reaches(t) == Live(t) /\ peer[t] \in Connected

\* Faulty variant: a command is written although the server's task has ended.
ForwardBlindly(t) ==
  /\ commands[t] # <<>>
  /\ wsTask[t] # "none" /\ Len(inbox[t]) < MaxInbox
  /\ inbox'    = [inbox EXCEPT ![t] = Append(@, Head(commands[t]))]
  /\ commands' = [commands EXCEPT ![t] = Tail(@)]
  /\ UNCHANGED <<storageVars, wsTask, wsNext, wsStart, peer, sent>>
  /\ UNCHANGED <<messages, selected, fetch, answer, seen, removed, replaced, appliedAt>>

\* The task that writes commands to the websocket waits until it is open.
Forward(t) ==
  /\ commands[t] # <<>>
  /\ Reaches(t) /\ Len(inbox[t]) < MaxInbox
  /\ inbox'    = [inbox EXCEPT ![t] = Append(@, Head(commands[t]))]
  /\ commands' = [commands EXCEPT ![t] = Tail(@)]
  /\ UNCHANGED <<storageVars, wsTask, wsNext, wsStart, peer, sent>>
  /\ UNCHANGED <<messages, selected, fetch, answer, seen, removed, replaced, appliedAt>>

\* On a socket that is closed or leads nowhere the command is lost; an error is logged.
ForwardFails(t) ==
  /\ commands[t] # <<>>
  /\ wsTask[t] # "none" /\ ~Reaches(t)
  /\ commands' = [commands EXCEPT ![t] = Tail(@)]
  /\ UNCHANGED <<webVars, messages, selected, fetch, answer, seen, removed,
                 replaced, appliedAt>>

-----------------------------------------------------------------------------
(* The user. *)

\* Faulty variant: the channel is unbounded.
SendUnbounded(t, cmd) == commands' = [commands EXCEPT ![t] = Append(@, cmd)]

\* try_send: a command that finds no room is dropped.
Room(t) == Len(commands[t]) < ChannelCapacity
TrySend(t, cmd) ==
  commands' = IF Room(t) THEN [commands EXCEPT ![t] = Append(@, cmd)] ELSE commands

(* Msg::Select: the first entry of the mail that is not opened is marked   *)
(* as opened, whether or not the server can be told.                       *)
Select(t, m) ==
  /\ m \in Listed(t)
  /\ selected' = [selected EXCEPT ![t] = m]
  /\ IF messages[t][m].unopened = 0 THEN UNCHANGED <<messages, commands>>
     ELSE /\ messages' = [messages EXCEPT ![t][m] =
               [opened |-> @.opened + 1, unopened |-> @.unopened - 1]]
          /\ TrySend(t, [action |-> "Open", id |-> m])
  /\ UNCHANGED <<webVars, fetch, answer, seen, removed, replaced, appliedAt>>

\* Msg::Remove from the view of the selected mail, which is shown while it is listed.
RemoveSelected(t) ==
  /\ selected[t] \in Listed(t)
  /\ messages' = [messages EXCEPT ![t][selected[t]] = Absent]
  /\ TrySend(t, [action |-> "Remove", id |-> selected[t]])
  /\ removed' = [removed EXCEPT ![t] = @ \cup {selected[t]}]
  /\ UNCHANGED <<webVars, selected, fetch, answer, seen, replaced, appliedAt>>

\* Msg::RemoveAll: here the list is cleared only if the server will be told.
RemoveAll(t) ==
  /\ Listed(t) # {}
  /\ Room(t)
  /\ messages' = [messages EXCEPT ![t] = EmptyList]
  /\ TrySend(t, [action |-> "RemoveAll"])
  /\ removed' = [removed EXCEPT ![t] = @ \cup Listed(t)]
  /\ UNCHANGED <<webVars, selected, fetch, answer, seen, replaced, appliedAt>>

-----------------------------------------------------------------------------
TabStep(t) ==
  \/ ListMessages(t) \/ FetchFails(t) \/ AnswerArrives(t)
  \/ Announced(t) \/ Forward(t) \/ ForwardFails(t)
  \/ RemoveSelected(t) \/ RemoveAll(t)
  \/ \E m \in Message : Select(t, m)

\* A browser keeps to the protocol and reads its sockets whatever the page does, so that
\* a tab does not stall: it is closed, or its network is gone.
TabLost(t) == ClientChanges(t) /\ peer'[t] \in Away

\* The server, which nobody stops, and the network; the clients' commands are
\* those of the tabs.
ServerStep ==
  \/ ((\E m \in Message : Publish(m)) \/ AdvanceClock \/ StorageStep) /\ UNCHANGED wsVars
  \/ HttpStep
  \/ \E t \in Conn : ClientConnect(t) \/ TabLost(t) \/ WsStep(t)

OverviewNext ==
  \/ ServerStep /\ UNCHANGED tabVars
  \/ \E t \in Conn : TabStep(t)

OverviewSafety == OverviewInit /\ [][OverviewNext]_allVars

-----------------------------------------------------------------------------
(* The state is well formed.                                               *)
OverviewTypeOK ==
  /\ messages \in [Conn -> List]
  /\ selected \in [Conn -> Message \cup {NoMessage}]
  /\ fetch \in [Conn -> FetchState]
  /\ answer \in [Conn -> List]
  /\ seen \in [Conn -> Nat] /\ appliedAt \in [Conn -> Nat]
  /\ commands \in [Conn -> Seq(Command)]
  /\ removed \in [Conn -> SUBSET Message] /\ replaced \in [Conn -> SUBSET Message]
  /\ \A t \in Conn :
       /\ seen[t] <= Len(sent[t]) /\ appliedAt[t] <= seen[t]
       /\ Len(commands[t]) <= ChannelCapacity

\* The mails a subscribed tab has still to be told of.
ToCome(t) == {log[i] : i \in wsStart[t] + seen[t] .. Len(log)}

\* The mails that were sent before the tab subscribed and are not in its answer.
InTheGap(t) == {log[i] : i \in 1 .. wsStart[t] - 1} \ Answered(t)

(* With the answer applied and the websocket subscribed, a mail of the     *)
(* server that the tab does not list was removed in the tab or is still to *)
(* be announced, but for the two windows in which the request and the      *)
(* websocket race: it was announced before an answer that lacks it, or it  *)
(* came after the answer was made and before the subscription.             *)
ListAccounts ==
  \A t \in Conn : fetch[t] = "applied" /\ wsTask[t] \in Active =>
    storage \subseteq Listed(t) \cup removed[t] \cup ToCome(t)
                        \cup replaced[t] \cup InTheGap(t)

(* A mail is listed twice only when its announcement came after an answer  *)
(* that holds it already, and never three times.                           *)
TwiceByRaceOnly ==
  \A t \in Conn, m \in Message :
    \/ Places(messages[t], m) <= 1
    \/ /\ Places(messages[t], m) = 2
       /\ fetch[t] = "applied" /\ m \in Answered(t)
       /\ \E k \in appliedAt[t] + 1 .. seen[t] : sent[t][k] = m

(* What the tab does not list, and what neither an answer nor an           *)
(* announcement under way can bring, does not come back into the list: a   *)
(* mail that was removed stays away once both have passed.                 *)
NothingReappears ==
  [][\A t \in Conn, m \in Message :
       /\ fetch[t] \in {"applied", "failed"}
       /\ m \in Published \ ToCome(t)
       /\ m \notin Listed(t)
       => m \notin Listed(t)']_allVars

(* A Remove is not lost on its way, however many commands, mails and       *)
(* answers it meets: when it is gone from the channel and from the socket, *)
(* the mail has left the server for good, unless the connection broke or   *)
(* the lock is poisoned, or the Remove has overtaken its mail, which the   *)
(* storage task has not inserted yet and will insert all the same          *)
(* (web_server.rs:84, storage.rs:33).                                      *)
RemoveUnderWay(t, m) ==
  [action |-> "Remove", id |-> m] \in ToSet(commands[t]) \cup ToSet(inbox[t])

GoneForGood(m) == m \in deleted \cup expired \cup missed

RemovalsArrive ==
  [][\A t \in Conn, m \in Message :
       RemoveUnderWay(t, m) /\ ~RemoveUnderWay(t, m)'
         => \/ GoneForGood(m)'
            \/ m \in Outstanding
            \/ ~Reaches(t) \/ ~Live(t)' \/ Poisoned]_allVars

(* A tab only names mails it can know of: beside the server the tabs are   *)
(* clients of the kind that WebServer specifies, so that what holds there  *)
(* holds here.                                                             *)
ImplementsWebServer == WebSafety
=============================================================================
