-------------------------------- MODULE View --------------------------------
(***************************************************************************)
(* The view of the selected mail (frontend/src/view.rs), a component of    *)
(* the list (overview.rs), which owns the tab and shows the view while the *)
(* selected mail is listed.  The view fetches the mail when another one is *)
(* selected, and its source when the Raw tab is opened and no source is    *)
(* there.  No request is cancelled and no answer is checked against the    *)
(* selection; answers come in any order.                                   *)
(*                                                                         *)
(* A change of the properties, the render that follows and the effects of  *)
(* that render are one action: the page has one thread and yields nowhere  *)
(* in between.  A closure that is made in a render reads the state as it   *)
(* was in that render.                                                     *)
(***************************************************************************)
EXTENDS Integers, Sequences, SequencesExt

CONSTANTS
  Message,     \* the mails of the list
  NoMessage,   \* none selected, the empty id of the default MailMessage, no source
  WithHtml,    \* the mails with an HTML body
  WithText,    \* the mails with a text body
  MaxPending   \* bound: requests of a kind under way

ASSUME ViewAssumption ==
  /\ NoMessage \notin Message
  /\ WithHtml \subseteq Message /\ WithText \subseteq Message
  /\ MaxPending \in Nat \ {0}

VARIABLES
  id,       \* the mail the view is given, NoMessage when there is no view
  tab,      \* Overview.tab
  message,  \* the mail shown
  raw,      \* raw_content: the mail whose source it is
  fetches,  \* requests for mails, oldest first
  raws,     \* requests for sources, oldest first
  late,     \* history: a request failed, or was answered after a later one
  unchecked \* history: the mail shown was not checked against the tab

viewVars == <<id, tab, message, raw, fetches, raws, late, unchecked>>

Tab == {"Formatted", "Text", "Headers", "Raw"}

\* The tab is that of the render whose effect made the request; a request of a
\* view that is gone can still change the tab, which is the list's.
Fetch == [id : Message, tab : Tab, mounted : BOOLEAN]

\* The tabs of the mail shown.
TabsOf(m) ==
  {"Raw", "Headers"}
    \cup (IF m \in WithText THEN {"Text"} ELSE {"Formatted"})
    \cup (IF m \in WithText \cap WithHtml THEN {"Formatted"} ELSE {})

ViewInit ==
  /\ id = NoMessage /\ message = NoMessage /\ raw = NoMessage
  /\ tab = "Formatted"
  /\ fetches = <<>> /\ raws = <<>>
  /\ late = FALSE /\ unchecked = FALSE

-----------------------------------------------------------------------------
(* The effects of a render. *)

\* The first effect runs when the id has changed.
FetchMessage(m) ==
  /\ Len(fetches) < MaxPending
  /\ fetches' = Append(fetches, [id |-> m, tab |-> tab, mounted |-> TRUE])

\* The second one runs when the id or the tab has changed, and asks for the source
\* if the render it belongs to had none.
FetchRaw(m, t) ==
  IF t = "Raw" /\ raw = NoMessage
  THEN Len(raws) < MaxPending /\ raws' = Append(raws, m)
  ELSE UNCHANGED raws

\* Faulty variant: the mail is fetched by the first render only.
SelectWithoutEffect(m) ==
  /\ m # id
  /\ id' = m
  /\ raw' = NoMessage
  /\ IF id = NoMessage THEN FetchMessage(m) ELSE UNCHANGED fetches
  /\ FetchRaw(m, tab)
  /\ late' = FALSE
  /\ UNCHANGED <<tab, message, unchecked>>

(* Another mail is selected, or a first one.  The source is reset by the   *)
(* first effect, for the next render; the second effect still sees it.     *)
SelectMessage(m) ==
  /\ m # id
  /\ id' = m
  /\ raw' = NoMessage
  /\ FetchMessage(m)
  /\ FetchRaw(m, tab)
  /\ late' = FALSE
  /\ UNCHANGED <<tab, message, unchecked>>

\* The user opens one of the tabs, which are there once a mail is shown.
SetTab(t) ==
  /\ id # NoMessage /\ message # NoMessage
  /\ t \in TabsOf(message) \ {tab}
  /\ tab' = t
  /\ FetchRaw(id, t)
  /\ unchecked' = FALSE
  /\ UNCHANGED <<id, message, raw, fetches, late>>

\* Faulty variant: the view is hidden and keeps what it shows.
Hide ==
  /\ id # NoMessage
  /\ id' = NoMessage /\ raws' = <<>>
  /\ fetches' = [i \in DOMAIN fetches |-> [fetches[i] EXCEPT !.mounted = FALSE]]
  /\ UNCHANGED <<message, raw, tab, late, unchecked>>

\* The selected mail leaves the list, and the view with its state goes.
Unmount ==
  /\ id # NoMessage
  /\ id' = NoMessage /\ message' = NoMessage /\ raw' = NoMessage
  /\ raws' = <<>>
  /\ fetches' = [i \in DOMAIN fetches |-> [fetches[i] EXCEPT !.mounted = FALSE]]
  /\ UNCHANGED <<tab, late, unchecked>>

-----------------------------------------------------------------------------
(* The answers. *)

\* Faulty variant: only a mail without HTML changes the tab.
TabForText(t, m) == IF t = "Formatted" /\ m \notin WithHtml THEN "Text" ELSE tab

\* A mail without the body that the tab shows changes the tab; the tab asked is
\* the one of the request.
TabFor(t, m) ==
  IF t = "Formatted" /\ m \notin WithHtml THEN "Text"
  ELSE IF t = "Text" /\ m \notin WithText THEN "Formatted" ELSE tab

\* The mail the view is given has a request under way.
Awaited == \E i \in DOMAIN fetches : fetches[i].mounted /\ fetches[i].id = id

\* Faulty variant: the first answer stays, as behind a flag that the mail is loaded.
AnswerOnce(i) ==
  LET f == fetches[i] IN
  /\ fetches' = RemoveAt(fetches, i)
  /\ tab' = TabFor(f.tab, f.id)
  /\ message' = IF f.mounted /\ message = NoMessage THEN f.id ELSE message
  /\ late' = (late \/ (f.mounted /\ ~Awaited))
  /\ unchecked' = (IF f.mounted THEN f.tab # tab ELSE unchecked \/ tab' # tab)
  /\ UNCHANGED <<id, raw, raws>>

MessageArrives(i) ==
  LET f == fetches[i] IN
  /\ fetches' = RemoveAt(fetches, i)
  /\ tab' = TabFor(f.tab, f.id)
  /\ message' = IF f.mounted THEN f.id ELSE message
  /\ late' = (late \/ (f.mounted /\ ~Awaited))
  /\ unchecked' = (IF f.mounted THEN f.tab # tab ELSE unchecked \/ tab' # tab)
  /\ UNCHANGED <<id, raw, raws>>

\* The mail is not on the server any more, or not yet, or the network fails: the
\* task that waits for the answer panics, and the view stays as it is.
MessageFails(i) ==
  /\ fetches' = RemoveAt(fetches, i)
  /\ late' = (late \/ fetches[i].mounted)
  /\ UNCHANGED <<id, tab, message, raw, raws, unchecked>>

\* Whatever comes, a failure's text included, is taken for the source of the mail.
RawArrives(i) ==
  /\ raws' = RemoveAt(raws, i)
  /\ raw' = raws[i]
  /\ UNCHANGED <<id, tab, message, fetches, late, unchecked>>

-----------------------------------------------------------------------------
User ==
  \/ \E m \in Message : SelectMessage(m)
  \/ \E t \in Tab : SetTab(t)
  \/ Unmount

ViewNext ==
  \/ User
  \/ \E i \in DOMAIN fetches : MessageArrives(i) \/ MessageFails(i)
  \/ \E i \in DOMAIN raws : RawArrives(i)

ViewSafety == ViewInit /\ [][ViewNext]_viewVars

\* A request is answered or fails in the end; the user owes nothing.
ViewFairness ==
  /\ WF_viewVars(fetches # <<>> /\ (MessageArrives(1) \/ MessageFails(1)))
  /\ WF_viewVars(raws # <<>> /\ RawArrives(1))

ViewSpec == ViewSafety /\ ViewFairness

-----------------------------------------------------------------------------
(* The state is well formed; without a view nothing is shown, and no       *)
(* request is of a view that is there.                                     *)
ViewTypeOK ==
  /\ {id, message, raw} \subseteq Message \cup {NoMessage}
  /\ tab \in Tab
  /\ fetches \in Seq(Fetch) /\ raws \in Seq(Message)
  /\ Len(fetches) <= MaxPending /\ Len(raws) <= MaxPending
  /\ late \in BOOLEAN /\ unchecked \in BOOLEAN
  /\ id = NoMessage =>
       /\ message = NoMessage /\ raw = NoMessage
       /\ raws = <<>> /\ \A i \in DOMAIN fetches : ~fetches[i].mounted

(* The view shows another mail than the selected one only while the        *)
(* request for that is under way, or if it failed, or if an older answer   *)
(* came after its answer.                                                  *)
StaleOnlyIfLate == id # NoMessage /\ message # id => Awaited \/ late

(* The open tab is one of those of the mail shown, unless the mail has no  *)
(* body at all, or the tab has changed since the request for the mail (the *)
(* answer is checked against the tab of the request), or a request of a    *)
(* view that is gone changed it.                                           *)
TabFits ==
  message \in WithHtml \cup WithText /\ ~unchecked => tab \in TabsOf(message)

(* A selected mail is shown in the end, while it stays selected, if no     *)
(* request fails or is overtaken.                                          *)
SelectedIsShown ==
  \A m \in Message : id = m ~> message = m \/ id # m \/ late

-----------------------------------------------------------------------------
(* README.md:43 "When opening a message, the /api/message/[id] endpoint is *)
(* used to retrieve the complete message body and raw email": with the Raw *)
(* tab open and no request under way, a source that is shown there is that *)
(* of the selected mail.                                                   *)
SourceIsOfSelected ==
  tab = "Raw" /\ raws = <<>> /\ raw # NoMessage => raw = id
=============================================================================
