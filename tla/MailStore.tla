----------------------------- MODULE MailStore -----------------------------
(***************************************************************************)
(* What MailCrab promises about one mail in its store, whatever the queue, *)
(* the storage task, the clock and the clients do: a mail enters the store *)
(* at most once and unread, it can be marked as opened and never becomes   *)
(* unread again, and once it has left the store, or was lost before it got *)
(* there, it never comes (back) in.                                        *)
(***************************************************************************)
CONSTANT Message

VARIABLE life

Life == {"new", "unread", "opened", "removed", "lost"}

Kept == {m \in Message : life[m] \in {"unread", "opened"}}

Become(S, l) == life' = [m \in Message |-> IF m \in S THEN l ELSE life[m]]

Init == life = [m \in Message |-> "new"]

Arrive(m) == life[m] = "new" /\ Become({m}, "unread")

Open(m) == life[m] = "unread" /\ Become({m}, "opened")

\* One mail deleted, all mails deleted, or the mails past their retention.
Remove(S) == S \subseteq Kept /\ Become(S, "removed")

\* Mails the storage task never gets to see.
Lose(S) == (\A m \in S : life[m] = "new") /\ Become(S, "lost")

Next ==
  \/ \E m \in Message : Arrive(m) \/ Open(m)
  \/ \E S \in SUBSET Message : Remove(S) \/ Lose(S)

Spec == Init /\ [][Next]_life
=============================================================================
