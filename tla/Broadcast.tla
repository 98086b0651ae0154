----------------------------- MODULE Broadcast -----------------------------
(***************************************************************************)
(* The broadcast channel that carries every received mail from the SMTP    *)
(* sessions to the storage task and to the websocket tasks.  It is tokio's *)
(* sync::broadcast, modelled from how the backend uses it: one channel     *)
(* made in run(), send() in the SMTP handler, resubscribe() and recv() in  *)
(* the storage task and in every websocket task.                           *)
(*                                                                         *)
(* The queue is immutable: log holds every mail ever sent, in the order of *)
(* the sends, and a receiver is a cursor, the index in log of the mail it  *)
(* reads next.  Only the last Slots mails can still be read; a receiver    *)
(* whose cursor is older gets RecvError::Lagged and is moved to the oldest *)
(* one.  AppState keeps a receiver it never reads, so send() always finds  *)
(* at least one receiver and does not fail.                                *)
(***************************************************************************)
EXTENDS Integers, Sequences, SequencesExt

CONSTANTS
  Message,        \* the mails, each named by the uuid the handler draws for it
  QueueCapacity,  \* QUEUE_CAPACITY, the capacity asked for
  Slots           \* the capacity allocated: the next power of two

ASSUME CapacityAssumption ==
  /\ QueueCapacity \in Nat \ {0}      \* channel(0) panics at start-up
  /\ Slots \in Nat
  /\ QueueCapacity <= Slots

ASSUME RoundingAssumption ==
  /\ Slots < 2 * QueueCapacity
  /\ Slots \in {2^k : k \in 0 .. QueueCapacity}

VARIABLES
  log,     \* every mail sent so far, oldest first
  txOpen   \* at least one Sender (the server or a session) is alive

channelVars == <<log, txOpen>>

Published == ToSet(log)

ChannelInit == log = <<>> /\ txOpen = TRUE

\* A receiver made by resubscribe() reads only what is sent from now on.
NextSent == Len(log) + 1

\* The index of the oldest mail that is still in the ring.
Oldest == IF Len(log) > Slots THEN Len(log) - Slots + 1 ELSE 1

\* The outcomes of recv() for a receiver that reads next: a mail is ready, the
\* mail was overwritten, or the channel is drained and has no Sender left.
Ready(next)  == Oldest <= next /\ next <= Len(log)
Lagged(next) == next < Oldest
Closed(next) == next > Len(log) /\ ~txOpen

\* The mails a lagging receiver is moved past.
Skipped(next) == {log[i] : i \in next .. Oldest - 1}

\* tx.send of a mail; Uuid::new_v4 has never produced its id before.
Send(m) ==
  /\ txOpen
  /\ m \notin Published
  /\ log' = Append(log, m)
  /\ UNCHANGED txOpen

\* The last Sender is dropped: the server loop and every session have ended.
DropSenders ==
  /\ txOpen
  /\ txOpen' = FALSE
  /\ UNCHANGED log
=============================================================================
