------------------------------ MODULE Storage ------------------------------
(***************************************************************************)
(* The storage task (backend/src/storage.rs) and the map it shares with    *)
(* the web server (AppState.storage).  The task loops over a select! of    *)
(* three branches: take a mail from the queue and insert it, purge the     *)
(* mails past the retention period on a timer, stop when cancelled.        *)
(*                                                                         *)
(* Receiving a mail and inserting it are two actions: the write lock is    *)
(* taken after recv() has returned, and the web handlers run on other      *)
(* threads in between.  Every critical section of the RwLock is one action *)
(* (no handler awaits while it holds the guard).                           *)
(***************************************************************************)
EXTENDS Broadcast

CONSTANTS
  RetentionPeriod,       \* MAILCRAB_RETENTION_PERIOD in seconds, 0 = keep forever
  MinRetentionInterval,  \* 60 in the code
  StartNow,              \* the system clock, in seconds since the epoch, at start-up
  MaxNow,                \* bound: the clock stops here
  BelowEpoch             \* how far before the epoch a SystemTime can still be

ASSUME RetentionAssumption ==
  /\ RetentionPeriod \in Nat
  /\ MinRetentionInterval \in Nat \ {0}
  /\ StartNow \in Nat /\ MaxNow \in Nat
  /\ BelowEpoch \in Nat

VARIABLES
  now,          \* the system clock
  time,         \* MailMessage.time of every mail sent
  storage,      \* the keys of AppState.storage
  opened,       \* those whose MailMessage.opened is set
  storageTask,  \* where the storage task is
  storageNext,  \* the cursor of storage_rx
  nextTick,     \* when retention_interval is due
  cancelled,    \* the CancellationToken
  deleted,      \* history: mails a client removed from the map
  expired,      \* history: mails the retention purge removed from the map
  missed        \* history: mails storage_rx was moved past by Lagged

mapVars  == <<storage, opened, deleted>>
taskVars == <<storageTask, storageNext, nextTick, expired, missed>>
envVars  == <<now, time, cancelled>>
storageVars == <<channelVars, envVars, mapVars, taskVars>>

\* "failed": the task returned Err; "panicked": it panicked with the write guard
\* held, which poisons the lock.
TaskState == {"select", "inserting", "stopped", "failed", "panicked"}
Poisoned  == storageTask = "panicked"

\* The mail between recv() and insert().
InHand == IF storageTask = "inserting" THEN {log[storageNext - 1]} ELSE {}

\* The mails the storage task has not received yet.
Pending == {log[i] : i \in storageNext .. Len(log)}

RetentionInterval ==
  IF RetentionPeriod \div 10 < MinRetentionInterval
  THEN MinRetentionInterval
  ELSE RetentionPeriod \div 10

RemoveBefore == now - RetentionPeriod

StorageInit ==
  /\ ChannelInit
  /\ now = StartNow
  /\ time = [m \in Message |-> 0]
  /\ storage = {} /\ opened = {}
  /\ storageTask = "select"
  /\ storageNext = NextSent
  /\ nextTick = StartNow            \* the first tick completes at once
  /\ cancelled = FALSE
  /\ deleted = {} /\ expired = {} /\ missed = {}

-----------------------------------------------------------------------------
(* The environment: the SMTP side, the clock, the signal handler.          *)

(* A session parses a mail and sends it.  The Date header goes through     *)
(* to_rfc3339 and is then parsed as RFC 2822, which no RFC 3339 text is,   *)
(* so that MailMessage.time is always the time of arrival.                 *)
Publish(m) ==
  /\ Send(m)
  /\ time' = [time EXCEPT ![m] = now]
  /\ UNCHANGED <<now, cancelled, mapVars, taskVars>>

SendersGone == DropSenders /\ UNCHANGED <<envVars, mapVars, taskVars>>

AdvanceClock ==
  /\ now < MaxNow
  /\ now' = now + 1
  /\ UNCHANGED <<channelVars, time, cancelled, mapVars, taskVars>>

Cancel ==
  /\ ~cancelled
  /\ cancelled' = TRUE
  /\ UNCHANGED <<channelVars, now, time, mapVars, taskVars>>

-----------------------------------------------------------------------------
(* What a handler of the web server does to the map under the write lock.  *)
(* Each is a no-op on a key that is not there, and none runs when the lock *)
(* is poisoned.                                                            *)

\* Faulty variant: the flag is kept beside the map and set without a lookup.
OpenWithoutLookup(m) ==
  /\ ~Poisoned
  /\ opened' = opened \cup {m}
  /\ UNCHANGED <<channelVars, envVars, taskVars, storage, deleted>>

OpenMessage(m) ==
  /\ ~Poisoned
  /\ opened' = opened \cup (storage \cap {m})
  /\ UNCHANGED <<channelVars, envVars, taskVars, storage, deleted>>

\* Faulty variant: remove resets the entry to its default and keeps it.
RemoveByReset(m) ==
  /\ ~Poisoned
  /\ opened' = opened \ {m}
  /\ UNCHANGED <<channelVars, envVars, taskVars, storage, deleted>>

RemoveMessage(m) ==
  /\ ~Poisoned
  /\ storage' = storage \ {m}
  /\ opened' = opened \ {m}
  /\ deleted' = deleted \cup (storage \cap {m})
  /\ UNCHANGED <<channelVars, envVars, taskVars>>

ClearStorage ==
  /\ ~Poisoned
  /\ storage' = {} /\ opened' = {}
  /\ deleted' = deleted \cup storage
  /\ UNCHANGED <<channelVars, envVars, taskVars>>

-----------------------------------------------------------------------------
(* The branches of the select! in storage().                               *)

StorageRecv ==
  /\ storageTask = "select"
  /\ Ready(storageNext)
  /\ storageTask' = "inserting"
  /\ storageNext' = storageNext + 1
  /\ UNCHANGED <<channelVars, envVars, mapVars, nextTick, expired, missed>>

\* Faulty variant: resubscribe after a lag, which skips what is still queued.
LaggedResubscribes ==
  /\ storageTask = "select"
  /\ Lagged(storageNext)
  /\ missed' = missed \cup {log[i] : i \in storageNext .. Len(log)}
  /\ storageNext' = NextSent
  /\ UNCHANGED <<channelVars, envVars, mapVars, storageTask, nextTick, expired>>

\* Faulty variant: leave the loop on the first receive error.
LaggedEndsTask ==
  /\ storageTask = "select"
  /\ Lagged(storageNext)
  /\ missed' = missed \cup Skipped(storageNext)
  /\ storageNext' = Oldest
  /\ storageTask' = "stopped"
  /\ UNCHANGED <<channelVars, envVars, mapVars, nextTick, expired>>

\* `if let Ok(message) = incoming` drops the error and the loop goes on.
StorageLagged ==
  /\ storageTask = "select"
  /\ Lagged(storageNext)
  /\ missed' = missed \cup Skipped(storageNext)
  /\ storageNext' = Oldest
  /\ UNCHANGED <<channelVars, envVars, mapVars, storageTask, nextTick, expired>>

\* Faulty variant: try_write, which gives the mail up when a handler has the lock.
InsertIfUnlocked ==
  /\ storageTask = "inserting"
  /\ storageTask' = "select"
  /\ storage' \in {storage, storage \cup InHand}
  /\ opened' = opened \ InHand
  /\ UNCHANGED <<channelVars, envVars, storageNext, nextTick, deleted, expired, missed>>

StorageInsert ==
  /\ storageTask = "inserting"
  /\ storageTask' = "select"
  /\ storage' = storage \cup InHand
  /\ opened' = opened \ InHand
  /\ UNCHANGED <<channelVars, envVars, storageNext, nextTick, deleted, expired, missed>>

RetentionTick ==
  /\ storageTask = "select"
  /\ now >= nextTick
  /\ nextTick' = nextTick + RetentionInterval
  /\ UNCHANGED <<channelVars, envVars, deleted, storageNext, missed>>

\* Faulty variant: the comparison of retain the wrong way round.
KeepsOlder(m) == time[m] < RemoveBefore

\* Faulty variant: retain keeps every mail.
KeepsAll(m) == TRUE

Keeps(m) == time[m] > RemoveBefore

\* What retain removes; with a period of 0 messages are kept forever.
Purged == IF RetentionPeriod > 0 THEN {m \in storage : ~Keeps(m)} ELSE {}

\* With a period of 0 the subtraction is not reached and could not fail.
TickPurge ==
  /\ RetentionTick
  /\ RemoveBefore >= 0
  /\ storage' = storage \ Purged
  /\ opened' = opened \ Purged
  /\ expired' = expired \cup Purged
  /\ UNCHANGED storageTask

\* duration_since(UNIX_EPOCH)? on a time before the epoch: the task returns Err.
TickBeforeEpoch ==
  /\ RetentionTick
  /\ RetentionPeriod > 0
  /\ RemoveBefore < 0 /\ RemoveBefore >= -BelowEpoch
  /\ storageTask' = "failed"
  /\ UNCHANGED <<storage, opened, expired>>

\* SystemTime::sub panics when the result cannot be represented.
TickUnderflow ==
  /\ RetentionTick
  /\ RetentionPeriod > 0
  /\ RemoveBefore < -BelowEpoch
  /\ storageTask' = "panicked"
  /\ UNCHANGED <<storage, opened, expired>>

\* Faulty variant: the cancelled branch logs and forgets to clear `running`.
CancelIgnored ==
  /\ storageTask = "select"
  /\ cancelled
  /\ UNCHANGED storageVars

StorageStop ==
  /\ storageTask = "select"
  /\ cancelled
  /\ storageTask' = "stopped"
  /\ UNCHANGED <<channelVars, envVars, mapVars, storageNext, nextTick, expired, missed>>

-----------------------------------------------------------------------------
Environment ==
  \/ \E m \in Message : Publish(m)
  \/ SendersGone
  \/ AdvanceClock
  \/ Cancel

Receive == StorageRecv \/ StorageLagged
Tick    == TickPurge \/ TickBeforeEpoch \/ TickUnderflow

StorageStep == Receive \/ StorageInsert \/ Tick \/ StorageStop

WebStep ==
  \/ \E m \in Message : OpenMessage(m) \/ RemoveMessage(m)
  \/ ClearStorage

StorageNextStep == Environment \/ StorageStep \/ WebStep

StorageSafety == StorageInit /\ [][StorageNextStep]_storageVars

(* The runtime polls a ready task again and again, and select! picks at    *)
(* random among the branches that are ready: a branch that is ready at     *)
(* infinitely many rounds is taken.  Time passes.  Neither the clients nor *)
(* the signal are fair.                                                    *)
StorageFairness ==
  /\ WF_storageVars(Receive)
  /\ WF_storageVars(StorageInsert)
  /\ SF_storageVars(Tick)
  /\ SF_storageVars(StorageStop)
  /\ WF_storageVars(AdvanceClock)

StorageSpec == StorageSafety /\ StorageFairness

-----------------------------------------------------------------------------
(* The state is well formed; in particular a mail marked as opened has an  *)
(* entry in the map, and the cursor never runs past the end of the queue.  *)
StorageTypeOK ==
  /\ log \in Seq(Message)
  /\ txOpen \in BOOLEAN /\ cancelled \in BOOLEAN
  /\ now \in Nat /\ nextTick \in Nat
  /\ time \in [Message -> Nat]
  /\ storage \subseteq Message
  /\ opened \subseteq storage
  /\ deleted \subseteq Message /\ expired \subseteq Message /\ missed \subseteq Message
  /\ storageTask \in TaskState
  /\ storageNext \in 1 .. Len(log) + 1

(* The books balance: every mail ever sent is in exactly one place, still  *)
(* on its way to the map (queued or in the hands of the storage task), in  *)
(* the map, deleted by a client, expired, or missed by a lagging storage   *)
(* task.  So no mail is inserted twice, and none comes back after it was   *)
(* deleted or purged, in whatever order the handlers and the task run.     *)
Outstanding == Pending \cup InHand

Accounting ==
  /\ Published = Outstanding \cup storage \cup deleted \cup expired \cup missed
  /\ Outstanding \cap (storage \cup deleted \cup expired \cup missed) = {}
  /\ storage \cap (deleted \cup expired \cup missed) = {}
  /\ deleted \cap (expired \cup missed) = {}
  /\ expired \cap missed = {}

(* The storage task misses a mail only when at least Slots later mails     *)
(* were sent before it got to it; in particular it misses none of the      *)
(* first QUEUE_CAPACITY mails "sent at the same time".                     *)
LossNeedsOverrun ==
  \A i \in 1 .. Len(log) : log[i] \in missed => i + Slots <= Len(log)

(* The purge removes only mails that have reached the retention period,    *)
(* and none at all when the period is 0.                                   *)
ExpiredWasOld ==
  /\ \A m \in expired : time[m] + RetentionPeriod <= now
  /\ RetentionPeriod = 0 => expired = {}

(* The storage task ends only when it is told to: no lag, no mail and no   *)
(* purge ends it, unless the retention period reaches further back than    *)
(* the epoch.                                                              *)
TaskLives ==
  /\ storageTask = "stopped" => cancelled
  /\ storageTask \in {"failed", "panicked"} => RetentionPeriod > StartNow

(* The map implements the life cycle of MailStore for every mail.          *)
LifeOf(m) ==
  IF m \in opened THEN "opened"
  ELSE IF m \in storage THEN "unread"
  ELSE IF m \in deleted \cup expired THEN "removed"
  ELSE IF m \in missed THEN "lost" ELSE "new"

Mails == INSTANCE MailStore WITH life <- [m \in Message |-> LifeOf(m)]

ImplementsMailStore == Mails!Spec

-----------------------------------------------------------------------------
(* While the service runs, every mail that was sent gets into the map or   *)
(* is written off as missed: the task does not give up on a lag and is not *)
(* starved by its own timer.                                               *)
EveryMailSettles ==
  \A m \in Message :
    m \in Published ~> m \in storage \cup deleted \cup expired \cup missed \/ cancelled

(* A mail past its retention period leaves the map at the latest one purge *)
(* interval later; the clock bound leaves room for that interval.          *)
OldMailExpires ==
  \A m \in Message :
    /\ m \in storage /\ RetentionPeriod > 0
    /\ now + RetentionInterval <= MaxNow
    /\ time[m] + RetentionPeriod + RetentionInterval <= MaxNow
    ~> m \notin storage \/ cancelled

(* The storage task ends after the shutdown signal, even when the queue is *)
(* closed and recv() is ready at every round.                              *)
StopsWhenCancelled ==
  cancelled ~> storageTask \in {"stopped", "failed", "panicked"}

(* README.md:34 "All email is stored in memory while the application is    *)
(* running."                                                               *)
AllEmailStored ==
  \A m \in Message :
    m \in Published ~> m \in storage \cup deleted \cup expired \/ cancelled
=============================================================================
