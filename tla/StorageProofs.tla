--------------------------- MODULE StorageProofs ---------------------------
(***************************************************************************)
(* Proofs about the storage task and the map, for every set of mails, ring *)
(* size, retention period and clock.                                       *)
(***************************************************************************)
EXTENDS Storage, TLAPS

(* A uuid is drawn once: no mail is sent twice. *)
SentOnce == \A i, j \in 1 .. Len(log) : log[i] = log[j] => i = j

(* A mail is in the hands of the task only after it was received. *)
HandWasReceived == storageTask = "inserting" => storageNext > 1

Shape == StorageTypeOK /\ HandWasReceived

-----------------------------------------------------------------------------
LEMMA SlotsPositive == Slots \in Nat /\ Slots >= 1
  BY CapacityAssumption

(* The timer is re-armed with a positive interval. *)
LEMMA IntervalPositive == RetentionInterval \in Nat \ {0}
  <1>1. RetentionPeriod \div 10 \in Nat
    BY RetentionAssumption
  <1>2. QED
    BY <1>1, RetentionAssumption DEF RetentionInterval

(* What a purge does to the map. *)
LEMMA PurgeRemoves ==
  ASSUME TickPurge, opened \subseteq storage
  PROVE  /\ storage' \subseteq storage
         /\ Purged = storage \ storage'
         /\ opened' = opened \cap storage'
         /\ expired' = expired \cup (storage \ storage')
  <1>1. Purged \subseteq storage
    BY DEF Purged
  <1>2. QED
    BY <1>1 DEF TickPurge

LEMMA ImageOfUnion ==
  ASSUME NEW f, NEW A, NEW B
  PROVE  {f[i] : i \in A \cup B} = {f[i] : i \in A} \cup {f[i] : i \in B}
  OBVIOUS

LEMMA PublishedIsLog ==
  ASSUME log \in Seq(Message)
  PROVE  Published = {log[i] : i \in 1 .. Len(log)} /\ Published \subseteq Message
  BY DEF Published, ToSet

(* What a send does to the queue. *)
LEMMA SendAppends ==
  ASSUME NEW m \in Message, log \in Seq(Message), Send(m)
  PROVE  /\ log' \in Seq(Message)
         /\ Len(log') = Len(log) + 1
         /\ \A i \in 1 .. Len(log) : log'[i] = log[i]
         /\ log'[Len(log) + 1] = m
         /\ Published' = Published \cup {m}
         /\ m \notin Published
  <1>1. /\ log' \in Seq(Message)
        /\ Len(log') = Len(log) + 1
        /\ \A i \in 1 .. Len(log) : log'[i] = log[i]
        /\ log'[Len(log) + 1] = m
    BY DEF Send
  <1>2. Published' = {log'[i] : i \in 1 .. Len(log')}
    BY <1>1 DEF Published, ToSet
  <1>3. Published = {log[i] : i \in 1 .. Len(log)}
    BY PublishedIsLog
  <1>4. Len(log) \in Nat
    OBVIOUS
  <1>5. 1 .. Len(log') = 1 .. Len(log) \cup {Len(log) + 1}
    BY <1>1, <1>4
  <1>6. Published' = Published \cup {m}
    BY <1>1, <1>2, <1>3, <1>5
  <1>7. QED
    BY <1>1, <1>6 DEF Send

-----------------------------------------------------------------------------
(* Type correctness. *)

LEMMA ShapeInit == StorageInit => Shape
  <1> SUFFICES ASSUME StorageInit
               PROVE  Shape
    OBVIOUS
  <1>1. log \in Seq(Message) /\ Len(log) = 0 /\ txOpen = TRUE
    BY DEF StorageInit, ChannelInit
  <1>2. time \in [Message -> Nat]
    BY DEF StorageInit
  <1>3. storageNext = 1
    BY <1>1 DEF StorageInit, NextSent
  <1>4. storageNext \in 1 .. Len(log) + 1
    BY <1>1, <1>3
  <1>5. /\ now \in Nat /\ nextTick \in Nat /\ cancelled = FALSE
        /\ storage = {} /\ opened = {} /\ storageTask = "select"
        /\ deleted = {} /\ expired = {} /\ missed = {}
    BY RetentionAssumption DEF StorageInit
  <1>6. QED
    BY <1>1, <1>2, <1>4, <1>5 DEF Shape, StorageTypeOK, HandWasReceived, TaskState

LEMMA ShapeStep == Shape /\ [StorageNextStep]_storageVars => Shape'
  <1> SUFFICES ASSUME Shape, [StorageNextStep]_storageVars
               PROVE  Shape'
    OBVIOUS
  <1> USE DEF Shape, StorageTypeOK, HandWasReceived, TaskState
  <1>1. ASSUME NEW m \in Message, Publish(m)
        PROVE  Shape'
    <2>1. log' \in Seq(Message) /\ Len(log') = Len(log) + 1
      BY <1>1, SendAppends DEF Publish
    <2>2. txOpen' \in BOOLEAN
      BY <1>1 DEF Publish, Send
    <2>3. time' \in [Message -> Nat]
      BY <1>1 DEF Publish
    <2>4. QED
      BY <1>1, <2>1, <2>2, <2>3 DEF Publish, mapVars, taskVars
  <1>2. CASE SendersGone
    BY <1>2 DEF SendersGone, DropSenders, envVars, mapVars, taskVars
  <1>3. CASE AdvanceClock
    BY <1>3 DEF AdvanceClock, channelVars, mapVars, taskVars
  <1>4. CASE Cancel
    BY <1>4 DEF Cancel, channelVars, mapVars, taskVars
  <1>5. CASE StorageRecv
    BY <1>5 DEF StorageRecv, Ready, channelVars, envVars, mapVars
  <1>6. CASE StorageLagged
    <2>1. Oldest \in 1 .. Len(log) + 1 /\ Oldest - 1 <= Len(log)
      BY SlotsPositive DEF Oldest
    <2>2. Skipped(storageNext) \subseteq Message
      BY <2>1 DEF Skipped
    <2>3. QED
      BY <1>6, <2>1, <2>2 DEF StorageLagged, channelVars, envVars, mapVars
  <1>7. CASE StorageInsert
    <2>1. InHand \subseteq Message
      BY <1>7 DEF StorageInsert, InHand
    <2>2. QED
      BY <1>7, <2>1 DEF StorageInsert, channelVars, envVars
  <1>8. CASE TickPurge
    BY <1>8, IntervalPositive, PurgeRemoves DEF TickPurge, RetentionTick, channelVars, envVars
  <1>9. CASE TickBeforeEpoch
    BY <1>9, IntervalPositive DEF TickBeforeEpoch, RetentionTick, channelVars, envVars
  <1>10. CASE TickUnderflow
    BY <1>10, IntervalPositive DEF TickUnderflow, RetentionTick, channelVars, envVars
  <1>11. CASE StorageStop
    BY <1>11 DEF StorageStop, channelVars, envVars, mapVars
  <1>12. ASSUME NEW m \in Message, OpenMessage(m) \/ RemoveMessage(m)
         PROVE  Shape'
    BY <1>12 DEF OpenMessage, RemoveMessage, channelVars, envVars, taskVars
  <1>13. CASE ClearStorage
    BY <1>13 DEF ClearStorage, channelVars, envVars, taskVars
  <1>14. CASE UNCHANGED storageVars
    BY <1>14 DEF storageVars, channelVars, envVars, mapVars, taskVars
  <1>15. QED
    BY <1>1, <1>2, <1>3, <1>4, <1>5, <1>6, <1>7, <1>8, <1>9, <1>10, <1>11,
       <1>12, <1>13, <1>14
    DEF StorageNextStep, Environment, StorageStep, Receive, Tick, WebStep

(* The state of the storage task and of the map is well formed at every    *)
(* step of the service.                                                    *)
THEOREM StorageTypeCorrect == StorageSafety => []StorageTypeOK
  <1>1. Shape => StorageTypeOK
    BY DEF Shape
  <1>2. QED
    BY <1>1, ShapeInit, ShapeStep, PTL DEF StorageSafety
-----------------------------------------------------------------------------
(* The books balance.  The invariant is inductive together with SentOnce:  *)
(* that the mails a lag skips, or the mail in hand, are not queued a       *)
(* second time.                                                            *)

Books == Shape /\ SentOnce /\ Accounting

LEMMA SentOnceStep ==
  ASSUME Shape, SentOnce, [StorageNextStep]_storageVars
  PROVE  SentOnce'
  <1>1. log \in Seq(Message)
    BY DEF Shape, StorageTypeOK
  <1>2. ASSUME NEW m \in Message, Publish(m)
        PROVE  SentOnce'
    <2>1. Send(m)
      BY <1>2 DEF Publish
    <2>2. \A i \in 1 .. Len(log) : log[i] # m
      BY <1>1, <2>1, SendAppends, PublishedIsLog
    <2>3. QED
      BY <1>1, <2>1, <2>2, SendAppends DEF SentOnce
  <1>3. CASE UNCHANGED log
    BY <1>3 DEF SentOnce
  <1>4. QED
    BY <1>2, <1>3
    DEF StorageNextStep, Environment, StorageStep, Receive, Tick, WebStep, SendersGone,
        DropSenders, AdvanceClock, Cancel, StorageRecv, StorageLagged, StorageInsert,
        TickPurge, TickBeforeEpoch, TickUnderflow, RetentionTick,
        StorageStop, OpenMessage, RemoveMessage, ClearStorage, storageVars, channelVars

(* A new mail is queued. *)
LEMMA OutstandingOnPublish ==
  ASSUME Shape, NEW m \in Message, Publish(m)
  PROVE  Outstanding' = Outstanding \cup {m}
  <1>1. log \in Seq(Message) /\ storageNext \in 1 .. Len(log) + 1
    BY DEF Shape, StorageTypeOK
  <1>2. storageTask' = storageTask /\ storageNext' = storageNext /\ Send(m)
    BY DEF Publish, taskVars
  <1>3. /\ Len(log') = Len(log) + 1
        /\ \A i \in 1 .. Len(log) : log'[i] = log[i]
        /\ log'[Len(log) + 1] = m
    BY <1>1, <1>2, SendAppends
  <1>4. Pending' = {log'[i] : i \in storageNext .. Len(log) + 1}
    BY <1>2, <1>3 DEF Pending
  <1>5. storageNext .. Len(log) + 1 = (storageNext .. Len(log)) \cup {Len(log) + 1}
    BY <1>1
  <1>6. \A i \in storageNext .. Len(log) : log'[i] = log[i]
    BY <1>1, <1>3
  <1>7. Pending' = Pending \cup {m}
    <2>1. Pending' = {log'[i] : i \in storageNext .. Len(log)} \cup {log'[Len(log) + 1]}
      BY <1>4, <1>5
    <2>2. {log'[i] : i \in storageNext .. Len(log)} = Pending
      BY <1>6 DEF Pending
    <2>3. QED
      BY <1>3, <2>1, <2>2
  <1>8. InHand' = InHand
    <2>1. CASE storageTask = "inserting"
      <3>1. storageNext - 1 \in 1 .. Len(log)
        BY <1>1, <2>1 DEF Shape, HandWasReceived
      <3>2. log'[storageNext - 1] = log[storageNext - 1]
        BY <1>3, <3>1
      <3>3. QED
        BY <1>2, <3>2 DEF InHand
    <2>2. CASE storageTask # "inserting"
      BY <1>2, <2>2 DEF InHand
    <2>3. QED
      BY <2>1, <2>2
  <1>9. QED
    BY <1>7, <1>8 DEF Outstanding

(* A lag moves the overwritten mails, and no other, from the queue to the  *)
(* missed ones.                                                            *)
LEMMA LagSplitsPending ==
  ASSUME Shape, SentOnce, StorageLagged
  PROVE  /\ Outstanding = Outstanding' \cup Skipped(storageNext)
         /\ Outstanding' \cap Skipped(storageNext) = {}
  <1>1. log \in Seq(Message) /\ storageNext \in 1 .. Len(log) + 1
    BY DEF Shape, StorageTypeOK
  <1>2. Oldest \in 1 .. Len(log) + 1 /\ storageNext < Oldest
    BY <1>1, SlotsPositive DEF StorageLagged, Lagged, Oldest
  <1>3. storageNext .. Len(log) = (storageNext .. Oldest - 1) \cup (Oldest .. Len(log))
    BY <1>1, <1>2
  <1>4. Pending' = {log[i] : i \in Oldest .. Len(log)}
    <2>1. log' = log /\ storageNext' = Oldest
      BY DEF StorageLagged, channelVars
    <2>2. QED
      BY <2>1 DEF Pending
  <1>5. Pending = Pending' \cup Skipped(storageNext)
    <2>1. Pending = {log[i] : i \in (storageNext .. Oldest - 1) \cup (Oldest .. Len(log))}
      BY <1>3 DEF Pending
    <2>2. QED
      BY <1>4, <2>1, ImageOfUnion DEF Skipped
  <1>6. Pending' \cap Skipped(storageNext) = {}
    <2>1. \A i \in Oldest .. Len(log), j \in storageNext .. Oldest - 1 : log[i] # log[j]
      BY <1>1, <1>2 DEF SentOnce
    <2>2. QED
      BY <1>4, <2>1 DEF Skipped
  <1>7. InHand = {} /\ InHand' = {}
    BY DEF StorageLagged, InHand
  <1>8. QED
    BY <1>5, <1>6, <1>7 DEF Outstanding

(* Receiving a mail moves it from the queue into the hands of the task. *)
LEMMA OutstandingOnRecv ==
  ASSUME Shape, StorageRecv
  PROVE  Outstanding' = Outstanding
  <1>1. log \in Seq(Message) /\ storageNext \in 1 .. Len(log)
    BY SlotsPositive DEF Shape, StorageTypeOK, StorageRecv, Ready
  <1>2. log' = log /\ storageNext' = storageNext + 1
    BY DEF StorageRecv, channelVars
  <1>3. InHand = {} /\ InHand' = {log[storageNext]}
    BY <1>1, <1>2 DEF StorageRecv, InHand
  <1>4. storageNext .. Len(log) = {storageNext} \cup (storageNext + 1 .. Len(log))
    BY <1>1
  <1>5. Pending' = {log[i] : i \in storageNext + 1 .. Len(log)}
    BY <1>2 DEF Pending
  <1>6. Pending = {log[storageNext]} \cup Pending'
    BY <1>4, <1>5 DEF Pending
  <1>7. QED
    BY <1>3, <1>6 DEF Outstanding

(* The mail in hand is not in the queue as well. *)
LEMMA HandNotPending ==
  ASSUME Shape, SentOnce
  PROVE  InHand \cap Pending = {}
  <1>1. log \in Seq(Message) /\ storageNext \in 1 .. Len(log) + 1
    BY DEF Shape, StorageTypeOK
  <1>2. CASE storageTask = "inserting"
    <2>1. storageNext - 1 \in 1 .. Len(log)
      BY <1>1, <1>2 DEF Shape, HandWasReceived
    <2>2. \A i \in storageNext .. Len(log) : log[i] # log[storageNext - 1]
      BY <1>1, <2>1 DEF SentOnce
    <2>3. QED
      BY <1>2, <2>2 DEF InHand, Pending
  <1>3. CASE storageTask # "inserting"
    BY <1>3 DEF InHand
  <1>4. QED
    BY <1>2, <1>3

LEMMA BooksInit == StorageInit => Books
  <1> SUFFICES ASSUME StorageInit
               PROVE  Books
    OBVIOUS
  <1>1. log = <<>> /\ Len(log) = 0 /\ storageNext = 1
    BY DEF StorageInit, ChannelInit, NextSent
  <1>2. SentOnce
    BY <1>1 DEF SentOnce
  <1>3. Pending = {} /\ InHand = {} /\ Published = {}
    BY <1>1 DEF Pending, InHand, Published, ToSet, StorageInit
  <1>4. storage = {} /\ deleted = {} /\ expired = {} /\ missed = {}
    BY DEF StorageInit
  <1>5. Accounting
    BY <1>3, <1>4 DEF Accounting, Outstanding
  <1>6. QED
    BY <1>2, <1>5, ShapeInit DEF Books

(* A step that leaves the queue and the cursor alone leaves alone what is  *)
(* outstanding.                                                            *)
LEMMA OutstandingUnchanged ==
  ASSUME log' = log, storageNext' = storageNext, InHand' = InHand
  PROVE  Outstanding' = Outstanding /\ Published' = Published
  BY DEF Outstanding, Pending, Published

LEMMA BooksStep == Books /\ [StorageNextStep]_storageVars => Books'
  <1> SUFFICES ASSUME Books, [StorageNextStep]_storageVars
               PROVE  Accounting'
    BY ShapeStep, SentOnceStep DEF Books
  <1> USE DEF Books
  <1>1. ASSUME NEW m \in Message, Publish(m)
        PROVE  Accounting'
    <2>1. Outstanding' = Outstanding \cup {m}
      BY <1>1, OutstandingOnPublish
    <2>2. Published' = Published \cup {m} /\ m \notin Published
      BY <1>1, SendAppends DEF Publish, Shape, StorageTypeOK
    <2>3. /\ storage' = storage /\ deleted' = deleted
          /\ expired' = expired /\ missed' = missed
      BY <1>1 DEF Publish, mapVars, taskVars
    <2>4. QED
      BY <2>1, <2>2, <2>3 DEF Accounting
  <1>2. ASSUME \/ SendersGone \/ AdvanceClock \/ Cancel \/ UNCHANGED storageVars
        PROVE  Accounting'
    <2>1. UNCHANGED <<log, storageNext, storageTask, storage, deleted, expired, missed>>
      BY <1>2 DEF SendersGone, DropSenders, AdvanceClock, Cancel, storageVars,
                  channelVars, mapVars, taskVars
    <2>2. Outstanding' = Outstanding /\ Published' = Published
      BY <2>1, OutstandingUnchanged DEF InHand
    <2>3. QED
      BY <2>1, <2>2 DEF Accounting
  <1>3. CASE StorageRecv
    <2>1. UNCHANGED <<log, storage, deleted, expired, missed>>
      BY <1>3 DEF StorageRecv, channelVars, mapVars
    <2>2. Outstanding' = Outstanding /\ Published' = Published
      BY <1>3, <2>1, OutstandingOnRecv DEF Published
    <2>3. QED
      BY <2>1, <2>2 DEF Accounting
  <1>4. CASE StorageLagged
    <2>1. /\ UNCHANGED <<log, storage, deleted, expired>>
          /\ missed' = missed \cup Skipped(storageNext)
      BY <1>4 DEF StorageLagged, channelVars, mapVars
    <2>2. Published' = Published
      BY <2>1 DEF Published
    <2>3. QED
      BY <1>4, <2>1, <2>2, LagSplitsPending DEF Accounting
  <1>5. CASE StorageInsert
    <2>1. /\ UNCHANGED <<log, storageNext, deleted, expired, missed>>
          /\ storageTask' = "select"
          /\ storage' = storage \cup InHand
      BY <1>5 DEF StorageInsert, channelVars
    <2>2. Published' = Published /\ Outstanding' = Pending
      BY <2>1 DEF Published, Outstanding, Pending, InHand
    <2>3. Outstanding = Pending \cup InHand /\ InHand \cap Pending = {}
      BY HandNotPending DEF Outstanding
    <2>4. QED
      BY <2>1, <2>2, <2>3 DEF Accounting
  <1>6. ASSUME TickBeforeEpoch \/ TickUnderflow \/ StorageStop
        PROVE  Accounting'
    <2>1. /\ UNCHANGED <<log, storageNext, storage, deleted, expired, missed>>
          /\ storageTask = "select" /\ storageTask' # "inserting"
      BY <1>6 DEF TickBeforeEpoch, TickUnderflow, RetentionTick,
                  StorageStop, channelVars, mapVars
    <2>2. Outstanding' = Outstanding /\ Published' = Published
      BY <2>1, OutstandingUnchanged DEF InHand
    <2>3. QED
      BY <2>1, <2>2 DEF Accounting
  <1>7. CASE TickPurge
    <2>1. /\ UNCHANGED <<log, storageNext, storageTask, deleted, missed>>
          /\ storage' \subseteq storage
          /\ expired' = expired \cup (storage \ storage')
      BY <1>7, PurgeRemoves DEF TickPurge, RetentionTick, channelVars, Books, Shape, StorageTypeOK
    <2>2. Outstanding' = Outstanding /\ Published' = Published
      BY <2>1, OutstandingUnchanged DEF InHand
    <2>3. QED
      BY <2>1, <2>2 DEF Accounting
  <1>8. CASE WebStep
    <2>1. /\ UNCHANGED <<log, storageNext, storageTask, expired, missed>>
          /\ storage' \subseteq storage
          /\ deleted' = deleted \cup (storage \ storage')
      BY <1>8 DEF WebStep, OpenMessage, RemoveMessage, ClearStorage, channelVars, taskVars
    <2>2. Outstanding' = Outstanding /\ Published' = Published
      BY <2>1, OutstandingUnchanged DEF InHand
    <2>3. QED
      BY <2>1, <2>2 DEF Accounting
  <1>9. QED
    BY <1>1, <1>2, <1>3, <1>4, <1>5, <1>6, <1>7, <1>8
    DEF StorageNextStep, Environment, StorageStep, Receive, Tick

(* Every mail ever sent is in exactly one place, at every step: no order   *)
(* of the handlers and of the storage task inserts a mail twice, brings    *)
(* one back, or loses one without a lag.                                   *)
THEOREM BooksBalance == StorageSafety => []Accounting
  <1>1. Books => Accounting
    BY DEF Books
  <1>2. QED
    BY <1>1, BooksInit, BooksStep, PTL DEF StorageSafety

-----------------------------------------------------------------------------
(* Mails are lost only to an overrun. *)

LEMMA LossStep ==
  ASSUME Books, LossNeedsOverrun, [StorageNextStep]_storageVars
  PROVE  LossNeedsOverrun'
  <1>1. log \in Seq(Message) /\ Len(log) \in Nat
    BY DEF Books, Shape, StorageTypeOK
  <1>2. ASSUME NEW m \in Message, Publish(m)
        PROVE  LossNeedsOverrun'
    <2>1. /\ Len(log') = Len(log) + 1
          /\ \A i \in 1 .. Len(log) : log'[i] = log[i]
          /\ log'[Len(log) + 1] = m
          /\ m \notin Published
      BY <1>1, <1>2, SendAppends DEF Publish
    <2>2. missed' = missed
      BY <1>2 DEF Publish, taskVars
    <2>3. m \notin missed
      BY <2>1 DEF Books, Accounting
    <2>4. QED
      BY <1>1, <2>1, <2>2, <2>3, SlotsPositive DEF LossNeedsOverrun
  <1>3. CASE StorageLagged
    <2>1. log' = log /\ missed' = missed \cup Skipped(storageNext)
      BY <1>3 DEF StorageLagged, channelVars
    <2>2. storageNext \in 1 .. Len(log) + 1 /\ storageNext < Oldest
      BY <1>3 DEF StorageLagged, Lagged, Books, Shape, StorageTypeOK
    <2>3. Oldest = Len(log) - Slots + 1
      BY <1>1, <2>2, SlotsPositive DEF Oldest
    <2>4. ASSUME NEW i \in 1 .. Len(log), log[i] \in Skipped(storageNext)
          PROVE  i + Slots <= Len(log)
      <3>1. PICK j \in storageNext .. Oldest - 1 : log[i] = log[j]
        BY <2>4 DEF Skipped
      <3>2. j \in 1 .. Len(log) /\ j + Slots <= Len(log)
        BY <1>1, <2>2, <2>3, <3>1, SlotsPositive
      <3>3. i = j
        BY <3>1, <3>2 DEF Books, SentOnce
      <3>4. QED
        BY <3>2, <3>3
    <2>5. QED
      BY <2>1, <2>4 DEF LossNeedsOverrun
  <1>4. CASE UNCHANGED <<log, missed>>
    BY <1>4 DEF LossNeedsOverrun
  <1>5. QED
    BY <1>2, <1>3, <1>4
    DEF StorageNextStep, Environment, StorageStep, Receive, Tick, WebStep, SendersGone,
        DropSenders, AdvanceClock, Cancel, StorageRecv, StorageInsert,
        TickPurge, TickBeforeEpoch, TickUnderflow, RetentionTick,
        StorageStop, OpenMessage, RemoveMessage, ClearStorage, storageVars, channelVars,
        taskVars

(* The storage task misses a mail only after at least Slots later ones     *)
(* were sent, so none of the first Slots mails is ever lost.               *)
THEOREM LossOnlyByOverrun == StorageSafety => []LossNeedsOverrun
  <1>1. StorageInit => LossNeedsOverrun
    BY DEF StorageInit, ChannelInit, LossNeedsOverrun
  <1>2. QED
    BY <1>1, LossStep, BooksInit, BooksStep, PTL DEF StorageSafety

-----------------------------------------------------------------------------
(* Only old mails expire. *)

LEMMA ExpiryStep ==
  ASSUME Books, ExpiredWasOld, [StorageNextStep]_storageVars
  PROVE  ExpiredWasOld'
  <1> USE RetentionAssumption
  <1>1. /\ log \in Seq(Message)
        /\ time \in [Message -> Nat] /\ now \in Nat
        /\ storage \subseteq Message /\ expired \subseteq Message
    BY DEF Books, Shape, StorageTypeOK
  <1>2. ASSUME NEW m \in Message, Publish(m)
        PROVE  ExpiredWasOld'
    <2>1. m \notin Published
      BY <1>2 DEF Publish, Send
    <2>2. m \notin expired
      BY <2>1 DEF Books, Accounting
    <2>3. /\ time' = [time EXCEPT ![m] = now]
          /\ UNCHANGED <<now, expired>>
      BY <1>2 DEF Publish, taskVars
    <2>4. \A x \in expired : time'[x] = time[x]
      BY <1>1, <2>2, <2>3
    <2>5. QED
      BY <2>3, <2>4 DEF ExpiredWasOld
  <1>3. CASE AdvanceClock
    <2>1. now' = now + 1 /\ UNCHANGED <<time, expired>>
      BY <1>3 DEF AdvanceClock, taskVars
    <2>2. \A x \in expired : time[x] \in Nat
      BY <1>1
    <2>3. QED
      BY <1>1, <2>1, <2>2 DEF ExpiredWasOld
  <1>4. CASE TickPurge
    <2>1. UNCHANGED <<now, time>> /\ expired' = expired \cup Purged
      BY <1>4 DEF TickPurge, RetentionTick, envVars
    <2>2. \A x \in Purged : RetentionPeriod > 0 /\ time[x] + RetentionPeriod <= now
      BY <1>1 DEF Purged, Keeps, RemoveBefore
    <2>3. QED
      BY <2>1, <2>2 DEF ExpiredWasOld
  <1>5. CASE UNCHANGED <<now, time, expired>>
    BY <1>5 DEF ExpiredWasOld
  <1>6. QED
    BY <1>2, <1>3, <1>4, <1>5
    DEF StorageNextStep, Environment, StorageStep, Receive, Tick, WebStep, SendersGone,
        Cancel, StorageRecv, StorageLagged, StorageInsert,
        TickBeforeEpoch, TickUnderflow, RetentionTick,
        StorageStop, OpenMessage, RemoveMessage, ClearStorage, storageVars,
        taskVars, envVars

(* The purge removes only mails past the retention period, and none when   *)
(* the period is 0 and messages are kept forever.                          *)
THEOREM OnlyOldExpires == StorageSafety => []ExpiredWasOld
  <1>1. StorageInit => ExpiredWasOld
    BY DEF StorageInit, ExpiredWasOld
  <1>2. QED
    BY <1>1, ExpiryStep, BooksInit, BooksStep, PTL DEF StorageSafety

-----------------------------------------------------------------------------
(* What ends the storage task. *)

ClockAdvances == now >= StartNow

LEMMA TaskLivesStep ==
  ASSUME Shape, TaskLives, ClockAdvances, [StorageNextStep]_storageVars
  PROVE  TaskLives' /\ ClockAdvances'
  <1> USE RetentionAssumption DEF ClockAdvances
  <1>1. now \in Nat /\ StartNow \in Nat
    BY DEF Shape, StorageTypeOK
  <1>2. CASE TickBeforeEpoch \/ TickUnderflow
    <2>1. RemoveBefore < 0
      BY <1>1, <1>2 DEF TickBeforeEpoch, TickUnderflow, RemoveBefore
    <2>2. RetentionPeriod > StartNow
      BY <1>1, <2>1 DEF RemoveBefore
    <2>3. storageTask' \in {"failed", "panicked"} /\ UNCHANGED now
      BY <1>2 DEF TickBeforeEpoch, TickUnderflow, RetentionTick, envVars
    <2>4. QED
      BY <2>2, <2>3 DEF TaskLives
  <1>3. CASE StorageStop
    BY <1>3 DEF StorageStop, TaskLives, envVars
  <1>4. CASE Cancel
    BY <1>4 DEF Cancel, TaskLives, taskVars
  <1>5. CASE AdvanceClock
    BY <1>1, <1>5 DEF AdvanceClock, TaskLives, taskVars
  <1>6. CASE UNCHANGED <<now, cancelled>> /\ storageTask' \in {storageTask, "select", "inserting"}
    BY <1>6 DEF TaskLives
  <1>7. QED
    BY <1>2, <1>3, <1>4, <1>5, <1>6
    DEF StorageNextStep, Environment, StorageStep, Receive, Tick, WebStep, Publish,
        SendersGone, StorageRecv, StorageLagged, StorageInsert, TickPurge, RetentionTick,
        OpenMessage, RemoveMessage, ClearStorage, storageVars, envVars, taskVars

(* The storage task goes on until it is cancelled, if the clock starts     *)
(* at least one retention period behind the epoch: no lag, no mail and no  *)
(* purge ends it or poisons the lock.                                      *)
THEOREM OnlyCancelEndsTheTask == StorageSafety => []TaskLives
  <1>1. StorageInit => TaskLives /\ ClockAdvances
    BY RetentionAssumption DEF StorageInit, TaskLives, ClockAdvances
  <1>2. QED
    BY <1>1, TaskLivesStep, ShapeInit, ShapeStep, PTL DEF StorageSafety

-----------------------------------------------------------------------------
(* The map implements the life cycle of MailStore. *)

LifeFn == [m \in Message |-> LifeOf(m)]

(* A step that changes the life of the mails of S, and of no other mail.   *)
LEMMA LifeBecomes ==
  ASSUME NEW S \in SUBSET Message, NEW l,
         \A m \in S : LifeOf(m)' = l,
         \A m \in Message \ S : LifeOf(m)' = LifeOf(m)
  PROVE  Mails!Become(S, l)
  BY DEF Mails!Become

LEMMA LifeUnchanged ==
  ASSUME \A m \in Message : LifeOf(m)' = LifeOf(m)
  PROVE  LifeFn' = LifeFn
  BY DEF LifeFn

LEMMA InitRefines == StorageInit => Mails!Init
  BY DEF StorageInit, Mails!Init, LifeOf

LEMMA StepRefines ==
  ASSUME Books, [StorageNextStep]_storageVars
  PROVE  [Mails!Next]_LifeFn
  <1>1. /\ log \in Seq(Message) /\ storage \subseteq Message /\ opened \subseteq storage
        /\ storageNext \in 1 .. Len(log) + 1
    BY DEF Books, Shape, StorageTypeOK
  <1>2. CASE StorageInsert
    <2>1. PICK m \in Message : InHand = {m}
      BY <1>1, <1>2 DEF StorageInsert, InHand, Books, Shape, HandWasReceived
    <2>2. /\ m \notin storage \cup deleted \cup expired \cup missed
          /\ m \notin opened
      BY <1>1, <2>1 DEF Books, Accounting, Outstanding
    <2>3. /\ storage' = storage \cup {m} /\ opened' = opened
          /\ UNCHANGED <<deleted, expired, missed>>
      BY <1>2, <2>1, <2>2 DEF StorageInsert
    <2>4. LifeOf(m) = "new" /\ LifeOf(m)' = "unread"
      BY <2>2, <2>3 DEF LifeOf
    <2>5. \A x \in Message \ {m} : LifeOf(x)' = LifeOf(x)
      BY <2>3 DEF LifeOf
    <2>6. Mails!Arrive(m)
      BY <2>4, <2>5, LifeBecomes DEF Mails!Arrive
    <2>7. QED
      BY <2>6 DEF Mails!Next
  <1>3. ASSUME NEW m \in Message, OpenMessage(m)
        PROVE  [Mails!Next]_LifeFn
    <2>1. /\ opened' = opened \cup (storage \cap {m})
          /\ UNCHANGED <<storage, deleted, expired, missed>>
      BY <1>3 DEF OpenMessage, taskVars
    <2>2. CASE m \in storage \ opened
      <3>1. LifeOf(m) = "unread" /\ LifeOf(m)' = "opened"
        BY <2>1, <2>2 DEF LifeOf
      <3>2. \A x \in Message \ {m} : LifeOf(x)' = LifeOf(x)
        BY <2>1 DEF LifeOf
      <3>3. Mails!Open(m)
        BY <3>1, <3>2, LifeBecomes DEF Mails!Open
      <3>4. QED
        BY <3>3 DEF Mails!Next
    <2>3. CASE m \notin storage \ opened
      <3>1. opened' = opened
        BY <2>1, <2>3
      <3>2. QED
        BY <2>1, <3>1, LifeUnchanged DEF LifeOf
    <2>4. QED
      BY <2>2, <2>3
  <1>4. CASE StorageLagged
    <2>1. /\ missed' = missed \cup Skipped(storageNext)
          /\ UNCHANGED <<storage, opened, deleted, expired>>
      BY <1>4 DEF StorageLagged, mapVars
    <2>2. /\ Skipped(storageNext) \subseteq Message
          /\ Skipped(storageNext) \cap (storage \cup deleted \cup expired \cup missed) = {}
      <3>1. Skipped(storageNext) \subseteq Outstanding
        BY <1>4, LagSplitsPending DEF Books
      <3>2. Outstanding \subseteq Published
        BY DEF Books, Accounting
      <3>3. Published \subseteq Message
        BY <1>1, PublishedIsLog
      <3>4. QED
        BY <3>1, <3>2, <3>3 DEF Books, Accounting
    <2>3. \A x \in Skipped(storageNext) : LifeOf(x) = "new" /\ LifeOf(x)' = "lost"
      BY <1>1, <2>1, <2>2 DEF LifeOf
    <2>4. \A x \in Message \ Skipped(storageNext) : LifeOf(x)' = LifeOf(x)
      BY <2>1 DEF LifeOf
    <2>5. Mails!Lose(Skipped(storageNext))
      BY <2>2, <2>3, <2>4, LifeBecomes DEF Mails!Lose
    <2>6. QED
      BY <2>2, <2>5 DEF Mails!Next
  <1>5. ASSUME \/ TickPurge
               \/ \E m \in Message : RemoveMessage(m)
               \/ ClearStorage
        PROVE  [Mails!Next]_LifeFn
    <2> DEFINE Gone == storage \ storage'
    <2>1. /\ storage' \subseteq storage /\ opened' = opened \cap storage'
          /\ deleted' \cup expired' = deleted \cup expired \cup Gone
          /\ UNCHANGED missed
      BY <1>1, <1>5, PurgeRemoves DEF TickPurge, RetentionTick, RemoveMessage, ClearStorage, taskVars
    <2>2. \A x \in Gone : LifeOf(x) \in {"unread", "opened"} /\ LifeOf(x)' = "removed"
      BY <1>1, <2>1 DEF LifeOf
    <2>3. \A x \in Message \ Gone : LifeOf(x)' = LifeOf(x)
      BY <1>1, <2>1 DEF LifeOf
    <2>4. Gone \in SUBSET Message /\ Gone \subseteq Mails!Kept
      BY <1>1, <2>2 DEF Mails!Kept
    <2>5. Mails!Become(Gone, "removed")
      <3> HIDE DEF Gone
      <3> QED
        BY <2>2, <2>3, <2>4, LifeBecomes
    <2>6. Mails!Remove(Gone)
      BY <2>4, <2>5 DEF Mails!Remove
    <2>7. QED
      BY <2>4, <2>6 DEF Mails!Next
  <1>6. CASE UNCHANGED <<storage, opened, deleted, expired, missed>>
    BY <1>6, LifeUnchanged DEF LifeOf
  <1>7. QED
    BY <1>2, <1>3, <1>4, <1>5, <1>6
    DEF StorageNextStep, Environment, StorageStep, Receive, Tick, WebStep, Publish,
        SendersGone, DropSenders, AdvanceClock, Cancel, StorageRecv,
        TickBeforeEpoch, TickUnderflow, RetentionTick,
        StorageStop, storageVars, mapVars, taskVars

(* Seen from its clients, the map is a MailStore: a mail arrives at most   *)
(* once and unread, is never unread again once opened, and never returns.  *)
THEOREM StorageImplementsMailStore == StorageSafety => ImplementsMailStore
  <1>1. Books /\ [StorageNextStep]_storageVars => [Mails!Next]_LifeFn
    BY StepRefines
  <1>2. QED
    BY <1>1, InitRefines, BooksInit, BooksStep, PTL
    DEF StorageSafety, ImplementsMailStore, Mails!Spec, LifeFn
=============================================================================
