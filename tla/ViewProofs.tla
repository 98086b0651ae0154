----------------------------- MODULE ViewProofs -----------------------------
(***************************************************************************)
(* Proofs about the view of the selected mail, for every set of mails,     *)
(* bodies and any number of requests under way.                            *)
(***************************************************************************)
EXTENDS View, TLAPS

ViewInv == ViewTypeOK /\ StaleOnlyIfLate /\ TabFits

(* What is left of a sequence of requests when one of them is answered.    *)
LEMMA RemoveAtFacts ==
  ASSUME NEW S, NEW s \in Seq(S), NEW i \in DOMAIN s
  PROVE  /\ RemoveAt(s, i) \in Seq(S)
         /\ Len(RemoveAt(s, i)) = Len(s) - 1
         /\ \A j \in DOMAIN s : j # i => \E k \in DOMAIN RemoveAt(s, i) : RemoveAt(s, i)[k] = s[j]
         /\ \A k \in DOMAIN RemoveAt(s, i) : \E j \in DOMAIN s : RemoveAt(s, i)[k] = s[j]
  <1>1. i \in 1 .. Len(s) /\ Len(s) \in Nat /\ DOMAIN s = 1 .. Len(s)
    OBVIOUS
  <1>2. PICK before : before = SubSeq(s, 1, i - 1)
    OBVIOUS
  <1>3. PICK after : after = SubSeq(s, i + 1, Len(s))
    OBVIOUS
  <1>4. /\ before \in Seq(S) /\ Len(before) = i - 1
        /\ \A j \in 1 .. i - 1 : before[j] = s[j]
    <2>1. i - 1 \in 0 .. Len(s) /\ \A j \in 1 .. i - 1 : j \in 1 .. Len(s)
      BY <1>1
    <2>2. /\ \A j \in 1 .. i - 1 : s[j] \in S
          /\ before = [j \in 1 .. i - 1 |-> s[j]]
      BY <1>1, <1>2, <2>1
    <2>3. QED
      BY <2>1, <2>2
  <1>5. /\ after \in Seq(S) /\ Len(after) = Len(s) - i
        /\ \A j \in 1 .. Len(s) - i : after[j] = s[i + j]
    <2>1. /\ Len(s) - i \in Nat /\ \A j \in 1 .. Len(s) - i : i + j \in 1 .. Len(s)
          /\ Len(s) - (i + 1) + 1 = Len(s) - i
      BY <1>1
    <2>2. Len(after) = Len(s) - i
      BY <1>1, <1>3, <2>1
    <2>3. \A j \in 1 .. Len(s) - i : after[j] = s[i + j]
      BY <1>1, <1>3, <2>1
    <2>4. after \in Seq(S)
      BY <1>1, <1>3
    <2>5. QED
      BY <2>2, <2>3, <2>4
  <1>6. PICK rest : rest = before \o after
    OBVIOUS
  <1>7. /\ rest \in Seq(S) /\ Len(rest) = Len(s) - 1 /\ DOMAIN rest = 1 .. Len(s) - 1
        /\ \A j \in 1 .. i - 1 : rest[j] = before[j]
        /\ \A j \in i .. Len(s) - 1 : rest[j] = after[j - i + 1]
    <2>1. /\ Len(before) + Len(after) = Len(s) - 1
          /\ Len(before) \in Nat /\ Len(after) \in Nat
      BY <1>1, <1>4, <1>5
    <2>2. /\ rest \in Seq(S) /\ Len(rest) = Len(before) + Len(after)
          /\ DOMAIN rest = 1 .. Len(rest)
      <3>1. before \in Seq(S) /\ after \in Seq(S)
        BY <1>4, <1>5
      <3>2. rest \in Seq(S)
        BY <1>6, <3>1
      <3>3. Len(rest) = Len(before) + Len(after)
        BY <1>6, <3>1
      <3>4. QED
        BY <3>2, <3>3
    <2>3. \A j \in 1 .. Len(before) : rest[j] = before[j]
      BY <1>4, <1>5, <1>6, <2>1
    <2>4. \A j \in Len(before) + 1 .. Len(before) + Len(after) :
            rest[j] = after[j - Len(before)]
      BY <1>4, <1>5, <1>6, <2>1
    <2>5. \A j \in i .. Len(s) - 1 : j - Len(before) = j - i + 1
      BY <1>1, <1>4
    <2>6. \A j \in i .. Len(s) - 1 : rest[j] = after[j - i + 1]
      <3>1. \A j \in i .. Len(s) - 1 : j \in Len(before) + 1 .. Len(before) + Len(after)
        BY <1>1, <1>4, <2>1
      <3>2. QED
        BY <2>4, <2>5, <3>1
    <2>7. \A j \in 1 .. i - 1 : rest[j] = before[j]
      BY <1>4, <2>3
    <2>8. QED
      BY <2>1, <2>2, <2>6, <2>7
  <1>8. ASSUME NEW j \in DOMAIN s, j # i
        PROVE  \E k \in DOMAIN rest : rest[k] = s[j]
    <2>1. CASE j < i
      <3>1. j \in 1 .. i - 1 /\ j \in DOMAIN rest
        BY <1>1, <1>7, <2>1
      <3>2. QED
        BY <1>4, <1>7, <3>1
    <2>2. CASE j > i
      <3>1. /\ j - 1 \in i .. Len(s) - 1 /\ j - 1 \in DOMAIN rest
            /\ (j - 1) - i + 1 = j - i /\ j - i \in 1 .. Len(s) - i /\ i + (j - i) = j
        BY <1>1, <1>7, <2>2
      <3>2. rest[j - 1] = s[j]
        BY <1>5, <1>7, <3>1
      <3>3. QED
        BY <3>1, <3>2
    <2>3. QED
      BY <1>1, <1>8, <2>1, <2>2
  <1>9. RemoveAt(s, i) = rest
    BY <1>2, <1>3, <1>6 DEF RemoveAt
  <1>10. ASSUME NEW k \in DOMAIN rest
         PROVE  \E j \in DOMAIN s : rest[k] = s[j]
    <2>1. CASE k < i
      <3>1. k \in 1 .. i - 1 /\ k \in DOMAIN s
        BY <1>1, <1>7, <2>1
      <3>2. QED
        BY <1>4, <1>7, <3>1
    <2>2. CASE k >= i
      <3>1. /\ k \in i .. Len(s) - 1 /\ k + 1 \in DOMAIN s
            /\ k - i + 1 \in 1 .. Len(s) - i /\ i + (k - i + 1) = k + 1
        BY <1>1, <1>7, <2>2
      <3>2. rest[k] = s[k + 1]
        BY <1>5, <1>7, <3>1
      <3>3. QED
        BY <3>1, <3>2
    <2>3. QED
      BY <1>1, <1>7, <2>1, <2>2
  <1>11. QED
    BY <1>7, <1>8, <1>9, <1>10

(* The request of the selected mail stays when another one is answered.    *)
LEMMA AwaitedStays ==
  ASSUME ViewTypeOK, NEW i \in DOMAIN fetches, fetches' = RemoveAt(fetches, i), id' = id,
         Awaited, ~(fetches[i].mounted /\ fetches[i].id = id)
  PROVE  Awaited'
  <1>1. PICK j \in DOMAIN fetches : fetches[j].mounted /\ fetches[j].id = id
    BY DEF Awaited
  <1>2. j # i
    BY <1>1
  <1>3. fetches \in Seq(Fetch)
    BY DEF ViewTypeOK
  <1>4. PICK k \in DOMAIN RemoveAt(fetches, i) : RemoveAt(fetches, i)[k] = fetches[j]
    BY <1>2, <1>3, RemoveAtFacts
  <1>5. QED
    BY <1>1, <1>4 DEF Awaited

LEMMA ViewInvInit == ViewInit => ViewInv
  <1> SUFFICES ASSUME ViewInit
               PROVE  ViewInv
    OBVIOUS
  <1>1. fetches = <<>> /\ raws = <<>> /\ Len(fetches) = 0 /\ Len(raws) = 0
    BY DEF ViewInit
  <1>2. ViewTypeOK
    <2>1. {id, message, raw} \subseteq Message \cup {NoMessage} /\ tab \in Tab
      BY DEF ViewInit, Tab
    <2>2. fetches \in Seq(Fetch) /\ raws \in Seq(Message) /\ MaxPending \in Nat /\ MaxPending >= 0
      BY <1>1, ViewAssumption
    <2>3. late \in BOOLEAN /\ unchecked \in BOOLEAN
      BY DEF ViewInit
    <2>4. message = NoMessage /\ raw = NoMessage /\ \A i \in DOMAIN fetches : ~fetches[i].mounted
      BY <1>1 DEF ViewInit
    <2>5. QED
      BY <1>1, <2>1, <2>2, <2>3, <2>4 DEF ViewTypeOK
  <1>3. QED
    BY <1>2, ViewAssumption DEF ViewInit, ViewInv, StaleOnlyIfLate, TabFits

-----------------------------------------------------------------------------
(* The user.                                                               *)

LEMMA RequestsTyped ==
  ASSUME ViewTypeOK, NEW m \in Message, NEW t \in Tab,
         FetchRaw(m, t)
  PROVE  raws' \in Seq(Message) /\ Len(raws') <= MaxPending
  <1>1. raws \in Seq(Message) /\ Len(raws) <= MaxPending /\ MaxPending \in Nat
    BY ViewAssumption DEF ViewTypeOK
  <1>2. CASE UNCHANGED raws
    BY <1>1, <1>2
  <1>3. CASE Len(raws) < MaxPending /\ raws' = Append(raws, m)
    <2>1. Len(raws') = Len(raws) + 1 /\ raws' \in Seq(Message) /\ Len(raws) \in Nat
      BY <1>1, <1>3
    <2>2. QED
      BY <1>1, <1>3, <2>1
  <1>4. QED
    BY <1>2, <1>3 DEF FetchRaw

LEMMA SelectMessageStep ==
  ASSUME ViewInv, NEW m \in Message, SelectMessage(m)
  PROVE  ViewInv'
  <1> DEFINE f == [id |-> m, tab |-> tab, mounted |-> TRUE]
  <1>1. /\ ViewTypeOK /\ fetches \in Seq(Fetch) /\ MaxPending \in Nat /\ tab \in Tab
        /\ raws' \in Seq(Message) /\ Len(raws') <= MaxPending
    BY RequestsTyped, ViewAssumption DEF ViewInv, ViewTypeOK, SelectMessage
  <1>2. f \in Fetch
    BY <1>1 DEF Fetch
  <1>3. Len(fetches) < MaxPending /\ fetches' = Append(fetches, f)
    BY DEF SelectMessage, FetchMessage
  <1>4. /\ fetches' \in Seq(Fetch) /\ Len(fetches') = Len(fetches) + 1
        /\ Len(fetches) \in Nat /\ fetches'[Len(fetches) + 1] = f
        /\ Len(fetches) + 1 \in DOMAIN fetches'
    BY <1>1, <1>2, <1>3
  <1>5. ViewTypeOK'
    <2>1. {id', message', raw'} \subseteq Message \cup {NoMessage} /\ id' # NoMessage
      BY <1>1, ViewAssumption DEF SelectMessage, ViewTypeOK
    <2>2. Len(fetches') <= MaxPending
      BY <1>1, <1>3, <1>4
    <2>3. tab' \in Tab /\ late' \in BOOLEAN /\ unchecked' \in BOOLEAN
      BY <1>1 DEF SelectMessage, ViewTypeOK
    <2>4. QED
      BY <1>1, <1>4, <2>1, <2>2, <2>3 DEF ViewTypeOK
  <1>6. Awaited'
    <2>1. fetches'[Len(fetches) + 1].mounted /\ fetches'[Len(fetches) + 1].id = m
      BY <1>4
    <2>2. QED
      BY <1>4, <2>1 DEF Awaited, SelectMessage
  <1>7. TabFits'
    BY DEF ViewInv, TabFits, SelectMessage
  <1>8. QED
    BY <1>5, <1>6, <1>7 DEF ViewInv, StaleOnlyIfLate

LEMMA SetTabStep ==
  ASSUME ViewInv, NEW t \in Tab, SetTab(t)
  PROVE  ViewInv'
  <1>1. id \in Message /\ ViewTypeOK
    BY DEF ViewInv, ViewTypeOK, SetTab
  <1>2. raws' \in Seq(Message) /\ Len(raws') <= MaxPending
    BY <1>1, RequestsTyped DEF SetTab
  <1>3. ViewTypeOK'
    BY <1>1, <1>2 DEF ViewTypeOK, SetTab
  <1>4. StaleOnlyIfLate' /\ TabFits'
    BY DEF ViewInv, StaleOnlyIfLate, TabFits, SetTab, Awaited
  <1>5. QED
    BY <1>3, <1>4 DEF ViewInv

LEMMA UnmountStep ==
  ASSUME ViewInv, Unmount
  PROVE  ViewInv'
  <1>1. fetches \in Seq(Fetch) /\ ViewTypeOK
    BY DEF ViewInv, ViewTypeOK
  <1>2. \A i \in DOMAIN fetches :
          /\ [fetches[i] EXCEPT !.mounted = FALSE] \in Fetch
          /\ ~[fetches[i] EXCEPT !.mounted = FALSE].mounted
    <2>1. \A f \in Fetch : /\ [f EXCEPT !.mounted = FALSE] \in Fetch
                            /\ ~[f EXCEPT !.mounted = FALSE].mounted
      BY DEF Fetch
    <2>2. \A i \in DOMAIN fetches : fetches[i] \in Fetch
      BY <1>1
    <2>3. QED
      BY <2>1, <2>2
  <1>3. /\ fetches' \in Seq(Fetch) /\ Len(fetches') = Len(fetches)
        /\ \A i \in DOMAIN fetches' : ~fetches'[i].mounted
    <2>1. fetches' = [i \in 1 .. Len(fetches) |-> [fetches[i] EXCEPT !.mounted = FALSE]]
      BY <1>1 DEF Unmount
    <2>2. fetches' \in [1 .. Len(fetches) -> Fetch] /\ Len(fetches) \in Nat
      BY <1>1, <1>2, <2>1
    <2>3. fetches' \in Seq(Fetch) /\ Len(fetches') = Len(fetches)
      BY <2>2
    <2>4. DOMAIN fetches' = 1 .. Len(fetches)
      BY <2>1
    <2>5. \A i \in 1 .. Len(fetches) : ~fetches'[i].mounted
      <3>1. SUFFICES ASSUME NEW i \in 1 .. Len(fetches) PROVE ~fetches'[i].mounted
        OBVIOUS
      <3>2. i \in DOMAIN fetches
        BY <1>1
      <3>3. fetches'[i] = [fetches[i] EXCEPT !.mounted = FALSE]
        BY <2>1
      <3>4. QED
        BY <1>2, <3>2, <3>3
    <2>6. QED
      BY <2>3, <2>4, <2>5
  <1>4. raws' = <<>> /\ Len(raws') = 0 /\ raws' \in Seq(Message)
    BY DEF Unmount
  <1>5. ViewTypeOK'
    <2>1. /\ {id', message', raw'} \subseteq Message \cup {NoMessage}
          /\ message' = NoMessage /\ raw' = NoMessage
          /\ UNCHANGED <<tab, late, unchecked>>
      BY DEF Unmount
    <2>2. Len(fetches') <= MaxPending /\ Len(raws') <= MaxPending
      BY <1>1, <1>3, <1>4, ViewAssumption DEF ViewTypeOK
    <2>3. QED
      BY <1>1, <1>3, <1>4, <2>1, <2>2 DEF ViewTypeOK
  <1>6. StaleOnlyIfLate' /\ TabFits'
    BY ViewAssumption DEF StaleOnlyIfLate, TabFits, Unmount
  <1>7. QED
    BY <1>5, <1>6 DEF ViewInv

-----------------------------------------------------------------------------
(* The answers.                                                            *)

LEMMA MessageArrivesStep ==
  ASSUME ViewInv, NEW i \in DOMAIN fetches, MessageArrives(i)
  PROVE  ViewInv'
  <1> DEFINE f == fetches[i]
  <1>1. /\ ViewTypeOK /\ StaleOnlyIfLate /\ TabFits /\ fetches \in Seq(Fetch) /\ f \in Fetch
    BY DEF ViewInv, ViewTypeOK
  <1>2. /\ fetches' = RemoveAt(fetches, i) /\ tab' = TabFor(f.tab, f.id)
        /\ message' = (IF f.mounted THEN f.id ELSE message)
        /\ late' = (late \/ (f.mounted /\ ~Awaited))
        /\ unchecked' = (IF f.mounted THEN f.tab # tab ELSE unchecked \/ tab' # tab)
        /\ UNCHANGED <<id, raw, raws>>
    BY DEF MessageArrives
  <1>3. f.id \in Message /\ f.tab \in Tab /\ f.mounted \in BOOLEAN
    BY <1>1 DEF Fetch
  <1>4. fetches' \in Seq(Fetch) /\ Len(fetches') <= MaxPending
    <2>1. fetches' \in Seq(Fetch) /\ Len(fetches') = Len(fetches) - 1
      BY <1>1, <1>2, RemoveAtFacts
    <2>2. Len(fetches) \in Nat /\ Len(fetches) <= MaxPending /\ MaxPending \in Nat
      BY <1>1, ViewAssumption DEF ViewTypeOK
    <2>3. QED
      BY <2>1, <2>2
  <1>5. tab' \in Tab
    BY <1>1, <1>2, <1>3 DEF TabFor, Tab, ViewTypeOK
  <1>6. late' \in BOOLEAN /\ unchecked' \in BOOLEAN
    <2>1. late' \in BOOLEAN
      BY <1>2, Zenon
    <2>2. CASE f.mounted
      BY <1>2, <2>2, Zenon
    <2>3. CASE ~f.mounted
      BY <1>2, <2>3, Zenon
    <2>4. QED
      BY <2>1, <2>2, <2>3
  <1>7. id = NoMessage => ~f.mounted /\ \A k \in DOMAIN fetches' : ~fetches'[k].mounted
    <2>1. SUFFICES ASSUME id = NoMessage, NEW k \in DOMAIN fetches'
                   PROVE  ~f.mounted /\ ~fetches'[k].mounted
      BY <1>1 DEF ViewTypeOK
    <2>2. \A j \in DOMAIN fetches : ~fetches[j].mounted
      BY <1>1, <2>1 DEF ViewTypeOK
    <2>3. PICK j \in DOMAIN fetches : RemoveAt(fetches, i)[k] = fetches[j]
      BY <1>1, <1>2, <2>1, RemoveAtFacts
    <2>4. QED
      BY <1>2, <2>2, <2>3
  <1>8. ViewTypeOK'
    <2>1. {id', message', raw'} \subseteq Message \cup {NoMessage}
      BY <1>1, <1>2, <1>3 DEF ViewTypeOK
    <2>2. id' = NoMessage => message' = NoMessage /\ raw' = NoMessage /\ raws' = <<>>
      BY <1>1, <1>2, <1>7 DEF ViewTypeOK
    <2>3. raws' \in Seq(Message) /\ Len(raws') <= MaxPending
      BY <1>1, <1>2 DEF ViewTypeOK
    <2>4. QED
      BY <1>2, <1>4, <1>5, <1>6, <1>7, <2>1, <2>2, <2>3 DEF ViewTypeOK
  <1>9. StaleOnlyIfLate'
    <2>1. SUFFICES ASSUME id # NoMessage, message' # id
                   PROVE  Awaited' \/ late'
      BY <1>2 DEF StaleOnlyIfLate
    <2>2. CASE f.mounted
      <3>1. f.id # id
        BY <1>2, <2>1, <2>2
      <3>2. CASE Awaited
        BY <1>1, <1>2, <3>1, <3>2, AwaitedStays
      <3>3. CASE ~Awaited
        BY <1>2, <2>2, <3>3
      <3>4. QED
        BY <3>2, <3>3
    <2>3. CASE ~f.mounted
      <3>1. Awaited \/ late
        BY <1>1, <1>2, <2>1, <2>3 DEF StaleOnlyIfLate
      <3>2. Awaited => Awaited'
        BY <1>1, <1>2, <2>3, AwaitedStays
      <3>3. QED
        BY <1>2, <3>1, <3>2
    <2>4. QED
      BY <2>2, <2>3
  <1>10. TabFits'
    <2>1. CASE f.mounted
      BY <1>2, <1>3, <2>1 DEF TabFits, TabFor, TabsOf, Tab
    <2>2. CASE ~f.mounted
      BY <1>1, <1>2, <2>2 DEF TabFits
    <2>3. QED
      BY <2>1, <2>2
  <1>11. QED
    BY <1>8, <1>9, <1>10 DEF ViewInv

LEMMA MessageFailsStep ==
  ASSUME ViewInv, NEW i \in DOMAIN fetches, MessageFails(i)
  PROVE  ViewInv'
  <1>1. /\ ViewTypeOK /\ StaleOnlyIfLate /\ TabFits /\ fetches \in Seq(Fetch)
        /\ fetches' = RemoveAt(fetches, i) /\ late' = (late \/ fetches[i].mounted)
        /\ UNCHANGED <<id, tab, message, raw, raws, unchecked>>
    BY DEF ViewInv, ViewTypeOK, MessageFails
  <1>2. fetches' \in Seq(Fetch) /\ Len(fetches') <= MaxPending
    <2>1. fetches' \in Seq(Fetch) /\ Len(fetches') = Len(fetches) - 1
      BY <1>1, RemoveAtFacts
    <2>2. Len(fetches) \in Nat /\ Len(fetches) <= MaxPending /\ MaxPending \in Nat
      BY <1>1, ViewAssumption DEF ViewTypeOK
    <2>3. QED
      BY <2>1, <2>2
  <1>3. late' \in BOOLEAN
    BY <1>1, Zenon
  <1>4. id = NoMessage => \A k \in DOMAIN fetches' : ~fetches'[k].mounted
    <2>1. SUFFICES ASSUME id = NoMessage, NEW k \in DOMAIN fetches'
                   PROVE  ~fetches'[k].mounted
      OBVIOUS
    <2>2. \A j \in DOMAIN fetches : ~fetches[j].mounted
      BY <1>1, <2>1 DEF ViewTypeOK
    <2>3. PICK j \in DOMAIN fetches : RemoveAt(fetches, i)[k] = fetches[j]
      BY <1>1, <2>1, RemoveAtFacts
    <2>4. QED
      BY <1>1, <2>2, <2>3
  <1>5. ViewTypeOK'
    BY <1>1, <1>2, <1>3, <1>4 DEF ViewTypeOK
  <1>6. StaleOnlyIfLate'
    <2>1. SUFFICES ASSUME id # NoMessage, message # id
                   PROVE  Awaited' \/ late'
      BY <1>1 DEF StaleOnlyIfLate
    <2>2. Awaited \/ late
      BY <1>1, <2>1 DEF StaleOnlyIfLate
    <2>3. ~fetches[i].mounted /\ Awaited => Awaited'
      BY <1>1, AwaitedStays
    <2>4. QED
      BY <1>1, <2>2, <2>3
  <1>7. TabFits'
    BY <1>1 DEF TabFits
  <1>8. QED
    BY <1>5, <1>6, <1>7 DEF ViewInv

LEMMA RawArrivesStep ==
  ASSUME ViewInv, NEW i \in DOMAIN raws, RawArrives(i)
  PROVE  ViewInv'
  <1>1. /\ ViewTypeOK /\ raws \in Seq(Message) /\ raws' = RemoveAt(raws, i)
        /\ raw' = raws[i] /\ UNCHANGED <<id, tab, message, fetches, late, unchecked>>
    BY DEF ViewInv, ViewTypeOK, RawArrives
  <1>2. raws' \in Seq(Message) /\ Len(raws') <= MaxPending
    <2>1. raws' \in Seq(Message) /\ Len(raws') = Len(raws) - 1
      BY <1>1, RemoveAtFacts
    <2>2. Len(raws) \in Nat /\ Len(raws) <= MaxPending /\ MaxPending \in Nat
      BY <1>1, ViewAssumption DEF ViewTypeOK
    <2>3. QED
      BY <2>1, <2>2
  <1>3. raw' \in Message /\ id # NoMessage
    BY <1>1 DEF ViewTypeOK
  <1>4. {id', message', raw'} \subseteq Message \cup {NoMessage}
    BY <1>1, <1>3 DEF ViewTypeOK
  <1>5. ViewTypeOK'
    BY <1>1, <1>2, <1>3, <1>4 DEF ViewTypeOK
  <1>6. StaleOnlyIfLate' /\ TabFits'
    BY <1>1 DEF ViewInv, StaleOnlyIfLate, TabFits, Awaited
  <1>7. QED
    BY <1>5, <1>6 DEF ViewInv

LEMMA ViewInvStep == ViewInv /\ [ViewNext]_viewVars => ViewInv'
  <1> SUFFICES ASSUME ViewInv, [ViewNext]_viewVars
               PROVE  ViewInv'
    OBVIOUS
  <1>1. CASE UNCHANGED viewVars
    BY <1>1 DEF viewVars, ViewInv, ViewTypeOK, StaleOnlyIfLate, TabFits, Awaited
  <1>2. QED
    BY <1>1, SelectMessageStep, SetTabStep, UnmountStep, MessageArrivesStep, MessageFailsStep,
       RawArrivesStep
    DEF ViewNext, User

-----------------------------------------------------------------------------
(* The view, its tab and its requests are well formed at every step.       *)
THEOREM ViewTypeCorrect == ViewSpec => []ViewTypeOK
  <1>1. ViewInv => ViewTypeOK
    BY DEF ViewInv
  <1>2. QED
    BY <1>1, ViewInvInit, ViewInvStep, PTL DEF ViewSpec, ViewSafety

(* Another mail than the selected one is shown only while its request is   *)
(* under way, or after one that failed or was overtaken.                   *)
THEOREM StaleNeedsLateAnswer == ViewSpec => []StaleOnlyIfLate
  <1>1. ViewInv => StaleOnlyIfLate
    BY DEF ViewInv
  <1>2. QED
    BY <1>1, ViewInvInit, ViewInvStep, PTL DEF ViewSpec, ViewSafety

(* The open tab is there for the mail shown, but for a tab that was        *)
(* changed behind the back of the request.                                 *)
THEOREM OpenTabIsThere == ViewSpec => []TabFits
  <1>1. ViewInv => TabFits
    BY DEF ViewInv
  <1>2. QED
    BY <1>1, ViewInvInit, ViewInvStep, PTL DEF ViewSpec, ViewSafety
=============================================================================
