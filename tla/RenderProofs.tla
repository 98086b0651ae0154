---------------------------- MODULE RenderProofs ----------------------------
(***************************************************************************)
(* Proofs about the body that the Formatted tab shows, for mails of every  *)
(* length with any number of attachments and content ids of every length.  *)
(***************************************************************************)
EXTENDS Render, SequenceTheorems, TLAPS

(* Of the attachments whose id stands behind a marker, those that are done. *)
CandidatesBefore(m, n, p) == {i \in Candidates(m, p) : i < n}

(* The letter at p went with the marker at q.                              *)
TakenBefore(m, n, q, p) ==
  CandidatesBefore(m, n, q) # {} /\ p \in Letters(m, q, First(CandidatesBefore(m, n, q)))

(* The HTML with the references resolved whose attachment is done.         *)
ResolvedBefore(m, n) ==
  [p \in DOMAIN m.html |->
     IF CandidatesBefore(m, n, p) # {} THEN Url[First(CandidatesBefore(m, n, p))]
     ELSE IF \E q \in DOMAIN m.html : TakenBefore(m, n, q, p) THEN Nothing
     ELSE m.html[p]]

RenderTypeOK ==
  /\ mail \in Mails \cup {NoMail}
  /\ mail # NoMail => next \in 1 .. Len(mail.attachments) + 1

TextAsItIs ==
  mail # NoMail /\ mail.html = <<>> => body = mail.text /\ next = Len(mail.attachments) + 1

(* A marker is replaced in the round of the first attachment whose id      *)
(* stands behind it; there is a first one because the rounds go up.        *)
DoneInOrder ==
  mail # NoMail /\ mail.html # <<>> =>
    /\ body = ResolvedBefore(mail, next)
    /\ \A p \in DOMAIN mail.html :
         CandidatesBefore(mail, next, p) # {} => \E i : IsFirst(i, CandidatesBefore(mail, next, p))

RenderInv == RenderTypeOK /\ TextAsItIs /\ DoneInOrder

-----------------------------------------------------------------------------
LEMMA TrimmedIsLetters ==
  ASSUME NEW id, IsContentId(id)
  PROVE  Trimmed(id) \in Seq(Letter)
  <1>1. PICK n \in 1 .. Len(id) + 1 : n = CHOOSE k \in 1 .. Len(id) + 1 : BareFrom(id, k)
    BY DEF IsContentId
  <1>2. BareFrom(id, n)
    BY <1>1 DEF IsContentId
  <1>3. \A k \in n .. Len(id) : id[k] \in Letter
    BY <1>2 DEF BareFrom
  <1>4. n \in Int /\ Len(id) \in Int
    BY DEF IsContentId
  <1>5. SubSeq(id, n, Len(id)) \in Seq(Letter)
    BY <1>3, <1>4, SubSeqProperties
  <1>6. QED
    BY <1>1, <1>5 DEF Trimmed

(* What the proofs need to know of a mail.                                 *)
LEMMA MailFacts ==
  ASSUME NEW m \in Mails
  PROVE  /\ m.html \in Seq(Token)
         /\ Len(m.html) \in Nat /\ DOMAIN m.html = 1 .. Len(m.html)
         /\ \A p \in DOMAIN m.html : m.html[p] \in Token
         /\ Len(m.attachments) \in Nat
         /\ DOMAIN m.attachments = 1 .. Len(m.attachments)
         /\ \A i \in DOMAIN m.attachments :
              Url[i] \notin Token /\ Url[i] # Nothing /\ Url[i] # Marker
         /\ \A i \in DOMAIN m.attachments : HasId(m, i) => Trimmed(m.attachments[i]) \in Seq(Letter)
  <1>1. /\ m.html \in Seq(Token)
        /\ Len(m.attachments) \in Nat
        /\ DOMAIN m.attachments = 1 .. Len(m.attachments)
    BY RenderAssumption
  <1>2. ASSUME NEW i \in DOMAIN m.attachments
        PROVE  /\ Url[i] \notin Token \cup {Nothing}
               /\ HasId(m, i) => Trimmed(m.attachments[i]) \in Seq(Letter)
    BY RenderAssumption, TrimmedIsLetters DEF HasId
  <1>3. Marker \in Token
    BY DEF Token
  <1>4. QED
    BY <1>1, <1>2, <1>3

LEMMA MarkerIsNoLetter == Marker \notin Letter /\ Letter \subseteq Token /\ Marker \in Token /\ Nothing \notin Token
  BY RenderAssumption DEF Token

LEMMA FirstIsIn ==
  ASSUME NEW S, \E i : IsFirst(i, S)
  PROVE  IsFirst(First(S), S)
  BY DEF First, IsFirst

LEMMA CandidateFacts ==
  ASSUME NEW m \in Mails, NEW p, NEW i \in Candidates(m, p)
  PROVE  /\ m.html[p] = Marker
         /\ i \in DOMAIN m.attachments /\ i \in Nat
  BY MailFacts DEF Candidates, Occurs

(* A position that is done holds a URL, or nothing.                        *)
LEMMA DonePlaces ==
  ASSUME NEW m \in Mails, NEW n, NEW p \in DOMAIN m.html,
         CandidatesBefore(m, n, p) # {} => \E i : IsFirst(i, CandidatesBefore(m, n, p))
  PROVE  /\ CandidatesBefore(m, n, p) # {} => ResolvedBefore(m, n)[p] \notin Token
         /\ ResolvedBefore(m, n)[p] \in Token =>
              /\ ResolvedBefore(m, n)[p] = m.html[p]
              /\ ~\E q \in DOMAIN m.html : TakenBefore(m, n, q, p)
  <1>1. CandidatesBefore(m, n, p) # {} => ResolvedBefore(m, n)[p] \notin Token
    <2> SUFFICES ASSUME CandidatesBefore(m, n, p) # {}
                 PROVE  ResolvedBefore(m, n)[p] \notin Token
      OBVIOUS
    <2>1. PICK i : i = First(CandidatesBefore(m, n, p))
      OBVIOUS
    <2>2. i \in CandidatesBefore(m, n, p)
      BY <2>1, FirstIsIn DEF IsFirst
    <2>3. ResolvedBefore(m, n)[p] = Url[i]
      BY <2>1 DEF ResolvedBefore
    <2>4. QED
      BY <2>2, <2>3, CandidateFacts, MailFacts DEF CandidatesBefore
  <1>2. QED
    BY <1>1, MarkerIsNoLetter DEF ResolvedBefore

(* An id that stands in the HTML stands there letter by letter.            *)
LEMMA LettersBehind ==
  ASSUME NEW m \in Mails, NEW q \in DOMAIN m.html, NEW i \in Candidates(m, q),
         NEW p \in Letters(m, q, i)
  PROVE  /\ p \in DOMAIN m.html /\ p \in Nat /\ q \in Nat /\ q < p
         /\ m.html[p] \in Letter
         /\ \A k \in q + 1 .. p : k \in DOMAIN m.html /\ m.html[k] \in Letter
  <1> DEFINE id == Trimmed(m.attachments[i])
  <1>1. /\ id \in Seq(Letter) /\ Len(id) \in Nat /\ q \in Nat
        /\ \A k \in 1 .. Len(id) : id[k] \in Letter
    BY MailFacts DEF Candidates
  <1>2. Occurs(m.html, q, id)
    BY DEF Candidates
  <1>3. p \in q + 1 .. q + Len(id)
    BY DEF Letters
  <1> HIDE DEF id
  <1>4. ASSUME NEW k \in q + 1 .. p
        PROVE  k \in DOMAIN m.html /\ m.html[k] \in Letter
    <2>1. k - q \in 1 .. Len(id) /\ q + (k - q) = k
      BY <1>1, <1>3
    <2>2. QED
      BY <1>1, <1>2, <2>1 DEF Occurs
  <1>5. p \in q + 1 .. p /\ p \in Nat /\ q < p
    BY <1>1, <1>3
  <1>6. QED
    BY <1>1, <1>4, <1>5

-----------------------------------------------------------------------------
(* One round of the loop. *)

(* Where the round of attachment n finds its id: at the references that can *)
(* stand for it and for no earlier attachment.                              *)
LEMMA FoundAt ==
  ASSUME NEW m \in Mails, NEW n \in DOMAIN m.attachments, HasId(m, n),
         \A p \in DOMAIN m.html :
           CandidatesBefore(m, n, p) # {} => \E i : IsFirst(i, CandidatesBefore(m, n, p)),
         NEW p \in DOMAIN m.html
  PROVE  Occurs(ResolvedBefore(m, n), p, Trimmed(m.attachments[n]))
           <=> n \in Candidates(m, p) /\ CandidatesBefore(m, n, p) = {}
  <1> DEFINE id   == Trimmed(m.attachments[n])
             text == ResolvedBefore(m, n)
  <1>1. /\ id \in Seq(Letter) /\ Len(id) \in Nat
        /\ \A k \in 1 .. Len(id) : id[k] \in Letter
    BY MailFacts
  <1>2. DOMAIN text = DOMAIN m.html /\ DOMAIN m.html = 1 .. Len(m.html) /\ Len(m.html) \in Nat
    BY MailFacts DEF ResolvedBefore
  <1>3. n \in Candidates(m, p) <=> Occurs(m.html, p, id)
    BY DEF Candidates
  <1>4. ASSUME Occurs(text, p, id)
        PROVE  Occurs(m.html, p, id) /\ CandidatesBefore(m, n, p) = {}
    <2>1. text[p] \in Token
      BY <1>4, MarkerIsNoLetter DEF Occurs
    <2>2. CandidatesBefore(m, n, p) = {} /\ m.html[p] = Marker
      BY <1>4, <2>1, DonePlaces DEF Occurs
    <2>3. ASSUME NEW k \in 1 .. Len(id)
          PROVE  p + k \in DOMAIN m.html /\ m.html[p + k] = id[k]
      <3>1. p + k \in DOMAIN m.html /\ text[p + k] = id[k]
        BY <1>2, <1>4 DEF Occurs
      <3>2. text[p + k] \in Token
        BY <1>1, <3>1, MarkerIsNoLetter
      <3>3. QED
        BY <3>1, <3>2, DonePlaces
    <2>4. QED
      BY <2>2, <2>3 DEF Occurs
  <1>5. ASSUME Occurs(m.html, p, id), CandidatesBefore(m, n, p) = {}
        PROVE  Occurs(text, p, id)
    <2>1. m.html[p] = Marker /\ text[p] = Marker
      <3>1. \A q \in DOMAIN m.html : ~TakenBefore(m, n, q, p)
        BY <1>5, FirstIsIn, LettersBehind, MarkerIsNoLetter
        DEF TakenBefore, Occurs, CandidatesBefore, IsFirst
      <3>2. QED
        BY <1>5, <3>1 DEF ResolvedBefore, Occurs
    <2>2. ASSUME NEW k \in 1 .. Len(id)
          PROVE  p + k \in DOMAIN text /\ text[p + k] = id[k]
      <3>1. p + k \in DOMAIN m.html /\ m.html[p + k] = id[k] /\ m.html[p + k] \in Letter
        BY <1>1, <1>5 DEF Occurs
      <3>2. CandidatesBefore(m, n, p + k) = {}
        BY <3>1, CandidateFacts, MarkerIsNoLetter DEF CandidatesBefore
      <3>3. ASSUME NEW q \in DOMAIN m.html, TakenBefore(m, n, q, p + k)
            PROVE  FALSE
        <4>1. PICK i : i \in Candidates(m, q) /\ p + k \in Letters(m, q, i)
          BY <3>3, FirstIsIn DEF TakenBefore, CandidatesBefore, IsFirst
        <4>2. m.html[q] = Marker /\ q # p
          BY <1>5, <3>3, <4>1, CandidateFacts DEF TakenBefore
        <4>3. \A l \in q + 1 .. p + k : m.html[l] # Marker
          BY <4>1, LettersBehind, MarkerIsNoLetter
        <4>4. q > p
          BY <1>2, <2>1, <4>2, <4>3
        <4>5. q < p + k
          BY <4>1, LettersBehind
        <4>6. q - p \in 1 .. Len(id) /\ q = p + (q - p)
          BY <1>1, <1>2, <4>4, <4>5
        <4>7. m.html[q] \in Letter
          BY <1>1, <1>5, <4>6 DEF Occurs
        <4>8. QED
          BY <4>2, <4>7, MarkerIsNoLetter
      <3>4. QED
        BY <1>2, <3>1, <3>2, <3>3 DEF ResolvedBefore
    <2>3. QED
      BY <2>1, <2>2 DEF Occurs
  <1>6. QED
    BY <1>3, <1>4, <1>5

LEMMA NextCandidates ==
  ASSUME NEW m \in Mails, NEW n \in DOMAIN m.attachments, NEW p
  PROVE  /\ n \in Candidates(m, p) => CandidatesBefore(m, n + 1, p) = CandidatesBefore(m, n, p) \cup {n}
         /\ n \notin Candidates(m, p) => CandidatesBefore(m, n + 1, p) = CandidatesBefore(m, n, p)
  BY MailFacts, CandidateFacts DEF CandidatesBefore

LEMMA FirstStays ==
  ASSUME NEW m \in Mails, NEW n \in DOMAIN m.attachments, NEW p,
         CandidatesBefore(m, n, p) # {} => \E i : IsFirst(i, CandidatesBefore(m, n, p))
  PROVE  /\ CandidatesBefore(m, n + 1, p) # {} => \E i : IsFirst(i, CandidatesBefore(m, n + 1, p))
         /\ \A i : IsFirst(i, CandidatesBefore(m, n, p)) => IsFirst(i, CandidatesBefore(m, n + 1, p))
         /\ n \in Candidates(m, p) /\ CandidatesBefore(m, n, p) = {} => IsFirst(n, CandidatesBefore(m, n + 1, p))
  <1>1. n \in Nat
    BY MailFacts
  <1>2. \A i \in CandidatesBefore(m, n, p) : i < n /\ i \in Nat
    BY CandidateFacts DEF CandidatesBefore
  <1>3. \A i : IsFirst(i, CandidatesBefore(m, n, p)) => IsFirst(i, CandidatesBefore(m, n + 1, p))
    BY <1>1, <1>2, NextCandidates DEF IsFirst
  <1>4. n \in Candidates(m, p) /\ CandidatesBefore(m, n, p) = {} => IsFirst(n, CandidatesBefore(m, n + 1, p))
    BY <1>1, NextCandidates DEF IsFirst
  <1>5. QED
    BY <1>3, <1>4, NextCandidates

LEMMA FirstIsOne ==
  ASSUME NEW m \in Mails, NEW n, NEW p, NEW i, IsFirst(i, CandidatesBefore(m, n, p))
  PROVE  First(CandidatesBefore(m, n, p)) = i
  <1>1. PICK c : c = First(CandidatesBefore(m, n, p))
    OBVIOUS
  <1>2. IsFirst(c, CandidatesBefore(m, n, p))
    BY <1>1, FirstIsIn
  <1>3. c \in Nat /\ i \in Nat
    BY <1>2, CandidateFacts DEF IsFirst, CandidatesBefore
  <1>4. QED
    BY <1>1, <1>2, <1>3 DEF IsFirst

(* A round takes the HTML from what the attachments before it resolve to    *)
(* what it and they resolve.                                                *)
LEMMA RoundResolves ==
  ASSUME NEW m \in Mails, NEW n \in DOMAIN m.attachments, HasId(m, n),
         \A p \in DOMAIN m.html :
           CandidatesBefore(m, n, p) # {} => \E i : IsFirst(i, CandidatesBefore(m, n, p))
  PROVE  Replaced(ResolvedBefore(m, n), Trimmed(m.attachments[n]), Url[n]) = ResolvedBefore(m, n + 1)
  <1> DEFINE id   == Trimmed(m.attachments[n])
             text == ResolvedBefore(m, n)
             done == ResolvedBefore(m, n + 1)
             at   == {q \in DOMAIN text : Occurs(text, q, id)}
             NowFound(q) == CandidatesBefore(m, n + 1, q) # {}
             WasFound(q) == CandidatesBefore(m, n, q) # {}
  <1>1. /\ id \in Seq(Letter) /\ Len(id) \in Nat
        /\ \A k \in 1 .. Len(id) : id[k] \in Letter
    BY MailFacts
  <1>2. /\ DOMAIN text = DOMAIN m.html /\ DOMAIN done = DOMAIN m.html
        /\ DOMAIN m.html = 1 .. Len(m.html) /\ Len(m.html) \in Nat
    BY MailFacts DEF ResolvedBefore
  <1>3. \A q \in DOMAIN m.html : q \in at <=> n \in Candidates(m, q) /\ ~WasFound(q)
    BY <1>2, FoundAt
  <1>4. \A q \in DOMAIN m.html : NowFound(q) <=> WasFound(q) \/ q \in at
    BY <1>3, NextCandidates
  <1>5. /\ \A q \in at : q \in DOMAIN m.html /\ n \in Candidates(m, q)
        /\ \A q : Letters(m, q, n) = q + 1 .. q + Len(id)
    BY <1>2, <1>3 DEF Letters
  <1> HIDE DEF at
  <1>6. ASSUME NEW p \in DOMAIN m.html
        PROVE  done[p] = IF p \in at THEN Url[n]
                         ELSE IF \E q \in at : p \in q + 1 .. q + Len(id) THEN Nothing
                         ELSE text[p]
    <2>1. CASE p \in at
      <3>1. IsFirst(n, CandidatesBefore(m, n + 1, p))
        BY <1>3, <2>1, FirstStays
      <3>2. NowFound(p)
        BY <1>4, <2>1
      <3>3. done[p] = Url[n]
        BY <3>1, <3>2, FirstIsOne DEF ResolvedBefore
      <3>4. QED
        BY <2>1, <3>3
    <2>2. CASE p \notin at /\ \E q \in at : p \in q + 1 .. q + Len(id)
      <3>1. PICK q \in at : p \in q + 1 .. q + Len(id)
        BY <2>2
      <3>2. /\ q \in DOMAIN m.html /\ n \in Candidates(m, q) /\ NowFound(q)
            /\ p \in Letters(m, q, n)
        BY <1>4, <1>5, <3>1
      <3>3. IsFirst(n, CandidatesBefore(m, n + 1, q))
        BY <1>3, <3>1, <3>2, FirstStays
      <3>4. TakenBefore(m, n + 1, q, p)
        BY <3>2, <3>3, FirstIsOne DEF TakenBefore
      <3>5. ~NowFound(p)
        <4>1. m.html[p] # Marker
          BY <3>2, LettersBehind, MarkerIsNoLetter
        <4>2. QED
          BY <4>1, CandidateFacts DEF CandidatesBefore
      <3>6. done[p] = Nothing
        BY <3>2, <3>4, <3>5 DEF ResolvedBefore
      <3>7. QED
        BY <2>2, <3>6
    <2>3. CASE p \notin at /\ ~\E q \in at : p \in q + 1 .. q + Len(id)
      <3>1. CASE WasFound(p)
        <4>1. PICK i : IsFirst(i, CandidatesBefore(m, n, p))
          BY <3>1
        <4>2. text[p] = Url[i]
          BY <3>1, <4>1, FirstIsOne DEF ResolvedBefore
        <4>3. IsFirst(i, CandidatesBefore(m, n + 1, p)) /\ NowFound(p)
          BY <1>4, <3>1, <4>1, FirstStays
        <4>4. done[p] = Url[i]
          BY <4>3, FirstIsOne DEF ResolvedBefore
        <4>5. QED
          BY <2>3, <4>2, <4>4
      <3>2. CASE ~WasFound(p)
        <4>1. ~NowFound(p)
          BY <1>4, <2>3, <3>2
        <4>2. ASSUME NEW q \in DOMAIN m.html
              PROVE  TakenBefore(m, n + 1, q, p) <=> TakenBefore(m, n, q, p)
          <5>1. CASE WasFound(q)
            <6>1. PICK i : IsFirst(i, CandidatesBefore(m, n, q))
              BY <5>1
            <6>2. IsFirst(i, CandidatesBefore(m, n + 1, q)) /\ NowFound(q)
              BY <1>4, <5>1, <6>1, FirstStays
            <6>3. QED
              BY <5>1, <6>1, <6>2, FirstIsOne DEF TakenBefore
          <5>2. CASE q \in at
            <6>1. IsFirst(n, CandidatesBefore(m, n + 1, q)) /\ ~WasFound(q)
              BY <1>3, <5>2, FirstStays
            <6>2. p \notin Letters(m, q, n)
              BY <1>5, <2>3, <5>2
            <6>3. QED
              BY <6>1, <6>2, FirstIsOne DEF TakenBefore
          <5>3. CASE ~WasFound(q) /\ q \notin at
            BY <1>4, <5>3 DEF TakenBefore
          <5>4. QED
            BY <5>1, <5>2, <5>3
        <4>3. done[p] = text[p]
          BY <3>2, <4>1, <4>2 DEF ResolvedBefore
        <4>4. QED
          BY <2>3, <4>3
      <3>3. QED
        BY <3>1, <3>2
    <2>4. QED
      BY <2>1, <2>2, <2>3
  <1>7. Replaced(text, id, Url[n]) =
          [p \in DOMAIN m.html |-> IF p \in at THEN Url[n]
                                   ELSE IF \E q \in at : p \in q + 1 .. q + Len(id) THEN Nothing
                                   ELSE text[p]]
    BY <1>2 DEF Replaced, at
  <1>8. done = [p \in DOMAIN m.html |-> done[p]]
    BY DEF ResolvedBefore
  <1> HIDE DEF id, text, done
  <1>9. Replaced(text, id, Url[n]) = done
    BY <1>6, <1>7, <1>8
  <1>10. QED
    BY <1>9 DEF id, text, done

-----------------------------------------------------------------------------
LEMMA RenderInvInit == RenderInit \/ Idle => RenderInv
  <1>1. ASSUME Idle
        PROVE  RenderInv
    BY <1>1 DEF Idle, RenderInv, RenderTypeOK, TextAsItIs, DoneInOrder
  <1>2. ASSUME RenderInit
        PROVE  RenderInv
    <2>1. mail \in Mails /\ mail # NoMail
      BY <1>2, RenderAssumption DEF RenderInit
    <2>2. RenderTypeOK /\ TextAsItIs
      BY <1>2, <2>1, MailFacts DEF RenderInit, RenderTypeOK, TextAsItIs
    <2>3. ASSUME mail.html # <<>>
          PROVE  /\ body = ResolvedBefore(mail, next)
                 /\ \A p \in DOMAIN mail.html : CandidatesBefore(mail, next, p) = {}
      <3>1. body = mail.html /\ next = 1
        BY <1>2, <2>3 DEF RenderInit
      <3>2. \A p : CandidatesBefore(mail, 1, p) = {}
        BY <2>1, MailFacts, CandidateFacts DEF CandidatesBefore
      <3>3. ResolvedBefore(mail, 1) = [p \in DOMAIN mail.html |-> mail.html[p]]
        BY <3>2 DEF ResolvedBefore, TakenBefore
      <3>4. mail.html = [p \in DOMAIN mail.html |-> mail.html[p]]
        BY <2>1, MailFacts
      <3>5. QED
        BY <3>1, <3>2, <3>3, <3>4
    <2>4. DoneInOrder
      BY <2>3 DEF DoneInOrder
    <2>5. QED
      BY <2>2, <2>4 DEF RenderInv
  <1>3. QED
    BY <1>1, <1>2

LEMMA RenderInvStep == RenderInv /\ [RenderNext]_renderVars => RenderInv'
  <1> SUFFICES ASSUME RenderInv, [RenderNext]_renderVars
               PROVE  RenderInv'
    OBVIOUS
  <1>1. CASE ReplaceReferences
    <2>1. /\ mail \in Mails /\ mail # NoMail /\ mail' = mail
          /\ next \in DOMAIN mail.attachments /\ next' = next + 1
          /\ mail.html # <<>>
      <3>1. mail \in Mails /\ mail # NoMail /\ mail' = mail /\ next' = next + 1
        BY <1>1 DEF ReplaceReferences, RenderInv, RenderTypeOK
      <3>2. next \in 1 .. Len(mail.attachments) + 1 /\ ~(next > Len(mail.attachments))
        BY <1>1, <3>1 DEF ReplaceReferences, Rendered, RenderInv, RenderTypeOK
      <3>3. QED
        BY <3>1, <3>2, MailFacts DEF RenderInv, TextAsItIs
    <2>2. RenderTypeOK' /\ TextAsItIs'
      BY <2>1, MailFacts DEF RenderTypeOK, TextAsItIs
    <2>3. /\ body' = ResolvedBefore(mail, next + 1)
          /\ \A p \in DOMAIN mail.html : CandidatesBefore(mail, next + 1, p) # {} =>
               \E i : IsFirst(i, CandidatesBefore(mail, next + 1, p))
      <3>1. /\ body = ResolvedBefore(mail, next)
            /\ \A p \in DOMAIN mail.html : CandidatesBefore(mail, next, p) # {} =>
                 \E i : IsFirst(i, CandidatesBefore(mail, next, p))
        BY <2>1 DEF RenderInv, DoneInOrder
      <3>2. \A p \in DOMAIN mail.html : CandidatesBefore(mail, next + 1, p) # {} =>
              \E i : IsFirst(i, CandidatesBefore(mail, next + 1, p))
        BY <2>1, <3>1, FirstStays
      <3>3. CASE HasId(mail, next)
        <4>1. body' = Replaced(body, Trimmed(mail.attachments[next]), Url[next])
          BY <1>1, <3>3 DEF ReplaceReferences, HasId
        <4>2. QED
          BY <2>1, <3>1, <3>2, <3>3, <4>1, RoundResolves
      <3>4. CASE ~HasId(mail, next)
        <4>1. body' = body
          BY <1>1, <3>4 DEF ReplaceReferences, HasId
        <4>2. \A p : next \notin Candidates(mail, p)
          BY <3>4 DEF Candidates
        <4>3. \A p : CandidatesBefore(mail, next + 1, p) = CandidatesBefore(mail, next, p)
          BY <2>1, <4>2, NextCandidates
        <4>4. ResolvedBefore(mail, next + 1) = ResolvedBefore(mail, next)
          BY <4>3 DEF ResolvedBefore, TakenBefore
        <4>5. QED
          BY <3>1, <3>2, <4>1, <4>4
      <3>5. QED
        BY <3>3, <3>4
    <2>4. DoneInOrder'
      BY <2>1, <2>3 DEF DoneInOrder
    <2>5. QED
      BY <2>2, <2>4 DEF RenderInv
  <1>2. CASE BodyAnswered
    BY <1>2 DEF BodyAnswered, RenderInv, RenderTypeOK, TextAsItIs, DoneInOrder
  <1>3. CASE UNCHANGED renderVars
    BY <1>3 DEF renderVars, RenderInv, RenderTypeOK, TextAsItIs, DoneInOrder
  <1>4. QED
    BY <1>1, <1>2, <1>3 DEF RenderNext

LEMMA RenderInvResolves == RenderInv => BodiesResolve
  <1> SUFFICES ASSUME RenderInv, Rendered
               PROVE  body = Resolved(mail)
    BY DEF BodiesResolve
  <1>1. /\ mail \in Mails /\ mail # NoMail
        /\ \A i \in DOMAIN mail.attachments : i < next
    <2>1. mail \in Mails /\ mail # NoMail
      BY DEF Rendered, RenderInv, RenderTypeOK
    <2>2. next \in Int /\ next > Len(mail.attachments)
      BY <2>1, MailFacts DEF Rendered, RenderInv, RenderTypeOK
    <2>3. QED
      BY <2>1, <2>2, MailFacts
  <1>2. CASE mail.html = <<>>
    BY <1>1, <1>2 DEF RenderInv, TextAsItIs, Resolved
  <1>3. CASE mail.html # <<>>
    <2>1. body = ResolvedBefore(mail, next)
      BY <1>1, <1>3 DEF RenderInv, DoneInOrder
    <2>2. \A p : CandidatesBefore(mail, next, p) = Candidates(mail, p)
      BY <1>1, CandidateFacts DEF CandidatesBefore
    <2>3. ResolvedBefore(mail, next) = ResolvedHtml(mail)
      BY <2>2 DEF ResolvedBefore, ResolvedHtml, TakenBefore
    <2>4. QED
      BY <1>3, <2>1, <2>3 DEF Resolved
  <1>4. QED
    BY <1>2, <1>3

(* A whole reference of which the first candidate is a part's whole id.     *)
LEMMA WholeReference ==
  ASSUME NEW m \in Mails, NEW p \in DOMAIN m.html, NEW i, IsFirst(i, Candidates(m, p)),
         Refers(m.html, p, Trimmed(m.attachments[i]))
  PROVE  /\ ResolvedHtml(m)[p] = Url[i]
         /\ \A q \in DOMAIN m.html : Behind(m.html, p, q) => ResolvedHtml(m)[q] = Nothing
  <1> DEFINE id == Trimmed(m.attachments[i])
  <1>1. /\ Len(id) \in Nat /\ i \in Candidates(m, p)
        /\ DOMAIN m.html = 1 .. Len(m.html) /\ Len(m.html) \in Nat
    BY MailFacts DEF Candidates, IsFirst
  <1>2. First(Candidates(m, p)) = i
    <2>1. PICK c : c = First(Candidates(m, p))
      OBVIOUS
    <2>2. IsFirst(c, Candidates(m, p))
      BY <2>1, FirstIsIn
    <2>3. c \in Nat /\ i \in Nat /\ c <= i /\ i <= c
      BY <2>2, CandidateFacts DEF IsFirst
    <2>4. QED
      BY <2>1, <2>3
  <1>3. ResolvedHtml(m)[p] = Url[i]
    BY <1>1, <1>2 DEF ResolvedHtml
  <1>4. ASSUME NEW q \in DOMAIN m.html, Behind(m.html, p, q)
        PROVE  ResolvedHtml(m)[q] = Nothing
    <2>1. p < q /\ q \in p + 1 .. q /\ m.html[q] \in Letter
      BY <1>1, <1>4 DEF Behind
    <2>2. Candidates(m, q) = {}
      BY <2>1, CandidateFacts, MarkerIsNoLetter
    <2>3. q <= p + Len(id)
      <3>1. ASSUME q > p + Len(id)
            PROVE  FALSE
        <4>1. p + Len(id) + 1 \in p + 1 .. q /\ p + Len(id) + 1 \in DOMAIN m.html
          BY <1>1, <2>1, <3>1
        <4>2. m.html[p + Len(id) + 1] \in Letter
          BY <1>4, <4>1 DEF Behind
        <4>3. QED
          BY <4>1, <4>2 DEF Refers
      <3>2. QED
        BY <1>1, <2>1, <3>1
    <2>4. q \in Letters(m, p, i)
      BY <1>1, <2>1, <2>3 DEF Letters
    <2>5. QED
      BY <1>1, <1>2, <2>2, <2>4 DEF ResolvedHtml
  <1>5. QED
    BY <1>3, <1>4

LEMMA RenderInvWhole == RenderInv => WholeReferencesResolve
  <1> SUFFICES ASSUME RenderInv, Rendered, mail.html # <<>>
               PROVE  \A p \in DOMAIN mail.html, i \in DOMAIN mail.attachments :
                        IsFirst(i, Candidates(mail, p))
                          /\ Refers(mail.html, p, Trimmed(mail.attachments[i]))
                        => /\ body[p] = Url[i]
                           /\ \A q \in DOMAIN mail.html :
                                Behind(mail.html, p, q) => body[q] = Nothing
    BY DEF WholeReferencesResolve
  <1>1. mail \in Mails
    BY DEF Rendered, RenderInv, RenderTypeOK
  <1>2. body = ResolvedHtml(mail)
    BY RenderInvResolves DEF BodiesResolve, Resolved
  <1>3. QED
    BY <1>1, <1>2, WholeReference

(* The body of every mail, however long and with however many attachments,  *)
(* is its HTML with every marker replaced by the URL of the first           *)
(* attachment whose id stands behind it, together with this id, and         *)
(* nothing else (the loop over the attachments in MailMessage::render).     *)
THEOREM ReferencesResolve == RenderSpec => []BodiesResolve
  <1>1. RenderInit \/ Idle => RenderInv
    BY RenderInvInit
  <1>2. RenderInv /\ [RenderNext]_renderVars => RenderInv'
    BY RenderInvStep
  <1>3. RenderInv => BodiesResolve
    BY RenderInvResolves
  <1>4. QED
    BY <1>1, <1>2, <1>3, PTL DEF RenderSpec

(* A whole reference to a part becomes the part's URL, with nothing left    *)
(* over, whatever else is in the mail, unless an attachment further up has  *)
(* an id that is its beginning.                                             *)
THEOREM OnlyEarlierIdsSpoil == RenderSpec => []WholeReferencesResolve
  <1>1. RenderInit \/ Idle => RenderInv
    BY RenderInvInit
  <1>2. RenderInv /\ [RenderNext]_renderVars => RenderInv'
    BY RenderInvStep
  <1>3. RenderInv => WholeReferencesResolve
    BY RenderInvWhole
  <1>4. QED
    BY <1>1, <1>2, <1>3, PTL DEF RenderSpec
=============================================================================
