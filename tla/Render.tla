------------------------------- MODULE Render -------------------------------
(***************************************************************************)
(* The body of a mail as GET /api/message/{id}/body gives it to the        *)
(* Formatted tab (MailMessage::render in mailcrab/src/types.rs).  An HTML  *)
(* body refers to a part of its own mail as "cid:" and the content id of   *)
(* the part; render replaces the references by the URLs of the             *)
(* attachments, one attachment after the other, each in the result of the  *)
(* one before.                                                             *)
(*                                                                         *)
(* A text is a sequence of letters, which ids are made of, of other        *)
(* characters, of the marker "cid:" and of URLs, each of them one token.   *)
(* A reference that is replaced leaves its URL in the place of its marker, *)
(* and nothing in the places of its letters: texts keep their length, and  *)
(* what is sent are the tokens that are there.                             *)
(***************************************************************************)
EXTENDS Integers, FiniteSets, Sequences

CONSTANTS
  Letter,       \* the characters of content ids
  Other,        \* characters that no content id has, the quotes above all
  Url,          \* the URLs of the attachments, by index
  Nothing,      \* the place of a letter that was replaced
  NoContentId,  \* an attachment without a content id
  Mails,        \* the mails whose bodies are asked for
  NoMail        \* none is

Marker == "cid:"
Token  == Letter \cup Other \cup {Marker}

\* The ids of some mails have the marker in front.
BareFrom(id, n) ==
  /\ \A k \in 1 .. n - 1 : id[k] = Marker
  /\ \A k \in n .. Len(id) : id[k] \in Letter

IsContentId(id) ==
  id \in Seq(Letter \cup {Marker}) /\ \E n \in 1 .. Len(id) + 1 : BareFrom(id, n)

ASSUME RenderAssumption ==
  /\ Marker \notin Letter \cup Other
  /\ Nothing \notin Token
  /\ NoMail \notin Mails
  /\ \A m \in Mails :
       /\ m.html \in Seq(Token)
       /\ DOMAIN m.attachments = 1 .. Len(m.attachments) /\ Len(m.attachments) \in Nat
       /\ \A i \in DOMAIN m.attachments :
            /\ Url[i] \notin Token \cup {Nothing}
            /\ m.attachments[i] # NoContentId => IsContentId(m.attachments[i])

VARIABLES
  mail,  \* the mail that is rendered
  body,  \* what it is so far
  next   \* the index of the attachment that is next

renderVars == <<mail, body, next>>

\* trim_start_matches
Trimmed(id) == SubSeq(id, CHOOSE n \in 1 .. Len(id) + 1 : BareFrom(id, n), Len(id))

\* The marker and an id stand in the text from position p on.
Occurs(text, p, id) ==
  /\ text[p] = Marker
  /\ \A k \in 1 .. Len(id) : p + k \in DOMAIN text /\ text[p + k] = id[k]

\* Faulty variant: the first reference only, as replacen(.., 1) would.
ReplacedOnce(text, id, url) ==
  [p \in DOMAIN text |->
     LET at == {q \in DOMAIN text : Occurs(text, q, id) /\ \A o \in 1 .. q - 1 : ~Occurs(text, o, id)}
     IN IF p \in at THEN url
        ELSE IF \E q \in at : p \in q + 1 .. q + Len(id) THEN Nothing
        ELSE text[p]]

\* str::replace: every occurrence.  None overlaps another, as it has one marker.
Replaced(text, id, url) ==
  [p \in DOMAIN text |->
     LET at == {q \in DOMAIN text : Occurs(text, q, id)}
     IN IF p \in at THEN url
        ELSE IF \E q \in at : p \in q + 1 .. q + Len(id) THEN Nothing
        ELSE text[p]]

\* A mail without HTML is its text.
RenderInit ==
  /\ mail \in Mails
  /\ body = IF mail.html = <<>> THEN mail.text ELSE mail.html
  /\ next = IF mail.html = <<>> THEN Len(mail.attachments) + 1 ELSE 1

Rendered == mail # NoMail /\ next > Len(mail.attachments)

\* Faulty variant: the URLs count only the attachments that have a content id.
ReplaceCounted ==
  /\ mail # NoMail /\ ~Rendered
  /\ LET id == mail.attachments[next]
         n  == Cardinality({i \in 1 .. next : mail.attachments[i] # NoContentId})
     IN body' = IF id = NoContentId THEN body ELSE Replaced(body, Trimmed(id), Url[n])
  /\ next' = next + 1
  /\ UNCHANGED mail

\* One round of the loop over the attachments.
ReplaceReferences ==
  /\ mail # NoMail /\ ~Rendered
  /\ LET id == mail.attachments[next] IN
     body' = IF id = NoContentId THEN body ELSE Replaced(body, Trimmed(id), Url[next])
  /\ next' = next + 1
  /\ UNCHANGED mail

Idle == mail = NoMail /\ body = <<>> /\ next = 1

\* The body is sent.
BodyAnswered ==
  /\ Rendered
  /\ mail' = NoMail /\ body' = <<>> /\ next' = 1

RenderNext == ReplaceReferences \/ BodyAnswered

RenderSpec == (RenderInit \/ Idle) /\ [][RenderNext]_renderVars

-----------------------------------------------------------------------------
(* What the body should be, from the mail alone: no rounds, no text in     *)
(* between.                                                                *)

HasId(m, i) == m.attachments[i] # NoContentId

\* The attachments whose id stands at p behind the marker, be it as a whole reference or
\* as the beginning of a longer one.
Candidates(m, p) ==
  {i \in DOMAIN m.attachments : HasId(m, i) /\ Occurs(m.html, p, Trimmed(m.attachments[i]))}

IsFirst(i, S) == i \in S /\ \A j \in S : i <= j

First(S) == CHOOSE i \in S : IsFirst(i, S)

\* The places of the letters of attachment i's id behind the marker at p.
Letters(m, p, i) == p + 1 .. p + Len(Trimmed(m.attachments[i]))

ResolvedHtml(m) ==
  [p \in DOMAIN m.html |->
     IF Candidates(m, p) # {} THEN Url[First(Candidates(m, p))]
     ELSE IF \E q \in DOMAIN m.html :
               Candidates(m, q) # {} /\ p \in Letters(m, q, First(Candidates(m, q)))
     THEN Nothing
     ELSE m.html[p]]

Resolved(m) == IF m.html = <<>> THEN m.text ELSE ResolvedHtml(m)

\* Position p belongs to the letters behind the marker at q.
Behind(text, q, p) == q < p /\ \A k \in q + 1 .. p : text[k] \in Letter

\* What the writer of the mail means: a reference goes from its marker to the end of the
\* letters behind it.
Refers(text, p, id) ==
  /\ Occurs(text, p, id)
  /\ p + Len(id) + 1 \in DOMAIN text => text[p + Len(id) + 1] \notin Letter

(* The loop over the attachments, each round in the result of the one      *)
(* before, comes to the same as one look at the mail: every marker becomes *)
(* the URL of the first attachment whose id stands behind it and takes     *)
(* just this id with it, and nothing else changes.  No round finds an id   *)
(* in what an earlier one has put there or left over, or misses one that   *)
(* an earlier one has cut into.  This is so of every mail, also where an   *)
(* id is the beginning of another, or of a reference to no part at all     *)
(* (types.rs:176-184).                                                     *)
BodiesResolve == Rendered => body = Resolved(mail)

(* A whole reference becomes the URL of its part, with none of its letters *)
(* left over, unless an attachment further up has an id that is the        *)
(* beginning of this one: neither later attachments, nor dangling          *)
(* references, nor other ids that begin one another can spoil it.          *)
WholeReferencesResolve ==
  Rendered /\ mail.html # <<>> =>
    \A p \in DOMAIN mail.html, i \in DOMAIN mail.attachments :
      IsFirst(i, Candidates(mail, p)) /\ Refers(mail.html, p, Trimmed(mail.attachments[i]))
        => /\ body[p] = Url[i]
           /\ \A q \in DOMAIN mail.html : Behind(mail.html, p, q) => body[q] = Nothing
=============================================================================
