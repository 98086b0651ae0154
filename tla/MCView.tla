------------------------------- MODULE MCView -------------------------------
(* Model-checking instances of View and of Render, the body that the        *)
(* Formatted tab of the view shows.                                         *)
EXTENDS View, Render

CONSTANTS
  MaxHtml,         \* bound: tokens of a body
  MaxContentId,    \* bound: letters of a content id
  MaxAttachments   \* bound

Urls == <<"url1", "url2">>

ContentId ==
  (BoundedSeq(Letter, MaxContentId) \ {<<>>})
    \cup {<<Marker, a>> : a \in Letter} \cup {NoContentId}

SmallMails ==
  [html : BoundedSeq(Token, MaxHtml), text : {<<"text">>},
   attachments : BoundedSeq(ContentId, MaxAttachments)]

\* The two have no state in common, so that they need not be interleaved: first a body
\* is rendered, or none, and then the view is used.
MCInit == ViewInit /\ (RenderInit \/ Idle)
MCNext ==
  \/ RenderNext /\ UNCHANGED viewVars
  \/ mail = NoMail /\ ViewNext /\ UNCHANGED renderVars
MCSpec == MCInit /\ [][MCNext]_<<viewVars, renderVars>> /\ ViewFairness
=============================================================================
