\* A mail of each kind: with both bodies, with one of them, with none.  Bodies of up
\* to four tokens with up to two attachments.
CONSTANTS
  Message = {both, text, html, empty}
  NoMessage = NoMessage
  WithHtml = {both, html}
  WithText = {both, text}
  MaxPending = 2
  Letter = {"a", "b"}
  Other = {"."}
  Url <- Urls
  Nothing = Nothing
  NoContentId = NoContentId
  Mails <- SmallMails
  NoMail = NoMail
  MaxHtml = 4
  MaxContentId = 2
  MaxAttachments = 2
SPECIFICATION MCSpec
INVARIANTS ViewTypeOK StaleOnlyIfLate TabFits  
PROPERTY SelectedIsShown
\* Deadlock is checked.
