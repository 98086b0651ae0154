\* Two mails with both bodies, one request of a kind at a time.
CONSTANTS
  Message = {m1, m2}
  NoMessage = NoMessage
  WithHtml = {m1, m2}
  WithText = {m1, m2}
  MaxPending = 1
  Letter = {"a"}
  Other = {"."}
  Url <- Urls
  Nothing = Nothing
  NoContentId = NoContentId
  Mails <- SmallMails
  NoMail = NoMail
  MaxHtml = 1
  MaxContentId = 1
  MaxAttachments = 1
SPECIFICATION MCSpec
INVARIANT SourceIsOfSelected
