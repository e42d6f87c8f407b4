SPECIFICATION Spec
CONSTANTS
  r1 = r1
  e1 = e1
  Nobody = Nobody
  Requests = {r1}
  Emails = {e1}
  Commands = {"register", "activate", "resend"}
  MaxUsers = 2
  MaxCodes = 3
  MayLoseMail = FALSE
  MayAbort = FALSE
PROPERTIES
  OnlyExpiredDeleted
