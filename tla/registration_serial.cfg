SPECIFICATION FairSpec
CONSTANTS
  r1 = r1
  e1 = e1
  Nobody = Nobody
  Requests = {r1}
  Emails = {e1}
  Commands = {"register", "activate", "confirm", "resend"}
  MaxUsers = 2
  MaxCodes = 3
  MayLoseMail = TRUE
  MayAbort = TRUE
INVARIANTS
  ActivatedAreKept
PROPERTIES
  TidyUpProgress
