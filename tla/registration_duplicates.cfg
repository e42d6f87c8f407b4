SPECIFICATION Spec
CONSTANTS
  r1 = r1
  r2 = r2
  e1 = e1
  Nobody = Nobody
  Requests = {r1, r2}
  Emails = {e1}
  Commands = {"register", "confirm"}
  MaxUsers = 2
  MaxCodes = 2
  MayLoseMail = FALSE
  MayAbort = TRUE
SYMMETRY Symmetry
INVARIANTS
  EmailsUnique
PROPERTIES
  ActiveStaysActive
