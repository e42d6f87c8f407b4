SPECIFICATION Spec
CONSTANTS
  r1 = r1 r2 = r2
  u1 = u1 u2 = u2
  e1 = e1 e2 = e2 e3 = e3
  p1 = p1 p2 = p2
  None = None
  Requests = {r1, r2}
  Users = {u1}
  Emails = {e1, e2}
  Passwords = {p1, p2}
  Home <- HomeOfOne
  Remembered = 1
  Commands = {"requestReset", "reset", "change", "requestEmail", "changeEmail"}
  MaxCodes = 1
  MaxPasswords = 3
  MayAbort = TRUE
INVARIANTS
  TypeOK
  ResetsAreAudited
  ChangerKnewPassword
  LatestPasswordStands
  ResetCodesWorkOnce
  RecentChangesBarred
SYMMETRY Symmetry
CHECK_DEADLOCK FALSE
