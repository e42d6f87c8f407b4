SPECIFICATION Spec
CONSTANTS
  r1 = r1 r2 = r2
  u1 = u1 u2 = u2
  e1 = e1 e2 = e2 e3 = e3
  p1 = p1 p2 = p2
  None = None
  Requests = {r1}
  Users = {u1, u2}
  Emails = {e1, e2, e3}
  Passwords = {p1, p2}
  Home <- HomeOfUsers
  Remembered = 1
  Commands = {"requestEmail", "changeEmail"}
  MaxCodes = 2
  MaxPasswords = 3
  MayAbort = FALSE
INVARIANT AddressesUnique
SYMMETRY Symmetry
CHECK_DEADLOCK FALSE
