SPECIFICATION Spec
CONSTANTS
  r1 = r1
  r2 = r2
  Requests = {r1, r2}
  Allowed = 2
  Commands = {"login", "unlock", "resend", "reset"}
  Passwords = {TRUE, FALSE}
  MaxCodes = 2
  UrlMayBeMissing = TRUE
  MayAbort = TRUE
  MayLoseMail = TRUE
SYMMETRY Symmetry
INVARIANTS
  TypeOK
  LockMatchesCounter
  SignInSawUnlocked
  MailedCodesWereStored
  NeverOvercounts
  CounterIsExact
  UsedCodesAreGone
  LockedAccountHasCode
PROPERTIES
  LockLiftedOnlyByCode
  LockedOnlyByWrongPassword
