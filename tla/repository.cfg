SPECIFICATION FairSpec
CONSTANTS
  Sessions = {s1, s2}
  Users = {u1, u2}
  Rows = {1, 2}
  Objects <- TwoObjects
  NoCall = NoCall
  NoSession = NoSession
  MayFail = TRUE
INVARIANTS TypeOK UsersAreWhole
PROPERTIES Implements CallsEnd
