SPECIFICATION Spec
CONSTANTS
  k1 = k1 k2 = k2 k3 = k3 k4 = k4
  a = a b = b
  x = x y = y
  NoKey = NoKey
  Keys = {k1, k2, k3, k4}
  Subjects = {a, b}
  Clients = {x, y}
  Grant <- GrantOfKeys
  Scanners = {s1}
  Redeemers = {r1}
INVARIANTS RevokedAreGone OthersAreKept GoneKeyRevokesNothing ListingIsComplete
SYMMETRY Symmetry
