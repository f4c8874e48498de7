\* One partner, two rotations of its keys, and two copies of a request it signs.  A
\* nonce is kept for as long as a timestamp may be old, as with the default settings.
SPECIFICATION Spec
CONSTANTS
  Partner = {pa}
  Key = {k1, k2, k3}
  Ip = {i1}
  Limit = {1}
  Rotation = {a1, a2}
  Crowd <- SomeOfThem
  NoPartner = NoPartner
  NoKey = NoKey
  Request = {r1}
  Delivery = {d1, d2}
  Second = 1
  Minute = 2
  Skew = 2
  NonceTtl = 2
  RateTtl = 3
  Ahead = 0
  Stall = 1
  Horizon = 3
SYMMETRY Symmetry
INVARIANTS
  GuardTypeOK
  KeepsAKey
  PassesAreApart
  NonceNeedsSignature
  RotatedOutStops
  RateHolds
  LimitedOnlyWhenFull
CHECK_DEADLOCK FALSE
