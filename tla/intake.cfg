\* Parallel and repeated order requests of two partners with two keys each,
\* no other handler: three requests in flight, three order ids.
SPECIFICATION Spec
CONSTANTS
  Partner = {pa, pb}
  Key = {k1, k2}
  MaGiaodich = {m1, m2, m3}
  PolicyNumber = {}
  MaxAttempts = 2
  AttemptCap = 2
  Request = {r1, r2, r3}
  Handler = {}
  Process = {p1}
  Pass = {}
  Session = {}
  HomeOf <- OneProcess
  DepthCap = 1
  PayFirst = TRUE
  Foreign = {}
  NoMa = NoMa
  NoPolicy = NoPolicy
  NoOwner = NoOwner
  NoSession = NoSession
  p1 = p1
  p2 = p2
  s1 = s1
  s2 = s2
  c1 = c1
  c2 = c2
SYMMETRY Symmetry
INVARIANTS
  OrderInv
  AtMostOncePerKey
  SameKeySameOrder
  OneOrderOneKey
  PrKeyMeansTaken
PROPERTIES
  KeepsPromise
CHECK_DEADLOCK FALSE
