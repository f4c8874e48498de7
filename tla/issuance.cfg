\* Callbacks, polls and manual reconciles of one order racing each other and
\* the createOrder call; PVI may issue at once and issue again.
SPECIFICATION Spec
CONSTANTS
  Partner = {pa}
  Key = {k}
  MaGiaodich = {m1, mf}
  PolicyNumber = {n1, n2, n3}
  MaxAttempts = 2
  AttemptCap = 2
  Request = {r1}
  Handler = {h1, h2}
  Process = {p1}
  Pass = {}
  Session = {}
  HomeOf <- OneProcess
  DepthCap = 1
  PayFirst = FALSE
  Foreign = {mf}
  NoMa = NoMa
  NoPolicy = NoPolicy
  NoOwner = NoOwner
  NoSession = NoSession
  p1 = p1
  p2 = p2
  s1 = s1
  s2 = s2
  c1 = c1
  c2 = c2
SYMMETRY Symmetry
INVARIANTS
  RecordedPolicyIsReal
  CallbackFindsItsOrder
  AckedPolicyIsKept
PROPERTIES
  PolicyNeverErased
CHECK_DEADLOCK FALSE
