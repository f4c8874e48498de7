\* Everything at once, on two server processes: a request, a handler and two passes
\* that need not exclude each other, over two sessions.
SPECIFICATION Spec
CONSTANTS
  Partner = {pa}
  Key = {k}
  MaGiaodich = {m1, m2}
  PolicyNumber = {n1}
  MaxAttempts = 2
  AttemptCap = 3
  Request = {r1}
  Handler = {h1}
  Process = {p1, p2}
  Pass = {c1, c2}
  Session = {s1, s2}
  HomeOf <- TwoProcesses
  DepthCap = 2
  PayFirst = TRUE
  Foreign = {}
  NoMa = NoMa
  NoPolicy = NoPolicy
  NoOwner = NoOwner
  NoSession = NoSession
  p1 = p1
  p2 = p2
  s1 = s1
  s2 = s2
  c1 = c1
  c2 = c2
SYMMETRY Symmetry
INVARIANTS
  TypeOK
  StatusIsEarned
  TimeoutIsEarned
  PendingKeepsAttempts
CHECK_DEADLOCK FALSE
