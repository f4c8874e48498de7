\* Liveness: the cron settles every pending order; one process whose pool holds
\* two sessions.
SPECIFICATION FairSpec
CONSTANTS
  Partner = {pa}
  Key = {k}
  MaGiaodich = {m1}
  PolicyNumber = {n1}
  MaxAttempts = 2
  AttemptCap = 2
  Request = {r1}
  Handler = {h1}
  Process = {p1}
  Pass = {c1}
  Session = {s1, s2}
  HomeOf <- OneProcess
  DepthCap = 2
  PayFirst = TRUE
  Foreign = {}
  NoMa = NoMa
  NoPolicy = NoPolicy
  NoOwner = NoOwner
  NoSession = NoSession
  p1 = p1
  p2 = p2
  s1 = s1
  s2 = s2
  c1 = c1
  c2 = c2
PROPERTIES
  PendingIsSettled
CHECK_DEADLOCK FALSE
