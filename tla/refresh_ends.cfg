\* Liveness of the shared promise: a logout and /admin/auth/me wait for it together;
\* requests, statements and connections fail, and the admin logs out elsewhere.
SPECIFICATION CmsFairSpec
CONSTANTS
  Token = {t1, t2}
  Family = {f1}
  Admin = {a1}
  Call = {c1, c2}
  NoToken = NoToken
  NoFamily = NoFamily
  NoAdmin = NoAdmin
  NoCall = NoCall
  NoTab = NoTab
  Tab = {x1}
  Page = {}
  Me = {me1}
  Triggers = {"interceptor"}
  Trouble = {"errors", "elsewhere"}
PROPERTIES
  RefreshEnds
CHECK_DEADLOCK FALSE
