\* One tab with all its refreshes, /admin/auth/me and logout over two sessions;
\* requests, statements and connections fail, and the throttle answers 429.
SPECIFICATION CmsSpec
CONSTANTS
  Token = {t1, t2, t3}
  Family = {f1, f2}
  Admin = {a1}
  Call = {c1, c2}
  NoToken = NoToken
  NoFamily = NoFamily
  NoAdmin = NoAdmin
  NoCall = NoCall
  NoTab = NoTab
  Tab = {x1}
  Page = {}
  Me = {me1}
  Triggers = {"interceptor", "timer", "visible"}
  Trouble = {"errors", "throttle"}
SYMMETRY Symmetry
INVARIANTS
  CmsTypeOK
  AuthedKeepsRefreshing
PROPERTIES
  IsATokenClient
  StaysSignedIn
CHECK_DEADLOCK FALSE
