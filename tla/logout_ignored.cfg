\* One login and one logout.
SPECIFICATION CmsSpec
CONSTANTS
  Token = {t1, t2, t3}
  Family = {f1}
  Admin = {a1}
  Call = {c1, c2}
  NoToken = NoToken
  NoFamily = NoFamily
  NoAdmin = NoAdmin
  NoCall = NoCall
  NoTab = NoTab
  Tab = {x1}
  Page = {}
  Me = {me1}
  Triggers = {"interceptor", "timer", "visible"}
  Trouble = {}
SYMMETRY Symmetry
INVARIANTS
  LogoutEndsSession
CHECK_DEADLOCK FALSE
