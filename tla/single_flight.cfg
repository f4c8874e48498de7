\* One tab that refreshes through the shared promise only: two sessions one after
\* another, two pages and /admin/auth/me, expiry and pruning.
SPECIFICATION CmsSpec
CONSTANTS
  Token = {t1, t2, t3}
  Family = {f1, f2}
  Admin = {a1}
  Call = {c1, c2}
  NoToken = NoToken
  NoFamily = NoFamily
  NoAdmin = NoAdmin
  NoCall = NoCall
  NoTab = NoTab
  Tab = {x1}
  Page = {q1, q2}
  Me = {me1}
  Triggers = {"interceptor"}
  Trouble = {"days"}
SYMMETRY Symmetry
PROPERTIES
  StaysSignedIn
CHECK_DEADLOCK FALSE
