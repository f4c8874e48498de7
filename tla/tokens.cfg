\* Two concurrent calls of any client over two sessions and three tokens.
SPECIFICATION TokenSpec
CONSTANTS
  Token = {t1, t2, t3}
  Family = {f1, f2}
  Admin = {a1}
  Call = {c1, c2}
  NoToken = NoToken
  NoFamily = NoFamily
  NoAdmin = NoAdmin
SYMMETRY Symmetry
INVARIANTS
  TokensTypeOK
  ReplacementsAreChained
PROPERTIES
  DeadStaysDead
CHECK_DEADLOCK FALSE
