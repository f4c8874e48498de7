\* A day and a half of orders for yesterday, today and tomorrow; four rows in pages of
\* one or two; three downloads of a certificate that has two URLs.
SPECIFICATION ApartSpec
CONSTANTS
  Minute = 2
  Hour = 4
  Day = 12
  VnOffset = 4
  Body <- MCBody
  Impossible = Impossible
  Garbled = Garbled
  Past = Past
  NoBody = NoBody
  Sunrise = 6
  Sunset = 24
  Lag = 2
  Document = {d1, d2}
  Length <- Lengths
  Blocks = 3
  Download = {g1, g2, g3}
  NoDocument = NoDocument
  Hole = Hole
  Row = {1, 2, 3, 4}
  Limit <- Limits
  DefaultTake = 1
  MaxTake = 2
  Horizon = 1
  CommitLag = 1
  NoCursor = NoCursor
SYMMETRY Symmetry
INVARIANTS
  StartTypeOK
  TermIsKept
  BeginsAsAsked
  TodayIsNotPast
  ProductsAgree
  ListedInOrder
  NothingSkipped
  FileIsWhole
  ServedWhole
CHECK_DEADLOCK FALSE
