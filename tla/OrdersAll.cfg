SPECIFICATION Spec
CONSTANTS
  Ids = {c1, c2}
  MaxShares = 1
  MaxOrders = 3
  MaxCum = 1
  MaxRestarts = 2
SYMMETRY Symmetry
INVARIANTS
  TypeOK
  BooksAgree
  FillsTold
  OpenWasSent
  SentIsKnown
  RecoveryStopsAtReuse
PROPERTIES
  SentAgain
CHECK_DEADLOCK FALSE
