SPECIFICATION Spec
CONSTANTS
  Receipts = {g1}
  Issues = {i1}
  Adjustments = {a1}
  WorkOrders = {w1}
  Counts = {c1}
  NoCount = NoCount
  Balance = Balance
  Requests = {r1, r2}
  Qtys = {1}
  Consumed = 1
  MinStock = 1
  AllowNegative = FALSE
  MaxMovements = 3
SYMMETRY Symmetry
INVARIANTS
  CacheIsPartialReplay LedgerAgreesUnlessRaced PostedOnce
PROPERTIES PostingRules
CHECK_DEADLOCK FALSE
