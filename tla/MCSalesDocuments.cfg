SPECIFICATION Spec
CONSTANTS
  i1 = i1
  i2 = i2
  Invoices = {i1, i2}
  Quotes = {q1}
  NoQuote = NoQuote
  Stocked = {i1}
  Requests = {r1, r2}
  QuoteSubtotal = 3
  Amounts = {2}
  MaxPaid <- MCMaxPaid
SYMMETRY Symmetry
CHECK_DEADLOCK FALSE
INVARIANTS
  ReceiptWithFirstPayment PaidIsCovered StockLeavesOnce StockIsOwed
  ConsistentUnlessRaced
PROPERTIES SettledIsFinal
