SPECIFICATION Spec
CONSTANTS
  r1 = r1
  r2 = r2
  e1 = e1
  a1 = a1
  p1 = p1
  p2 = p2
  Runs = {r1, r2}
  Employees = {e1}
  Advances = {a1}
  OwnerOf <- MCOwnerOf
  Amount <- MCAmount
  Installments <- MCInstallments
  CeilingPct <- MCCeilingPct
  Salaries = {4, 6}
  Reqs = {p1, p2}
  Jobs = {1}
  Budget = 3
  None = None
  QtyScale = 100
INVARIANTS
  AdvancesBalance
  PdfShowsPayslip
PROPERTY
  FrozenUnlessRaced
SYMMETRY Symmetry
CHECK_DEADLOCK FALSE
