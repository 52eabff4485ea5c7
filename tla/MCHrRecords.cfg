SPECIFICATION HrSpec
CONSTANTS
  d1 = d1
  d2 = d2
  d3 = d3
  x1 = x1
  e1 = e1
  e2 = e2
  o1 = o1
  p1 = p1
  p2 = p2
  Departments = {d1, d2, d3}
  Positions = {x1}
  Staff = {e1, e2}
  OtRequests = {o1}
  Requested <- MCRequested
  WorkedBy <- MCWorkedBy
  Clock = {1, 3}
  CYCLE_HOP_LIMIT = 4
  HrReqs = {p1, p2}
  MaxOps = 6
  QtyScale = 100
  NoRow = NoRow
INVARIANTS
  OrganisationUnlessRaced
  OtWasWorked
SYMMETRY Symmetry
CHECK_DEADLOCK FALSE
