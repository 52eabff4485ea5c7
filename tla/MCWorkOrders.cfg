SPECIFICATION Spec
CONSTANTS
  Steps = {s1, s2}
  NoStep = NoStep
  Subcontracts = {c1}
  Requests = {r1, r2}
  WorkOrder = WorkOrder
  MaxEvents = 2
  MaxLate = 2
SYMMETRY Symmetry
INVARIANTS
  CompletionIsEarned FlushIsOwed
  LastFinishCompletes AlertedOnce
PROPERTY FinalStaysFinal
