SPECIFICATION KeySpec
CONSTANTS
  Keys = {k1, k2}
  Targets = {issue, void}
  Bodies = {empty, b1}
  Requests = {r1, r2}
  MaxRuns = 2
SYMMETRY Symmetry
INVARIANTS ReplayIsFaithful AtMostOnce
