SPECIFICATION FairSpec
CONSTANTS
  Subs = {s1}
  Renewals = {a1, a2}
  Manual = {m1}
  Requests = {r1, r2}
  FirstEnds = {0}
  Year = 2
  Lead = 1
  Grace = 1
  Week = 2
  PreTouches = {1}
  MaxNow = 2
  MaxMoves = 1
INVARIANTS TermIsPaid DunnedOnce ServiceFollowsSubscription
PROPERTY OverdueDegrades
