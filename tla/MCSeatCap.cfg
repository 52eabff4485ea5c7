SPECIFICATION Spec
CONSTANTS
  r1 = r1
  r2 = r2
  u2 = u2
  u3 = u3
  Users = {u1, u2, u3}
  Admins = {u1}
  Roles = {x1, x2}
  SystemRoles = {x1}
  Cap = 2
  NoCap = NoCap
  SelfSignup = TRUE
  Requests = {r1, r2}
  NoRequest = NoRequest
  MaxVersion = 1
PROPERTIES PromotionsFit ChangeRevokesTokens
SYMMETRY Symmetry
