SPECIFICATION TenantSpec
CONSTANTS
  t1 = t1
  t2 = t2
  Tenants = {t1, t2}
  Managed = {t1}
  Cap = 1
  MaxAttempts = 2
  MaxEvents = 2
  MaxFaults = 2
  None = None
INVARIANTS
  DemoLimits
  ErasedUnlessLate
PROPERTIES
  DeletesOnlyWhilePurging
  SandboxErased
CHECK_DEADLOCK FALSE
