SPECIFICATION FairSpec
CONSTANTS
  Jobs <- TenantJobs
  Workers <- TenantWorkers
  JobQueueOf <- TenantJobQueueOf
  Subscribed <- TenantSubscribed
  Handles <- TenantHandles
  Scoped <- TenantScoped
  Platform <- TenantPlatform
  Attempts = 2
  MaxCrashes = 2
INVARIANT EffectMatchesOutcome
PROPERTY JobsSettle
