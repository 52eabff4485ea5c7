------------------------------ MODULE MCJobQueue ------------------------------
(* The tenant queue: one dispatcher, run by two processes, and as jobs an  *)
(* export, a scheduler tick and a job without a tenant.                    *)
EXTENDS JobQueue

TenantJobs == {"export", "sweep", "unscoped"}
TenantWorkers == {"tenant1", "tenant2"}
TenantJobQueueOf == [j \in TenantJobs |-> "tenant"]
TenantSubscribed == [w \in TenantWorkers |-> "tenant"]
TenantHandles == [w \in TenantWorkers |-> TenantJobs]
TenantScoped == {"export"}
TenantPlatform == {"sweep"}
===============================================================================
