-------------------------- MODULE TenantLifecycle --------------------------
(***************************************************************************)
(* The life of a tenant: provisioning, status changes, PDPA export and     *)
(* purge (apps/api/src/platform), and the per-guest sandboxes of the       *)
(* public demo (apps/api/src/demo): the capped sign-up, the end of a demo, *)
(* the idle sweep and the purge job.                                       *)
(*                                                                         *)
(* A request passes TenantStatusGuard once, at its start, and may commit   *)
(* after the tenant has become PURGING.  A purge reads the status once and *)
(* then deletes in several transactions; an attempt that throws starts     *)
(* again at its first step.  tenant.purge is enqueued inside the open      *)
(* transaction that flips the status, demo.purge by a hook after COMMIT    *)
(* that is lost when the process dies.  Every tenant row references the    *)
(* tenant, so the tenant row cannot go while one of them is left.          *)
(***************************************************************************)
EXTENDS Integers, Sequences, FiniteSets

CONSTANTS
  Tenants,       \* tenant ids; each is used once
  Managed,       \* bound: the tenants whose life goes on after provisioning
  Cap,           \* DEMO_MAX_CONCURRENT_SANDBOXES
  MaxAttempts,   \* attempts of a job before it is dead-lettered
  MaxEvents,     \* bound: tenant requests and purge requests
  MaxFaults,     \* bound: throws, crashes, lost hooks and rollbacks
  None

ASSUME TenantAssumptions ==
  /\ IsFiniteSet(Tenants) /\ None \notin Tenants /\ Managed \subseteq Tenants
  /\ Cap \in Nat /\ MaxAttempts \in Nat \ {0}
  /\ MaxEvents \in Nat /\ MaxFaults \in Nat

VARIABLES
  kind,        \* tenant.kind, fixed at provisioning
  status,      \* tenant.status; "NONE" before and "GONE" after the row exists
  rows,        \* which of the tenant's rows exist: "business", "users"
  objects,     \* tenants with an object under their storage prefix
  consent,     \* sandboxes with demo_lead_consented_at set
  leads,       \* number of demo_lead rows captured from a tenant
  optIns,      \* history: number of opt-ins a guest has given
  job,         \* the purge job of each queue and tenant (stable job id)
  work,        \* what each queue's worker does: tenant and next step
  exporting,   \* tenants with a tenant.export job pending
  req,         \* the tenant request in flight
  capTx,       \* sandbox being created under the advisory lock
  purgeTx,     \* tenant whose row an open requestPurge holds
  events, faults,  \* bounded events and faults so far
  reactivated,     \* history: sandboxes an administrator set ACTIVE again
  late             \* history: tenants that stored an object once PURGING

tenantVars == <<kind, status, rows, objects, consent, leads, optIns, job, work,
                exporting, req, capTx, purgeTx, events, faults, reactivated, late>>

-----------------------------------------------------------------------------
Kind == {"CUSTOMER", "DEMO_SANDBOX"}
Status == {"NONE", "ACTIVE", "READ_ONLY", "SUSPENDED", "PURGING", "GONE"}
Queue == {"tenant", "demo"}
Ops == {"write", "upload", "optIn", "optOut", "end", "export"}
Sandboxes == {t \in Tenants : kind[t] = "DEMO_SANDBOX"}
Exists(t) == status[t] \notin {"NONE", "GONE"}

(* The steps of runPurge, in order.                                        *)
PurgePlan == [tenant |-> <<"check", "bulk", "tail", "objects", "row">>,
              demo |-> <<"check", "bulk", "objects", "lead", "tail", "row">>]

TenantTypeOK ==
  /\ kind \in [Tenants -> Kind]
  /\ status \in [Tenants -> Status]
  /\ rows \in [Tenants -> SUBSET {"business", "users"}]
  /\ objects \subseteq Tenants /\ consent \subseteq Sandboxes
  /\ leads \in [Tenants -> Nat] /\ optIns \in [Tenants -> Nat]
  /\ job \in [Queue -> [Tenants ->
       [state : {"none", "waiting", "active", "completed", "failed"},
        tries : 0 .. MaxAttempts]]]
  /\ work \in [Queue -> [t : Tenants, at : Nat] \cup {None}]
  /\ exporting \subseteq Tenants
  /\ req \in [t : Tenants, op : Ops] \cup {None}
  /\ capTx \in SUBSET Sandboxes
  /\ purgeTx \in Tenants \cup {None}
  /\ events \in 0 .. MaxEvents /\ faults \in 0 .. MaxFaults
  /\ reactivated \subseteq Tenants /\ late \subseteq Tenants

NoJob == [state |-> "none", tries |-> 0]

TenantInit ==
  /\ kind \in [Tenants -> Kind]
  /\ status = [t \in Tenants |-> "NONE"]
  /\ rows = [t \in Tenants |-> {}]
  /\ objects = {} /\ consent = {}
  /\ leads = [t \in Tenants |-> 0] /\ optIns = [t \in Tenants |-> 0]
  /\ job = [q \in Queue |-> [t \in Tenants |-> NoJob]]
  /\ work = [q \in Queue |-> None]
  /\ exporting = {}
  /\ req = None /\ capTx = {} /\ purgeTx = None
  /\ events = 0 /\ faults = 0
  /\ reactivated = {} /\ late = {}

(* One of the bounded events, or of the bounded faults, happens.           *)
Event == events < MaxEvents /\ events' = events + 1
Fault == faults < MaxFaults /\ faults' = faults + 1

Unlocked(t) == purgeTx # t

-----------------------------------------------------------------------------
(* Provisioning.                                                           *)

(* provisionTenant: the row, the defaults and the first administrator in   *)
(* one transaction.                                                        *)
provisionTenant(t) ==
  /\ kind[t] = "CUSTOMER"
  /\ status[t] = "NONE"
  /\ status' = [status EXCEPT ![t] = "ACTIVE"]
  /\ rows' = [rows EXCEPT ![t] = {"business", "users"}]
  /\ UNCHANGED <<kind, objects, consent, leads, optIns, job, work, exporting,
                 req, capTx, purgeTx, events, faults, reactivated, late>>

activeSandboxes == Cardinality({t \in Sandboxes : status[t] = "ACTIVE"})

(* Mutant: the sandboxes are counted without the advisory lock.            *)
CountUnlocked(t) ==
  /\ t \in Sandboxes \ capTx
  /\ status[t] = "NONE"
  /\ activeSandboxes < Cap
  /\ capTx' = capTx \cup {t}
  /\ UNCHANGED <<kind, status, rows, objects, consent, leads, optIns, job,
                 work, exporting, req, purgeTx, events, faults, reactivated,
                 late>>

(* createSandbox: the advisory lock is taken, and 503 at the cap.          *)
CountUnderLock(t) ==
  /\ t \in Sandboxes
  /\ capTx = {}
  /\ status[t] = "NONE"
  /\ activeSandboxes < Cap
  /\ capTx' = {t}
  /\ UNCHANGED <<kind, status, rows, objects, consent, leads, optIns, job,
                 work, exporting, req, purgeTx, events, faults, reactivated,
                 late>>

(* ... and the whole sandbox and its session appear at COMMIT, or nothing. *)
createSandbox(t) ==
  /\ t \in capTx
  /\ capTx' = capTx \ {t}
  /\ \/ /\ status' = [status EXCEPT ![t] = "ACTIVE"]
        /\ rows' = [rows EXCEPT ![t] = {"business", "users"}]
        /\ UNCHANGED faults
     \/ /\ Fault
        /\ UNCHANGED <<status, rows>>
  /\ UNCHANGED <<kind, objects, consent, leads, optIns, job, work, exporting,
                 req, purgeTx, events, reactivated, late>>

(* Mutant: a purge can be called off.                                      *)
TransitionsOutOfPurge ==
  [ACTIVE |-> {"READ_ONLY"}, READ_ONLY |-> {"ACTIVE", "SUSPENDED"},
   SUSPENDED |-> {"READ_ONLY"}, PURGING |-> {"SUSPENDED"}, NONE |-> {}, GONE |-> {}]

STATUS_TRANSITIONS ==
  [ACTIVE |-> {"READ_ONLY"}, READ_ONLY |-> {"ACTIVE", "SUSPENDED"},
   SUSPENDED |-> {"READ_ONLY"}, PURGING |-> {}, NONE |-> {}, GONE |-> {}]

(* setStatus under the tenant's row lock; it does not look at the kind.    *)
setStatus(t, to) ==
  /\ Unlocked(t)
  /\ to \in STATUS_TRANSITIONS[status[t]]
  /\ status' = [status EXCEPT ![t] = to]
  /\ reactivated' = IF to = "ACTIVE" THEN reactivated \cup {t} ELSE reactivated
  /\ UNCHANGED <<kind, rows, objects, consent, leads, optIns, job, work,
                 exporting, req, capTx, events, purgeTx, faults, late>>

-----------------------------------------------------------------------------
(* Tenant requests.                                                        *)

(* What TenantStatusGuard lets through, and what each route asks of it.    *)
Allowed(t, op) ==
  \/ op \in {"write", "upload"} /\ status[t] = "ACTIVE"
  \/ op \in {"optIn", "optOut", "end"} /\ status[t] = "ACTIVE" /\ t \in Sandboxes
  \/ op = "export" /\ status[t] \in {"ACTIVE", "READ_ONLY"}

BeginRequest(t, op) ==
  /\ req = None
  /\ Event
  /\ Allowed(t, op)
  /\ req' = [t |-> t, op |-> op]
  /\ UNCHANGED <<kind, status, rows, objects, consent, leads, optIns, job,
                 work, exporting, capTx, purgeTx, faults, reactivated, late>>

(* enqueue, enqueuePurge: a waiting or running job absorbs the call, a     *)
(* finished or dead one is replaced.                                       *)
Enqueued(q, t) ==
  IF job[q][t].state \in {"waiting", "active"} THEN job
  ELSE [job EXCEPT ![q][t] = [state |-> "waiting", tries |-> 0]]

(* beginPurge: the conditional UPDATE, or the re-read that finds PURGING;  *)
(* then the after-commit hook enqueues the job, or dies with its process.  *)
beginPurge(t) ==
  /\ status' = IF t \in Sandboxes /\ status[t] = "ACTIVE"
                 THEN [status EXCEPT ![t] = "PURGING"] ELSE status
  /\ \/ /\ job' = IF t \in Sandboxes /\ status[t] \in {"ACTIVE", "PURGING"}
                    THEN Enqueued("demo", t) ELSE job
        /\ UNCHANGED faults
     \/ /\ Fault
        /\ UNCHANGED job

(* The rows of a request commit while the tenant row exists (its foreign   *)
(* key); storage.put asks nobody.                                          *)
FinishRequest ==
  LET t == req.t
      op == req.op
      stored == op = "upload"
      inserted == op \in {"write", "upload"} /\ Exists(t)
      updated == Exists(t) /\ t \in Sandboxes
  IN /\ req # None
     /\ op \in {"optIn", "optOut", "end"} => Unlocked(t)
     /\ objects' = IF stored THEN objects \cup {t} ELSE objects
     /\ late' = IF stored /\ status[t] \in {"PURGING", "GONE"} THEN late \cup {t} ELSE late
     /\ rows' = IF inserted THEN [rows EXCEPT ![t] = @ \cup {"business"}] ELSE rows
     /\ consent' = IF op = "optIn" /\ updated THEN consent \cup {t}
                   ELSE IF op = "optOut" THEN consent \ {t} ELSE consent
     /\ optIns' = IF op = "optIn" /\ updated THEN [optIns EXCEPT ![t] = @ + 1] ELSE optIns
     /\ IF op = "end" THEN beginPurge(t) ELSE UNCHANGED <<status, job, faults>>
     /\ exporting' = IF op = "export" /\ status[t] # "PURGING" /\ Exists(t)
                       THEN exporting \cup {t} ELSE exporting
     /\ req' = None
     /\ UNCHANGED <<kind, leads, work, capTx, purgeTx, events, reactivated>>

(* The request fails and its transaction rolls back.                       *)
AbortRequest ==
  /\ req # None
  /\ Fault
  /\ req' = None
  /\ UNCHANGED <<kind, status, rows, objects, consent, leads, optIns, job,
                 work, exporting, capTx, purgeTx, events, reactivated, late>>

(* runExport does not look at the status; it ends with a stored archive.   *)
runExport(t) ==
  /\ t \in exporting
  /\ exporting' = exporting \ {t}
  /\ objects' = objects \cup {t}
  /\ late' = IF status[t] \in {"PURGING", "GONE"} THEN late \cup {t} ELSE late
  /\ UNCHANGED <<kind, status, rows, consent, leads, optIns, job, work, req,
                 capTx, purgeTx, events, faults, reactivated>>

-----------------------------------------------------------------------------
(* Purge: the producers.                                                   *)

(* requestPurge: under the row lock; the job is on Redis before COMMIT.    *)
requestPurge(t) ==
  /\ purgeTx = None
  /\ status[t] \in {"SUSPENDED", "PURGING"}
  /\ purgeTx' = t
  /\ job' = Enqueued("tenant", t)
  /\ Event
  /\ UNCHANGED <<kind, status, rows, objects, consent, leads, optIns, work,
                 exporting, req, capTx, faults, reactivated, late>>

PurgeCommit ==
  /\ purgeTx # None
  /\ purgeTx' = None
  /\ \/ /\ status' = [status EXCEPT ![purgeTx] = "PURGING"]
        /\ UNCHANGED faults
     \/ /\ Fault
        /\ UNCHANGED status
  /\ UNCHANGED <<kind, rows, objects, consent, leads, optIns, job, work,
                 exporting, req, capTx, events, reactivated, late>>

(* sweep: an ACTIVE sandbox that idlePurgeReason finds idle or without a   *)
(* session; time decides which.                                            *)
SweepIdle(t) ==
  /\ t \in Sandboxes
  /\ status[t] = "ACTIVE"
  /\ Unlocked(t)
  /\ beginPurge(t)
  /\ UNCHANGED <<kind, rows, objects, consent, leads, optIns, work, exporting,
                 req, capTx, purgeTx, events, reactivated, late>>

(* Mutant: a dead-lettered job counts as a live one.                       *)
SweepRequeueUnknown(t) ==
  /\ t \in Sandboxes
  /\ status[t] = "PURGING"
  /\ job["demo"][t].state = "none"
  /\ job' = Enqueued("demo", t)
  /\ UNCHANGED <<kind, status, rows, objects, consent, leads, optIns, work,
                 exporting, req, capTx, purgeTx, events, faults, reactivated,
                 late>>

(* sweep: a PURGING sandbox without a live job (hasLiveJob) gets one.      *)
SweepRequeue(t) ==
  /\ t \in Sandboxes
  /\ status[t] = "PURGING"
  /\ job["demo"][t].state \notin {"waiting", "active"}
  /\ job' = Enqueued("demo", t)
  /\ UNCHANGED <<kind, status, rows, objects, consent, leads, optIns, work,
                 exporting, req, capTx, purgeTx, events, faults, reactivated,
                 late>>

-----------------------------------------------------------------------------
(* Purge: the job bodies.                                                  *)

TakeJob(q, t) ==
  /\ work[q] = None
  /\ job[q][t].state = "waiting"
  /\ job' = [job EXCEPT ![q][t] = [state |-> "active", tries |-> @.tries + 1]]
  /\ work' = [work EXCEPT ![q] = [t |-> t, at |-> 1]]
  /\ UNCHANGED <<kind, status, rows, objects, consent, leads, optIns,
                 exporting, req, capTx, purgeTx, events, faults, reactivated,
                 late>>

(* The job is done with.                                                   *)
Complete(q, t) ==
  /\ job' = [job EXCEPT ![q][t] = [state |-> "completed", tries |-> 0]]
  /\ work' = [work EXCEPT ![q] = None]

(* The attempt throws or its worker dies: retried until the attempts are   *)
(* used up, then kept as failed.                                           *)
Retry(q, t) ==
  /\ job' = [job EXCEPT ![q][t] =
               IF @.tries < MaxAttempts THEN [@ EXCEPT !.state = "waiting"]
                                        ELSE [state |-> "failed", tries |-> 0]]
  /\ work' = [work EXCEPT ![q] = None]

Advance(q) == work' = [work EXCEPT ![q].at = @ + 1] /\ UNCHANGED job

StepOf(q) == PurgePlan[q][work[q].at]

(* The first step reads the status; nothing is deleted unless PURGING.     *)
PurgeCheck(q) ==
  LET t == work[q].t
  IN /\ work[q] # None
     /\ StepOf(q) = "check"
     /\ IF status[t] = "PURGING" THEN Advance(q) ELSE Complete(q, t)
     /\ UNCHANGED <<kind, status, rows, objects, consent, leads, optIns,
                    exporting, req, capTx, purgeTx, events, faults,
                    reactivated, late>>

(* The sessions are among the business rows.                               *)
PurgeBulk(q) ==
  LET t == work[q].t
  IN /\ work[q] # None
     /\ StepOf(q) = "bulk"
     /\ rows' = [rows EXCEPT ![t] = @ \ {"business"}]
     /\ Advance(q)
     /\ UNCHANGED <<kind, status, objects, consent, leads, optIns, exporting,
                    req, capTx, purgeTx, events, faults, reactivated, late>>

(* Mutant: the storage step forgets the prefix.                            *)
PurgeObjectsNot(q) ==
  /\ work[q] # None
  /\ StepOf(q) = "objects"
  /\ Advance(q)
  /\ UNCHANGED <<kind, status, rows, objects, consent, leads, optIns,
                 exporting, req, capTx, purgeTx, events, faults, reactivated,
                 late>>

PurgeObjects(q) ==
  /\ work[q] # None
  /\ StepOf(q) = "objects"
  /\ objects' = objects \ {work[q].t}
  /\ Advance(q)
  /\ UNCHANGED <<kind, status, rows, consent, leads, optIns, exporting, req,
                 capTx, purgeTx, events, faults, reactivated, late>>

(* captureLead: the guest's email comes from the identity or user row; the *)
(* consent is spent either way, in the same transaction.                   *)
captureLead(q) ==
  LET t == work[q].t
  IN /\ work[q] # None
     /\ StepOf(q) = "lead"
     /\ leads' = IF t \in consent /\ "users" \in rows[t]
                   THEN [leads EXCEPT ![t] = @ + 1] ELSE leads
     /\ consent' = consent \ {t}
     /\ Advance(q)
     /\ UNCHANGED <<kind, status, rows, objects, optIns, exporting, req, capTx,
                    purgeTx, events, faults, reactivated, late>>

(* Identity and user rows; a row a late request inserted may refer to the  *)
(* user, and then the delete throws.                                       *)
PurgeTail(q) ==
  LET t == work[q].t
  IN /\ work[q] # None
     /\ StepOf(q) = "tail"
     /\ \/ rows' = [rows EXCEPT ![t] = @ \ {"users"}] /\ Advance(q)
        \/ "business" \in rows[t] /\ UNCHANGED rows /\ Retry(q, t)
     /\ UNCHANGED <<kind, status, objects, consent, leads, optIns, exporting,
                    req, capTx, purgeTx, events, faults, reactivated, late>>

(* The tenant row, unless a row still refers to it.                        *)
PurgeRow(q) ==
  LET t == work[q].t
  IN /\ work[q] # None
     /\ StepOf(q) = "row"
     /\ Unlocked(t)
     /\ IF Exists(t) /\ rows[t] # {}
          THEN Retry(q, t) /\ UNCHANGED <<status, consent>>
          ELSE /\ Complete(q, t)
               /\ status' = [status EXCEPT ![t] = "GONE"]
               /\ consent' = consent \ {t}
     /\ UNCHANGED <<kind, rows, objects, leads, optIns, exporting, req, capTx,
                    purgeTx, events, faults, reactivated, late>>

PurgeStep(q) ==
  \/ PurgeCheck(q) \/ PurgeBulk(q) \/ PurgeObjects(q)
  \/ captureLead(q) \/ PurgeTail(q) \/ PurgeRow(q)

WorkerFails(q) ==
  /\ work[q] # None
  /\ Fault
  /\ Retry(q, work[q].t)
  /\ UNCHANGED <<kind, status, rows, objects, consent, leads, optIns,
                 exporting, req, capTx, purgeTx, events, reactivated, late>>

-----------------------------------------------------------------------------
TenantNext ==
  \/ \E t \in Tenants : provisionTenant(t) \/ CountUnderLock(t) \/ createSandbox(t)
  \/ \E t \in Managed :
       \/ \E to \in Status : setStatus(t, to)
       \/ \E op \in Ops : BeginRequest(t, op)
       \/ runExport(t)
       \/ requestPurge(t)
       \/ SweepIdle(t)
       \/ SweepRequeue(t)
       \/ \E q \in Queue : TakeJob(q, t)
  \/ FinishRequest
  \/ AbortRequest
  \/ PurgeCommit
  \/ \E q \in Queue : PurgeStep(q)
  \/ \E q \in Queue : WorkerFails(q)

(* The sweep is a repeatable job, a worker takes what waits and goes on;   *)
(* the row delete queues for the tenant's row lock, which Postgres grants  *)
(* in order; open transactions end.                                        *)
Fairness ==
  /\ \A t \in Managed : WF_tenantVars(SweepRequeue(t)) /\ SF_tenantVars(TakeJob("demo", t))
  /\ SF_tenantVars(PurgeStep("demo"))
  /\ WF_tenantVars(FinishRequest \/ AbortRequest)
  /\ WF_tenantVars(PurgeCommit)

TenantSpec == TenantInit /\ [][TenantNext]_tenantVars /\ Fairness

-----------------------------------------------------------------------------
(* "concurrent first-time callbacks near the cap can never overshoot it":  *)
(* never more ACTIVE sandboxes than the cap, not counting the ones an      *)
(* administrator set ACTIVE again, which setStatus does not count          *)
(* (DemoProvisioningService.createSandbox).                                *)
SandboxCap ==
  Cardinality({t \in Sandboxes \ reactivated : status[t] = "ACTIVE"}) <= Cap

(* Nothing of a tenant is ever deleted unless it is PURGING: no order of   *)
(* purge requests, rollbacks, retries, status changes and sweeps makes a   *)
(* worker delete from a tenant in service (the status is read once, at the *)
(* start of runPurge).                                                     *)
DeletesOnlyWhilePurging ==
  [][\A t \in Tenants :
       (~ rows[t] \subseteq rows'[t] \/ (t \in objects /\ t \notin objects'))
         => status[t] \in {"PURGING", "GONE"}]_tenantVars

(* A guest becomes a lead at most once per consent given, also when the    *)
(* purge is retried, run by two workers' attempts, or the guest answers    *)
(* again while it runs (DemoPurgeService.captureLead).                     *)
LeadOncePerConsent == \A t \in Tenants : leads[t] <= optIns[t]

(* Overlapping callbacks, sweeps and purges never exceed what the demo may *)
(* do: sandboxes up to the cap, one lead per consent.                      *)
DemoLimits == SandboxCap /\ LeadOncePerConsent

(* When the tenant row is gone, so is everything else: no row and no       *)
(* object is left, unless an upload or an export that had passed its check *)
(* stored its object after the tenant became PURGING (runPurge).           *)
ErasedUnlessLate ==
  \A t \in Tenants :
    status[t] = "GONE" => rows[t] = {} /\ t \notin consent /\ (t \in late \/ t \notin objects)

(* A sandbox that is PURGING is erased: the sweep finds what a lost hook   *)
(* or a dead-lettered job has left behind (DemoSweepService.sweep).        *)
SandboxErased ==
  \A t \in Managed :
    (kind[t] = "DEMO_SANDBOX" /\ status[t] = "PURGING") ~> (status[t] = "GONE")
=============================================================================
