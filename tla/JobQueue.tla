------------------------------- MODULE JobQueue -------------------------------
(***************************************************************************)
(* Background jobs: the named BullMQ queues (queue/queue.constants.ts),    *)
(* the workers that subscribe to them and dispatch on the job's name,      *)
(* tenant scoping (tenancy/with-tenant-job.ts), retries, crashes, and the  *)
(* drain at shutdown (queue/worker-drain.service.ts).                      *)
(*                                                                         *)
(* Redis and BullMQ are external: a waiting job goes to any idle worker of *)
(* its queue, a handler that throws is retried up to Attempts times, and a *)
(* job whose worker died is put back once, then failed.                    *)
(***************************************************************************)
EXTENDS Integers, FiniteSets

CONSTANTS
  Jobs,       \* job ids, each enqueued at most once
  Workers,    \* worker hosts of all running processes
  JobQueueOf, \* the queue each job is added to
  Subscribed, \* the queue each worker is a @Processor of
  Handles,    \* per worker: the jobs whose name its handle() dispatches on
  Scoped,     \* jobs whose payload carries a valid tenantId
  Platform,   \* jobs whose name is in PLATFORM_JOBS
  Attempts,   \* DEFAULT_JOB_OPTIONS.attempts
  MaxCrashes  \* bound: process deaths explored

ASSUME JobQueueAssumptions ==
  /\ \A w \in Workers : Handles[w] \subseteq Jobs
  /\ Scoped \subseteq Jobs
  /\ Platform \subseteq Jobs
  /\ Attempts \in Nat \ {0}
  /\ MaxCrashes \in Nat

VARIABLES
  state,     \* BullMQ state of each job
  tries,     \* failed attempts of each job
  stalls,    \* times each job was active in a process that died
  effects,   \* times each job's effect was committed
  holds,     \* per worker: the job it is processing, {} when idle
  handled,   \* per worker: it has run the body of the job it holds
  draining,  \* workers whose process is shutting down
  crashes    \* process deaths so far

vars == <<state, tries, stalls, effects, holds, handled, draining, crashes>>

TypeOK ==
  /\ state \in [Jobs -> {"none", "waiting", "active", "completed", "failed"}]
  /\ tries \in [Jobs -> 0 .. Attempts]
  /\ stalls \in [Jobs -> 0 .. 2]
  /\ effects \in [Jobs -> Nat]
  /\ holds \in [Workers -> SUBSET Jobs]
  /\ \A w \in Workers : Cardinality(holds[w]) <= 1
  /\ handled \subseteq Workers
  /\ draining \subseteq Workers
  /\ crashes \in 0 .. MaxCrashes

Init ==
  /\ state = [j \in Jobs |-> "none"]
  /\ tries = [j \in Jobs |-> 0]
  /\ stalls = [j \in Jobs |-> 0]
  /\ effects = [j \in Jobs |-> 0]
  /\ holds = [w \in Workers |-> {}]
  /\ handled = {}
  /\ draining = {}
  /\ crashes = 0

-----------------------------------------------------------------------------
(* A producer's queue.add; a stable job id makes a second add a no-op.     *)
Enqueue(j) ==
  /\ state[j] = "none"
  /\ state' = [state EXCEPT ![j] = "waiting"]
  /\ UNCHANGED <<tries, stalls, effects, holds, handled, draining, crashes>>

(* BullMQ hands a waiting job to a worker of its queue, whatever its name. *)
Take(w, j) ==
  /\ holds[w] = {}
  /\ w \notin draining
  /\ Subscribed[w] = JobQueueOf[j]
  /\ state[j] = "waiting"
  /\ state' = [state EXCEPT ![j] = "active"]
  /\ holds' = [holds EXCEPT ![w] = {j}]
  /\ UNCHANGED <<tries, stalls, effects, handled, draining, crashes>>

(* withTenantJob: the body runs in the payload's tenant, or unscoped for a *)
(* platform job; anything else throws before handle() is called.           *)
withTenantJob(j) == j \in Scoped \cup Platform

(* Mutant: the dispatcher's switch has no case for the scheduler tick.     *)
HandleWithoutTick(w, j) ==
  /\ j \in holds[w] /\ w \notin handled
  /\ withTenantJob(j)
  /\ effects' = [effects EXCEPT ![j] = IF j \in Platform THEN @ ELSE @ + 1]
  /\ handled' = handled \cup {w}
  /\ UNCHANGED <<state, tries, stalls, holds, draining, crashes>>

(* handle(): the body of a job this worker knows commits its effect; a     *)
(* foreign name returns at once.  Either way the job will be completed.    *)
Handle(w, j) ==
  /\ j \in holds[w] /\ w \notin handled
  /\ withTenantJob(j)
  /\ effects' = [effects EXCEPT ![j] = IF j \in Handles[w] THEN @ + 1 ELSE @]
  /\ handled' = handled \cup {w}
  /\ UNCHANGED <<state, tries, stalls, holds, draining, crashes>>

Release(w, j, to) ==
  /\ state' = [state EXCEPT ![j] = to]
  /\ holds' = [holds EXCEPT ![w] = {}]
  /\ handled' = handled \ {w}

Complete(w, j) ==
  /\ j \in holds[w] /\ w \in handled
  /\ Release(w, j, "completed")
  /\ UNCHANGED <<tries, stalls, effects, draining, crashes>>

(* Mutant: a job that throws is dropped.                                   *)
throwsDropped(j) == "none"

(* Where a throwing job goes: back with backoff, or to the dead letters.   *)
throws(j) == IF tries[j] + 1 >= Attempts THEN "failed" ELSE "waiting"

(* process() rethrows what handle() or withTenantJob threw: the body's     *)
(* transaction rolled back, or it committed and an after-commit hook threw. *)
Throw(w, j) ==
  /\ j \in holds[w]
  /\ withTenantJob(j) => j \in Handles[w]
  /\ tries' = [tries EXCEPT ![j] = @ + 1]
  /\ Release(w, j, throws(j))
  /\ UNCHANGED <<stalls, effects, draining, crashes>>

(* The process dies, before or after the body committed; BullMQ finds the  *)
(* job stalled.  The worker restarts.                                      *)
Crash(w) ==
  /\ crashes < MaxCrashes
  /\ crashes' = crashes + 1
  /\ state' = [j \in Jobs |->
       IF j \notin holds[w] THEN state[j] ELSE IF stalls[j] = 0 THEN "waiting" ELSE "failed"]
  /\ stalls' = [j \in Jobs |-> IF j \in holds[w] THEN stalls[j] + 1 ELSE stalls[j]]
  /\ holds' = [holds EXCEPT ![w] = {}]
  /\ handled' = handled \ {w}
  /\ draining' = draining \ {w}
  /\ UNCHANGED <<tries, effects>>

(* SIGTERM: onModuleDestroy closes the worker, which takes nothing new and *)
(* is waited for until its job is done; only then is the pool torn down    *)
(* and the process replaced.                                               *)
Drain(w) ==
  /\ w \notin draining
  /\ draining' = draining \cup {w}
  /\ UNCHANGED <<state, tries, stalls, effects, holds, handled, crashes>>

Restart(w) ==
  /\ w \in draining
  /\ holds[w] = {}
  /\ draining' = draining \ {w}
  /\ UNCHANGED <<state, tries, stalls, effects, holds, handled, crashes>>

Settle(w, j) == Complete(w, j) \/ Throw(w, j)

Next ==
  \/ \E j \in Jobs : Enqueue(j)
  \/ \E w \in Workers : Crash(w) \/ Drain(w) \/ Restart(w)
  \/ \E w \in Workers, j \in Jobs : Take(w, j) \/ Handle(w, j) \/ Settle(w, j)

Spec == Init /\ [][Next]_vars

(* A worker that holds a job goes on with it, a drained process is         *)
(* replaced, and a waiting job is taken by some worker: a worker is not    *)
(* drained again and again for ever just when it could take the job.       *)
FairSpec ==
  /\ Spec
  /\ \A w \in Workers : WF_vars(Restart(w))
  /\ \A w \in Workers, j \in Jobs : WF_vars(Handle(w, j) \/ Settle(w, j))
  /\ \A j \in Jobs : SF_vars(\E w \in Workers : Take(w, j))

-----------------------------------------------------------------------------
(* A job completes only after its effect was committed.  This needs every  *)
(* worker of a queue to know every job of it.                              *)
CompletedHasEffect == \A j \in Jobs : state[j] = "completed" => effects[j] > 0

(* An effect is repeated only by a retry: each repetition answers a process *)
(* death or a hook that threw after the commit.                            *)
RepeatsAreRetries == \A j \in Jobs : effects[j] <= 1 + stalls[j] + tries[j]

(* How a job ends tells what it did: completed means done, and done more   *)
(* than once only because it was tried again (BaseWorker.process).         *)
EffectMatchesOutcome == CompletedHasEffect /\ RepeatsAreRetries

(* Every job ends: completed or dead-lettered.                             *)
JobsSettle == \A j \in Jobs : state[j] = "waiting" ~> state[j] \in {"completed", "failed"}
===============================================================================
