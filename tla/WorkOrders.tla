------------------------------ MODULE WorkOrders ------------------------------
(***************************************************************************)
(* One work order on the shop floor (apps/api/src/production): scanning    *)
(* its steps START and FINISH, holding and subcontracting them, the        *)
(* monitor sweep, completion, and the backflush that completion triggers   *)
(* in inventory/backflush.service.ts.                                      *)
(*                                                                         *)
(* A handler reads the step without a lock (Read).  A scan then UPDATEs    *)
(* the step, which takes its row lock until COMMIT, and only after that    *)
(* reads the work order and, for a FINISH, every step of it (Update).  The *)
(* reads see committed rows and the handler's own write.  Commit makes the *)
(* writes visible and releases the lock.                                   *)
(***************************************************************************)
EXTENDS Integers, FiniteSets

CONSTANTS
  Steps,         \* the work order's materialized steps
  NoStep,        \* the step of an unused subcontract id
  Subcontracts,  \* subcontract ids, unused until a step is sent
  Requests,      \* concurrently running requests and sweep jobs
  WorkOrder,     \* the work order row itself, for the ghost raced
  MaxEvents,     \* bound: WorkOrderCompleted and StepDelayed events explored
  MaxLate        \* bound: steps and subcontracts that run late

ASSUME WorkOrderAssumptions ==
  /\ Steps # {}
  /\ NoStep \notin Steps
  /\ IsFiniteSet(Steps)
  /\ Steps \cap Subcontracts = {}
  /\ WorkOrder \notin Steps \cup Subcontracts
  /\ MaxEvents \in Nat /\ MaxLate \in Nat

VARIABLES
  wo,         \* work_order.status
  step,       \* work_order_step.status
  finished,   \* steps with a FINISH row in production_scan (append-only)
  sub,        \* subcontract rows
  late,       \* steps and subcontracts past their standard time or SLA
  notified,   \* steps with delay_notified set
  delays,     \* per step: StepDelayed events published
  completed,  \* WorkOrderCompleted events published
  flushed,    \* backflush postings for this work order
  tx,         \* per request: what it has read and is about to write
  raced,      \* ghost: what one request wrote while another, which had read
              \*   it, had not committed
  lost        \* ghost: a WorkOrderCompleted hook was lost

vars == <<wo, step, finished, sub, late, notified, delays, completed, flushed, tx,
          raced, lost>>

StepStatus == {"PENDING", "IN_PROGRESS", "COMPLETED", "HOLD", "OUTSOURCED"}
SubStatus == {"NONE", "SENT", "RECEIVED", "OVERDUE"}
Idle == [op |-> "idle"]
Tx ==
  {Idle}
  \cup [op : {"start", "finish", "hold"}, step : Steps]
  \cup [op : {"starting", "finishing"}, step : Steps, wo : BOOLEAN]
  \cup [op : {"send"}, step : Steps]
  \cup [op : {"receive"}, sub : Subcontracts]
  \cup [op : {"sweep"}, steps : SUBSET Steps, subs : SUBSET Subcontracts]
  \cup [op : {"completed", "backflush"}]

TypeOK ==
  /\ wo \in {"PENDING", "IN_PROGRESS", "COMPLETED"}
  /\ step \in [Steps -> StepStatus]
  /\ finished \subseteq Steps
  /\ sub \in [Subcontracts -> [status : SubStatus, step : Steps \cup {NoStep}]]
  /\ \A c \in Subcontracts : sub[c].status = "NONE" <=> sub[c].step = NoStep
  /\ late \subseteq Steps \cup Subcontracts
  /\ notified \subseteq Steps
  /\ delays \in [Steps -> Nat]
  /\ completed \in Nat
  /\ flushed \in Nat
  /\ tx \in [Requests -> Tx]
  /\ raced \subseteq {WorkOrder} \cup Steps \cup Subcontracts
  /\ lost \in BOOLEAN

(* WorkOrderService.create snapshots the routing steps as PENDING.         *)
Init ==
  /\ wo = "PENDING"
  /\ step = [s \in Steps |-> "PENDING"]
  /\ finished = {}
  /\ sub = [c \in Subcontracts |-> [status |-> "NONE", step |-> NoStep]]
  /\ late = {}
  /\ notified = {}
  /\ delays = [s \in Steps |-> 0]
  /\ completed = 0
  /\ flushed = 0
  /\ tx = [r \in Requests |-> Idle]
  /\ raced = {}
  /\ lost = FALSE

-----------------------------------------------------------------------------
alerts == <<late, notified, delays>>
events == <<completed, flushed>>
ghosts == <<raced, lost>>

Read(r, snapshot) ==
  /\ tx[r] = Idle
  /\ tx' = [tx EXCEPT ![r] = snapshot]
  /\ UNCHANGED <<wo, step, finished, sub, alerts, events, ghosts>>

(* What a request has read and will write: a scan, once it has updated its *)
(* step, the work order's status; a sweep the alert flags of steps and,    *)
(* like a receipt, subcontracts.                                           *)
touches(r) ==
  CASE tx[r].op \in {"starting", "finishing"} -> {WorkOrder}
    [] tx[r].op = "receive" -> {tx[r].sub}
    [] tx[r].op = "sweep" -> tx[r].steps \cup tx[r].subs
    [] OTHER -> {}

(* Ghost: another request decided on what this one is about to overwrite.  *)
MarkRaced(r) ==
  /\ raced' = raced \cup {x \in {WorkOrder} \cup Steps \cup Subcontracts :
       x \in touches(r) /\ \E q \in Requests \ {r} : x \in touches(q)}
  /\ UNCHANGED lost

Done(r) ==
  /\ tx' = [tx EXCEPT ![r] = Idle]
  /\ MarkRaced(r)

(* The row lock an uncommitted scan holds on its step.                     *)
unlocked(s) == \A r \in Requests : tx[r].op \in {"starting", "finishing"} => tx[r].step # s

(* ScanService.start has no status guard: any step can be scanned START.   *)
StartRead(r, s) == Read(r, [op |-> "start", step |-> s])

(* Mutant: every START moves the work order.                               *)
StartUpdateAlways(r) ==
  /\ tx[r].op = "start"
  /\ unlocked(tx[r].step)
  /\ tx' = [tx EXCEPT ![r] = [op |-> "starting", step |-> tx[r].step, wo |-> TRUE]]
  /\ UNCHANGED <<wo, step, finished, sub, alerts, events, ghosts>>

StartUpdate(r) ==
  /\ tx[r].op = "start"
  /\ unlocked(tx[r].step)
  /\ tx' = [tx EXCEPT ![r] =
       [op |-> "starting", step |-> tx[r].step, wo |-> wo = "PENDING"]]
  /\ UNCHANGED <<wo, step, finished, sub, alerts, events, ghosts>>

(* The first step to start moves the work order, by an UPDATE on its id.   *)
StartCommit(r) ==
  /\ tx[r].op = "starting"
  /\ step' = [step EXCEPT ![tx[r].step] = "IN_PROGRESS"]
  /\ wo' = IF tx[r].wo THEN "IN_PROGRESS" ELSE wo
  /\ Done(r)
  /\ UNCHANGED <<finished, sub, alerts, events>>

FinishRead(r, s) ==
  /\ step[s] # "COMPLETED"
  /\ Read(r, [op |-> "finish", step |-> s])

(* Mutants: maybeComplete looks only at the step just finished; it never   *)
(* completes.                                                              *)
maybeCompleteOwnStep(s) == wo # "COMPLETED"
maybeCompleteNever(s) == FALSE

(* CompletionService.maybeComplete, after this request's FINISH of s: the  *)
(* work order is open and every step is COMPLETED.                         *)
maybeComplete(s) ==
  /\ wo # "COMPLETED"
  /\ \A t \in Steps \ {s} : step[t] = "COMPLETED"

FinishUpdate(r) ==
  /\ tx[r].op = "finish"
  /\ unlocked(tx[r].step)
  /\ tx' = [tx EXCEPT ![r] =
       [op |-> "finishing", step |-> tx[r].step, wo |-> maybeComplete(tx[r].step)]]
  /\ UNCHANGED <<wo, step, finished, sub, alerts, events, ghosts>>

(* WorkOrderCompleted is an after-commit hook of the finishing request.    *)
FinishCommit(r) ==
  /\ tx[r].op = "finishing"
  /\ tx[r].wo => completed < MaxEvents
  /\ step' = [step EXCEPT ![tx[r].step] = "COMPLETED"]
  /\ finished' = finished \cup {tx[r].step}
  /\ IF tx[r].wo
     THEN /\ wo' = "COMPLETED"
          /\ completed' = completed + 1
          /\ tx' = [tx EXCEPT ![r] = [op |-> "completed"]]
          /\ MarkRaced(r)
     ELSE /\ UNCHANGED <<wo, completed>>
          /\ Done(r)
  /\ UNCHANGED <<sub, alerts, flushed>>

(* BackflushService.backflush, a transaction of its own: it skips if a     *)
(* BACKFLUSH movement of this work order exists.                           *)
BackflushRead(r) ==
  /\ tx[r].op = "completed"
  /\ tx' = [tx EXCEPT ![r] = IF flushed > 0 THEN Idle ELSE [op |-> "backflush"]]
  /\ UNCHANGED <<wo, step, finished, sub, alerts, events, ghosts>>

(* Mutant: the posting is left to the next delivery of the event.          *)
BackflushCommitNothing(r) ==
  /\ tx[r].op = "backflush"
  /\ Done(r)
  /\ UNCHANGED <<wo, step, finished, sub, alerts, events>>

BackflushCommit(r) ==
  /\ tx[r].op = "backflush"
  /\ flushed' = flushed + 1
  /\ Done(r)
  /\ UNCHANGED <<wo, step, finished, sub, alerts, completed>>

-----------------------------------------------------------------------------
HoldRead(r, s) ==
  /\ step[s] # "COMPLETED"
  /\ Read(r, [op |-> "hold", step |-> s])

HoldCommit(r) ==
  /\ tx[r].op = "hold"
  /\ unlocked(tx[r].step)
  /\ step' = [step EXCEPT ![tx[r].step] = "HOLD"]
  /\ Done(r)
  /\ UNCHANGED <<wo, finished, sub, alerts, events>>

(* SubcontractService.send.                                                *)
SendRead(r, s) ==
  /\ step[s] # "COMPLETED"
  /\ Read(r, [op |-> "send", step |-> s])

SendCommit(r) ==
  /\ tx[r].op = "send"
  /\ unlocked(tx[r].step)
  /\ step' = [step EXCEPT ![tx[r].step] = "OUTSOURCED"]
  /\ \E c \in Subcontracts :
       /\ sub[c].status = "NONE"
       /\ sub' = [sub EXCEPT ![c] = [status |-> "SENT", step |-> tx[r].step]]
  /\ Done(r)
  /\ UNCHANGED <<wo, finished, alerts, events>>

(* SubcontractService.receive returns the step to the line whatever the    *)
(* step's status is.                                                       *)
ReceiveRead(r, c) ==
  /\ sub[c].status \in {"SENT", "OVERDUE"}
  /\ Read(r, [op |-> "receive", sub |-> c])

ReceiveCommit(r) ==
  /\ tx[r].op = "receive"
  /\ unlocked(sub[tx[r].sub].step)
  /\ sub' = [sub EXCEPT ![tx[r].sub].status = "RECEIVED"]
  /\ step' = [step EXCEPT ![sub[tx[r].sub].step] = "IN_PROGRESS"]
  /\ Done(r)
  /\ UNCHANGED <<wo, finished, alerts, events>>

(* A running step exceeds its standard time, a subcontract its sla_due.    *)
TimePasses(x) ==
  /\ x \notin late /\ Cardinality(late) < MaxLate
  /\ \/ x \in Steps /\ step[x] = "IN_PROGRESS"
     \/ x \in Subcontracts /\ sub[x].status # "NONE"
  /\ late' = late \cup {x}
  /\ UNCHANGED <<wo, step, finished, sub, notified, delays, events, tx, ghosts>>

(* Mutant: the sweep ignores delay_notified.                               *)
delayCandidatesAll == {s \in Steps : step[s] = "IN_PROGRESS" /\ s \in late}

(* sweepDelays and sweepOverdue select their candidates ...                *)
delayCandidates ==
  {s \in Steps : step[s] = "IN_PROGRESS" /\ s \notin notified /\ s \in late}
overdueCandidates == {c \in Subcontracts : sub[c].status = "SENT" /\ c \in late}

SweepRead(r) ==
  /\ delayCandidates \cup overdueCandidates # {}
  /\ Read(r, [op |-> "sweep", steps |-> delayCandidates, subs |-> overdueCandidates])

(* ... and update and announce each of them by id.                         *)
SweepCommit(r) ==
  /\ tx[r].op = "sweep"
  /\ \A s \in tx[r].steps : unlocked(s) /\ delays[s] < MaxEvents
  /\ notified' = notified \cup tx[r].steps
  /\ delays' = [s \in Steps |-> IF s \in tx[r].steps THEN delays[s] + 1 ELSE delays[s]]
  /\ sub' = [c \in Subcontracts |->
       IF c \in tx[r].subs THEN [sub[c] EXCEPT !.status = "OVERDUE"] ELSE sub[c]]
  /\ Done(r)
  /\ UNCHANGED <<wo, step, finished, late, events>>

Rollback(r) ==
  /\ tx[r].op \notin {"idle", "completed", "backflush"}
  /\ tx' = [tx EXCEPT ![r] = Idle]
  /\ UNCHANGED <<wo, step, finished, sub, alerts, events, ghosts>>

HookLost(r) ==
  /\ tx[r].op \in {"completed", "backflush"}
  /\ tx' = [tx EXCEPT ![r] = Idle]
  /\ lost' = TRUE
  /\ UNCHANGED <<wo, step, finished, sub, alerts, events, raced>>

Hooks(r) == BackflushRead(r) \/ BackflushCommit(r)

Next ==
  \/ \E x \in Steps \cup Subcontracts : TimePasses(x)
  \/ \E r \in Requests :
       \/ \E s \in Steps : StartRead(r, s) \/ FinishRead(r, s) \/ HoldRead(r, s) \/ SendRead(r, s)
       \/ \E c \in Subcontracts : ReceiveRead(r, c)
       \/ SweepRead(r)
       \/ StartUpdate(r) \/ StartCommit(r) \/ FinishUpdate(r) \/ FinishCommit(r)
       \/ HoldCommit(r) \/ SendCommit(r) \/ ReceiveCommit(r) \/ SweepCommit(r)
       \/ Hooks(r) \/ Rollback(r) \/ HookLost(r)

Spec == Init /\ [][Next]_vars

-----------------------------------------------------------------------------
(* Properties that hold however requests interleave.                       *)

(* A work order completes only on evidence: every step of a COMPLETED work *)
(* order has a FINISH scan, and it is backflushed only after it completed. *)
CompletionIsEarned ==
  /\ wo = "COMPLETED" => finished = Steps
  /\ completed > 0 => finished = Steps
  /\ flushed > 0 => completed > 0

(* A completed work order that is not backflushed is owed it by a request  *)
(* that still runs its hook, or the hook was lost with the process.        *)
FlushIsOwed ==
  completed > 0 /\ flushed = 0 =>
    lost \/ \E r \in Requests : tx[r].op \in {"completed", "backflush"}

-----------------------------------------------------------------------------
(* Properties the documents promise without condition.  They hold as long  *)
(* as no two requests overlap on the row they are about; an overlap breaks *)
(* every one of them.                                                      *)

(* "When the last step of a work order becomes COMPLETED, the system SHALL *)
(* transition the work order to COMPLETED".                                *)
LastFinishCompletes ==
  WorkOrder \notin raced /\ (\A s \in Steps : step[s] = "COMPLETED") => wo = "COMPLETED"

(* A work order never leaves COMPLETED, so it "emits WorkOrderCompleted     *)
(* exactly once".                                                          *)
CompletedIsFinal ==
  [][WorkOrder \notin raced /\ wo = "COMPLETED" => wo' = "COMPLETED"]_vars

(* "never double-alerts": one StepDelayed per step.                        *)
AlertedOnce == \A s \in Steps \ raced : delays[s] <= 1

(* A received subcontract is never reported overdue afterwards.            *)
ReceivedIsFinal ==
  [][\A c \in Subcontracts \ raced :
       sub[c].status = "RECEIVED" => sub'[c].status = "RECEIVED"]_vars

(* No late scan and no late sweep takes back what was final.               *)
FinalStaysFinal == CompletedIsFinal /\ ReceivedIsFinal

-----------------------------------------------------------------------------
(* The inductive invariant behind CompletionIsEarned.                      *)

(* A step is COMPLETED only by a FINISH scan, and scans are never deleted. *)
CompletedHasScan == \A s \in Steps : step[s] = "COMPLETED" => s \in finished

(* A request about to complete the work order saw every other step         *)
(* COMPLETED.                                                              *)
DecisionHasScans ==
  \A r \in Requests :
    tx[r].op = "finishing" /\ tx[r].wo => Steps \ {tx[r].step} \subseteq finished

(* Only a completion starts a backflush.                                   *)
HooksFollowCompletion ==
  \A r \in Requests : tx[r].op \in {"completed", "backflush"} => completed > 0

(* A subcontract that a request has read was sent, and stays so.           *)
SubcontractsWereSent ==
  \A r \in Requests :
    /\ tx[r].op = "receive" => sub[tx[r].sub].status # "NONE"
    /\ tx[r].op = "sweep" => \A c \in tx[r].subs : sub[c].status # "NONE"

IndInv ==
  /\ TypeOK
  /\ SubcontractsWereSent
  /\ CompletedHasScan
  /\ DecisionHasScans
  /\ HooksFollowCompletion
  /\ CompletionIsEarned
  /\ FlushIsOwed
===============================================================================
