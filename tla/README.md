# Formal models of garment-erp

garment-erp is a multi-tenant ERP for garment factories: a NestJS API (`src/apps/api`) over
PostgreSQL, BullMQ workers over Redis, and a React client. This directory holds TLA+ models of the
parts of the system whose correctness depends on the order in which concurrent requests, background
sweeps, crashes and retries take effect, of the arithmetic it bills and pays by, the TLC runs that
check them on small instances, and TLAPS proofs for instances of any size.

The one fact that shapes every model: handlers run in PostgreSQL's READ COMMITTED isolation, and
most of them SELECT without a lock, decide in JavaScript and UPDATE by primary key. Only a few
services lock what they read (`FOR UPDATE`): numbering, the seat cap, subscription billing, tenant
status, the demo's cap and the purge. The models of the first kind therefore split a handler into a *Read* step
that stores the snapshot and a *Commit* step that writes; those of the second kind keep the locks.

## 1. Inventory

| Component | State it keeps | Operations | Interacts with | What is hard | What makes it correct |
|---|---|---|---|---|---|
| Unit of work (`db/unit-of-work.service.ts`) | open transaction, list of after-commit hooks in memory | BEGIN, COMMIT, ROLLBACK, run hooks | every service | hooks run after COMMIT and die with the process | a committed change is either followed by its hook or known to be lost |
| Document numbering (`sequence/`) | one counter row per tenant and key | `next` | every numbered document | yearly reset, rollback, two callers | unique, gapless, in order |
| Sales documents (`sales/`) | quotation, invoice, payment, receipt rows | quotation life cycle, convert, partial billing, issue, pay, void, overdue sweep | numbering, inventory through events | check-then-write without locks | amounts add up, one receipt, no backward status, billing ceiling |
| Sales/stock integration (`inventory/sales-stock.subscriber.ts`) | movements by `ref_id` | OUT in the issuer's transaction, compensating IN after a void | sales, ledger | redelivery, lost hook | stock leaves once and comes back |
| Stock ledger (`inventory/`) | movements, cached balance, documents, counts | create, confirm, approve, post, count, reconcile, backflush | sales, production | balance read without lock, written absolutely | cache equals replay, one posting per document, no overdraw |
| Production (`production/`) | work order, steps, scans, subcontracts | START, FINISH, hold, send out, receive, monitor sweep, complete | backflush | two scanners finish the last two steps; sweep against receive | completes exactly when all steps did; alerts once |
| Background jobs (`queue/`, `tenancy/with-tenant-job.ts`) | BullMQ job states | enqueue, take, handle, retry, drain | all sweeps, PDFs, mail | crashes, retries, name dispatch on shared queues | no job lost, effect before completion, every job settles |
| Idempotency keys (`common/idempotency/`) | key, request hash, response | lookup, store, expire | every mutating endpoint | retry overlapping its original | at most one run per key |
| Seats, users, roles (`platform/seat.service.ts`, `iam/`) | users, roles, bindings, grants, `permissions_version` | create, bind, enable, import, edit and delete roles, sign-up, force logout | sessions | two requests for the last seat; role edits change who is counted | cap never passed; permission changes revoke tokens |
| Subscription billing (`platform/billing/`) | subscriptions with `dunning_events`, invoices | create, cancel, issue, void, mark paid, dunning sweep | tenant status | overlapping sweeps, an outage over several deadlines, unlocked read of tenant status | term is paid for, nothing repeated, degradation follows the subscription |
| Tenant life cycle (`platform/tenant-*.ts`) | tenant status, its rows and objects, purge and export jobs | provision, set status, purge, export | billing, jobs | manual change against billing; resumable purge; a request that outlives the status check | only a PURGING tenant loses data; what is gone leaves nothing behind |
| Public demo (`demo/`) | sandboxes, consent, leads | sign-up under a cap, opt-in, end, idle sweep, purge | tenant life cycle | two sign-ups for the last place; lost hook; purge retried midway | the cap holds, one lead per consent, every sandbox that was given up is erased |
| Authentication and sessions (`iam/auth.service.ts`, `auth/`, `web/src/session`, `web/src/api`) | user row, sessions, the tab's tokens | password and Google sign-in, refresh, logout, force logout, guard, restore | seats | revocation against a sign-in under way; overlapping bad passwords; late 401; lock order | an accepted token is as new as the user's permissions; lockout counts; no request waits for ever |
| Payroll (`hr/payroll*.ts`, `hr/payslip*.ts`, `hr/cash-advance.service.ts`, `hr/compensation.service.ts`) | runs, payslips, PDFs, cash advances, salaries | calculate, approve, advance request, disburse, PDF worker | jobs | calculation, asked for or queued, against approval; advances written absolutely; PDF job before COMMIT | approved runs are frozen, advances balance, the PDF shows the payslip |
| HR records (`hr/employee.service.ts`, `hr/ot.service.ts`, `hr/attendance.service.ts`) | departments, positions, reporting lines, overtime, clock | create, move, delete; submit, approve, reconcile; import | payroll | two moves close a cycle; delete against move | a forest without dead parents; overtime paid as worked |
| Computations (`packages/utils`, `sales/`, `inventory/`, `hr/payroll-math.ts`, list methods) | none | totals, VAT, withholding, landed cost, average, FIFO, tax, overtime, roll-up, stock card, aging, pages | all documents | rounding, boundaries of brackets and buckets, ties | agree with a reference definition |
| Reporting, routing templates, plans, adapters (realtime, storage, PDF, LINE, mail), screens and schemas | views and rows without a protocol | see `PROJECT.json` | jobs | see 5 and 6 | not modelled |

`PROJECT.json` lists each with its sources and status, and the hazards with the line where each bites.

## 2. Modules and the code they model

Every component module declares its state as variables, has one action per handler step, and ends
with its properties. `MC*` modules fix the instance; `*_proofs` modules hold theorems, and `SumTheorems` the lemmas on
sums that three of them need. The
definition-to-line table is `map` in `PROJECT.json`. Definitions named as a variant of another one
and marked *Mutant* are plausible bugs; the specification does not use them.

| Module | Code | State and steps |
|---|---|---|
| `DocumentSequence` | `sequence.service.ts`, `unit-of-work.service.ts` | committed and uncommitted row versions, row locks, numbers in flight and on committed documents; `NextNumber`, `CommitTx`, `Rollback`, `NewYear` |
| `SalesDocuments` | `sales/*.service.ts`, `overdue-monitor.worker.ts`, `sales-stock.subscriber.ts` | one status and amount record per invoice, payment total, receipts, stock postings; Read/Commit of each handler, hooks, loss of hooks |
| `StockLedger` | `inventory/*.service.ts` | documents, movements per document, cached balance, count; Check, Load, Commit of a posting |
| `WorkOrders` | `production/*.ts`, `backflush.service.ts` | one work order, its steps, scans, subcontracts; Read, Update (takes the step's row lock), Commit |
| `JobQueue` | `queue/*.ts`, `with-tenant-job.ts`, `tenant-fan-out.ts` | BullMQ job state, what each worker holds, attempts and stalls |
| `Idempotency` | `common/idempotency/*.ts`, `tenant-transaction.interceptor.ts` | record per key, handler runs, replays |
| `SeatCap` | `seat.service.ts`, `iam/{user,role,import,auth}.service.ts` | users, bindings, grants, versions, the tenant row lock and the pending writes of its holder |
| `SubscriptionBilling` | `platform/billing/*.ts`, `tenant-lifecycle.ts`, `tenant-provisioning.service.ts`, `tenant-data.service.ts` | clock, tenant status, subscriptions, invoices, reminders sent, the rows each request has locked |
| `GaplessNumbers` | — (abstract) | the book of committed numbers: it grows at its end and leaves no gap; `DocumentSequence!ImplementsBook` maps the committed documents to it |
| `TenantLifecycle` | `tenant-provisioning.service.ts`, `tenant-data.service.ts`, `tenant-jobs.worker.ts`, `tenancy/tenant-status.guard.ts`, `demo/*.ts` | status, rows and objects of each tenant, the purge job of each queue and the step its worker is at, an export, one tenant request, one sign-up under the advisory lock, one open `requestPurge` |
| `Sessions` | `iam/auth.service.ts`, `iam/user.service.ts`, `auth/jwt.guard.ts`, `web/src/api/client.ts`, `web/src/session/*` | one user row, its sessions, user and tenant row locks, open requests, the tab's access token and `localStorage`; a deadlock is a state in which PostgreSQL aborts one of the two |
| `Payroll` | `payroll.service.ts`, `payslip.service.ts`, `payslip-pdf.worker.ts`, `cash-advance.service.ts`, `compensation.service.ts` | runs, payslips, stored PDFs, advances, calculations (first a request past its status check, then a job on the queue), the PDF queue, open transactions with their unpublished writes |
| `HrRecords` | `employee.service.ts`, `ot.service.ts`, `attendance.service.ts` | rows with their soft-deleted state, parents, managers, overtime, clock; Read and Write of each handler |
| `Money`, `PayrollMath`, `Reports` | `packages/utils`, `sales/*`, `inventory/{costing,bom,item,report}.service.ts`, `hr/payroll-math.ts`, `common/pagination/cursor.ts`, `sales/aging-report.service.ts` | no state: operators over scaled integers, with half-up rounding where the code rounds |

Abstractions common to all: money and quantities are small integers, audit rows, wording and the
contents of PDFs are left out, and a handler's reads that follow its first row lock are part of its last
step. Ghost variables record history that no table keeps: `raced` (rows that one request wrote while
another which had read them was still running), `lost` (after-commit hooks that died), `by` (who
last moved the tenant), `sent` (reminders handed to the notifier), `tainted` and
`early` (advances two requests handled at once, PDFs read before COMMIT), `racedMoves` and `loose`
(HR rows written on an outdated or missing check), `stale` (overtime that was overridden, or whose clock was
imported again), `late` (objects stored once PURGING), `overlap` and `born` (password
attempts that overlapped, and the permission changes a session's sign-in had seen).
PostgreSQL's row locks and BullMQ's delivery are external: locks exclude each other and end with the
transaction; a waiting job goes to any idle worker of its queue, is retried up to `attempts`
times, and is put back once if its process died.

Three places where a step is coarser than the code. The production monitor's two SELECTs are one
Read. Billing's read of the tenant status happens when the subscription is locked, which gives the same
outcomes because nothing but the tenant row tells the two moments apart. A sweep whose process dies
between two subscriptions is the same as one that dies inside the next one's transaction.

## 3. Runs

| Run | Instance | States | Shows |
|---|---|---|---|
| `document_sequence` | 2 tenants, a yearly and a plain key, 2 transactions, 2 years | 12,960 | `NoDuplicateNumber`; `ImplementsBook`: commits, rollbacks and New Year are steps of the abstract book |
| `sales_documents` | 2 invoices, 1 quotation of 3, 2 requests, payments of 2 | 3.7 M | Always: one receipt (`ReceiptWithFirstPayment`), no invented payment (`PaidIsCovered`), one stock issue (`StockLeavesOnce`), stock returned or owed (`StockIsOwed`). For documents on which no two requests overlapped: amounts add up, no receipt on a void, ceiling before conversion (`ConsistentUnlessRaced`), settled is final (`SettledIsFinal`) |
| `stock_ledger` | 1 document of each kind, 1 count, 2 requests, 3 movements | 0.95 M | The cache is always the sum of some movements (`CacheIsPartialReplay`); until requests overlap it is the replay and counts are booked as counted (`LedgerAgreesUnlessRaced`), documents post once (`PostedOnce`), nothing overdraws and the low-stock signal fires exactly on crossing (`PostingRules`) |
| `work_orders` | 2 steps, 1 subcontract, 2 requests | 2.7 M | A completed order has a FINISH scan of every step (`CompletionIsEarned`), its backflush is posted or owed (`FlushIsOwed`); without overlap it completes on the last finish (`LastFinishCompletes`), final states stay (`FinalStaysFinal`), one alert (`AlertedOnce`) |
| `job_queue` | 3 jobs, 2 workers, 2 attempts, 2 crashes | 168,352 | `EffectMatchesOutcome`: nothing completes without its effect, and effects repeat only on retries; under fairness `JobsSettle` |
| `idempotency` | 2 keys, 2 endpoints, 2 bodies, 2 requests | 1.9 M | `ReplayIsFaithful`: a stored response stands for a committed effect and is replayed for the same body only; `AtMostOnce` unless a retry overlaps |
| `seat_cap` | 3 users, 2 roles, cap 2, 2 requests | 568,882 | `PromotionsFit`, `ChangeRevokesTokens` |
| `subscription_billing` | 1 subscription through 2 terms, 3 invoices, 2 requests, 1 manual status change | 545,500 | `TermIsPaid`, `DunnedOnce`, `ServiceFollowsSubscription`, and under fairness `OverdueDegrades` |
| `payroll` | 2 runs, 1 employee, 1 advance of 3 in 2 installments, 2 requests, 1 calculation at a time, budget 3 | 882,463 | `AdvancesBalance`: disbursed is repaid or outstanding, for advances no two requests handled at once; `PdfShowsPayslip` unless its job read before COMMIT or the run was raced; `FrozenUnlessRaced`: an approved run changes only if it was raced, that is approved while a second approval or a calculation was under way, be it a request that had checked the status or its job. Before it starts, the 14 `ASSUME`s of `MCPayroll` compare `Money`, `PayrollMath` and `Reports` with reference definitions |
| `tenant_lifecycle` | 2 tenants of either kind, one of them beyond provisioning, cap 1, 2 attempts, 2 requests, 2 faults | 300,605 | `DemoLimits` (cap; one lead per consent), `ErasedUnlessLate`, `DeletesOnlyWhilePurging`, and under fairness `SandboxErased`: a sandbox that is PURGING ends up gone |
| `hr_records` | 3 departments, 1 position, 2 employees, 1 overtime request, 2 requests, 6 operations | 115,504 | `OrganisationUnlessRaced`: no cycle and nothing live on a deleted row until requests overlap or a check is missing; `OtWasWorked`: overtime is paid as clocked or overridden |
| `sessions` | 1 user, 2 requests, 3 writing requests, lockout after 2 | 127,965 | `AcceptedIsFresh`, `LockoutExact` unless attempts overlap, `TabKeepsLiveSession`, and under fairness `RequestsSettle`: a deadlock between login and role change is resolved by the abort |

The `ASSUME`s of `MCPayroll`: `RoundsHalfUp`, `AllocatesAll` (landed cost loses no satang),
`AverageIsBetween`, `TotalsAddUp` (lines, VAT in both directions, withholding), `FifoIsOldestFirst`,
`TaxIsMarginal`, `RepaymentIsBounded`, `OvertimeIsBounded`, `LatestIsInForce` (which dated row
applies), `OvertimePaidOnce` (adjoining periods pay each reconciled request once), `PagesListRows` (following exact
cursors lists every row once and in order; millisecond cursors repeat none and skip only rows of the
millisecond of a page's last row), `RollUpAddsUp`, `StockCardsJoin`, `AgingAddsUp`.

### Bounds and why they are enough

Two concurrent requests are the smallest number that can overlap; every hazard listed is a pair of
steps of two actors, and a third request only waits or repeats. Row counts are chosen so that a
property's premise can be met in at least two ways (two invoices of one quotation, two steps of one
order, two tenants). `MaxPaid`, `MaxMovements`, `MaxEvents`, `MaxLate`, `MaxRuns`, `MaxVersion`,
`MaxCrashes`, `MaxYear`, `MaxValue`, `MaxNow`, `MaxMoves`, `MaxFaults`, `MaxOps`, `MaxTime`, `Budget`,
`Jobs` (payroll) and `Managed` are the only caps and sit in the guards that name them. In
`subscription_billing` a term ends at tick 0, grace at 1, and a payment
moves the term to 2, so the schedule is run through, restarted, and reached again. In `payroll` the budget is
shared by everything that may repeat: calculations, rollbacks, redeliveries, PDF failures, salary changes and
resignations; three of them reach a recalculation asked for before an approval, enqueued after it and redelivered. In
`tenant_lifecycle` two faults reach a purge whose hook is lost and whose job then dies midway. In `hr_records`
three departments suffice for two moves that close a cycle through a third, below `CYCLE_HOP_LIMIT`. In
`sessions` two ticks are a lockout's and a token's life. `SYMMETRY` is
used only in runs without liveness, over ids that no definition tells apart. `CHECK_DEADLOCK FALSE`
is set for sales, stock, payroll, HR, tenants and sessions, where the finitely many ids and operations are
used up and the system rests; for sessions `RequestsSettle` says that no request is left waiting.

### Fairness

`JobQueue!FairSpec`: a worker goes on with the job it holds and a drained process is replaced (weak
fairness: both are steps the process takes by itself), and a waiting job that workers are
free to take again and again is taken (strong fairness: BullMQ hands out jobs in order; a drain may
only interrupt). `SubscriptionBilling!FairSpec`: the repeatable tick keeps starting sweeps
(`dunning.worker.ts` registers it with a fixed period), no request runs for ever (weak, on `End` and
`ProcessFail`), and a subscription that sweeps keep reaching is eventually locked and processed
(strong: a pass may throw any number of times, but not every time for ever). `TenantLifecycle!TenantSpec`: the
repeatable idle sweep keeps coming back to sandboxes that are PURGING (weak, on `SweepRequeue`), a demo purge
job that is waiting is taken and its worker goes on (strong: a drain or a dead process only interrupts, and faults are
bounded by `MaxFaults`), and a tenant request or an open `requestPurge` ends (weak). Nothing is assumed of the
`tenant` queue, which no sweep repeats: `SandboxErased` is about sandboxes only. `Sessions!SessionSpec`: a request's
next server step or its answer is taken when it stays possible (weak: PostgreSQL grants a row lock that is free and aborts one of two
requests in a deadlock). No other module assumes fairness: requests may stop at any point.

## 4. Proofs

All theorems hold for every value of the constants that satisfies the named `ASSUME`s: any number of
documents, requests, users, tenants, workers and retries. The assumptions say that ids of
different tables differ, that the sets a sum or a count ranges over (`Docs`, `Invoices`, `Tenants`, the users, payroll `Runs` and `Advances`) are finite,
and that bounds are natural numbers; nothing else. Four modules prove about two or three components each, which share no
state and no name. Each part proves `Spec => []Inv` for an inductive invariant, which TLC had checked
on the run's instance first, and derives its properties.

| Module | Theorems | The strengthening and why it is needed |
|---|---|---|
| `SalesDocuments_proofs` | `OneReceipt`, `PaidCovered`, `IssuedOnce`, `ReturnIsOwed`, `TypeCorrect` | What a payer has read is still covered by payment rows (`PayersSawCommitted`), although it may be out of date |
| | `ConsistentDocuments`, `SettledDocuments`, `RowsAreCurrent` | For a row that is not in `raced`, every request under way still sees what is stored (`InvoiceIsCurrent`, `QuoteIsCurrent`): a commit either writes rows nobody else has read or marks them. The billing ceiling is a sum over all invoices, for which `SumTheorems` says what one changed summand does |
| `StockLedger_proofs` | `LedgerAgrees`, `PostsOnce`, `PostsByTheRules`, `StockTypeCorrect` | `BalanceIsCurrent`, `DocumentIsCurrent`, `CountIsCurrent`: the same argument for the balance, a document and a count |
| | `CacheMissesWholeMovements` | Without any condition on overlaps: not only the stored balance but every balance that a posting under way has loaded is the sum of some of the movements (`BalancesArePartialReplays`), so a lost update drops whole movements |
| `WorkOrders_proofs` | `CompletionEarned`, `BackflushIsOwed`, `TypeCorrect` | A decision to complete rests on scans that are never deleted (`DecisionHasScans`, `CompletedHasScan`), and only a completion starts a hook |
| | `LastFinish`, `OneAlert`, `FinalStays`, `RowsAreCurrent` | What a scan has read of the order after its UPDATE of the step, what a sweep has selected and what a receipt has read is still stored (`ScansAreCurrent`, `AlertsAreCurrent`, `SubsAreCurrent`) |
| `Infrastructure_proofs` | `EffectsMatch`, `RepeatsCounted`, `QueueTypeCorrect` | A job is held by one worker at most (`HeldOnce`), has attempts left while it may run (`AttemptsLeft`), and all its runs but the current one ended in a throw or a stall (`RunsCounted`). `EffectsMatch` needs `WorkersKnowTheirQueue`, which the pdf queue does not meet (section 5); `RepeatsCounted` does not |
| | `ReplaysAreFaithful`, `RunsAtMostOnce`, `KeyTypeCorrect` | A key without a record has had no run (`RunsAreRecorded`), and a request that found none will find none at its commit unless another one committed under the key (`LookupIsCurrent`) |
| | `NumbersUnique`, `NumbersContiguous`, `NumberingImplementsBook`, `NumberTypeCorrect` | Uniqueness alone is not inductive: a number in flight must belong to the lock holder and lie after the committed counter (`TakenUnderLock`), only a locked row differs from its committed version (`RowVersions`), and numbers agree with their counters (`Numbered`). `RenderInjective` carries it to printed numbers. The refinement follows: what a commit publishes lies after all that its book holds, and below a published number every other one is published with it |
| `Access_proofs` | `SeatsStayCapped`, `TokensRevoked`, `SeatInvariant`, `TypeCorrect` | One request is inside the check (`OneHolder`), its count is current (`BeforeIsCurrent`), and its pending writes still fit when it commits (`CheckedFits`) |
| | `RevocationIsInstant`, `LockoutCounts`, `TabKeepsSession`, `SessionTypeCorrect` | `permissions_version` counts the changes in the row, in every session and in what a sign-in has read (`VersionsCount`); the sign-in under way is the only one and has read the stored counter (`CounterIsCurrent`); a tab that restores has no token and no other answer coming (`RestoresAlone`) |
| `Platform_proofs` | `TermPaid`, `SweepsDunOnce`, `ServiceFollows`, `BillingInvariant` | Locked rows stay live and unpaid (`LocksHold`), one subscription is live and an expired one is past its grace (`LiveIsUnique`), an invoice bills at most one year past the term and a renewal is recorded with its term (`InvoiceFollowsTerm`), reminders are recorded (`RemindersRecorded`), and only an administrator makes a read tenant status stale (`SeenIsCurrent`) |
| | `DemoStaysLimited`, `PurgeErases`, `DeletesArePurges`, `LifeTypeCorrect` | A worker past its check purges a tenant that can never serve again (`StatusKnown`), past the storage step its prefix holds late objects only (`ObjectsGone`), an unspent consent is one that may still become a lead (`ConsentSpentOnce`), and the sandbox under the advisory lock already counts (`RoomForAnother`) |
| `Hr_proofs` | `AdvancesAlwaysBalance`, `PayrollTypes` | For an employee who is not `tainted`: what a request has read of an advance is what is stored, and what it will write follows from that (`ReadIsCurrent`); the deduction that an approval will write on a payslip is the sum of the repayments that it will write on the advances (`Pulled`); nothing is deducted on a run that is not approved, and none is approved twice (`PayslipsPaid`); two requests on one advance taint its owner (`OneRequest`). The commit of an approval then moves one amount from the outstanding to the deducted side, an equation of sums over advances and over runs (`SumOfSums`, `SumWithin`) |
| | `PdfsShowTheirPayslip`, `ApprovedRunsAreFrozen` | Once a run that is not `raced` is APPROVED no calculation of it is queued, no request that checked its status is about to queue one, and none is still approving it (`Frozen`); a step of a calculation adds no entry for an APPROVED run (`CalculationRuns`), so what the worker has rendered and what is stored stay true (`PdfFresh`) |
| | `OrganisationIsAForest`, `HrTypes` | A cycle is a non-empty set of rows each of which is below a row of the set. The walk of `assertNoCycle` cannot leave such a set, so a move that passed it is safe (`WalkStays`, by a minimal counterexample: `Walk` is a recursive function), it stays safe unless another move commits meanwhile, which marks both (`MovesSafe`, `MovesRaced`), and a new department has nothing below it (`ParentsExist`). Deletion: the target of a move not overtaken by a delete is live (`TargetsLive`), and a row that is being deleted is empty but for what was placed meanwhile (`DeletesSafe`) |
| | `ReconciledOtWasWorked` | The hours that an open reconciliation will write were on the clock (`ReconcilesWorked`), and an import since marks the request |
| `SumTheorems` | lemmas only | `SumFunctionOnSet` of the community modules is a recursive function over sets; that it is defined, does not depend on the order and changes by what one summand changes (`SumSplit`, `SumAgrees`, `SumChange`, `SumAtMost`, `SumOfSums`, `SumWithin`) is shown by taking a minimal set for which it fails, since the library's induction rule is out of reach |

Two shapes of argument recur. The unconditional theorems find something that no interleaving can take back (a
committed payment row, a scan, a movement, a lock, a status that is left only in one direction). The
conditioned ones (`...UnlessRaced`, `AtMostOnce`, `LockoutExact`, ...) rest on a ghost that a commit sets on exactly the rows
which some other request under way has read; the invariant is that everything read of an unmarked row is current.

Every invariant and every action property that a run checks has its theorem. Model-checked only: liveness (`JobsSettle`,
`OverdueDegrades`, `SandboxErased`, `RequestsSettle`), since neither fairness nor `ENABLED` is within the prover's reach; and the
operators of `Money`, `PayrollMath` and `Reports`, which are compared with reference definitions over bounded inputs (their
folds run over sequences, two of `Reports` are recursive, and what they compute for every input is induction over data).

## 5. Known divergences

Where the code does less than its documents say, the property that holds is stated with the condition
under which it does, and the schedule that breaks the unconditional form is recorded here.

| Document | What the code can do |
|---|---|
| `openspec/specs/invoicing/spec.md:36-37`, sum of invoices within the quotation | `convert` does not apply the ceiling to what was billed before |
| `inventory/ledger.service.ts:179-180`, replay "equals the live cache" | two postings load one balance; the second write drops the first movement |
| `queue/queue.constants.ts:21-22`, silent no-op on a shared queue | the pdf queue still shares three workers that each know one name |
| `platform/billing/subscription.service.ts:351`, "a no-op unless the tenant is `ACTIVE`" | a suspension made after the read is changed to READ_ONLY |
| `sales/payment.service.ts:39`, a payment "advances `amount_paid`" | two payments read one balance; one is not counted |
| `sales/void.service.ts:22`, void blocked by a receipt | a payment commits its receipt between the check and the update |
| `openspec/specs/invoicing/spec.md:19`, "no backward transitions" | sweep, issue and payment overwrite a PAID or VOID that committed after their read |
| `sales/quotation.service.ts:32`, "a re-convert is a 409" | two conversions that overlap both insert an invoice |
| `inventory/sales-stock.subscriber.ts:26`, "a void only compensates an OUT once" | two overlapping voids both return the stock |
| `openspec/specs/document-void/spec.md:30-31`, a void returns the stock | the hook is lost when the process dies after COMMIT or an earlier hook throws; nothing repeats it |
| `openspec/specs/goods-issue/spec.md:20-21`, no overdraw | two issues pass the availability check on one balance |
| `openspec/specs/goods-receipt/spec.md:12-13`, already posted is a 409 | two posts of one document both pass the status check |
| `inventory/backflush.service.ts:27-28`, redelivery "cannot double-post" | two deliveries both find no movement |
| `inventory/stock-adjustment.service.ts:33-34`, before/after balances | the audit row's "before" is read apart from the balance that is posted on |
| `packages/db/src/schema/inventory/count.ts:11`, COUNTING locks item movement | no posting looks at open counts; a movement during a count is booked again as a difference |
| `openspec/specs/production-completion/spec.md:9`, completes on the last step | two last finishes each see the other step open; the order stays open |
| `production/completion.service.ts:31`, emits "exactly once" | a START that read an open order writes IN_PROGRESS over COMPLETED, and it completes again |
| `production/production-monitor.worker.ts:43`, "never double-alerts" | two sweeps select one step before either marks it |
| `openspec/specs/subcontracting/spec.md:18`, flips a `SENT` subcontract | one received after the SELECT is flipped too |
| `docs/BACKEND_SPEC_M1-M6.md:740`, COMPLETED means all steps COMPLETED | START on a finished step reopens it under a completed order |
| `common/idempotency/idempotency.interceptor.ts:16`, "At-most-once mutations" | a retry that overlaps its original runs the handler again |
| `common/idempotency/idempotency.service.ts:21`, "an exact replay" | the hash covers the body only: one key used on two endpoints with equal bodies replays the other's response |

| `hr/payroll.service.ts:118`, "APPROVED runs are frozen" | the check (`:125`) and `queue.add` (`:128`) are apart and `computeRun` does not look at the status again: a calculation whose job was queued before the approval, or whose request checked the status before it and queued the job after, rewrites the approved payslips |
| `hr/payroll.service.ts:163`, "skip rather than pay" | a recalculation leaves the payslips of employees who are now excluded or have resigned, and they are paid |
| `openspec/specs/e-payslip/spec.md:9`, a PDF of each payslip | the job is on Redis before COMMIT (`payroll.service.ts:263`): a worker may render the figures before the deduction |
| `hr/payroll-math.ts:167`, "so the final period clears it exactly" | the number of installments is never counted down: each period takes a share of what is left, and the tail does not clear |
| `hr/payroll.service.ts:247`, outstanding advances are pulled into the payslip | overlapping approvals, or an approval and a disbursal, pull or disburse one advance twice |
| `hr/compensation.service.ts:75`, the override "wins over the catalog `default_amount`" | the default is never read: only the amount on the employee's row counts |
| `hr/employee.service.ts:279`, "concurrent edits cannot commit a loop" | under READ COMMITTED two moves that overlap each walk a tree without the other's edge |
| `hr/employee.service.ts`, soft delete | creating a department or position, and updating an employee, accept a deleted target: the foreign key holds |
| `hr/ot.service.ts`, submit, approve, reconcile in order | overlapping transitions overwrite each other's status |
| `platform/tenant-data.service.ts:75-76`, `platform_audit_log` "is the one thing that survives" | an upload or an export that passed its check stores its object after the bucket was emptied |
| `platform/tenant-data.service.ts:213`, PURGING ends in a purge | a job taken before the request's COMMIT finds another status and completes; the tenant stays PURGING until purge is asked for again |
| `demo/demo-provisioning.service.ts:124`, the cap on sandboxes | `setStatus` activates suspended sandboxes beyond it |
| `iam/auth.service.ts:142`, lockout after the threshold | the count is written absolutely: overlapping bad passwords count once, and a late one can write an old `locked_until` back and unlock |
| `iam/user.service.ts`, a disabled user is out | `setStatus` neither revokes sessions nor bumps the version: enabling the user again revives them |
| `web/src/api/client.ts:28`, a 401 signs the tab out | so does the 401 of an older token, after the tab has signed in again; the logout it triggers revokes the new session |
| `web/src/session/restore-session.ts:9`, refresh "rotates the refresh token" | it does not; the session keeps its token |
| list methods of items, customers, employees, users and the audit log: pages list every row | the cursor is cut to the millisecond (`inventory/item.service.ts:131`), the column has microseconds: rows of the last row's millisecond are skipped. The platform lists use the exact text |
| `reporting/report-schedule.service.ts:67`, the cursor is "microsecond-exact" | the comparison is, but the cursor it is given is `toISOString()` (:82), cut like the others |

Not ruled out by a document, and worth knowing: a stock card's closing value and the next card's opening value
differ by rounding; a new BOM version does not deactivate the older ones, the highest active one counts;
`login` and `forceLogout` lock the user and then need the tenant row while `setRoles`, `setStatus`, role edits and the
import lock them in the other order, so PostgreSQL aborts one of two that meet; the demo's rate
limit counts and sets its expiry in two calls (`demo/demo-store.service.ts:85-89`); a guest who signs
in on two tabs at once may get two sandboxes; an active guest can be cut off by a sweep that read the row before.
Outside the models: an event that arrives while the debounced refresh of a view is active is absorbed and the view is
stale until the hourly refresh (`reporting/mv-refresh.subscriber.ts:43`); a report schedule's after-commit
hooks may be lost or reordered and nothing reconciles the schedulers at start
(`reporting/report-schedule.service.ts:166-199`); realtime frames are sent before COMMIT, so a scan that rolls back is
still shown (`production/scan.service.ts:218`).

Two consequences of the billing rules that no document rules out: a tenant whose subscription was cancelled stays
READ_ONLY when a new one is created and paid, until an administrator restores it, because only a payment of an EXPIRED subscription
leaves READ_ONLY; and a renewal that is voided is not issued again for its term.

## 6. Not modelled

- **Reporting.** The views are read-only SQL; refresh, schedules and mail are jobs of the kind `JobQueue` models.
- **Catalogue, routing templates, plans and feature overrides, employee documents.** Inserts and updates of
  single rows that no other handler's decision reads concurrently.
- **Support sessions, platform-administrator sign-in, the OIDC handshake.** The lockout of
  `platform-auth` is the one of `Sessions`; the others are single rows with an expiry.
- **E-tax XML, PromptPay payloads, PND1/SSO and spreadsheet exports, PDFs.** Formatting of values that are modelled.
- **Audit rows, realtime, storage, LINE and mail adapters.** No state a property could be about; storage
  appears in `TenantLifecycle` as the set of prefixes that hold an object.
- **Parts of modelled components.** The stock issue and return of an invoice are in `SalesDocuments`, not among the
  postings of `StockLedger`. `SeatCap` holds the cap constant, as no plan changes in it. A live BullMQ worker
  renews the lock of its job, so a job is put back only when its process died; a stalled worker that is still
  alive and finishes beside the one that took its job over is not modelled (`TenantLifecycle`, `JobQueue`, `Payroll`).
- **Screens, components, translations, DTO schemas, seeds, migrations.** Presentation, declarations and data:
  about three quarters of the repository's lines. The one protocol of the client, its token store and 401
  interceptor, is part of `Sessions`. This is why the map covers most of the services that decide
  something and still only about a seventh of all lines.

## 7. Plan

Done, in this order: numbering, on which every document depends; the flows with money and stock (sales, ledger,
production); the infrastructure below them (jobs, idempotency); seats and billing; the abstract book
of numbers and its refinement; tenants and the demo; sessions with the browser tab; payroll and HR records;
the computations. Then the proofs: numbering and its refinement, sales, production, seats and billing; then the job queue and
idempotency, the stock ledger with the theory of sums it needs, the conditioned properties of sales
and production, sessions, tenants; last, payroll and the HR records. What is left is in section 6.
