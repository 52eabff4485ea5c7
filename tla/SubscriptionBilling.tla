-------------------------- MODULE SubscriptionBilling --------------------------
(***************************************************************************)
(* Vendor billing of one CUSTOMER tenant: subscriptions                    *)
(* (platform/billing/subscription.service.ts), their invoices              *)
(* (subscription-invoice.service.ts), the dunning sweep (dunning.service.ts, *)
(* dunning-schedule.ts, billing-math.ts) and the tenant's service status   *)
(* (tenant-provisioning.service.ts, tenant-lifecycle.ts).                  *)
(*                                                                         *)
(* Every mutation of a subscription holds its row lock, and mark-paid the  *)
(* invoice's as well.  The tenant's status is read without a lock before   *)
(* setStatus locks the tenant row: that read is the `seen` of a request.   *)
(* Time is counted in ticks.  PDFs, amounts and audit rows are left out.   *)
(***************************************************************************)
EXTENDS Integers, FiniteSets, Bags

CONSTANTS
  Subs,       \* subscription ids
  Renewals,   \* invoice ids for the renewals the sweep issues
  Manual,     \* invoice ids for those an admin issues
  Requests,   \* concurrent sweeps and admin requests
  FirstEnds,  \* possible term_end of a new subscription
  Year,       \* billed period
  Lead,       \* BILLING_RENEWAL_LEAD_DAYS
  Grace,      \* BILLING_GRACE_DAYS
  Week,       \* distance of the reminders in grace
  PreTouches, \* distances of the reminders before term_end
  MaxNow,     \* bound: the last tick
  MaxMoves    \* bound: status changes an admin makes

ASSUME BillingAssumptions ==
  /\ Subs # {}
  /\ Renewals \cap Manual = {}
  /\ Year \in Nat \ {0} /\ Week \in Nat \ {0}
  /\ Lead \in Nat /\ Grace \in Nat
  /\ PreTouches \subseteq Nat \ {0} /\ IsFiniteSet(PreTouches) /\ PreTouches # {}
  /\ FirstEnds \subseteq Nat
  /\ MaxNow \in Nat /\ MaxMoves \in Nat

VARIABLES
  now,    \* the clock
  tenant, \* tenant.status
  by,     \* ghost: who made the last change of tenant.status
  moves,  \* status changes made by an admin
  sub,    \* the subscription rows
  inv,    \* the subscription_invoice rows
  sent,   \* ghost: bag of the reminders whose delivery was scheduled
  tx      \* what each request is doing

vars == <<now, tenant, by, moves, sub, inv, sent, tx>>

Invoices == Renewals \cup Manual
Idle == [op |-> "idle"]
TenantStatus == {"ACTIVE", "READ_ONLY", "SUSPENDED", "PURGING"}

(* The edges of tenant-lifecycle.ts.                                       *)
StatusTransitions ==
  [s \in TenantStatus |->
     CASE s = "ACTIVE" -> {"READ_ONLY"}
       [] s = "READ_ONLY" -> {"ACTIVE", "SUSPENDED"}
       [] s = "SUSPENDED" -> {"READ_ONLY"}
       [] s = "PURGING" -> {}]

(* Reminder touchpoints: before term_end, weekly in grace, on degradation. *)
Touch == {"pre", "grace", "READ_ONLY"} \X Int

(* A subscription row: its dunning_events are the terms whose renewal was  *)
(* recorded and the touches recorded per term.                             *)
SubscriptionRow ==
  [status : {"NONE", "ACTIVE", "IN_GRACE", "EXPIRED", "CANCELLED"},
   firstEnd : Nat, termEnd : Nat,
   renewed : SUBSET Nat, touched : SUBSET (Nat \X Touch)]

InvoiceRow ==
  [status : {"NONE", "ISSUED", "PAID", "VOID"}, sub : Subs, end : Nat]

(* What a request is doing, with the rows it locked and what it has read.  *)
Tx ==
  {Idle}
  \cup [op : {"sweep"}, at : Nat, todo : SUBSET Subs]
  \cup [op : {"dunning"}, at : Nat, todo : SUBSET Subs, sub : Subs, seen : TenantStatus]
  \cup [op : {"pay"}, inv : Invoices]
  \cup [op : {"paying"}, inv : Invoices, sub : Subs, seen : TenantStatus]
  \cup [op : {"cancel"}, sub : Subs, seen : TenantStatus]

TypeOK ==
  /\ now \in Nat
  /\ tenant \in TenantStatus
  /\ by \in {"admin", "billing"}
  /\ moves \in Nat
  /\ sub \in [Subs -> SubscriptionRow]
  /\ inv \in [Invoices -> InvoiceRow]
  /\ tx \in [Requests -> Tx]

Init ==
  /\ now = 0
  /\ tenant = "ACTIVE" /\ by = "admin" /\ moves = 0
  /\ sub = [s \in Subs |-> [status |-> "NONE", firstEnd |-> 0, termEnd |-> 0,
                            renewed |-> {}, touched |-> {}]]
  /\ inv = [v \in Invoices |-> [status |-> "NONE", sub |-> CHOOSE s \in Subs : TRUE, end |-> 0]]
  /\ sent = EmptyBag
  /\ tx = [r \in Requests |-> Idle]

live(s) == sub[s].status \notin {"NONE", "CANCELLED"}

-----------------------------------------------------------------------------
(* Row locks, held until the request's transaction ends.                   *)
subUnlocked(s) ==
  \A r \in Requests : tx[r].op \in {"dunning", "paying", "cancel"} => tx[r].sub # s
invUnlocked(v) ==
  \A r \in Requests : tx[r].op \in {"pay", "paying"} => tx[r].inv # v

(* enterReadOnly, exitReadOnly: nothing unless `seen` is the status to     *)
(* leave; else setStatus, which checks the edge on the locked row.         *)
moveTenant(seen, from, to) ==
  IF seen # from THEN UNCHANGED <<tenant, by>>
  ELSE /\ to \in StatusTransitions[tenant]
       /\ tenant' = to
       /\ by' = "billing"

(* insert: refused while a subscription is live; the partial unique index  *)
(* decides between two that overlap.                                       *)
insert(s, e) ==
  /\ ~ \E o \in Subs : live(o)
  /\ sub' = [sub EXCEPT ![s].status = "ACTIVE", ![s].firstEnd = e, ![s].termEnd = e]

(* create, createAtProvisioning.                                           *)
Create(s, e) ==
  /\ sub[s].status = "NONE"
  /\ insert(s, e)
  /\ UNCHANGED <<now, tenant, by, moves, inv, sent, tx>>

(* cancel: lock the row and check the edge, then end it and degrade.       *)
CancelLock(r, s) ==
  /\ tx[r] = Idle
  /\ live(s) /\ subUnlocked(s)
  /\ tx' = [tx EXCEPT ![r] = [op |-> "cancel", sub |-> s, seen |-> tenant]]
  /\ UNCHANGED <<now, tenant, by, moves, sub, inv, sent>>

CancelCommit(r) ==
  /\ tx[r].op = "cancel"
  /\ sub' = [sub EXCEPT ![tx[r].sub].status = "CANCELLED"]
  /\ moveTenant(tx[r].seen, "ACTIVE", "READ_ONLY")
  /\ tx' = [tx EXCEPT ![r] = Idle]
  /\ UNCHANGED <<now, moves, inv, sent>>

-----------------------------------------------------------------------------
(* The end of the period an invoice bills: the first live invoice pays for *)
(* the current term, later ones and renewals for the year after it.        *)
invoicePeriod(s, isFirst) ==
  IF isFirst THEN sub[s].termEnd ELSE sub[s].termEnd + Year

insertInvoice(v, s, isFirst) ==
  inv' = [inv EXCEPT ![v] =
            [status |-> "ISSUED", sub |-> s, end |-> invoicePeriod(s, isFirst)]]

(* issue, asked for by an admin.                                           *)
Issue(v, s) ==
  /\ inv[v].status = "NONE"
  /\ live(s) /\ subUnlocked(s)
  /\ insertInvoice(v, s,
       ~ \E p \in Invoices : inv[p].sub = s /\ inv[p].status \in {"ISSUED", "PAID"})
  /\ UNCHANGED <<now, tenant, by, moves, sub, sent, tx>>

(* void: only an unpaid invoice.                                           *)
Void(v) ==
  /\ inv[v].status = "ISSUED" /\ invUnlocked(v)
  /\ inv' = [inv EXCEPT ![v].status = "VOID"]
  /\ UNCHANGED <<now, tenant, by, moves, sub, sent, tx>>

(* markPaid: lock the invoice, then its subscription, then apply.          *)
MarkPaidLock(r, v) ==
  /\ tx[r] = Idle
  /\ inv[v].status = "ISSUED" /\ invUnlocked(v)
  /\ tx' = [tx EXCEPT ![r] = [op |-> "pay", inv |-> v]]
  /\ UNCHANGED <<now, tenant, by, moves, sub, inv, sent>>

MarkPaidLockSub(r) ==
  /\ tx[r].op = "pay"
  /\ LET s == inv[tx[r].inv].sub IN
       /\ live(s) /\ subUnlocked(s)
       /\ tx' = [tx EXCEPT ![r] =
                   [op |-> "paying", inv |-> tx[r].inv, sub |-> s, seen |-> tenant]]
  /\ UNCHANGED <<now, tenant, by, moves, sub, inv, sent>>

(* Mutant: a payment always adds a year.                                   *)
extendedTermEndAlways(previous, end) == previous + Year

(* Paying for a period the term already covers does not extend it.         *)
extendedTermEnd(previous, end) == IF end <= previous THEN previous ELSE end

(* Mutant: the payment restores the subscription and forgets the tenant.   *)
applyPaymentOnly(s, seen) == UNCHANGED <<tenant, by>>

(* The tenant's part of applyPayment.                                      *)
applyPayment(s, seen) ==
  IF sub[s].status = "EXPIRED"
    THEN moveTenant(seen, "READ_ONLY", "ACTIVE")
    ELSE UNCHANGED <<tenant, by>>

MarkPaidCommit(r) ==
  /\ tx[r].op = "paying"
  /\ LET s == tx[r].sub
         v == tx[r].inv
     IN /\ inv' = [inv EXCEPT ![v].status = "PAID"]
        /\ sub' = [sub EXCEPT ![s].status = "ACTIVE",
                              ![s].termEnd = extendedTermEnd(@, inv[v].end)]
        /\ applyPayment(s, tx[r].seen)
  /\ tx' = [tx EXCEPT ![r] = Idle]
  /\ UNCHANGED <<now, moves, sent>>

-----------------------------------------------------------------------------
(* The status after the transitions due at `at`.                           *)
dueTransitions(s, at) ==
  IF sub[s].status \in {"ACTIVE", "IN_GRACE"} /\ at > sub[s].termEnd + Grace THEN "EXPIRED"
  ELSE IF sub[s].status = "ACTIVE" /\ at > sub[s].termEnd THEN "IN_GRACE"
  ELSE sub[s].status

(* The reminders reached at `at`, the latest only: none, or a singleton.   *)
dueTouch(status, termEnd, at) ==
  IF status = "EXPIRED" THEN {<<"READ_ONLY", 0>>}
  ELSE IF at >= termEnd THEN {<<"grace", (at - termEnd) \div Week>>}
  ELSE {<<"pre", d>> : d \in {d \in PreTouches :
          /\ termEnd - at <= d
          /\ \A e \in PreTouches : termEnd - at <= e => d <= e}}

(* Mutant: the renewal recorded for this term is not looked up.            *)
renewalDueAgain(s, at) == at >= sub[s].termEnd - Lead

(* A renewal is due and not yet recorded for this term.                    *)
renewalDue(s, at) == at >= sub[s].termEnd - Lead /\ sub[s].termEnd \notin sub[s].renewed

(* A live invoice already bills beyond the term.                           *)
renewalCovering(s) ==
  \E v \in Invoices :
    inv[v].sub = s /\ inv[v].status \in {"ISSUED", "PAID"} /\ inv[v].end > sub[s].termEnd

(* sweep: the tick takes the time and selects the subscriptions in reach.  *)
Sweep(r) ==
  /\ tx[r] = Idle
  /\ tx' = [tx EXCEPT ![r] = [op |-> "sweep", at |-> now, todo |->
       {s \in Subs : live(s) /\ \E d \in PreTouches \cup {Lead} : sub[s].termEnd <= now + d}]]
  /\ UNCHANGED <<now, tenant, by, moves, sub, inv, sent>>

(* processOne: lock one of them; one cancelled since is left alone.        *)
ProcessLock(r, s) ==
  /\ tx[r].op = "sweep" /\ s \in tx[r].todo
  /\ subUnlocked(s)
  /\ tx' = [tx EXCEPT ![r] =
       IF live(s) THEN [op |-> "dunning", at |-> tx[r].at, todo |-> tx[r].todo \ {s},
                        sub |-> s, seen |-> tenant]
       ELSE [tx[r] EXCEPT !.todo = @ \ {s}]]
  /\ UNCHANGED <<now, tenant, by, moves, sub, inv, sent>>

(* Mutant: an overdue subscription is moved to IN_GRACE only.              *)
ProcessCommitNoExpiry(r, s) ==
  /\ tx[r].op = "dunning" /\ tx[r].sub = s
  /\ sub' = [sub EXCEPT ![s].status = IF tx[r].at > sub[s].termEnd THEN "IN_GRACE" ELSE @]
  /\ tx' = [tx EXCEPT ![r] = [op |-> "sweep", at |-> tx[r].at, todo |-> tx[r].todo]]
  /\ UNCHANGED <<now, tenant, by, moves, inv, sent>>

(* processOne: transitions, renewal and reminder in one transaction.  The  *)
(* reminder goes out in an after-commit hook, which runs once or is lost.  *)
ProcessCommit(r, s) ==
  /\ tx[r].op = "dunning" /\ tx[r].sub = s
  /\ LET at == tx[r].at
         term == sub[s].termEnd
         to == dueTransitions(s, at)
         touch == {t \in dueTouch(to, term, at) : <<term, t>> \notin sub[s].touched}
     IN /\ sub' = [sub EXCEPT ![s] = [sub[s] EXCEPT
             !.status = to,
             !.renewed = IF renewalDue(s, at) THEN @ \cup {term} ELSE @,
             !.touched = @ \cup {<<term, t>> : t \in touch}]]
        /\ IF to = "EXPIRED" /\ sub[s].status # "EXPIRED"
             THEN moveTenant(tx[r].seen, "ACTIVE", "READ_ONLY")
             ELSE UNCHANGED <<tenant, by>>
        /\ IF renewalDue(s, at) /\ ~ renewalCovering(s)
             THEN \E v \in Renewals : inv[v].status = "NONE" /\ insertInvoice(v, s, FALSE)
             ELSE UNCHANGED inv
        /\ sent' = sent (+) SetToBag({<<s, term, t>> : t \in touch})
        /\ tx' = [tx EXCEPT ![r] = [op |-> "sweep", at |-> at, todo |-> tx[r].todo]]
  /\ UNCHANGED <<now, moves>>

(* processOne throws: its transaction rolls back, the sweep goes on.       *)
ProcessFail(r) ==
  /\ tx[r].op = "dunning"
  /\ tx' = [tx EXCEPT ![r] = [op |-> "sweep", at |-> tx[r].at, todo |-> tx[r].todo]]
  /\ UNCHANGED <<now, tenant, by, moves, sub, inv, sent>>

(* A request ends: a sweep that is through with its list, or any request   *)
(* that throws, or whose process dies, inside a transaction.               *)
End(r) ==
  /\ tx[r] # Idle
  /\ tx[r].op = "sweep" => tx[r].todo = {}
  /\ tx' = [tx EXCEPT ![r] = Idle]
  /\ UNCHANGED <<now, tenant, by, moves, sub, inv, sent>>

-----------------------------------------------------------------------------
(* setStatus by a platform admin, and the purge of a suspended tenant.     *)
SetStatus(to) ==
  /\ moves < MaxMoves
  /\ to \in StatusTransitions[tenant]
  /\ tenant' = to /\ by' = "admin" /\ moves' = moves + 1
  /\ UNCHANGED <<now, sub, inv, sent, tx>>

RequestPurge ==
  /\ tenant = "SUSPENDED"
  /\ tenant' = "PURGING" /\ by' = "admin"
  /\ UNCHANGED <<now, moves, sub, inv, sent, tx>>

Tick ==
  /\ now < MaxNow
  /\ now' = now + 1
  /\ UNCHANGED <<tenant, by, moves, sub, inv, sent, tx>>

Next ==
  \/ Tick \/ RequestPurge
  \/ \E to \in TenantStatus : SetStatus(to)
  \/ \E s \in Subs : (\E e \in FirstEnds : Create(s, e)) \/ (\E v \in Manual : Issue(v, s))
  \/ \E v \in Invoices : Void(v)
  \/ \E r \in Requests : Sweep(r) \/ ProcessFail(r) \/ End(r)
  \/ \E r \in Requests : CancelCommit(r) \/ MarkPaidLockSub(r) \/ MarkPaidCommit(r)
  \/ \E r \in Requests, v \in Invoices : MarkPaidLock(r, v)
  \/ \E r \in Requests, s \in Subs :
       CancelLock(r, s) \/ ProcessLock(r, s) \/ ProcessCommit(r, s)

Spec == Init /\ [][Next]_vars

(* The tick is repeatable and its failures are not permanent: sweeps keep  *)
(* starting, no request runs for ever, and a subscription the sweeps keep  *)
(* reaching and locking is processed in the end.                           *)
FairSpec ==
  /\ Spec
  /\ SF_vars(\E r \in Requests : Sweep(r))
  /\ \A r \in Requests : WF_vars(End(r) \/ ProcessFail(r))
  /\ \A s \in Subs :
       /\ SF_vars(\E r \in Requests : ProcessLock(r, s))
       /\ SF_vars(\E r \in Requests : ProcessCommit(r, s))

-----------------------------------------------------------------------------
(* The facts the properties rest on.  Locks: a locked subscription is live, *)
(* a locked invoice unpaid, and nobody else holds either.                  *)
holdsSub(r) == tx[r].op \in {"dunning", "paying", "cancel"}
holdsInv(r) == tx[r].op \in {"pay", "paying"}

LocksHold ==
  /\ \A r \in Requests : holdsSub(r) => live(tx[r].sub)
  /\ \A r \in Requests : holdsInv(r) => inv[tx[r].inv].status = "ISSUED"
  /\ \A r \in Requests : tx[r].op = "paying" => tx[r].sub = inv[tx[r].inv].sub
  /\ \A r, q \in Requests : holdsSub(r) /\ holdsSub(q) /\ tx[r].sub = tx[q].sub => r = q
  /\ \A r, q \in Requests : holdsInv(r) /\ holdsInv(q) /\ tx[r].inv = tx[q].inv => r = q

(* At most one live subscription; an expired one is past its grace; an     *)
(* unused row has no term; no sweep is ahead of the clock.                 *)
LiveIsUnique ==
  /\ \A s \in Subs : sub[s].status = "NONE" => sub[s].termEnd = 0
  /\ \A s, o \in Subs : live(s) /\ live(o) => s = o
  /\ \A s \in Subs : sub[s].status = "EXPIRED" => now > sub[s].termEnd + Grace
  /\ \A r \in Requests : tx[r].op \in {"sweep", "dunning"} => tx[r].at <= now

(* An invoice bills no further than the year after the term; a renewal is  *)
(* recorded for the term it follows.                                       *)
InvoiceFollowsTerm ==
  /\ \A v \in Invoices : inv[v].status # "NONE" => inv[v].end <= sub[inv[v].sub].termEnd + Year
  /\ \A v \in Renewals : inv[v].status # "NONE" =>
       \E t \in sub[inv[v].sub].renewed : inv[v].end = t + Year

(* While a request holds a subscription only an admin can make the tenant  *)
(* status it has read stale.                                               *)
SeenIsCurrent ==
  \A r \in Requests : holdsSub(r) => tx[r].seen = tenant \/ by = "admin"

(* Every scheduled reminder is recorded, once.                             *)
RemindersRecorded ==
  /\ \A x \in DOMAIN sent : sent[x] = 1
  /\ \A x \in DOMAIN sent : x[1] \in Subs /\ <<x[2], x[3]>> \in sub[x[1]].touched

(* term_end is bought year by year: each year beyond the first term has a  *)
(* paid invoice that ends with it, however payments, double invoices,      *)
(* voids and renewals overlap (applyPayment, extendedTermEnd).             *)
TermIsPaid ==
  \A s \in Subs : \A t \in sub[s].firstEnd + 1 .. sub[s].termEnd :
    \E v \in Invoices :
      inv[v].status = "PAID" /\ inv[v].sub = s /\ inv[v].end - Year < t /\ t <= inv[v].end

(* Overlapping, repeated and interrupted sweeps issue at most one renewal  *)
(* per term and send no reminder twice (dunning_events under the lock).    *)
DunnedOnce ==
  /\ \A v, w \in Renewals :
       inv[v].status # "NONE" /\ inv[w].status # "NONE"
         /\ inv[v].sub = inv[w].sub /\ inv[v].end = inv[w].end => v = w
  /\ \A x \in DOMAIN sent : sent[x] = 1

(* What billing last did to the tenant follows from a subscription: it is  *)
(* READ_ONLY because one was cancelled or is past its grace, never early,  *)
(* and ACTIVE only if none is expired (enterReadOnly, exitReadOnly).       *)
ServiceFollowsSubscription ==
  by = "billing" =>
    /\ tenant = "READ_ONLY" => \E s \in Subs :
         \/ sub[s].status = "CANCELLED"
         \/ sub[s].status = "EXPIRED" /\ now > sub[s].termEnd + Grace
    /\ tenant = "ACTIVE" => \A s \in Subs : sub[s].status # "EXPIRED"

(* A subscription past its grace is expired, paid or cancelled in the end: *)
(* failed passes and stale reads of the tenant only delay the sweep.       *)
OverdueDegrades ==
  \A s \in Subs :
    (sub[s].status \in {"ACTIVE", "IN_GRACE"} /\ now > sub[s].termEnd + Grace)
      ~> (sub[s].status \in {"EXPIRED", "CANCELLED"} \/ now <= sub[s].termEnd + Grace)

IndInv ==
  /\ TypeOK /\ LocksHold /\ LiveIsUnique /\ InvoiceFollowsTerm
  /\ SeenIsCurrent /\ RemindersRecorded
  /\ TermIsPaid /\ DunnedOnce /\ ServiceFollowsSubscription
================================================================================
