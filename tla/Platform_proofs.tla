------------------------------ MODULE Platform_proofs ------------------------------
(***************************************************************************)
(* Proofs about the vendor's side of the platform.  Part 1: billing, for   *)
(* any number of subscriptions, invoices and overlapping requests, any     *)
(* grace, lead, term and reminder schedule.  Part 2: the life of the       *)
(* tenants and the public demo, for any finite set of tenants, any cap and *)
(* any number of attempts, events and faults.                              *)
(***************************************************************************)
EXTENDS SubscriptionBilling, TenantLifecycle, FiniteSetTheorems, TLAPS

USE DEF Invoices, Idle

-----------------------------------------------------------------------------
(* The touchpoints of the schedule are touches (dueTouch).                 *)
LEMMA DueTouchType ==
  ASSUME NEW state, NEW termEnd \in Nat, NEW at \in Nat
  PROVE  dueTouch(state, termEnd, at) \subseteq Touch
  <1>1. CASE state = "EXPIRED"
    BY <1>1 DEF dueTouch, Touch
  <1>2. CASE state # "EXPIRED" /\ at >= termEnd
    <2>1. (at - termEnd) \div Week \in Int
      BY <1>2, BillingAssumptions
    <2> QED BY <1>2, <2>1 DEF dueTouch, Touch
  <1>3. CASE state # "EXPIRED" /\ ~(at >= termEnd)
    BY <1>3, BillingAssumptions DEF dueTouch, Touch
  <1> QED BY <1>1, <1>2, <1>3

(* A move of the tenant by billing stays inside the life cycle.            *)
LEMMA MoveTenantType ==
  ASSUME TypeOK, NEW seen, NEW from, NEW to, moveTenant(seen, from, to)
  PROVE  tenant' \in TenantStatus /\ by' \in {"admin", "billing"}
  <1>1. CASE seen # from
    BY <1>1 DEF moveTenant, TypeOK
  <1>2. CASE seen = from
    BY <1>2 DEF moveTenant, TypeOK, StatusTransitions, TenantStatus
  <1> QED BY <1>1, <1>2

(* A new invoice row has its type.                                         *)
LEMMA InsertInvoiceType ==
  ASSUME TypeOK, NEW v \in Invoices, NEW s \in Subs, NEW first \in BOOLEAN,
         insertInvoice(v, s, first)
  PROVE  inv' \in [Invoices -> InvoiceRow]
  <1>1. invoicePeriod(s, first) \in Nat
    BY BillingAssumptions DEF invoicePeriod, TypeOK, SubscriptionRow
  <1> QED BY <1>1 DEF insertInvoice, TypeOK, InvoiceRow

(* Every step keeps the type invariant.                                    *)
LEMMA TypeStep ==
  ASSUME TypeOK, Next
  PROVE  TypeOK'
  <1>1. CASE Tick
    BY <1>1 DEF Tick, TypeOK
  <1>2. CASE RequestPurge
    BY <1>2 DEF RequestPurge, TypeOK, TenantStatus
  <1>3. ASSUME NEW to \in TenantStatus, SetStatus(to) PROVE TypeOK'
    BY <1>3 DEF SetStatus, TypeOK
  <1>4. ASSUME NEW s \in Subs, NEW e \in FirstEnds, Create(s, e) PROVE TypeOK'
    <2>1. e \in Nat
      BY BillingAssumptions
    <2> QED BY <1>4, <2>1 DEF Create, insert, TypeOK, SubscriptionRow
  <1>5. ASSUME NEW s \in Subs, NEW v \in Manual, Issue(v, s) PROVE TypeOK'
    <2>1. inv' \in [Invoices -> InvoiceRow]
      BY <1>5, InsertInvoiceType DEF Issue
    <2> QED BY <1>5, <2>1 DEF Issue, TypeOK
  <1>6. ASSUME NEW v \in Invoices, Void(v) PROVE TypeOK'
    BY <1>6 DEF Void, TypeOK, InvoiceRow
  <1>7. ASSUME NEW r \in Requests, Sweep(r) PROVE TypeOK'
    <2>1. tx' \in [Requests -> Tx]
      BY <1>7 DEF Sweep, TypeOK, Tx
    <2> QED BY <1>7, <2>1 DEF Sweep, TypeOK
  <1>8. ASSUME NEW r \in Requests, ProcessFail(r) PROVE TypeOK'
    <2>1. tx[r] \in [op : {"dunning"}, at : Nat, todo : SUBSET Subs, sub : Subs,
                     seen : TenantStatus]
      BY <1>8 DEF ProcessFail, TypeOK, Tx
    <2>2. tx' \in [Requests -> Tx]
      BY <1>8, <2>1 DEF ProcessFail, TypeOK, Tx
    <2> QED BY <1>8, <2>2 DEF ProcessFail, TypeOK
  <1>9. ASSUME NEW r \in Requests, End(r) PROVE TypeOK'
    BY <1>9 DEF End, TypeOK, Tx
  <1>10. ASSUME NEW r \in Requests, CancelCommit(r) PROVE TypeOK'
    <2>1. tx[r].sub \in Subs
      BY <1>10 DEF CancelCommit, TypeOK, Tx
    <2>2. tenant' \in TenantStatus /\ by' \in {"admin", "billing"}
      BY <1>10, MoveTenantType DEF CancelCommit
    <2>3. sub' \in [Subs -> SubscriptionRow]
      BY <1>10, <2>1 DEF CancelCommit, TypeOK, SubscriptionRow
    <2> QED BY <1>10, <2>2, <2>3 DEF CancelCommit, TypeOK, Tx
  <1>11. ASSUME NEW r \in Requests, MarkPaidLockSub(r) PROVE TypeOK'
    <2>1. tx[r].inv \in Invoices
      BY <1>11 DEF MarkPaidLockSub, TypeOK, Tx
    <2>2. inv[tx[r].inv].sub \in Subs
      BY <2>1 DEF TypeOK, InvoiceRow
    <2>3. tx' \in [Requests -> Tx]
      BY <1>11, <2>1, <2>2 DEF MarkPaidLockSub, TypeOK, Tx
    <2> QED BY <1>11, <2>3 DEF MarkPaidLockSub, TypeOK
  <1>12. ASSUME NEW r \in Requests, MarkPaidCommit(r) PROVE TypeOK'
    <2>1. tx[r].inv \in Invoices /\ tx[r].sub \in Subs
      BY <1>12 DEF MarkPaidCommit, TypeOK, Tx
    <2>2. tenant' \in TenantStatus /\ by' \in {"admin", "billing"}
      <3>1. CASE sub[tx[r].sub].status = "EXPIRED"
        BY <1>12, <3>1, MoveTenantType DEF MarkPaidCommit, applyPayment
      <3>2. CASE sub[tx[r].sub].status # "EXPIRED"
        BY <1>12, <3>2 DEF MarkPaidCommit, applyPayment, TypeOK
      <3> QED BY <3>1, <3>2
    <2>3. extendedTermEnd(sub[tx[r].sub].termEnd, inv[tx[r].inv].end) \in Nat
      BY <2>1 DEF extendedTermEnd, TypeOK, SubscriptionRow, InvoiceRow
    <2>4. sub' \in [Subs -> SubscriptionRow]
      BY <1>12, <2>1, <2>3 DEF MarkPaidCommit, TypeOK, SubscriptionRow
    <2>5. inv' \in [Invoices -> InvoiceRow]
      BY <1>12, <2>1 DEF MarkPaidCommit, TypeOK, InvoiceRow
    <2> QED BY <1>12, <2>2, <2>4, <2>5 DEF MarkPaidCommit, TypeOK, Tx
  <1>13. ASSUME NEW r \in Requests, NEW v \in Invoices, MarkPaidLock(r, v) PROVE TypeOK'
    BY <1>13 DEF MarkPaidLock, TypeOK, Tx
  <1>14. ASSUME NEW r \in Requests, NEW s \in Subs, CancelLock(r, s) PROVE TypeOK'
    BY <1>14 DEF CancelLock, TypeOK, Tx
  <1>15. ASSUME NEW r \in Requests, NEW s \in Subs, ProcessLock(r, s) PROVE TypeOK'
    <2>1. tx[r] \in [op : {"sweep"}, at : Nat, todo : SUBSET Subs]
      BY <1>15 DEF ProcessLock, TypeOK, Tx
    <2>2. tx' \in [Requests -> Tx]
      <3>1. CASE live(s)
        BY <1>15, <2>1, <3>1 DEF ProcessLock, TypeOK, Tx
      <3>2. CASE ~live(s)
        <4>1. [tx[r] EXCEPT !.todo = @ \ {s}] \in [op : {"sweep"}, at : Nat, todo : SUBSET Subs]
          BY <2>1
        <4> QED BY <1>15, <3>2, <4>1 DEF ProcessLock, TypeOK, Tx
      <3> QED BY <3>1, <3>2
    <2> QED BY <1>15, <2>2 DEF ProcessLock, TypeOK
  <1>16. ASSUME NEW r \in Requests, NEW s \in Subs, ProcessCommit(r, s) PROVE TypeOK'
    <2> DEFINE to == dueTransitions(s, tx[r].at)
               term == sub[s].termEnd
    <2>1. tx[r] \in [op : {"dunning"}, at : Nat, todo : SUBSET Subs, sub : Subs,
                     seen : TenantStatus]
      BY <1>16 DEF ProcessCommit, TypeOK, Tx
    <2>2. term \in Nat /\ tx[r].at \in Nat
      BY <2>1 DEF TypeOK, SubscriptionRow
    <2>3. to \in {"NONE", "ACTIVE", "IN_GRACE", "EXPIRED", "CANCELLED"}
      BY DEF dueTransitions, TypeOK, SubscriptionRow
    <2>4. dueTouch(to, term, tx[r].at) \subseteq Touch
      BY <2>2, DueTouchType
    <2>5. sub' \in [Subs -> SubscriptionRow]
      <3> DEFINE touch == {t \in dueTouch(to, term, tx[r].at) : <<term, t>> \notin sub[s].touched}
                 renewed == IF renewalDue(s, tx[r].at) THEN sub[s].renewed \cup {term}
                            ELSE sub[s].renewed
                 touched == sub[s].touched \cup {<<term, t>> : t \in touch}
                 row == [sub[s] EXCEPT !.status = to, !.renewed = renewed, !.touched = touched]
      <3>1. sub[s] \in SubscriptionRow
        BY DEF TypeOK
      <3>2. renewed \in SUBSET Nat
        BY <3>1, <2>2 DEF SubscriptionRow
      <3>3. touched \in SUBSET (Nat \X Touch)
        <4>1. \A t \in touch : t \in Touch
          BY <2>4
        <4>2. sub[s].touched \in SUBSET (Nat \X Touch)
          BY <3>1 DEF SubscriptionRow
        <4> HIDE DEF touch, term
        <4>3. \A t \in touch : <<term, t>> \in Nat \X Touch
          BY <4>1, <2>2
        <4> QED BY <4>2, <4>3
      <3> HIDE DEF renewed, touched, to
      <3>4. row \in SubscriptionRow
        BY <3>1, <3>2, <3>3, <2>3 DEF SubscriptionRow
      <3>5. sub' = [sub EXCEPT ![s] = row]
        BY <1>16 DEF ProcessCommit, renewed, touched, to
      <3> HIDE DEF row
      <3> QED BY <3>4, <3>5 DEF TypeOK
    <2>6. tenant' \in TenantStatus /\ by' \in {"admin", "billing"}
      <3>1. CASE to = "EXPIRED" /\ sub[s].status # "EXPIRED"
        BY <1>16, <3>1, MoveTenantType DEF ProcessCommit
      <3>2. CASE ~(to = "EXPIRED" /\ sub[s].status # "EXPIRED")
        BY <1>16, <3>2 DEF ProcessCommit, TypeOK
      <3> QED BY <3>1, <3>2
    <2>7. inv' \in [Invoices -> InvoiceRow]
      <3>1. CASE renewalDue(s, tx[r].at) /\ ~ renewalCovering(s)
        <4>1. PICK v \in Renewals : insertInvoice(v, s, FALSE)
          BY <1>16, <3>1 DEF ProcessCommit
        <4> QED BY <4>1, InsertInvoiceType
      <3>2. CASE ~(renewalDue(s, tx[r].at) /\ ~ renewalCovering(s))
        BY <1>16, <3>2 DEF ProcessCommit, TypeOK
      <3> QED BY <3>1, <3>2
    <2>8. tx' \in [Requests -> Tx]
      BY <1>16, <2>1 DEF ProcessCommit, TypeOK, Tx
    <2> QED BY <1>16, <2>5, <2>6, <2>7, <2>8 DEF ProcessCommit, TypeOK
  <1> QED
    BY <1>1, <1>2, <1>3, <1>4, <1>5, <1>6, <1>7, <1>8, <1>9, <1>10, <1>11, <1>12,
       <1>13, <1>14, <1>15, <1>16 DEF Next

-----------------------------------------------------------------------------
(* Every step keeps the locks: exclusive, on live subscriptions and unpaid *)
(* invoices.                                                               *)
LEMMA LocksStep ==
  ASSUME TypeOK, LocksHold, Next
  PROVE  LocksHold'
  <1> USE DEF LocksHold, holdsSub, holdsInv, live
  <1>t. /\ tx \in [Requests -> Tx] /\ sub \in [Subs -> SubscriptionRow]
        /\ inv \in [Invoices -> InvoiceRow]
    BY DEF TypeOK
  <1>s. \A r \in Requests : holdsSub(r) => tx[r].sub \in Subs
    BY <1>t DEF Tx
  <1>i. \A r \in Requests : holdsInv(r) => tx[r].inv \in Invoices
    BY <1>t DEF Tx
  <1>1. CASE Tick
    BY <1>1 DEF Tick
  <1>2. CASE RequestPurge
    BY <1>2 DEF RequestPurge
  <1>3. ASSUME NEW to \in TenantStatus, SetStatus(to) PROVE LocksHold'
    BY <1>3 DEF SetStatus
  <1>4. ASSUME NEW s \in Subs, NEW e \in FirstEnds, Create(s, e) PROVE LocksHold'
    <2>1. \A o \in Subs : live(o) => live(o)'
      BY <1>4, <1>t DEF Create, insert, SubscriptionRow
    <2> QED BY <1>4, <2>1, <1>s DEF Create, insert
  <1>5. ASSUME NEW s \in Subs, NEW v \in Manual, Issue(v, s) PROVE LocksHold'
    <2>1. \A w \in Invoices : inv[w].status = "ISSUED" => inv'[w] = inv[w]
      BY <1>5, <1>t DEF Issue, insertInvoice
    <2> QED BY <1>5, <2>1, <1>i DEF Issue
  <1>6. ASSUME NEW v \in Invoices, Void(v) PROVE LocksHold'
    <2>1. \A w \in Invoices : w # v => inv'[w] = inv[w]
      BY <1>6, <1>t DEF Void
    <2> QED BY <1>6, <2>1, <1>i DEF Void, invUnlocked
  <1>7. ASSUME NEW r \in Requests, Sweep(r) PROVE LocksHold'
    BY <1>7, <1>t DEF Sweep
  <1>8. ASSUME NEW r \in Requests, ProcessFail(r) PROVE LocksHold'
    BY <1>8, <1>t DEF ProcessFail
  <1>9. ASSUME NEW r \in Requests, End(r) PROVE LocksHold'
    BY <1>9, <1>t DEF End
  <1>10. ASSUME NEW r \in Requests, CancelCommit(r) PROVE LocksHold'
    <2>1. \A o \in Subs : o # tx[r].sub => sub'[o] = sub[o]
      BY <1>10, <1>t DEF CancelCommit
    <2> QED BY <1>10, <2>1, <1>t, <1>s DEF CancelCommit
  <1>11. ASSUME NEW r \in Requests, MarkPaidLockSub(r) PROVE LocksHold'
    <2>1. inv[tx[r].inv].sub \in Subs
      BY <1>11, <1>t, <1>i DEF MarkPaidLockSub, InvoiceRow
    <2> QED BY <1>11, <2>1, <1>t DEF MarkPaidLockSub, subUnlocked
  <1>12. ASSUME NEW r \in Requests, MarkPaidCommit(r) PROVE LocksHold'
    <2>1. \A o \in Subs : o # tx[r].sub => sub'[o] = sub[o]
      BY <1>12, <1>t DEF MarkPaidCommit
    <2>2. \A w \in Invoices : w # tx[r].inv => inv'[w] = inv[w]
      BY <1>12, <1>t DEF MarkPaidCommit
    <2>3. tx'[r] = Idle /\ \A q \in Requests : q # r => tx'[q] = tx[q]
      BY <1>12, <1>t DEF MarkPaidCommit
    <2>4. \A q \in Requests : q # r =>
            /\ holdsSub(q) => sub'[tx[q].sub] = sub[tx[q].sub]
            /\ holdsInv(q) => inv'[tx[q].inv] = inv[tx[q].inv]
      BY <1>12, <2>1, <2>2, <1>s, <1>i DEF MarkPaidCommit
    <2> QED BY <2>3, <2>4
  <1>13. ASSUME NEW r \in Requests, NEW v \in Invoices, MarkPaidLock(r, v) PROVE LocksHold'
    BY <1>13, <1>t DEF MarkPaidLock, invUnlocked
  <1>14. ASSUME NEW r \in Requests, NEW s \in Subs, CancelLock(r, s) PROVE LocksHold'
    BY <1>14, <1>t DEF CancelLock, subUnlocked
  <1>15. ASSUME NEW r \in Requests, NEW s \in Subs, ProcessLock(r, s) PROVE LocksHold'
    <2>1. CASE live(s)
      BY <1>15, <1>t, <2>1 DEF ProcessLock, subUnlocked
    <2>2. CASE ~live(s)
      <3>1. [tx[r] EXCEPT !.todo = @ \ {s}].op = "sweep"
        BY <1>15, <1>t DEF ProcessLock, Tx
      <3> QED BY <1>15, <1>t, <2>2, <3>1 DEF ProcessLock
    <2> QED BY <2>1, <2>2
  <1>16. ASSUME NEW r \in Requests, NEW s \in Subs, ProcessCommit(r, s) PROVE LocksHold'
    <2>1. \A o \in Subs : o # tx[r].sub => sub'[o] = sub[o]
      BY <1>16, <1>t DEF ProcessCommit
    <2>2. \A w \in Invoices : inv[w].status = "ISSUED" => inv'[w] = inv[w]
      <3>1. CASE renewalDue(s, tx[r].at) /\ ~ renewalCovering(s)
        BY <1>16, <1>t, <3>1 DEF ProcessCommit, insertInvoice
      <3>2. CASE ~(renewalDue(s, tx[r].at) /\ ~ renewalCovering(s))
        BY <1>16, <3>2 DEF ProcessCommit
      <3> QED BY <3>1, <3>2
    <2>3. tx'[r].op = "sweep" /\ \A q \in Requests : q # r => tx'[q] = tx[q]
      BY <1>16, <1>t DEF ProcessCommit
    <2>4. \A q \in Requests : q # r =>
            /\ holdsSub(q) => sub'[tx[q].sub] = sub[tx[q].sub]
            /\ holdsInv(q) => inv'[tx[q].inv] = inv[tx[q].inv]
      BY <1>16, <2>1, <2>2, <1>s, <1>i DEF ProcessCommit
    <2> QED BY <2>3, <2>4
  <1> QED
    BY <1>1, <1>2, <1>3, <1>4, <1>5, <1>6, <1>7, <1>8, <1>9, <1>10, <1>11, <1>12,
       <1>13, <1>14, <1>15, <1>16 DEF Next

-----------------------------------------------------------------------------
(* What the commit of processOne does to the rows: only this subscription, *)
(* which stays live and keeps its term (dueTransitions).                   *)
LEMMA ProcessRows ==
  ASSUME TypeOK, LocksHold, NEW r \in Requests, NEW s \in Subs, ProcessCommit(r, s)
  PROVE  /\ \A o \in Subs : o # s => sub'[o] = sub[o]
         /\ sub'[s].status = dueTransitions(s, tx[r].at)
         /\ sub'[s].termEnd = sub[s].termEnd /\ sub'[s].firstEnd = sub[s].firstEnd
         /\ live(s) /\ live(s)'
  <1>1. sub \in [Subs -> SubscriptionRow] /\ sub[s] \in SubscriptionRow
    BY DEF TypeOK
  <1>2. live(s)
    BY DEF ProcessCommit, LocksHold, holdsSub
  <1>3. \A o \in Subs : o # s => sub'[o] = sub[o]
    BY <1>1 DEF ProcessCommit
  <1> DEFINE touch == {t \in dueTouch(dueTransitions(s, tx[r].at), sub[s].termEnd, tx[r].at) :
                         <<sub[s].termEnd, t>> \notin sub[s].touched}
             renewed == IF renewalDue(s, tx[r].at) THEN sub[s].renewed \cup {sub[s].termEnd}
                        ELSE sub[s].renewed
             touched == sub[s].touched \cup {<<sub[s].termEnd, t>> : t \in touch}
             to == dueTransitions(s, tx[r].at)
             row == [sub[s] EXCEPT !.status = to, !.renewed = renewed, !.touched = touched]
  <1>4. sub' = [sub EXCEPT ![s] = row]
    BY DEF ProcessCommit
  <1> HIDE DEF touch, renewed, touched, to
  <1>5. sub'[s].status = to /\ sub'[s].termEnd = sub[s].termEnd
          /\ sub'[s].firstEnd = sub[s].firstEnd
    BY <1>1, <1>4 DEF SubscriptionRow
  <1>6. to \notin {"NONE", "CANCELLED"}
    BY <1>2 DEF to, dueTransitions, live
  <1> QED BY <1>2, <1>3, <1>5, <1>6 DEF to, live

(* What the commit of markPaid does to the rows.                           *)
LEMMA MarkPaidRows ==
  ASSUME TypeOK, LocksHold, NEW r \in Requests, MarkPaidCommit(r)
  PROVE  /\ tx[r].sub \in Subs /\ tx[r].inv \in Invoices
         /\ tx[r].sub = inv[tx[r].inv].sub /\ inv[tx[r].inv].status = "ISSUED"
         /\ \A o \in Subs : o # tx[r].sub => sub'[o] = sub[o]
         /\ live(tx[r].sub)
         /\ sub'[tx[r].sub].status = "ACTIVE"
         /\ sub'[tx[r].sub].termEnd = extendedTermEnd(sub[tx[r].sub].termEnd, inv[tx[r].inv].end)
         /\ sub'[tx[r].sub].firstEnd = sub[tx[r].sub].firstEnd
         /\ sub'[tx[r].sub].renewed = sub[tx[r].sub].renewed
         /\ sub'[tx[r].sub].touched = sub[tx[r].sub].touched
         /\ \A w \in Invoices : w # tx[r].inv => inv'[w] = inv[w]
         /\ inv'[tx[r].inv] = [inv[tx[r].inv] EXCEPT !.status = "PAID"]
  <1>1. tx[r].sub \in Subs /\ tx[r].inv \in Invoices
    BY DEF MarkPaidCommit, TypeOK, Tx
  <1>2. sub \in [Subs -> SubscriptionRow] /\ inv \in [Invoices -> InvoiceRow]
    BY DEF TypeOK
  <1>3. tx[r].sub = inv[tx[r].inv].sub /\ inv[tx[r].inv].status = "ISSUED" /\ live(tx[r].sub)
    BY DEF MarkPaidCommit, LocksHold, holdsSub, holdsInv
  <1>4. /\ \A o \in Subs : o # tx[r].sub => sub'[o] = sub[o]
        /\ sub'[tx[r].sub] = [sub[tx[r].sub] EXCEPT !.status = "ACTIVE",
             !.termEnd = extendedTermEnd(@, inv[tx[r].inv].end)]
    BY <1>1, <1>2 DEF MarkPaidCommit, SubscriptionRow
  <1>5. sub[tx[r].sub] \in SubscriptionRow
    BY <1>1, <1>2
  <1>6. /\ \A w \in Invoices : w # tx[r].inv => inv'[w] = inv[w]
        /\ inv'[tx[r].inv] = [inv[tx[r].inv] EXCEPT !.status = "PAID"]
    BY <1>1, <1>2 DEF MarkPaidCommit
  <1> QED BY <1>1, <1>3, <1>4, <1>5, <1>6 DEF SubscriptionRow

(* What the commit of cancel does to the rows.                             *)
LEMMA CancelRows ==
  ASSUME TypeOK, LocksHold, NEW r \in Requests, CancelCommit(r)
  PROVE  /\ tx[r].sub \in Subs /\ live(tx[r].sub)
         /\ \A o \in Subs : o # tx[r].sub => sub'[o] = sub[o]
         /\ sub'[tx[r].sub] = [sub[tx[r].sub] EXCEPT !.status = "CANCELLED"]
         /\ sub[tx[r].sub] \in SubscriptionRow
  <1>1. tx[r].sub \in Subs
    BY DEF CancelCommit, TypeOK, Tx
  <1> QED BY <1>1 DEF CancelCommit, TypeOK, LocksHold, holdsSub

(* Every step keeps at most one live subscription, never expired early.    *)
LEMMA LiveStep ==
  ASSUME TypeOK, LocksHold, LiveIsUnique, Next
  PROVE  LiveIsUnique'
  <1> USE DEF LiveIsUnique, live
  <1>t. /\ tx \in [Requests -> Tx] /\ sub \in [Subs -> SubscriptionRow] /\ now \in Nat
        /\ Grace \in Nat
    BY BillingAssumptions DEF TypeOK
  <1>a. \A r \in Requests : tx[r].op \in {"sweep", "dunning"} => tx[r].at \in Nat
    BY <1>t DEF Tx
  <1>e. \A s \in Subs : sub[s].termEnd \in Nat
    BY <1>t DEF SubscriptionRow
  <1>1. CASE Tick
    BY <1>1, <1>t, <1>a, <1>e DEF Tick
  <1>2. CASE RequestPurge
    BY <1>2 DEF RequestPurge
  <1>3. ASSUME NEW to \in TenantStatus, SetStatus(to) PROVE LiveIsUnique'
    BY <1>3 DEF SetStatus
  <1>4. ASSUME NEW s \in Subs, NEW e \in FirstEnds, Create(s, e) PROVE LiveIsUnique'
    <2>1. /\ \A o \in Subs : o # s => sub'[o] = sub[o]
          /\ sub'[s].status = "ACTIVE"
      BY <1>4, <1>t DEF Create, insert, SubscriptionRow
    <2> QED BY <1>4, <2>1 DEF Create, insert
  <1>5. ASSUME NEW s \in Subs, NEW v \in Manual, Issue(v, s) PROVE LiveIsUnique'
    BY <1>5 DEF Issue
  <1>6. ASSUME NEW v \in Invoices, Void(v) PROVE LiveIsUnique'
    BY <1>6 DEF Void
  <1>7. ASSUME NEW r \in Requests, Sweep(r) PROVE LiveIsUnique'
    BY <1>7, <1>t DEF Sweep
  <1>8. ASSUME NEW r \in Requests, ProcessFail(r) PROVE LiveIsUnique'
    BY <1>8, <1>t DEF ProcessFail
  <1>9. ASSUME NEW r \in Requests, End(r) PROVE LiveIsUnique'
    BY <1>9, <1>t DEF End
  <1>10. ASSUME NEW r \in Requests, CancelCommit(r) PROVE LiveIsUnique'
    <2>1. /\ \A o \in Subs : o # tx[r].sub => sub'[o] = sub[o]
          /\ sub'[tx[r].sub].status = "CANCELLED"
      BY <1>10, CancelRows DEF SubscriptionRow
    <2>2. now' = now /\ \A q \in Requests : tx'[q] = IF q = r THEN Idle ELSE tx[q]
      BY <1>10, <1>t DEF CancelCommit
    <2> QED BY <2>1, <2>2
  <1>11. ASSUME NEW r \in Requests, MarkPaidLockSub(r) PROVE LiveIsUnique'
    BY <1>11, <1>t DEF MarkPaidLockSub
  <1>12. ASSUME NEW r \in Requests, MarkPaidCommit(r) PROVE LiveIsUnique'
    <2>1. /\ \A o \in Subs : o # tx[r].sub => sub'[o] = sub[o]
          /\ sub'[tx[r].sub].status = "ACTIVE" /\ live(tx[r].sub) /\ tx[r].sub \in Subs
      BY <1>12, MarkPaidRows
    <2>2. now' = now /\ \A q \in Requests : tx'[q] = IF q = r THEN Idle ELSE tx[q]
      BY <1>12, <1>t DEF MarkPaidCommit
    <2> QED BY <2>1, <2>2
  <1>13. ASSUME NEW r \in Requests, NEW v \in Invoices, MarkPaidLock(r, v) PROVE LiveIsUnique'
    BY <1>13, <1>t DEF MarkPaidLock
  <1>14. ASSUME NEW r \in Requests, NEW s \in Subs, CancelLock(r, s) PROVE LiveIsUnique'
    BY <1>14, <1>t DEF CancelLock
  <1>15. ASSUME NEW r \in Requests, NEW s \in Subs, ProcessLock(r, s) PROVE LiveIsUnique'
    <2>1. tx'[r].at = tx[r].at /\ \A q \in Requests : q # r => tx'[q] = tx[q]
      BY <1>15, <1>t DEF ProcessLock, Tx
    <2> QED BY <1>15, <2>1 DEF ProcessLock
  <1>16. ASSUME NEW r \in Requests, NEW s \in Subs, ProcessCommit(r, s) PROVE LiveIsUnique'
    <2>1. /\ \A o \in Subs : o # s => sub'[o] = sub[o]
          /\ sub'[s].status = dueTransitions(s, tx[r].at)
          /\ sub'[s].termEnd = sub[s].termEnd /\ live(s) /\ live(s)'
      BY <1>16, ProcessRows
    <2>2. /\ now' = now /\ tx'[r].at = tx[r].at
          /\ \A q \in Requests : q # r => tx'[q] = tx[q]
      BY <1>16, <1>t DEF ProcessCommit
    <2>3. tx[r].at <= now /\ tx[r].at \in Nat
      BY <1>16, <1>a DEF ProcessCommit
    <2>4. sub'[s].status = "EXPIRED" => now > sub[s].termEnd + Grace
      BY <2>1, <2>3, <1>t, <1>e DEF dueTransitions
    <2>5. \A o \in Subs : sub'[o].status = "EXPIRED" => now > sub'[o].termEnd + Grace
      BY <2>1, <2>4
    <2>6. \A q \in Requests : tx'[q].op \in {"sweep", "dunning"} => tx'[q].at <= now
      BY <2>2, <2>3
    <2> QED BY <2>1, <2>2, <2>5, <2>6
  <1> QED
    BY <1>1, <1>2, <1>3, <1>4, <1>5, <1>6, <1>7, <1>8, <1>9, <1>10, <1>11, <1>12,
       <1>13, <1>14, <1>15, <1>16 DEF Next

-----------------------------------------------------------------------------
(* Terms only move forward and dunning_events only grow.                   *)
LEMMA RowsGrow ==
  ASSUME TypeOK, LocksHold, LiveIsUnique, Next, NEW o \in Subs
  PROVE  /\ sub[o].termEnd <= sub'[o].termEnd
         /\ sub[o].renewed \subseteq sub'[o].renewed
         /\ sub[o].touched \subseteq sub'[o].touched
  <1>t. /\ sub \in [Subs -> SubscriptionRow] /\ inv \in [Invoices -> InvoiceRow]
        /\ sub[o] \in SubscriptionRow /\ sub[o].termEnd \in Nat
    BY DEF TypeOK, SubscriptionRow
  <1>1. CASE UNCHANGED sub
    BY <1>1, <1>t
  <1>2. ASSUME NEW s \in Subs, NEW e \in FirstEnds, Create(s, e)
        PROVE  /\ sub[o].termEnd <= sub'[o].termEnd
               /\ sub[o].renewed \subseteq sub'[o].renewed
               /\ sub[o].touched \subseteq sub'[o].touched
    <2>1. e \in Nat
      BY BillingAssumptions
    <2> QED BY <1>2, <1>t, <2>1 DEF Create, insert, SubscriptionRow, LiveIsUnique
  <1>3. ASSUME NEW r \in Requests, CancelCommit(r)
        PROVE  /\ sub[o].termEnd <= sub'[o].termEnd
               /\ sub[o].renewed \subseteq sub'[o].renewed
               /\ sub[o].touched \subseteq sub'[o].touched
    <2>1. /\ o # tx[r].sub => sub'[o] = sub[o]
          /\ o = tx[r].sub => sub'[o] = [sub[o] EXCEPT !.status = "CANCELLED"]
      BY <1>3, CancelRows
    <2> QED BY <1>t, <2>1 DEF SubscriptionRow
  <1>4. ASSUME NEW r \in Requests, MarkPaidCommit(r)
        PROVE  /\ sub[o].termEnd <= sub'[o].termEnd
               /\ sub[o].renewed \subseteq sub'[o].renewed
               /\ sub[o].touched \subseteq sub'[o].touched
    <2>0. /\ tx[r].inv \in Invoices
          /\ o # tx[r].sub => sub'[o] = sub[o]
          /\ o = tx[r].sub =>
               /\ sub'[o].termEnd = extendedTermEnd(sub[o].termEnd, inv[tx[r].inv].end)
               /\ sub'[o].renewed = sub[o].renewed /\ sub'[o].touched = sub[o].touched
      BY <1>4, MarkPaidRows
    <2>1. inv[tx[r].inv].end \in Nat
      BY <1>t, <2>0 DEF InvoiceRow
    <2>2. sub[o].termEnd <= extendedTermEnd(sub[o].termEnd, inv[tx[r].inv].end)
      BY <1>t, <2>1 DEF extendedTermEnd
    <2> QED BY <1>t, <2>0, <2>2
  <1>5. ASSUME NEW r \in Requests, NEW s \in Subs, ProcessCommit(r, s)
        PROVE  /\ sub[o].termEnd <= sub'[o].termEnd
               /\ sub[o].renewed \subseteq sub'[o].renewed
               /\ sub[o].touched \subseteq sub'[o].touched
    <2>1. sub[o].termEnd <= sub'[o].termEnd /\ (o # s => sub'[o] = sub[o])
      BY <1>5, <1>t, ProcessRows
    <2>2. CASE o = s
      BY <1>5, <1>t, <2>1, <2>2 DEF ProcessCommit, SubscriptionRow
    <2> QED BY <2>1, <2>2
  <1> QED
    BY <1>1, <1>2, <1>3, <1>4, <1>5
    DEF Next, Tick, RequestPurge, SetStatus, Issue, Void, Sweep, ProcessFail, End,
        MarkPaidLockSub, MarkPaidLock, CancelLock, ProcessLock

(* An issued invoice keeps its subscription and period, and a paid one     *)
(* stays paid.                                                             *)
LEMMA InvoicesStay ==
  ASSUME TypeOK, LocksHold, Next, NEW v \in Invoices, inv[v].status # "NONE"
  PROVE  /\ inv'[v].sub = inv[v].sub /\ inv'[v].end = inv[v].end
         /\ inv'[v].status # "NONE"
         /\ inv[v].status = "PAID" => inv'[v].status = "PAID"
  <1>t. inv \in [Invoices -> InvoiceRow] /\ inv[v] \in InvoiceRow
    BY DEF TypeOK
  <1>1. CASE UNCHANGED inv
    BY <1>1
  <1>2. ASSUME NEW s \in Subs, NEW w \in Manual, Issue(w, s) PROVE inv'[v] = inv[v]
    BY <1>2, <1>t DEF Issue, insertInvoice
  <1>3. ASSUME NEW w \in Invoices, Void(w)
        PROVE  /\ inv'[v].sub = inv[v].sub /\ inv'[v].end = inv[v].end
               /\ inv'[v].status # "NONE"
               /\ inv[v].status = "PAID" => inv'[v].status = "PAID"
    BY <1>3, <1>t DEF Void, InvoiceRow
  <1>4. ASSUME NEW r \in Requests, MarkPaidCommit(r)
        PROVE  /\ inv'[v].sub = inv[v].sub /\ inv'[v].end = inv[v].end
               /\ inv'[v].status # "NONE"
               /\ inv[v].status = "PAID" => inv'[v].status = "PAID"
    <2>1. /\ v # tx[r].inv => inv'[v] = inv[v]
          /\ v = tx[r].inv => inv'[v] = [inv[v] EXCEPT !.status = "PAID"]
      BY <1>4, MarkPaidRows
    <2> QED BY <1>t, <2>1 DEF InvoiceRow
  <1>5. ASSUME NEW r \in Requests, NEW s \in Subs, ProcessCommit(r, s) PROVE inv'[v] = inv[v]
    <2>1. CASE renewalDue(s, tx[r].at) /\ ~ renewalCovering(s)
      BY <1>5, <1>t, <2>1 DEF ProcessCommit, insertInvoice
    <2>2. CASE ~(renewalDue(s, tx[r].at) /\ ~ renewalCovering(s))
      BY <1>5, <2>2 DEF ProcessCommit
    <2> QED BY <2>1, <2>2
  <1> QED
    BY <1>1, <1>2, <1>3, <1>4, <1>5
    DEF Next, Tick, RequestPurge, SetStatus, Create, insert, Sweep, ProcessFail, End,
        CancelCommit, MarkPaidLockSub, MarkPaidLock, CancelLock, ProcessLock

(* A step that issues an invoice bills at most the year after the term,    *)
(* and a renewal is recorded for its term, which had none before.          *)
LEMMA NewInvoice ==
  ASSUME TypeOK, LocksHold, Next, NEW v \in Invoices,
         inv[v].status = "NONE", inv'[v].status # "NONE"
  PROVE  /\ inv'[v].sub \in Subs
         /\ inv'[v].end <= sub[inv'[v].sub].termEnd + Year
         /\ v \in Renewals =>
              LET s == inv'[v].sub IN
              /\ inv'[v].end = sub[s].termEnd + Year
              /\ sub[s].termEnd \notin sub[s].renewed
              /\ sub[s].termEnd \in sub'[s].renewed
              /\ \A w \in Invoices : w # v => inv'[w] = inv[w]
  <1> DEFINE P == /\ inv'[v].sub \in Subs
                  /\ inv'[v].end <= sub[inv'[v].sub].termEnd + Year
                  /\ v \in Renewals =>
                       LET s == inv'[v].sub IN
                       /\ inv'[v].end = sub[s].termEnd + Year
                       /\ sub[s].termEnd \notin sub[s].renewed
                       /\ sub[s].termEnd \in sub'[s].renewed
                       /\ \A w \in Invoices : w # v => inv'[w] = inv[w]
  <1>t. /\ inv \in [Invoices -> InvoiceRow] /\ sub \in [Subs -> SubscriptionRow]
        /\ \A s \in Subs : sub[s].termEnd \in Nat
    BY DEF TypeOK, SubscriptionRow
  <1>1. CASE UNCHANGED inv
    BY <1>1
  <1>2. ASSUME NEW s \in Subs, NEW w \in Manual, Issue(w, s) PROVE P
    <2>1. v = w
      BY <1>2, <1>t DEF Issue, insertInvoice
    <2>2. PICK first \in BOOLEAN :
            inv'[v] = [status |-> "ISSUED", sub |-> s, end |-> invoicePeriod(s, first)]
      BY <1>2, <1>t, <2>1 DEF Issue, insertInvoice
    <2>3. invoicePeriod(s, first) <= sub[s].termEnd + Year
      BY <1>t, BillingAssumptions DEF invoicePeriod
    <2> QED BY <2>1, <2>2, <2>3, BillingAssumptions
  <1>3. ASSUME NEW w \in Invoices, Void(w) PROVE P
    BY <1>3, <1>t DEF Void
  <1>4. ASSUME NEW r \in Requests, MarkPaidCommit(r) PROVE P
    BY <1>4, <1>t, MarkPaidRows
  <1>5. ASSUME NEW r \in Requests, NEW s \in Subs, ProcessCommit(r, s) PROVE P
    <2>1. renewalDue(s, tx[r].at) /\ ~ renewalCovering(s)
      BY <1>5 DEF ProcessCommit
    <2>2. PICK w \in Renewals : insertInvoice(w, s, FALSE)
      BY <1>5, <2>1 DEF ProcessCommit
    <2>3. v = w /\ \A x \in Invoices : x # v => inv'[x] = inv[x]
      BY <1>t, <2>2 DEF insertInvoice
    <2>4. inv'[v] = [status |-> "ISSUED", sub |-> s, end |-> sub[s].termEnd + Year]
      BY <1>t, <2>2, <2>3 DEF insertInvoice, invoicePeriod
    <2>5. sub[s].termEnd \notin sub[s].renewed
      BY <2>1 DEF renewalDue
    <2>6. sub[s].termEnd \in sub'[s].renewed
      BY <1>5, <1>t, <2>1 DEF ProcessCommit, SubscriptionRow
    <2> QED BY <1>t, <2>3, <2>4, <2>5, <2>6, BillingAssumptions
  <1> QED
    BY <1>1, <1>2, <1>3, <1>4, <1>5
    DEF Next, Tick, RequestPurge, SetStatus, Create, insert, Sweep, ProcessFail, End,
        CancelCommit, MarkPaidLockSub, MarkPaidLock, CancelLock, ProcessLock

(* Every step keeps invoices tied to terms.                                *)
LEMMA InvoiceStep ==
  ASSUME TypeOK, TypeOK', LocksHold, LiveIsUnique, InvoiceFollowsTerm, Next
  PROVE  InvoiceFollowsTerm'
  <1> USE DEF InvoiceFollowsTerm
  <1>t. /\ \A v \in Invoices : inv[v].sub \in Subs /\ inv[v].end \in Nat
        /\ \A v \in Invoices : inv'[v].sub \in Subs /\ inv'[v].end \in Nat
        /\ \A s \in Subs : sub[s].termEnd \in Nat /\ sub'[s].termEnd \in Nat
        /\ Year \in Nat
    BY BillingAssumptions DEF TypeOK, InvoiceRow, SubscriptionRow
  <1>1. ASSUME NEW v \in Invoices, inv'[v].status # "NONE"
        PROVE  inv'[v].end <= sub'[inv'[v].sub].termEnd + Year
    <2>1. CASE inv[v].status # "NONE"
      BY <1>t, <2>1, InvoicesStay, RowsGrow
    <2>2. CASE inv[v].status = "NONE"
      <3>1. inv'[v].end <= sub[inv'[v].sub].termEnd + Year
        BY <1>1, <2>2, NewInvoice
      <3>2. sub[inv'[v].sub].termEnd <= sub'[inv'[v].sub].termEnd
        BY <1>t, RowsGrow
      <3> QED BY <1>t, <3>1, <3>2
    <2> QED BY <2>1, <2>2
  <1>2. ASSUME NEW v \in Renewals, inv'[v].status # "NONE"
        PROVE  \E t \in sub'[inv'[v].sub].renewed : inv'[v].end = t + Year
    <2>1. CASE inv[v].status # "NONE"
      BY <1>t, <2>1, InvoicesStay, RowsGrow
    <2>2. CASE inv[v].status = "NONE"
      BY <1>2, <2>2, NewInvoice
    <2> QED BY <2>1, <2>2
  <1> QED BY <1>1, <1>2

-----------------------------------------------------------------------------
(* A term changes only when it is created or paid for.                     *)
LEMMA TermChange ==
  ASSUME TypeOK, LocksHold, Next, NEW o \in Subs
  PROVE  \/ sub'[o].firstEnd = sub[o].firstEnd /\ sub'[o].termEnd = sub[o].termEnd
         \/ sub'[o].firstEnd = sub'[o].termEnd
         \/ \E r \in Requests : MarkPaidCommit(r) /\ tx[r].sub = o
  <1>t. sub \in [Subs -> SubscriptionRow] /\ sub[o] \in SubscriptionRow
    BY DEF TypeOK
  <1>1. CASE UNCHANGED sub
    BY <1>1
  <1>2. ASSUME NEW s \in Subs, NEW e \in FirstEnds, Create(s, e)
        PROVE sub'[o] = sub[o] \/ sub'[o].firstEnd = sub'[o].termEnd
    BY <1>2, <1>t DEF Create, insert, SubscriptionRow
  <1>3. ASSUME NEW r \in Requests, CancelCommit(r)
        PROVE sub'[o].firstEnd = sub[o].firstEnd /\ sub'[o].termEnd = sub[o].termEnd
    <2>1. /\ o # tx[r].sub => sub'[o] = sub[o]
          /\ o = tx[r].sub => sub'[o] = [sub[o] EXCEPT !.status = "CANCELLED"]
      BY <1>3, CancelRows
    <2> QED BY <1>t, <2>1 DEF SubscriptionRow
  <1>4. ASSUME NEW r \in Requests, MarkPaidCommit(r), tx[r].sub # o PROVE sub'[o] = sub[o]
    BY <1>4, MarkPaidRows
  <1>5. ASSUME NEW r \in Requests, NEW s \in Subs, ProcessCommit(r, s)
        PROVE sub'[o].firstEnd = sub[o].firstEnd /\ sub'[o].termEnd = sub[o].termEnd
    BY <1>5, ProcessRows
  <1> QED
    BY <1>1, <1>2, <1>3, <1>4, <1>5
    DEF Next, Tick, RequestPurge, SetStatus, Issue, Void, Sweep, ProcessFail, End,
        MarkPaidLockSub, MarkPaidLock, CancelLock, ProcessLock

(* Every step keeps the term paid for.                                     *)
LEMMA TermStep ==
  ASSUME TypeOK, TypeOK', LocksHold, LiveIsUnique, InvoiceFollowsTerm, TermIsPaid, Next
  PROVE  TermIsPaid'
  <1> SUFFICES ASSUME NEW s \in Subs, NEW t \in sub'[s].firstEnd + 1 .. sub'[s].termEnd
               PROVE  \E v \in Invoices :
                        /\ inv'[v].status = "PAID" /\ inv'[v].sub = s
                        /\ inv'[v].end - Year < t /\ t <= inv'[v].end
    BY DEF TermIsPaid
  <1>t. /\ sub[s].firstEnd \in Nat /\ sub[s].termEnd \in Nat
        /\ sub'[s].firstEnd \in Nat /\ sub'[s].termEnd \in Nat /\ Year \in Nat
        /\ \A v \in Invoices : inv[v] \in InvoiceRow /\ inv[v].end \in Nat
    BY BillingAssumptions DEF TypeOK, SubscriptionRow, InvoiceRow
  <1>1. CASE t \in sub[s].firstEnd + 1 .. sub[s].termEnd
    <2>1. PICK v \in Invoices : /\ inv[v].status = "PAID" /\ inv[v].sub = s
                                /\ inv[v].end - Year < t /\ t <= inv[v].end
      BY <1>1 DEF TermIsPaid
    <2>2. inv'[v].sub = s /\ inv'[v].end = inv[v].end /\ inv'[v].status = "PAID"
      BY <2>1, InvoicesStay
    <2> QED BY <2>1, <2>2
  <1>2. CASE t \notin sub[s].firstEnd + 1 .. sub[s].termEnd
    <2>1. PICK r \in Requests : MarkPaidCommit(r) /\ tx[r].sub = s
      BY <1>2, <1>t, TermChange
    <2>2. /\ tx[r].inv \in Invoices /\ inv[tx[r].inv].sub = s /\ inv[tx[r].inv].status = "ISSUED"
          /\ sub'[s].termEnd = extendedTermEnd(sub[s].termEnd, inv[tx[r].inv].end)
          /\ sub'[s].firstEnd = sub[s].firstEnd
          /\ inv'[tx[r].inv] = [inv[tx[r].inv] EXCEPT !.status = "PAID"]
      BY <2>1, MarkPaidRows
    <2> DEFINE v == tx[r].inv
    <2>3. inv[v].end <= sub[s].termEnd + Year
      BY <2>2 DEF InvoiceFollowsTerm
    <2>4. t > sub[s].termEnd /\ t <= inv[v].end
      BY <1>2, <1>t, <2>2 DEF extendedTermEnd
    <2>5. inv'[v].status = "PAID" /\ inv'[v].sub = s /\ inv'[v].end = inv[v].end
      BY <1>t, <2>2 DEF InvoiceRow
    <2> HIDE DEF v
    <2>6. v \in Invoices
      BY <2>2 DEF v
    <2> QED BY <1>t, <2>3, <2>4, <2>5, <2>6
  <1> QED BY <1>1, <1>2

(* Every step leaves at most one renewal per term and records each         *)
(* reminder it schedules.                                                  *)
LEMMA RemindersStep ==
  ASSUME TypeOK, LocksHold, LiveIsUnique, RemindersRecorded, Next
  PROVE  RemindersRecorded'
  <1>0. ASSUME UNCHANGED sent PROVE RemindersRecorded'
    BY <1>0, RowsGrow DEF RemindersRecorded
  <1>1. ASSUME NEW r \in Requests, NEW s \in Subs, ProcessCommit(r, s) PROVE RemindersRecorded'
    <2> DEFINE term == sub[s].termEnd
               touch == {t \in dueTouch(dueTransitions(s, tx[r].at), term, tx[r].at) :
                           <<term, t>> \notin sub[s].touched}
               new == {<<s, term, t>> : t \in touch}
    <2>1. sent' = sent (+) SetToBag(new)
      BY <1>1 DEF ProcessCommit
    <2>2. \A t \in touch : <<term, t>> \in sub'[s].touched
      BY <1>1 DEF ProcessCommit, TypeOK, SubscriptionRow
    <2>3. \A t \in touch : <<term, t>> \notin sub[s].touched
      OBVIOUS
    <2> HIDE DEF touch, term
    <2>4. new \cap DOMAIN sent = {}
      <3>1. ASSUME NEW t \in touch, <<s, term, t>> \in DOMAIN sent PROVE FALSE
        <4> DEFINE x == <<s, term, t>>
        <4>1. x[1] = s /\ x[2] = term /\ x[3] = t
          OBVIOUS
        <4>2. <<x[2], x[3]>> \in sub[x[1]].touched
          BY <3>1 DEF RemindersRecorded
        <4> HIDE DEF x
        <4> QED BY <2>3, <4>1, <4>2
      <3> QED BY <3>1
    <2>5. \A x \in new : x[1] = s /\ <<x[2], x[3]>> \in sub'[s].touched
      BY <2>2
    <2> HIDE DEF new
    <2>6. /\ DOMAIN sent' = DOMAIN sent \cup new
          /\ \A x \in DOMAIN sent' : sent'[x] = 1
      BY <2>1, <2>4 DEF RemindersRecorded, SetToBag, (+)
    <2>7. \A x \in DOMAIN sent : x[1] \in Subs /\ <<x[2], x[3]>> \in sub'[x[1]].touched
      BY RowsGrow DEF RemindersRecorded
    <2> QED BY <2>5, <2>6, <2>7 DEF RemindersRecorded
  <1> QED
    BY <1>0, <1>1
    DEF Next, Tick, RequestPurge, SetStatus, Create, insert, Issue, Void, Sweep, ProcessFail, End,
        CancelCommit, MarkPaidLockSub, MarkPaidCommit, MarkPaidLock, CancelLock, ProcessLock

LEMMA DunnedStep ==
  ASSUME TypeOK, TypeOK', LocksHold, InvoiceFollowsTerm, RemindersRecorded', DunnedOnce, Next
  PROVE  DunnedOnce'
  <1>t. Year \in Nat /\ \A s \in Subs : sub[s].termEnd \in Nat /\ sub[s].renewed \subseteq Nat
    BY BillingAssumptions DEF TypeOK, SubscriptionRow
  <1>1. ASSUME NEW v \in Renewals, NEW w \in Renewals, v # w,
               inv[v].status = "NONE", inv'[v].status # "NONE", inv'[w].status # "NONE",
               inv'[v].sub = inv'[w].sub, inv'[v].end = inv'[w].end
        PROVE  FALSE
    <2> DEFINE s == inv'[v].sub
    <2>1. /\ s \in Subs
          /\ inv'[v].end = sub[s].termEnd + Year
          /\ sub[s].termEnd \notin sub[s].renewed
          /\ inv'[w] = inv[w]
      BY <1>1, NewInvoice
    <2>2. PICK t \in sub[s].renewed : inv[w].end = t + Year
      BY <1>1, <2>1 DEF InvoiceFollowsTerm
    <2>3. inv[w].end = sub[s].termEnd + Year
      BY <1>1, <2>1
    <2> HIDE DEF s
    <2>4. t = sub[s].termEnd
      BY <1>t, <2>1, <2>2, <2>3
    <2> QED BY <2>1, <2>4
  <1>2. ASSUME NEW v \in Renewals, NEW w \in Renewals, v # w,
               inv[v].status # "NONE", inv[w].status # "NONE",
               inv'[v].sub = inv'[w].sub, inv'[v].end = inv'[w].end
        PROVE  FALSE
    BY <1>2, InvoicesStay DEF DunnedOnce
  <1> QED BY <1>1, <1>2 DEF DunnedOnce, RemindersRecorded

-----------------------------------------------------------------------------
(* One live subscription and exclusive locks: one holder at a time.        *)
LEMMA OneHolder ==
  ASSUME TypeOK, LocksHold, LiveIsUnique, NEW r \in Requests, NEW q \in Requests,
         holdsSub(r), holdsSub(q)
  PROVE  r = q
  <1>1. tx[r].sub \in Subs /\ tx[q].sub \in Subs
    BY DEF TypeOK, Tx, holdsSub
  <1>2. live(tx[r].sub) /\ live(tx[q].sub)
    BY DEF LocksHold
  <1> QED BY <1>1, <1>2 DEF LiveIsUnique, LocksHold

(* Only an admin makes what a lock holder has read of the tenant stale.    *)
LEMMA SeenStep ==
  ASSUME TypeOK, LocksHold, LiveIsUnique, SeenIsCurrent, Next
  PROVE  SeenIsCurrent'
  <1> USE DEF SeenIsCurrent, holdsSub
  <1>t. tx \in [Requests -> Tx]
    BY DEF TypeOK
  <1>1. CASE UNCHANGED <<tenant, by, tx>>
    BY <1>1
  <1>2. CASE RequestPurge
    BY <1>2 DEF RequestPurge
  <1>3. ASSUME NEW to \in TenantStatus, SetStatus(to) PROVE SeenIsCurrent'
    BY <1>3 DEF SetStatus
  <1>4. ASSUME NEW r \in Requests, Sweep(r) \/ ProcessFail(r) \/ End(r) PROVE SeenIsCurrent'
    BY <1>4, <1>t DEF Sweep, ProcessFail, End
  <1>5. ASSUME NEW r \in Requests, NEW v \in Invoices, MarkPaidLock(r, v) PROVE SeenIsCurrent'
    BY <1>5, <1>t DEF MarkPaidLock
  <1>6. ASSUME NEW r \in Requests, MarkPaidLockSub(r) PROVE SeenIsCurrent'
    BY <1>6, <1>t DEF MarkPaidLockSub
  <1>7. ASSUME NEW r \in Requests, NEW s \in Subs, CancelLock(r, s) PROVE SeenIsCurrent'
    BY <1>7, <1>t DEF CancelLock
  <1>8. ASSUME NEW r \in Requests, NEW s \in Subs, ProcessLock(r, s) PROVE SeenIsCurrent'
    <2>1. CASE live(s)
      BY <1>8, <1>t, <2>1 DEF ProcessLock
    <2>2. CASE ~live(s)
      <3>1. [tx[r] EXCEPT !.todo = @ \ {s}].op = "sweep"
        BY <1>8, <1>t DEF ProcessLock, Tx
      <3> QED BY <1>8, <1>t, <2>2, <3>1 DEF ProcessLock
    <2> QED BY <2>1, <2>2
  <1>9. ASSUME NEW r \in Requests, holdsSub(r), ~ holdsSub(r)',
               \A q \in Requests : q # r => tx'[q] = tx[q]
        PROVE  SeenIsCurrent'
    BY <1>9, OneHolder
  <1>10. ASSUME NEW r \in Requests, CancelCommit(r) \/ MarkPaidCommit(r) PROVE SeenIsCurrent'
    <2>1. holdsSub(r) /\ tx' = [tx EXCEPT ![r] = Idle]
      BY <1>10 DEF CancelCommit, MarkPaidCommit
    <2>2. ~ holdsSub(r)' /\ \A q \in Requests : q # r => tx'[q] = tx[q]
      BY <1>t, <2>1
    <2> QED BY <1>9, <2>1, <2>2
  <1>11. ASSUME NEW r \in Requests, NEW s \in Subs, ProcessCommit(r, s) PROVE SeenIsCurrent'
    <2>1. holdsSub(r)
      BY <1>11 DEF ProcessCommit
    <2>2. ~ holdsSub(r)' /\ \A q \in Requests : q # r => tx'[q] = tx[q]
      BY <1>11, <1>t DEF ProcessCommit
    <2> QED BY <1>9, <2>1, <2>2
  <1> QED
    BY <1>1, <1>2, <1>3, <1>4, <1>5, <1>6, <1>7, <1>8, <1>10, <1>11
    DEF Next, Tick, Create, insert, Issue, Void

(* Every step keeps the tenant's service in line with the subscription.    *)
LEMMA ServiceStep ==
  ASSUME TypeOK, LocksHold, LiveIsUnique, LiveIsUnique', SeenIsCurrent,
         ServiceFollowsSubscription, Next
  PROVE  ServiceFollowsSubscription'
  <1> DEFINE Ended(s) == sub[s].status \in {"EXPIRED", "CANCELLED"}
  <1>0. ASSUME by' = "billing" =>
                 /\ tenant' = "READ_ONLY" => \E s \in Subs : Ended(s)'
                 /\ tenant' = "ACTIVE" => \A s \in Subs : sub'[s].status # "EXPIRED"
        PROVE  ServiceFollowsSubscription'
    BY <1>0 DEF ServiceFollowsSubscription, LiveIsUnique
  <1>t. tx \in [Requests -> Tx] /\ sub \in [Subs -> SubscriptionRow]
    BY DEF TypeOK
  <1>1. CASE UNCHANGED <<tenant, by, sub>>
    BY <1>0, <1>1 DEF ServiceFollowsSubscription
  <1>2. CASE RequestPurge
    BY <1>2 DEF RequestPurge, ServiceFollowsSubscription
  <1>3. ASSUME NEW to \in TenantStatus, SetStatus(to) PROVE ServiceFollowsSubscription'
    BY <1>3 DEF SetStatus, ServiceFollowsSubscription
  <1>4. ASSUME NEW s \in Subs, NEW e \in FirstEnds, Create(s, e) PROVE ServiceFollowsSubscription'
    <2>1. /\ \A o \in Subs : o # s => sub'[o] = sub[o]
          /\ sub'[s].status = "ACTIVE" /\ sub[s].status = "NONE"
      BY <1>4, <1>t DEF Create, insert, SubscriptionRow
    <2>2. tenant' = tenant /\ by' = by
      BY <1>4 DEF Create, insert
    <2> QED BY <1>0, <2>1, <2>2 DEF ServiceFollowsSubscription
  <1>5. ASSUME NEW r \in Requests, CancelCommit(r) PROVE ServiceFollowsSubscription'
    <2>1. /\ tx[r].sub \in Subs
          /\ \A o \in Subs : o # tx[r].sub => sub'[o] = sub[o]
          /\ sub'[tx[r].sub].status = "CANCELLED"
      BY <1>5, CancelRows DEF SubscriptionRow
    <2>2. (tenant' = tenant /\ by' = by) \/ tenant' = "READ_ONLY"
      BY <1>5 DEF CancelCommit, moveTenant
    <2> QED BY <1>0, <2>1, <2>2 DEF ServiceFollowsSubscription
  <1>6. ASSUME NEW r \in Requests, MarkPaidCommit(r) PROVE ServiceFollowsSubscription'
    <2> DEFINE s == tx[r].sub
    <2>1. /\ s \in Subs /\ live(s) /\ sub'[s].status = "ACTIVE"
          /\ \A o \in Subs : o # s => sub'[o] = sub[o]
      BY <1>6, MarkPaidRows
    <2>2. tx[r].seen = tenant \/ by = "admin"
      BY <1>6 DEF MarkPaidCommit, SeenIsCurrent, holdsSub
    <2>3. CASE sub[s].status = "EXPIRED" /\ tx[r].seen = "READ_ONLY"
      <3>1. tenant' = "ACTIVE"
        BY <1>6, <2>3 DEF MarkPaidCommit, applyPayment, moveTenant
      <3>2. \A o \in Subs : sub'[o].status # "EXPIRED"
        BY <2>1 DEF LiveIsUnique, live
      <3> QED BY <1>0, <3>1, <3>2
    <2>4. CASE ~(sub[s].status = "EXPIRED" /\ tx[r].seen = "READ_ONLY")
      <3>1. tenant' = tenant /\ by' = by
        BY <1>6, <2>4 DEF MarkPaidCommit, applyPayment, moveTenant
      <3> QED BY <1>0, <2>1, <2>2, <2>4, <3>1 DEF ServiceFollowsSubscription, live
    <2> QED BY <2>3, <2>4
  <1>7. ASSUME NEW r \in Requests, NEW s \in Subs, ProcessCommit(r, s)
        PROVE  ServiceFollowsSubscription'
    <2>1. /\ \A o \in Subs : o # s => sub'[o] = sub[o]
          /\ sub'[s].status = dueTransitions(s, tx[r].at) /\ live(s)
      BY <1>7, ProcessRows
    <2>2. tx[r].seen = tenant \/ by = "admin"
      BY <1>7 DEF ProcessCommit, SeenIsCurrent, holdsSub
    <2>3. CASE sub'[s].status = "EXPIRED" /\ sub[s].status # "EXPIRED"
      <3>1. moveTenant(tx[r].seen, "ACTIVE", "READ_ONLY")
        BY <1>7, <2>1, <2>3 DEF ProcessCommit
      <3>2. CASE tx[r].seen = "ACTIVE"
        BY <1>0, <2>3, <3>1, <3>2 DEF moveTenant
      <3>3. CASE tx[r].seen # "ACTIVE"
        BY <1>0, <2>1, <2>2, <2>3, <3>1, <3>3 DEF moveTenant, ServiceFollowsSubscription
      <3> QED BY <3>2, <3>3
    <2>4. CASE ~(sub'[s].status = "EXPIRED" /\ sub[s].status # "EXPIRED")
      <3>1. tenant' = tenant /\ by' = by
        BY <1>7, <2>1, <2>4 DEF ProcessCommit
      <3>2. sub[s].status = "EXPIRED" => sub'[s].status = "EXPIRED"
        BY <2>1 DEF dueTransitions
      <3> QED BY <1>0, <2>1, <2>4, <3>1, <3>2 DEF ServiceFollowsSubscription, live
    <2> QED BY <2>3, <2>4
  <1> QED
    BY <1>1, <1>2, <1>3, <1>4, <1>5, <1>6, <1>7
    DEF Next, Tick, Issue, Void, Sweep, ProcessFail, End,
        MarkPaidLockSub, MarkPaidLock, CancelLock, ProcessLock

-----------------------------------------------------------------------------
(* The inductive invariant of vendor billing: locks, the unique live       *)
(* subscription, invoices tied to terms, what lock holders have read.      *)
THEOREM BillingInvariant == Spec => []IndInv
  <1>1. Init => IndInv
    <2> SUFFICES ASSUME Init PROVE IndInv
      OBVIOUS
    <2>0. (CHOOSE s \in Subs : TRUE) \in Subs
      BY BillingAssumptions
    <2>1. TypeOK
      BY <2>0 DEF Init, TypeOK, TenantStatus, SubscriptionRow, InvoiceRow, Tx
    <2>2. /\ \A s \in Subs : sub[s].status = "NONE" /\ sub[s].termEnd = 0 /\ sub[s].firstEnd = 0
          /\ \A v \in Invoices : inv[v].status = "NONE"
          /\ \A r \in Requests : tx[r].op = "idle"
          /\ DOMAIN sent = {} /\ by = "admin"
      BY DEF Init, EmptyBag, SetToBag
    <2>3. LocksHold /\ SeenIsCurrent
      BY <2>2 DEF LocksHold, SeenIsCurrent, holdsSub, holdsInv
    <2>4. LiveIsUnique /\ InvoiceFollowsTerm
      BY <2>2 DEF LiveIsUnique, InvoiceFollowsTerm, live
    <2>5. RemindersRecorded /\ DunnedOnce /\ ServiceFollowsSubscription
      BY <2>2 DEF RemindersRecorded, DunnedOnce, ServiceFollowsSubscription
    <2>6. TermIsPaid
      BY <2>2 DEF TermIsPaid
    <2> QED BY <2>1, <2>3, <2>4, <2>5, <2>6 DEF IndInv
  <1>2. IndInv /\ [Next]_vars => IndInv'
    <2> SUFFICES ASSUME IndInv, [Next]_vars PROVE IndInv'
      OBVIOUS
    <2>1. CASE Next
      <3>1. TypeOK'
        BY <2>1, TypeStep DEF IndInv
      <3>2. LocksHold' /\ LiveIsUnique'
        BY <2>1, LocksStep, LiveStep DEF IndInv
      <3>3. InvoiceFollowsTerm' /\ RemindersRecorded' /\ SeenIsCurrent'
        BY <2>1, <3>1, InvoiceStep, RemindersStep, SeenStep DEF IndInv
      <3>4. TermIsPaid'
        BY <2>1, <3>1, TermStep DEF IndInv
      <3>5. DunnedOnce'
        BY <2>1, <3>1, <3>3, DunnedStep DEF IndInv
      <3>6. ServiceFollowsSubscription'
        BY <2>1, <3>2, ServiceStep DEF IndInv
      <3> QED BY <3>1, <3>2, <3>3, <3>4, <3>5, <3>6 DEF IndInv
    <2>2. CASE UNCHANGED vars
      <3>0. UNCHANGED <<now, tenant, by, moves, sub, inv, sent, tx>>
        BY <2>2 DEF vars
      <3>1. TypeOK'
        BY <3>0 DEF IndInv, TypeOK
      <3>2. LocksHold' /\ LiveIsUnique'
        BY <3>0 DEF IndInv, LocksHold, LiveIsUnique, live, holdsSub, holdsInv
      <3>3. InvoiceFollowsTerm' /\ TermIsPaid'
        BY <3>0 DEF IndInv, InvoiceFollowsTerm, TermIsPaid
      <3>4. RemindersRecorded' /\ DunnedOnce'
        BY <3>0 DEF IndInv, RemindersRecorded, DunnedOnce
      <3>5. SeenIsCurrent' /\ ServiceFollowsSubscription'
        BY <3>0 DEF IndInv, SeenIsCurrent, ServiceFollowsSubscription, holdsSub
      <3> QED BY <3>1, <3>2, <3>3, <3>4, <3>5 DEF IndInv
    <2> QED BY <2>1, <2>2
  <1> QED BY <1>1, <1>2, PTL DEF Spec

(* Every year of a term beyond the first is covered by a paid invoice.     *)
THEOREM TermPaid == Spec => []TermIsPaid
  <1>1. IndInv => TermIsPaid
    BY DEF IndInv
  <1> QED BY <1>1, BillingInvariant, PTL

(* Sweeps issue one renewal per term and no reminder twice, however many   *)
(* of them overlap.                                                        *)
THEOREM SweepsDunOnce == Spec => []DunnedOnce
  <1>1. IndInv => DunnedOnce
    BY DEF IndInv
  <1> QED BY <1>1, BillingInvariant, PTL

(* Billing degrades a tenant only past the grace or on cancellation, and   *)
(* restores it with the payment.                                           *)
THEOREM ServiceFollows == Spec => []ServiceFollowsSubscription
  <1>1. IndInv => ServiceFollowsSubscription
    BY DEF IndInv
  <1> QED BY <1>1, BillingInvariant, PTL

-----------------------------------------------------------------------------
(* Part 2.  The life of a tenant and the public demo.                      *)

(* The statuses of a tenant in service, and of one that never serves again. *)
Serving == {"ACTIVE", "READ_ONLY", "SUSPENDED"}
Dying == {"PURGING", "GONE"}

(* The length of a purge's plan, and the place of its storage step.        *)
PlanLength(q) == IF q = "tenant" THEN 5 ELSE 6
ObjectsAt(q) == IF q = "tenant" THEN 4 ELSE 3

(* The row of a queued job.                                                *)
JobRow == [state : {"none", "waiting", "active", "completed", "failed"}, tries : 0 .. MaxAttempts]

(* A purge job that waits has an attempt left, and a worker is at a step of *)
(* its plan.                                                               *)
LifeTypes ==
  /\ TenantTypeOK
  /\ \A q \in Queue, t \in Tenants : job[q][t].state = "waiting" =>
         job[q][t].tries < MaxAttempts
  /\ \A q \in Queue : work[q] # None =>
       work[q].t \in Tenants /\ work[q].at \in 1 .. PlanLength(q)

(* An operator's status change stays among the service statuses.           *)
LEMMA Transitions ==
  ASSUME NEW s \in Status, NEW to \in STATUS_TRANSITIONS[s]
  PROVE  s \in Serving /\ to \in Serving /\ to # s
  BY DEF STATUS_TRANSITIONS, Status, Serving

(* Where the check, the storage step and the row step stand in a plan.     *)
LEMMA Plans ==
  ASSUME NEW q \in Queue, NEW n \in 1 .. PlanLength(q)
  PROVE  /\ (PurgePlan[q][n] = "check") <=> (n = 1)
         /\ (PurgePlan[q][n] = "objects") <=> (n = ObjectsAt(q))
         /\ (PurgePlan[q][n] = "row") <=> (n = PlanLength(q))
         /\ 1 < ObjectsAt(q) /\ ObjectsAt(q) < PlanLength(q) /\ ObjectsAt(q) \in Nat
  BY DEF PurgePlan, Queue, PlanLength, ObjectsAt

(* The worker of queue q is at step n of the purge of t.                   *)
LEMMA AtStep ==
  ASSUME LifeTypes, NEW q \in Queue, work[q] # None
  PROVE  /\ work[q].t \in Tenants /\ work[q].at \in 1 .. PlanLength(q)
         /\ (StepOf(q) = "check") <=> (work[q].at = 1)
         /\ (StepOf(q) = "objects") <=> (work[q].at = ObjectsAt(q))
         /\ (StepOf(q) = "row") <=> (work[q].at = PlanLength(q))
<1>1. work[q].t \in Tenants /\ work[q].at \in 1 .. PlanLength(q)
  BY DEF LifeTypes
<1> DEFINE n == work[q].at
<1>2. n \in 1 .. PlanLength(q) /\ StepOf(q) = PurgePlan[q][n]
  BY <1>1 DEF StepOf
<1> HIDE DEF n
<1>3. /\ (StepOf(q) = "check") <=> (n = 1)
      /\ (StepOf(q) = "objects") <=> (n = ObjectsAt(q))
      /\ (StepOf(q) = "row") <=> (n = PlanLength(q))
  BY <1>2, Plans
<1> QED
  BY <1>1, <1>3 DEF n

(* The next step of a purge.                                               *)
LEMMA Advances ==
  ASSUME LifeTypes, NEW q \in Queue, work[q] # None, StepOf(q) # "row", Advance(q)
  PROVE  /\ job' = job
         /\ work' \in [Queue -> [t : Tenants, at : Nat] \cup {None}]
         /\ work'[q].t = work[q].t /\ work'[q].at = work[q].at + 1
         /\ work'[q].at \in 1 .. PlanLength(q)
         /\ \A p \in Queue \ {q} : work'[p] = work[p]
<1>1. /\ work \in [Queue -> [t : Tenants, at : Nat] \cup {None}]
      /\ work[q] \in [t : Tenants, at : Nat]
  BY DEF LifeTypes, TenantTypeOK
<1>2. work' = [work EXCEPT ![q] = [work[q] EXCEPT !.at = work[q].at + 1]] /\ job' = job
  BY <1>1 DEF Advance
<1>3. work[q].at + 1 \in 1 .. PlanLength(q) /\ work[q].at + 1 \in Nat
  BY AtStep DEF PlanLength
<1> DEFINE n == work[q].at + 1
           w == [work[q] EXCEPT !.at = n]
<1>4. w \in [t : Tenants, at : Nat] /\ w.t = work[q].t /\ w.at = n
  <2> HIDE DEF n
  <2>1. n \in Nat
    BY <1>3 DEF n
  <2> QED
    BY <1>1, <2>1, Zenon
<1>5. work' = [work EXCEPT ![q] = w]
  BY <1>2
<1> HIDE DEF w
<1> QED
  BY <1>1, <1>2, <1>3, <1>4, <1>5

(* A job row that is written.                                              *)
LEMMA JobWrites ==
  ASSUME LifeTypes, NEW q \in Queue, NEW t \in Tenants, NEW r \in JobRow,
         r.state = "waiting" => r.tries < MaxAttempts,
         job' = [job EXCEPT ![q] = [job[q] EXCEPT ![t] = r]]
  PROVE  /\ job' \in [Queue -> [Tenants -> JobRow]]
         /\ \A p \in Queue, u \in Tenants :
              job'[p][u].state = "waiting" => job'[p][u].tries < MaxAttempts
<1>1. job \in [Queue -> [Tenants -> JobRow]]
  BY DEF LifeTypes, TenantTypeOK, JobRow
<1>2. job' \in [Queue -> [Tenants -> JobRow]]
  BY <1>1
<1>3. ASSUME NEW p \in Queue, NEW u \in Tenants PROVE job'[p][u] = r \/ job'[p][u] = job[p][u]
  BY <1>1
<1> QED
  BY <1>2, <1>3 DEF LifeTypes

(* A purge that is enqueued, or is already.                                *)
LEMMA Enqueues ==
  ASSUME LifeTypes, NEW q \in Queue, NEW t \in Tenants,
         job' \in {job, Enqueued(q, t)}
  PROVE  /\ job' \in [Queue -> [Tenants -> JobRow]]
         /\ \A p \in Queue, u \in Tenants :
              job'[p][u].state = "waiting" => job'[p][u].tries < MaxAttempts
<1>1. job \in [Queue -> [Tenants -> JobRow]]
  BY DEF LifeTypes, TenantTypeOK, JobRow
<1> DEFINE r == [state |-> "waiting", tries |-> 0]
<1>2. r \in JobRow /\ r.tries < MaxAttempts
  BY TenantAssumptions DEF JobRow
<1>3. job' = job \/ job' = [job EXCEPT ![q] = [job[q] EXCEPT ![t] = r]]
  BY <1>1 DEF Enqueued
<1> HIDE DEF r
<1>4. CASE job' = job
  BY <1>1, <1>4 DEF LifeTypes
<1>5. CASE job' = [job EXCEPT ![q] = [job[q] EXCEPT ![t] = r]]
  BY <1>2, <1>5, JobWrites
<1> QED
  BY <1>3, <1>4, <1>5

(* A worker takes a waiting job.                                           *)
LEMMA TakesJob ==
  ASSUME LifeTypes, NEW q \in Queue, NEW t \in Tenants, TakeJob(q, t)
  PROVE  /\ job' \in [Queue -> [Tenants -> JobRow]]
         /\ \A p \in Queue, u \in Tenants :
              job'[p][u].state = "waiting" => job'[p][u].tries < MaxAttempts
         /\ work' \in [Queue -> [t : Tenants, at : Nat] \cup {None}]
         /\ work'[q].t = t /\ work'[q].at = 1
         /\ \A p \in Queue \ {q} : work'[p] = work[p]
<1>1. /\ job \in [Queue -> [Tenants -> JobRow]]
      /\ work \in [Queue -> [t : Tenants, at : Nat] \cup {None}]
  BY DEF LifeTypes, TenantTypeOK, JobRow
<1>2. job[q][t].tries \in 0 .. MaxAttempts /\ job[q][t].tries < MaxAttempts
  BY <1>1 DEF LifeTypes, TakeJob, JobRow
<1> DEFINE r == [state |-> "active", tries |-> job[q][t].tries + 1]
           w == [t |-> t, at |-> 1]
<1>3. r \in JobRow /\ r.state = "active" /\ w \in [t : Tenants, at : Nat] /\ w.t = t /\ w.at = 1
  BY <1>2, TenantAssumptions DEF JobRow
<1>4. job' = [job EXCEPT ![q] = [job[q] EXCEPT ![t] = r]] /\ work' = [work EXCEPT ![q] = w]
  BY <1>1 DEF TakeJob
<1> HIDE DEF r, w
<1> QED
  BY <1>1, <1>3, <1>4, JobWrites

(* A job that ends: it is done, failed, or waits for another attempt.      *)
LEMMA Ends ==
  ASSUME LifeTypes, NEW q \in Queue, NEW t \in Tenants,
         Complete(q, t) \/ Retry(q, t)
  PROVE  /\ job' \in [Queue -> [Tenants -> JobRow]]
         /\ \A p \in Queue, u \in Tenants :
              job'[p][u].state = "waiting" => job'[p][u].tries < MaxAttempts
         /\ work' \in [Queue -> [t : Tenants, at : Nat] \cup {None}]
         /\ work'[q] = None
         /\ \A p \in Queue \ {q} : work'[p] = work[p]
<1>1. /\ job \in [Queue -> [Tenants -> JobRow]]
      /\ work \in [Queue -> [t : Tenants, at : Nat] \cup {None}]
  BY DEF LifeTypes, TenantTypeOK, JobRow
<1>2. job[q][t] \in JobRow
  BY <1>1
<1>3. work' = [work EXCEPT ![q] = None]
  BY DEF Complete, Retry
<1>4. PICK r \in JobRow : /\ r.state = "waiting" => r.tries < MaxAttempts
                          /\ job' = [job EXCEPT ![q] = [job[q] EXCEPT ![t] = r]]
  <2>1. CASE Complete(q, t)
    <3> DEFINE r == [state |-> "completed", tries |-> 0]
    <3>1. r \in JobRow /\ r.state # "waiting"
      BY TenantAssumptions DEF JobRow
    <3>2. job' = [job EXCEPT ![q] = [job[q] EXCEPT ![t] = r]]
      BY <1>1, <2>1 DEF Complete
    <3> HIDE DEF r
    <3> QED
      BY <3>1, <3>2
  <2>2. CASE Retry(q, t) /\ job[q][t].tries < MaxAttempts
    <3> DEFINE r == [job[q][t] EXCEPT !.state = "waiting"]
    <3>1. r \in JobRow /\ r.tries = job[q][t].tries
      BY <1>2, Zenon DEF JobRow
    <3>2. job' = [job EXCEPT ![q] = [job[q] EXCEPT ![t] = r]]
      BY <1>1, <2>2 DEF Retry
    <3> HIDE DEF r
    <3> QED
      BY <2>2, <3>1, <3>2
  <2>3. CASE Retry(q, t) /\ ~ (job[q][t].tries < MaxAttempts)
    <3> DEFINE r == [state |-> "failed", tries |-> 0]
    <3>1. r \in JobRow /\ r.state # "waiting"
      BY TenantAssumptions DEF JobRow
    <3>2. job' = [job EXCEPT ![q] = [job[q] EXCEPT ![t] = r]]
      BY <1>1, <2>3 DEF Retry
    <3> HIDE DEF r
    <3> QED
      BY <3>1, <3>2
  <2> QED
    BY <2>1, <2>2, <2>3
<1> QED
  BY <1>1, <1>3, <1>4, JobWrites

(* The initial state has its types.                                        *)
LEMMA LifeInitTypes == TenantInit => LifeTypes
<1> SUFFICES ASSUME TenantInit PROVE LifeTypes
  OBVIOUS
<1>1. NoJob \in JobRow /\ NoJob.state = "none"
  BY TenantAssumptions DEF NoJob, JobRow
<1>2. /\ job \in [Queue -> [Tenants -> JobRow]]
      /\ \A q \in Queue, t \in Tenants : job[q][t].state # "waiting"
  BY <1>1 DEF TenantInit
<1>3. TenantTypeOK
  BY <1>2, TenantAssumptions DEF TenantInit, TenantTypeOK, Status, JobRow
<1> QED
  BY <1>2, <1>3 DEF LifeTypes, TenantInit

(* The parts of the type invariant that concern the queues, and the rest.  *)
LEMMA NextTypes ==
  ASSUME LifeTypes, [TenantNext]_tenantVars
  PROVE  LifeTypes'
<1> DEFINE QueueTypes ==
      /\ job \in [Queue -> [Tenants -> JobRow]]
      /\ \A p \in Queue, u \in Tenants : job[p][u].state = "waiting" =>
             job[p][u].tries < MaxAttempts
    WorkTypes ==
      /\ work \in [Queue -> [t : Tenants, at : Nat] \cup {None}]
      /\ \A q \in Queue : work[q] # None =>
           work[q].t \in Tenants /\ work[q].at \in 1 .. PlanLength(q)
    RowTypes ==
      /\ kind \in [Tenants -> Kind]
      /\ status \in [Tenants -> Status]
      /\ rows \in [Tenants -> SUBSET {"business", "users"}]
      /\ objects \subseteq Tenants /\ consent \subseteq Sandboxes
      /\ leads \in [Tenants -> Nat] /\ optIns \in [Tenants -> Nat]
    RestTypes ==
      /\ exporting \subseteq Tenants
      /\ req \in [t : Tenants, op : Ops] \cup {None}
      /\ capTx \in SUBSET Sandboxes
      /\ purgeTx \in Tenants \cup {None}
      /\ events \in 0 .. MaxEvents /\ faults \in 0 .. MaxFaults
      /\ reactivated \subseteq Tenants /\ late \subseteq Tenants
<1>a. QueueTypes /\ WorkTypes /\ RowTypes /\ RestTypes
  BY DEF LifeTypes, TenantTypeOK, JobRow
<1>b. ASSUME QueueTypes', WorkTypes', RowTypes', RestTypes' PROVE LifeTypes'
  BY <1>b DEF LifeTypes, TenantTypeOK, JobRow
<1>c. ASSUME UNCHANGED job PROVE QueueTypes'
  BY <1>a, <1>c
<1>d. ASSUME UNCHANGED work PROVE WorkTypes'
  BY <1>a, <1>d
<1>e. ASSUME UNCHANGED <<kind, status, rows, objects, consent, leads, optIns>> PROVE RowTypes'
  BY <1>a, <1>e DEF Sandboxes
<1>f. ASSUME UNCHANGED <<kind, exporting, req, capTx, purgeTx, events, faults, reactivated, late>>
      PROVE  RestTypes'
  BY <1>a, <1>f DEF Sandboxes
<1>g. ASSUME Event PROVE events' \in 0 .. MaxEvents
  BY <1>a, <1>g, TenantAssumptions DEF Event
<1>h. ASSUME Fault PROVE faults' \in 0 .. MaxFaults
  BY <1>a, <1>h, TenantAssumptions DEF Fault
<1>1. ASSUME NEW t \in Tenants, provisionTenant(t) PROVE LifeTypes'
  <2>1. RowTypes'
    BY <1>1, <1>a DEF provisionTenant, Sandboxes, Status
  <2> QED
    BY <1>1, <1>b, <1>c, <1>d, <1>f, <2>1 DEF provisionTenant
<1>2. ASSUME NEW t \in Tenants, CountUnderLock(t) PROVE LifeTypes'
  <2>1. RestTypes'
    BY <1>2, <1>a DEF CountUnderLock, Sandboxes
  <2> QED
    BY <1>2, <1>b, <1>c, <1>d, <1>e, <2>1 DEF CountUnderLock
<1>3. ASSUME NEW t \in Tenants, createSandbox(t) PROVE LifeTypes'
  <2>1. RowTypes'
    BY <1>3, <1>a DEF createSandbox, Sandboxes, Status
  <2>2. RestTypes'
    BY <1>3, <1>a, <1>h DEF createSandbox, Sandboxes
  <2> QED
    BY <1>3, <1>b, <1>c, <1>d, <2>1, <2>2 DEF createSandbox
<1>4. ASSUME NEW t \in Tenants, NEW to \in Status, setStatus(t, to) PROVE LifeTypes'
  <2>1. RowTypes'
    BY <1>4, <1>a DEF setStatus, Sandboxes
  <2>2. RestTypes'
    BY <1>4, <1>a DEF setStatus, Sandboxes
  <2> QED
    BY <1>4, <1>b, <1>c, <1>d, <2>1, <2>2 DEF setStatus
<1>5. ASSUME NEW t \in Tenants, NEW op \in Ops, BeginRequest(t, op) PROVE LifeTypes'
  <2>1. req' \in [t : Tenants, op : Ops]
    BY <1>5 DEF BeginRequest
  <2>2. RestTypes'
    BY <1>5, <1>a, <1>g, <2>1 DEF BeginRequest, Sandboxes
  <2> QED
    BY <1>5, <1>b, <1>c, <1>d, <1>e, <2>2 DEF BeginRequest
<1>6. ASSUME NEW t \in Tenants, runExport(t) PROVE LifeTypes'
  <2>1. RowTypes'
    BY <1>6, <1>a DEF runExport, Sandboxes
  <2>2. RestTypes'
    BY <1>6, <1>a DEF runExport, Sandboxes
  <2> QED
    BY <1>6, <1>b, <1>c, <1>d, <2>1, <2>2 DEF runExport
<1>7. ASSUME NEW t \in Tenants, requestPurge(t) PROVE LifeTypes'
  <2>1. QueueTypes'
    BY <1>7, Enqueues DEF requestPurge, Queue
  <2>2. RestTypes'
    BY <1>7, <1>a, <1>g DEF requestPurge, Sandboxes
  <2> QED
    BY <1>7, <1>b, <1>d, <1>e, <2>1, <2>2 DEF requestPurge
<1>8. ASSUME NEW t \in Tenants, beginPurge(t)
      PROVE  QueueTypes' /\ status' \in [Tenants -> Status] /\ faults' \in 0 .. MaxFaults
  <2>1. QueueTypes'
    BY <1>8, Enqueues DEF beginPurge, Queue
  <2>2. faults' \in 0 .. MaxFaults
    BY <1>8, <1>a, <1>h DEF beginPurge
  <2>3. status' \in [Tenants -> Status]
    BY <1>8, <1>a DEF beginPurge, Status
  <2> QED
    BY <2>1, <2>2, <2>3
<1>9. ASSUME NEW t \in Tenants, SweepIdle(t) PROVE LifeTypes'
  <2>1. QueueTypes' /\ status' \in [Tenants -> Status] /\ faults' \in 0 .. MaxFaults
    BY <1>8, <1>9 DEF SweepIdle
  <2>2. RowTypes' /\ RestTypes'
    BY <1>9, <1>a, <2>1 DEF SweepIdle, Sandboxes
  <2> QED
    BY <1>9, <1>b, <1>d, <2>1, <2>2 DEF SweepIdle
<1>10. ASSUME NEW t \in Tenants, SweepRequeue(t) PROVE LifeTypes'
  <2>1. QueueTypes'
    BY <1>10, Enqueues DEF SweepRequeue, Queue
  <2> QED
    BY <1>10, <1>b, <1>d, <1>e, <1>f, <2>1 DEF SweepRequeue
<1>11. ASSUME NEW q \in Queue, NEW t \in Tenants, TakeJob(q, t) PROVE LifeTypes'
  <2>0. work'[q].t \in Tenants /\ work'[q].at \in 1 .. PlanLength(q)
    BY <1>11, TakesJob DEF PlanLength
  <2>1. QueueTypes' /\ WorkTypes'
    BY <1>11, <1>a, <2>0, TakesJob
  <2> QED
    BY <1>11, <1>b, <1>e, <1>f, <2>1 DEF TakeJob
<1>12. CASE FinishRequest
  <2>1. req.t \in Tenants
    BY <1>12, <1>a DEF FinishRequest
  <2> DEFINE t == req.t
  <2>2. objects' \subseteq Tenants /\ late' \subseteq Tenants /\ exporting' \subseteq Tenants
    BY <1>12, <1>a, <2>1 DEF FinishRequest
  <2>3. rows' \in [Tenants -> SUBSET {"business", "users"}]
    <3>1. rows' = rows \/ rows' = [rows EXCEPT ![t] = rows[t] \cup {"business"}]
      BY <1>12 DEF FinishRequest
    <3> QED
      BY <1>a, <2>1, <3>1
  <2>4. consent' \subseteq Sandboxes /\ Sandboxes' = Sandboxes
    BY <1>12, <1>a, <2>1 DEF FinishRequest, Sandboxes
  <2>5. optIns' \in [Tenants -> Nat]
    <3>1. optIns' = optIns \/ optIns' = [optIns EXCEPT ![t] = optIns[t] + 1]
      BY <1>12 DEF FinishRequest
    <3> QED
      BY <1>a, <2>1, <3>1
  <2>6. QueueTypes' /\ status' \in [Tenants -> Status] /\ faults' \in 0 .. MaxFaults
    <3>1. beginPurge(t) \/ UNCHANGED <<status, job, faults>>
      BY <1>12 DEF FinishRequest
    <3> QED
      BY <1>8, <1>a, <1>c, <2>1, <3>1
  <2>7. RowTypes' /\ RestTypes'
    BY <1>12, <1>a, <2>2, <2>3, <2>4, <2>5, <2>6 DEF FinishRequest
  <2> QED
    BY <1>12, <1>b, <1>d, <2>6, <2>7 DEF FinishRequest
<1>13. CASE AbortRequest
  <2>1. RestTypes'
    BY <1>13, <1>a, <1>h DEF AbortRequest, Sandboxes
  <2> QED
    BY <1>13, <1>b, <1>c, <1>d, <1>e, <2>1 DEF AbortRequest
<1>14. CASE PurgeCommit
  <2>1. RowTypes'
    BY <1>14, <1>a DEF PurgeCommit, Sandboxes, Status
  <2>2. RestTypes'
    BY <1>14, <1>a, <1>h DEF PurgeCommit, Sandboxes
  <2> QED
    BY <1>14, <1>b, <1>c, <1>d, <2>1, <2>2 DEF PurgeCommit
<1>15. ASSUME NEW q \in Queue, work[q] # None, StepOf(q) # "row", Advance(q)
       PROVE  QueueTypes' /\ WorkTypes'
  BY <1>15, <1>a, <1>c, Advances
<1>16. ASSUME NEW q \in Queue, work[q] # None,
              Complete(q, work[q].t) \/ Retry(q, work[q].t)
       PROVE  QueueTypes' /\ WorkTypes'
  BY <1>16, <1>a, AtStep, Ends
<1>17. ASSUME NEW q \in Queue, PurgeCheck(q) PROVE LifeTypes'
  BY <1>17, <1>15, <1>16, <1>b, <1>e, <1>f DEF PurgeCheck
<1>18. ASSUME NEW q \in Queue, PurgeBulk(q) PROVE LifeTypes'
  <2>1. RowTypes'
    BY <1>18, <1>a DEF PurgeBulk, Sandboxes
  <2> QED
    BY <1>18, <1>15, <1>b, <1>f, <2>1 DEF PurgeBulk
<1>19. ASSUME NEW q \in Queue, PurgeObjects(q) PROVE LifeTypes'
  <2>1. RowTypes'
    BY <1>19, <1>a DEF PurgeObjects, Sandboxes
  <2> QED
    BY <1>19, <1>15, <1>b, <1>f, <2>1 DEF PurgeObjects
<1>20. ASSUME NEW q \in Queue, captureLead(q) PROVE LifeTypes'
  <2>1. RowTypes'
    BY <1>20, <1>a DEF captureLead, Sandboxes
  <2> QED
    BY <1>20, <1>15, <1>b, <1>f, <2>1 DEF captureLead
<1>21. ASSUME NEW q \in Queue, PurgeTail(q) PROVE LifeTypes'
  <2>1. RowTypes'
    BY <1>21, <1>a DEF PurgeTail, Sandboxes
  <2>2. QueueTypes' /\ WorkTypes'
    BY <1>21, <1>15, <1>16 DEF PurgeTail
  <2> QED
    BY <1>21, <1>b, <1>f, <2>1, <2>2 DEF PurgeTail
<1>22. ASSUME NEW q \in Queue, PurgeRow(q) PROVE LifeTypes'
  <2>1. RowTypes'
    BY <1>22, <1>a DEF PurgeRow, Sandboxes, Status
  <2>2. QueueTypes' /\ WorkTypes'
    BY <1>22, <1>16 DEF PurgeRow
  <2> QED
    BY <1>22, <1>b, <1>f, <2>1, <2>2 DEF PurgeRow
<1>23. ASSUME NEW q \in Queue, WorkerFails(q) PROVE LifeTypes'
  <2>1. QueueTypes' /\ WorkTypes'
    BY <1>23, <1>16 DEF WorkerFails
  <2>2. RestTypes'
    BY <1>23, <1>a, <1>h DEF WorkerFails, Sandboxes
  <2> QED
    BY <1>23, <1>b, <1>e, <2>1, <2>2 DEF WorkerFails
<1>24. CASE UNCHANGED tenantVars
  BY <1>24, <1>b, <1>c, <1>d, <1>e, <1>f DEF tenantVars
<1> HIDE DEF QueueTypes, WorkTypes, RowTypes, RestTypes
<1> QED
  BY <1>1, <1>2, <1>3, <1>4, <1>5, <1>6, <1>7, <1>9, <1>10, <1>11, <1>12, <1>13, <1>14, <1>17,
       <1>18, <1>19, <1>20, <1>21, <1>22, <1>23, <1>24, TenantAssumptions DEF TenantNext,
       PurgeStep

(* A sandbox under the advisory lock has no row yet, an open requestPurge  *)
(* holds a tenant that is SUSPENDED or PURGING, and a worker past its      *)
(* check purges a tenant that is PURGING or GONE.                          *)
StatusKnown ==
  /\ \A t \in capTx : status[t] = "NONE"
  /\ purgeTx # None => status[purgeTx] \in {"SUSPENDED", "PURGING"}
  /\ \A q \in Queue : work[q] # None /\ work[q].at > 1 => status[work[q].t] \in Dying

(* An object that is left after the storage step was stored late.          *)
ObjectsGone ==
  \A q \in Queue : work[q] # None /\ work[q].at > ObjectsAt(q) =>
         work[q].t \notin objects \ late

(* A tenant whose row is gone left nothing but late objects.               *)
GoneIsErased ==
  \A t \in Tenants :
    status[t] = "GONE" => rows[t] = {} /\ t \notin consent /\ t \notin objects \ late

(* A consent is given, and spent on one lead at most.                      *)
ConsentSpentOnce ==
  \A t \in Tenants : leads[t] + (IF t \in consent THEN 1 ELSE 0) <= optIns[t]

(* The sandboxes the cap is about.                                         *)
CountedActive == {t \in Sandboxes \ reactivated : status[t] = "ACTIVE"}

(* The sandbox being created already counts.                               *)
RoomForAnother ==
  /\ capTx = {} \/ \E t \in Tenants : capTx = {t}
  /\ Cardinality(CountedActive) + (IF capTx = {} THEN 0 ELSE 1) <= Cap

(* The inductive invariant of the life of the tenants.                     *)
LifeInv ==
  /\ LifeTypes /\ StatusKnown /\ ObjectsGone /\ GoneIsErased
  /\ ConsentSpentOnce /\ RoomForAnother

(* The initial state satisfies the invariant.                              *)
LEMMA LifeInit == TenantInit => LifeInv
<1> SUFFICES ASSUME TenantInit PROVE LifeInv
  OBVIOUS
<1>1. LifeTypes
  BY LifeInitTypes
<1>2. StatusKnown /\ ObjectsGone /\ GoneIsErased /\ ConsentSpentOnce
  BY DEF TenantInit, StatusKnown, ObjectsGone, GoneIsErased, ConsentSpentOnce
<1>3. CountedActive = {}
  BY DEF TenantInit, CountedActive, Sandboxes
<1>4. RoomForAnother
  BY <1>3, FS_EmptySet, TenantAssumptions DEF RoomForAnother, TenantInit
<1> QED
  BY <1>1, <1>2, <1>4 DEF LifeInv

(* The moves of a tenant's status: into service, between the service       *)
(* statuses unless a purge holds the row, to PURGING, and to GONE by the   *)
(* last step of a purge.                                                   *)
StatusMove(u) ==
  \/ status'[u] = status[u]
  \/ status[u] = "NONE" /\ status'[u] = "ACTIVE" /\ u \notin capTx'
  \/ status[u] \in Serving /\ status'[u] \in Serving /\ purgeTx # u
  \/ status[u] \in Serving \cup {"PURGING"} /\ status'[u] = "PURGING"
  \/ /\ status[u] \in Dying /\ status'[u] = "GONE" /\ purgeTx # u
     /\ \E q \in Queue : work[q].t = u /\ PurgeRow(q)

(* Every step moves every status so.                                       *)
LEMMA StatusMoves ==
  ASSUME LifeTypes, StatusKnown, [TenantNext]_tenantVars, NEW u \in Tenants
  PROVE  StatusMove(u)
<1>0. status \in [Tenants -> Status] /\ capTx \subseteq Sandboxes
  BY DEF LifeTypes, TenantTypeOK
<1>a. ASSUME status' = status PROVE StatusMove(u)
  BY <1>a DEF StatusMove
<1>1. ASSUME NEW t \in Tenants, provisionTenant(t) PROVE StatusMove(u)
  BY <1>0, <1>1 DEF provisionTenant, StatusMove, Sandboxes
<1>2. ASSUME NEW t \in Tenants, createSandbox(t) PROVE StatusMove(u)
  BY <1>0, <1>2 DEF createSandbox, StatusMove, StatusKnown
<1>3. ASSUME NEW t \in Tenants, NEW to \in Status, setStatus(t, to) PROVE StatusMove(u)
  <2>1. CASE u = t
    <3>1. status[t] \in Serving /\ to \in Serving
      BY <1>0, <1>3, Transitions DEF setStatus
    <3> QED
      BY <1>0, <1>3, <2>1, <3>1 DEF setStatus, Unlocked, StatusMove
  <2>2. CASE u # t
    BY <1>0, <1>3, <2>2 DEF setStatus, StatusMove
  <2> QED
    BY <2>1, <2>2
<1>4. ASSUME NEW t \in Tenants, beginPurge(t) PROVE StatusMove(u)
  BY <1>0, <1>4 DEF beginPurge, StatusMove, Serving
<1>5. ASSUME NEW t \in Tenants, SweepIdle(t) PROVE StatusMove(u)
  BY <1>4, <1>5 DEF SweepIdle
<1>6. CASE FinishRequest
  <2>1. req.t \in Tenants
    BY <1>6 DEF FinishRequest, LifeTypes, TenantTypeOK
  <2>2. beginPurge(req.t) \/ status' = status
    BY <1>6 DEF FinishRequest
  <2> QED
    BY <1>4, <1>a, <2>1, <2>2
<1>7. CASE PurgeCommit
  <2>1. purgeTx \in Tenants /\ status[purgeTx] \in {"SUSPENDED", "PURGING"}
    BY <1>7 DEF PurgeCommit, StatusKnown, LifeTypes, TenantTypeOK
  <2>2. status' = status \/ status' = [status EXCEPT ![purgeTx] = "PURGING"]
    BY <1>7 DEF PurgeCommit
  <2> QED
    BY <1>0, <1>a, <2>1, <2>2 DEF StatusMove, Serving
<1>8. ASSUME NEW q \in Queue, PurgeRow(q) PROVE StatusMove(u)
  <2>1. work[q] # None /\ work[q].t \in Tenants /\ purgeTx # work[q].t /\ work[q].at > 1
    BY <1>8, AtStep DEF PurgeRow, Unlocked, PlanLength
  <2>2. status[work[q].t] \in Dying
    BY <2>1 DEF StatusKnown
  <2>3. status' = status \/ status' = [status EXCEPT ![work[q].t] = "GONE"]
    BY <1>8 DEF PurgeRow
  <2> QED
    BY <1>0, <1>8, <1>a, <2>1, <2>2, <2>3 DEF StatusMove
<1>9. ASSUME NEW q \in Queue,
             PurgeCheck(q) \/ PurgeBulk(q) \/ PurgeObjects(q) \/ captureLead(q)
                              \/ PurgeTail(q) \/ WorkerFails(q)
      PROVE  StatusMove(u)
  BY <1>9, <1>a DEF PurgeCheck, PurgeBulk, PurgeObjects, captureLead,
       PurgeTail, WorkerFails
<1>10. ASSUME NEW t \in Tenants,
              \/ CountUnderLock(t) \/ runExport(t) \/ requestPurge(t)
              \/ SweepRequeue(t)
              \/ \E op \in Ops : BeginRequest(t, op)
              \/ \E q \in Queue : TakeJob(q, t)
       PROVE  StatusMove(u)
  BY <1>10, <1>a DEF CountUnderLock, runExport, requestPurge, SweepRequeue,
       BeginRequest, TakeJob
<1>11. CASE AbortRequest \/ UNCHANGED tenantVars
  BY <1>11, <1>a DEF AbortRequest, tenantVars
<1> QED
  BY <1>1, <1>2, <1>3, <1>5, <1>6, <1>7, <1>8, <1>9, <1>10, <1>11, TenantAssumptions DEF
       TenantNext, PurgeStep

(* The moves of a worker: it stays, ends, starts, or goes on.              *)
WorkMove(q) ==
  \/ work'[q] = work[q]
  \/ work'[q] = None
  \/ work'[q].at = 1
  \/ /\ work[q] # None
     /\ work'[q].t = work[q].t /\ work'[q].at = work[q].at + 1
     /\ work[q].at = 1 => status[work[q].t] = "PURGING"
     /\ work[q].at = ObjectsAt(q) => work[q].t \notin objects'

(* Every step moves every worker so.                                       *)
LEMMA WorkMoves ==
  ASSUME LifeTypes, [TenantNext]_tenantVars, NEW q \in Queue
  PROVE  WorkMove(q)
<1>a. ASSUME work' = work PROVE WorkMove(q)
  BY <1>a DEF WorkMove
<1>b. ASSUME NEW p \in Queue, p # q, \A x \in Queue \ {p} : work'[x] = work[x]
      PROVE  WorkMove(q)
  BY <1>b DEF WorkMove
<1>c. ASSUME NEW p \in Queue, work[p] # None,
             Complete(p, work[p].t) \/ Retry(p, work[p].t)
      PROVE  WorkMove(q)
  <2>1. work'[p] = None /\ \A x \in Queue \ {p} : work'[x] = work[x]
    BY <1>c, AtStep, Ends
  <2> QED
    BY <1>b, <2>1 DEF WorkMove
<1>d. ASSUME NEW p \in Queue, work[p] # None, StepOf(p) # "row", Advance(p),
             StepOf(p) = "check" => status[work[p].t] = "PURGING",
             StepOf(p) = "objects" => work[p].t \notin objects'
      PROVE  WorkMove(q)
  <2>1. /\ work'[p].t = work[p].t /\ work'[p].at = work[p].at + 1
        /\ \A x \in Queue \ {p} : work'[x] = work[x]
    BY <1>d, Advances
  <2>2. /\ work[p].at = 1 => status[work[p].t] = "PURGING"
        /\ work[p].at = ObjectsAt(p) => work[p].t \notin objects'
    BY <1>d, AtStep
  <2> QED
    BY <1>b, <1>d, <2>1, <2>2 DEF WorkMove
<1>1. ASSUME NEW p \in Queue, PurgeCheck(p) PROVE WorkMove(q)
  BY <1>1, <1>c, <1>d DEF PurgeCheck
<1>2. ASSUME NEW p \in Queue, PurgeBulk(p) PROVE WorkMove(q)
  BY <1>2, <1>d DEF PurgeBulk
<1>3. ASSUME NEW p \in Queue, PurgeObjects(p) PROVE WorkMove(q)
  BY <1>3, <1>d DEF PurgeObjects
<1>4. ASSUME NEW p \in Queue, captureLead(p) PROVE WorkMove(q)
  BY <1>4, <1>d DEF captureLead
<1>5. ASSUME NEW p \in Queue, PurgeTail(p) PROVE WorkMove(q)
  BY <1>5, <1>c, <1>d DEF PurgeTail
<1>6. ASSUME NEW p \in Queue, PurgeRow(p) PROVE WorkMove(q)
  BY <1>6, <1>c DEF PurgeRow
<1>7. ASSUME NEW p \in Queue, WorkerFails(p) PROVE WorkMove(q)
  BY <1>7, <1>c DEF WorkerFails
<1>8. ASSUME NEW p \in Queue, NEW t \in Tenants, TakeJob(p, t) PROVE WorkMove(q)
  BY <1>8, <1>b, TakesJob DEF WorkMove
<1>9. ASSUME NEW t \in Tenants,
             \/ provisionTenant(t) \/ CountUnderLock(t) \/ createSandbox(t)
             \/ \E to \in Status : setStatus(t, to)
             \/ \E op \in Ops : BeginRequest(t, op)
             \/ runExport(t) \/ requestPurge(t) \/ SweepIdle(t)
             \/ SweepRequeue(t)
      PROVE  WorkMove(q)
  BY <1>9, <1>a DEF provisionTenant, CountUnderLock, createSandbox,
       setStatus, BeginRequest, runExport, requestPurge, SweepIdle,
       SweepRequeue
<1>10. CASE FinishRequest \/ AbortRequest \/ PurgeCommit \/ UNCHANGED tenantVars
  BY <1>10, <1>a DEF FinishRequest, AbortRequest, PurgeCommit, tenantVars
<1> QED
  BY <1>1, <1>2, <1>3, <1>4, <1>5, <1>6, <1>7, <1>8, <1>9, <1>10, TenantAssumptions DEF
       TenantNext, PurgeStep

(* What is stored for a dying tenant is late; a tenant that is gone gets   *)
(* no row and no consent.                                                  *)
DataMove(u) ==
  /\ u \in objects' \ late' => u \in objects \ late \/ status[u] \notin Dying
  /\ status[u] = "GONE" => rows'[u] \subseteq rows[u] /\ (u \in consent' => u \in consent)

(* Every step treats every tenant's data so.                               *)
LEMMA DataMoves ==
  ASSUME LifeTypes, StatusKnown, [TenantNext]_tenantVars, NEW u \in Tenants
  PROVE  DataMove(u)
<1>0. /\ status \in [Tenants -> Status]
      /\ rows \in [Tenants -> SUBSET {"business", "users"}]
      /\ capTx \subseteq Sandboxes
  BY DEF LifeTypes, TenantTypeOK
<1>a. ASSUME UNCHANGED <<rows, objects, consent, late>> PROVE DataMove(u)
  BY <1>a DEF DataMove
<1>1. ASSUME NEW t \in Tenants, provisionTenant(t) PROVE DataMove(u)
  BY <1>0, <1>1 DEF provisionTenant, DataMove
<1>2. ASSUME NEW t \in Tenants, createSandbox(t) PROVE DataMove(u)
  BY <1>0, <1>2 DEF createSandbox, StatusKnown, DataMove
<1>3. ASSUME NEW t \in Tenants, runExport(t) PROVE DataMove(u)
  BY <1>0, <1>3 DEF runExport, DataMove, Dying
<1>4. CASE FinishRequest
  <2> DEFINE t == req.t
  <2>1. t \in Tenants
    BY <1>4 DEF FinishRequest, LifeTypes, TenantTypeOK
  <2>2. \/ UNCHANGED <<objects, late>>
        \/ /\ objects' = objects \cup {t}
           /\ late' = IF status[t] \in {"PURGING", "GONE"} THEN late \cup {t} ELSE late
    BY <1>4 DEF FinishRequest
  <2>3. rows' = rows \/ (rows' = [rows EXCEPT ![t] = rows[t] \cup {"business"}] /\ Exists(t))
    BY <1>4 DEF FinishRequest
  <2>4. consent' \subseteq consent \/ (consent' = consent \cup {t} /\ Exists(t))
    BY <1>4 DEF FinishRequest
  <2> HIDE DEF t
  <2>5. u \in objects' \ late' => u \in objects \ late \/ status[u] \notin Dying
    BY <2>1, <2>2 DEF Dying
  <2>6. status[u] = "GONE" => rows'[u] \subseteq rows[u] /\ (u \in consent' => u \in consent)
    BY <1>0, <2>1, <2>3, <2>4 DEF Exists
  <2> QED
    BY <2>5, <2>6 DEF DataMove
<1>5. ASSUME NEW q \in Queue, PurgeBulk(q) \/ PurgeTail(q) PROVE DataMove(u)
  BY <1>0, <1>5 DEF PurgeBulk, PurgeTail, DataMove
<1>6. ASSUME NEW q \in Queue, PurgeObjects(q) \/ captureLead(q) \/ PurgeRow(q)
      PROVE  DataMove(u)
  BY <1>0, <1>6 DEF PurgeObjects, captureLead, PurgeRow, DataMove
<1>7. ASSUME NEW q \in Queue, PurgeCheck(q) \/ WorkerFails(q) PROVE DataMove(u)
  BY <1>7, <1>a DEF PurgeCheck, WorkerFails
<1>8. ASSUME NEW t \in Tenants,
             \/ CountUnderLock(t)
             \/ \E to \in Status : setStatus(t, to)
             \/ \E op \in Ops : BeginRequest(t, op)
             \/ requestPurge(t) \/ SweepIdle(t) \/ SweepRequeue(t)
             \/ \E q \in Queue : TakeJob(q, t)
      PROVE  DataMove(u)
  BY <1>8, <1>a DEF CountUnderLock, setStatus, BeginRequest, requestPurge,
       SweepIdle, SweepRequeue, TakeJob
<1>9. CASE AbortRequest \/ PurgeCommit \/ UNCHANGED tenantVars
  BY <1>9, <1>a DEF AbortRequest, PurgeCommit, tenantVars
<1> QED
  BY <1>1, <1>2, <1>3, <1>4, <1>5, <1>6, <1>7, <1>8, <1>9, TenantAssumptions DEF TenantNext,
       PurgeStep

(* The advisory lock and the row lock of requestPurge.                     *)
LockMove ==
  /\ capTx' \subseteq capTx \/ (\E t \in Tenants : CountUnderLock(t))
  /\ purgeTx' \in {purgeTx, None} \/ (\E t \in Tenants : requestPurge(t))

(* Every step treats the two locks so.                                     *)
LEMMA LockMoves ==
  ASSUME [TenantNext]_tenantVars
  PROVE  LockMove
<1>a. ASSUME UNCHANGED <<capTx, purgeTx>> PROVE LockMove
  BY <1>a DEF LockMove
<1>1. ASSUME NEW t \in Tenants, CountUnderLock(t) PROVE LockMove
  BY <1>1 DEF LockMove, CountUnderLock
<1>2. ASSUME NEW t \in Tenants, createSandbox(t) PROVE LockMove
  BY <1>2 DEF LockMove, createSandbox
<1>3. ASSUME NEW t \in Tenants, requestPurge(t) PROVE LockMove
  BY <1>3 DEF LockMove, requestPurge
<1>4. CASE PurgeCommit
  BY <1>4 DEF LockMove, PurgeCommit
<1>5. ASSUME NEW t \in Tenants,
             \/ provisionTenant(t)
             \/ \E to \in Status : setStatus(t, to)
             \/ \E op \in Ops : BeginRequest(t, op)
             \/ runExport(t) \/ SweepIdle(t) \/ SweepRequeue(t)
             \/ \E q \in Queue : TakeJob(q, t)
      PROVE  LockMove
  BY <1>5, <1>a DEF provisionTenant, setStatus, BeginRequest, runExport,
       SweepIdle, SweepRequeue, TakeJob
<1>6. CASE FinishRequest \/ AbortRequest \/ UNCHANGED tenantVars
  BY <1>6, <1>a DEF FinishRequest, AbortRequest, tenantVars
<1>7. ASSUME NEW q \in Queue, PurgeStep(q) \/ WorkerFails(q) PROVE LockMove
  BY <1>7, <1>a DEF PurgeStep, PurgeCheck, PurgeBulk, PurgeObjects,
       captureLead, PurgeTail, PurgeRow, WorkerFails
<1> QED
  BY <1>1, <1>2, <1>3, <1>4, <1>5, <1>6, <1>7, TenantAssumptions DEF TenantNext

(* A tenant that is dying stays so, and the last step of a purge finds one.*)
LEMMA DyingStays ==
  ASSUME LifeTypes, StatusKnown, [TenantNext]_tenantVars, NEW u \in Tenants,
         status[u] \in Dying
  PROVE  status'[u] \in Dying
  BY StatusMoves DEF StatusMove, Dying, Serving

(* Every step keeps what is known of statuses.                             *)
LEMMA NextStatus ==
  ASSUME LifeTypes, StatusKnown, [TenantNext]_tenantVars
  PROVE  StatusKnown'
<1>0. /\ status \in [Tenants -> Status] /\ purgeTx \in Tenants \cup {None}
      /\ capTx \subseteq Tenants
  BY DEF LifeTypes, TenantTypeOK, Sandboxes
<1>1. ASSUME NEW t \in capTx' PROVE status'[t] = "NONE"
  <2>1. CASE t \in capTx
    <3>1. status[t] = "NONE" /\ t \in Tenants
      BY <1>0, <2>1 DEF StatusKnown
    <3> QED
      BY <1>1, <3>1, StatusMoves DEF StatusMove, Serving, Dying
  <2>2. CASE t \notin capTx
    <3>1. PICK x \in Tenants : CountUnderLock(x)
      BY <1>1, <2>2, LockMoves DEF LockMove
    <3> QED
      BY <1>1, <3>1 DEF CountUnderLock
  <2> QED
    BY <2>1, <2>2
<1>2. ASSUME purgeTx' # None PROVE status'[purgeTx'] \in {"SUSPENDED", "PURGING"}
  <2>1. CASE purgeTx' = purgeTx
    <3>1. status[purgeTx] \in {"SUSPENDED", "PURGING"} /\ purgeTx \in Tenants
      BY <1>0, <1>2, <2>1 DEF StatusKnown
    <3>2. StatusMove(purgeTx)
      BY <3>1, StatusMoves
    <3> QED
      BY <2>1, <3>1, <3>2 DEF StatusMove
  <2>2. CASE purgeTx' # purgeTx
    <3>1. PICK x \in Tenants : requestPurge(x)
      BY <1>2, <2>2, LockMoves DEF LockMove
    <3> QED
      BY <3>1 DEF requestPurge
  <2> QED
    BY <2>1, <2>2
<1>3. ASSUME NEW q \in Queue, work'[q] # None, work'[q].at > 1
      PROVE  status'[work'[q].t] \in Dying
  <2>1. /\ work[q] # None /\ work'[q].t = work[q].t
        /\ work[q].at > 1 \/ status[work[q].t] = "PURGING"
    <3>1. work[q] # None => work[q].at \in Nat /\ work[q].at >= 1
      BY AtStep
    <3> QED
      BY <1>3, <3>1, WorkMoves DEF WorkMove
  <2>2. status[work[q].t] \in Dying /\ work[q].t \in Tenants
    BY <2>1, AtStep DEF StatusKnown, Dying
  <2> QED
    BY <2>1, <2>2, DyingStays
<1> QED
  BY <1>1, <1>2, <1>3 DEF StatusKnown

(* Every step keeps the storage of a purge empty.                          *)
LEMMA NextObjects ==
  ASSUME LifeTypes, StatusKnown, ObjectsGone, [TenantNext]_tenantVars
  PROVE  ObjectsGone'
<1> SUFFICES ASSUME NEW q \in Queue, work'[q] # None, work'[q].at > ObjectsAt(q)
             PROVE  work'[q].t \notin objects' \ late'
  BY DEF ObjectsGone
<1>0. ObjectsAt(q) \in Nat /\ 1 < ObjectsAt(q)
  BY DEF ObjectsAt
<1>1. work[q] # None => work[q].at \in Nat /\ work[q].at >= 1 /\ work[q].t \in Tenants
  BY AtStep
<1>2. /\ work[q] # None /\ work'[q].t = work[q].t
      /\ work[q].at > ObjectsAt(q) \/ work[q].t \notin objects'
  BY <1>0, <1>1, WorkMoves DEF WorkMove
<1>3. CASE work[q].at > ObjectsAt(q)
  <2>1. status[work[q].t] \in Dying /\ work[q].t \notin objects \ late
    BY <1>0, <1>1, <1>2, <1>3 DEF StatusKnown, ObjectsGone
  <2>2. DataMove(work[q].t)
    BY <1>1, <1>2, DataMoves
  <2> QED
    BY <1>2, <2>1, <2>2 DEF DataMove
<1> QED
  BY <1>2, <1>3

(* Every step keeps a purged tenant erased.                                *)
LEMMA NextGone ==
  ASSUME LifeTypes, StatusKnown, ObjectsGone, GoneIsErased, [TenantNext]_tenantVars
  PROVE  GoneIsErased'
<1> SUFFICES ASSUME NEW u \in Tenants, status'[u] = "GONE"
             PROVE  rows'[u] = {} /\ u \notin consent' /\ u \notin objects' \ late'
  BY DEF GoneIsErased
<1>1. CASE status[u] = "GONE"
  <2>1. rows[u] = {} /\ u \notin consent /\ u \notin objects \ late
    BY <1>1 DEF GoneIsErased
  <2> QED
    BY <1>1, <2>1, DataMoves DEF DataMove, Dying
<1>2. CASE status[u] # "GONE"
  <2>1. PICK q \in Queue : work[q].t = u /\ PurgeRow(q)
    BY <1>2, StatusMoves DEF StatusMove, Serving
  <2>2. /\ work[q] # None /\ work[q].at = PlanLength(q) /\ work[q].at > 1
        /\ work[q].at > ObjectsAt(q)
    BY <2>1, AtStep DEF PurgeRow, PlanLength, ObjectsAt
  <2>3. status[u] \in Dying /\ u \notin objects \ late
    BY <2>1, <2>2 DEF StatusKnown, ObjectsGone
  <2>4. Exists(u)
    BY <1>2, <2>3 DEF Exists, Dying
  <2>5. rows[u] = {} /\ rows' = rows /\ u \notin consent' /\ UNCHANGED <<objects, late>>
    BY <1>2, <2>1, <2>4 DEF PurgeRow
  <2> QED
    BY <2>3, <2>5
<1> QED
  BY <1>1, <1>2

(* Every step keeps consents ahead of leads.                               *)
LEMMA NextConsent ==
  ASSUME LifeTypes, ConsentSpentOnce, [TenantNext]_tenantVars
  PROVE  ConsentSpentOnce'
<1>0. /\ leads \in [Tenants -> Nat] /\ optIns \in [Tenants -> Nat]
  BY DEF LifeTypes, TenantTypeOK
<1>a. ASSUME UNCHANGED <<leads, optIns>>, consent' \subseteq consent PROVE ConsentSpentOnce'
  BY <1>0, <1>a DEF ConsentSpentOnce
<1>1. CASE FinishRequest
  <2> DEFINE t == req.t
  <2>1. t \in Tenants /\ leads' = leads
    BY <1>1 DEF FinishRequest, LifeTypes, TenantTypeOK
  <2>2. \/ consent' = consent \cup {t} /\ optIns' = [optIns EXCEPT ![t] = optIns[t] + 1]
        \/ consent' \subseteq consent /\ optIns' = optIns
    BY <1>1 DEF FinishRequest
  <2> HIDE DEF t
  <2> QED
    BY <1>0, <2>1, <2>2 DEF ConsentSpentOnce
<1>2. ASSUME NEW q \in Queue, captureLead(q) PROVE ConsentSpentOnce'
  <2> DEFINE t == work[q].t
  <2>1. t \in Tenants /\ optIns' = optIns /\ consent' = consent \ {t}
    BY <1>2, AtStep DEF captureLead
  <2>2. leads' = leads \/ (t \in consent /\ leads' = [leads EXCEPT ![t] = leads[t] + 1])
    BY <1>2 DEF captureLead
  <2> HIDE DEF t
  <2> QED
    BY <1>0, <2>1, <2>2 DEF ConsentSpentOnce
<1>3. ASSUME NEW q \in Queue, PurgeRow(q) PROVE ConsentSpentOnce'
  BY <1>3, <1>a DEF PurgeRow
<1>4. ASSUME NEW q \in Queue,
             PurgeCheck(q) \/ PurgeBulk(q) \/ PurgeObjects(q) \/ PurgeTail(q)
                              \/ WorkerFails(q)
      PROVE  ConsentSpentOnce'
  BY <1>4, <1>a DEF PurgeCheck, PurgeBulk, PurgeObjects, PurgeTail,
       WorkerFails
<1>5. ASSUME NEW t \in Tenants,
             \/ provisionTenant(t) \/ CountUnderLock(t) \/ createSandbox(t)
             \/ \E to \in Status : setStatus(t, to)
             \/ \E op \in Ops : BeginRequest(t, op)
             \/ runExport(t) \/ requestPurge(t) \/ SweepIdle(t)
             \/ SweepRequeue(t)
             \/ \E q \in Queue : TakeJob(q, t)
      PROVE  ConsentSpentOnce'
  BY <1>5, <1>a DEF provisionTenant, CountUnderLock, createSandbox,
       setStatus, BeginRequest, runExport, requestPurge, SweepIdle,
       SweepRequeue, TakeJob
<1>6. CASE AbortRequest \/ PurgeCommit \/ UNCHANGED tenantVars
  BY <1>6, <1>a DEF AbortRequest, PurgeCommit, tenantVars
<1> QED
  BY <1>1, <1>2, <1>3, <1>4, <1>5, <1>6, TenantAssumptions DEF TenantNext, PurgeStep

(* The sets that are counted are finite.                                   *)
LEMMA ActiveFinite ==
  /\ IsFiniteSet(CountedActive)
         /\ IsFiniteSet({t \in Sandboxes : status[t] = "ACTIVE"})
<1>1. /\ CountedActive \subseteq Tenants
      /\ {t \in Sandboxes : status[t] = "ACTIVE"} \subseteq Tenants
  BY DEF CountedActive, Sandboxes
<1> QED
  BY <1>1, FS_Subset, TenantAssumptions

(* No sandbox starts to count but the one under the advisory lock.         *)
LEMMA ActiveMoves ==
  ASSUME LifeTypes, [TenantNext]_tenantVars
  PROVE  \/ CountedActive' \subseteq CountedActive
         \/ \E t \in capTx : /\ CountedActive' \subseteq CountedActive \cup {t}
                              /\ capTx' = capTx \ {t}
<1>0. status \in [Tenants -> Status] /\ capTx \subseteq Sandboxes
  BY DEF LifeTypes, TenantTypeOK
<1> DEFINE Fewer == CountedActive' \subseteq CountedActive
           OneMore == \E x \in capTx : /\ CountedActive' \subseteq CountedActive \cup {x}
                                      /\ capTx' = capTx \ {x}
<1>a. ASSUME UNCHANGED kind, reactivated \subseteq reactivated',
             \A u \in Sandboxes \ reactivated' : status'[u] = "ACTIVE" =>
                    status[u] = "ACTIVE"
      PROVE  Fewer
  BY <1>a DEF CountedActive, Sandboxes
<1>b. ASSUME UNCHANGED <<kind, status, reactivated>> PROVE Fewer
  BY <1>b DEF CountedActive, Sandboxes
<1>1. ASSUME NEW t \in Tenants, provisionTenant(t) PROVE Fewer
  BY <1>0, <1>1, <1>a DEF provisionTenant, Sandboxes
<1>2. ASSUME NEW t \in Tenants, createSandbox(t) PROVE OneMore
  <2>1. t \in capTx /\ capTx' = capTx \ {t} /\ UNCHANGED <<kind, reactivated>>
    BY <1>2 DEF createSandbox
  <2>2. status' = status \/ status' = [status EXCEPT ![t] = "ACTIVE"]
    BY <1>2 DEF createSandbox
  <2>3. CountedActive' \subseteq CountedActive \cup {t}
    BY <1>0, <2>1, <2>2 DEF CountedActive, Sandboxes
  <2> QED
    BY <2>1, <2>3
<1>3. ASSUME NEW t \in Tenants, NEW to \in Status, setStatus(t, to) PROVE Fewer
  BY <1>0, <1>3, <1>a DEF setStatus, Sandboxes
<1>4. ASSUME NEW t \in Tenants, beginPurge(t), UNCHANGED <<kind, reactivated>> PROVE Fewer
  <2>1. \A u \in Tenants : status'[u] = "ACTIVE" => status[u] = "ACTIVE"
    BY <1>0, <1>4 DEF beginPurge
  <2> QED
    BY <1>4, <1>a, <2>1 DEF Sandboxes
<1>5. ASSUME NEW t \in Tenants, SweepIdle(t) PROVE Fewer
  BY <1>4, <1>5 DEF SweepIdle
<1>6. ASSUME FinishRequest PROVE Fewer
  <2>1. req.t \in Tenants /\ UNCHANGED <<kind, reactivated>>
    BY <1>6 DEF FinishRequest, LifeTypes, TenantTypeOK
  <2>2. beginPurge(req.t) \/ status' = status
    BY <1>6 DEF FinishRequest
  <2> QED
    BY <1>4, <1>b, <2>1, <2>2
<1>7. ASSUME PurgeCommit PROVE Fewer
  <2>1. \A u \in Tenants : status'[u] = "ACTIVE" => status[u] = "ACTIVE"
    BY <1>0, <1>7 DEF PurgeCommit
  <2> QED
    BY <1>7, <1>a, <2>1 DEF PurgeCommit, Sandboxes
<1>8. ASSUME NEW q \in Queue, PurgeRow(q) PROVE Fewer
  <2>1. \A u \in Tenants : status'[u] = "ACTIVE" => status[u] = "ACTIVE"
    BY <1>0, <1>8 DEF PurgeRow
  <2> QED
    BY <1>8, <1>a, <2>1 DEF PurgeRow, Sandboxes
<1>9. ASSUME NEW q \in Queue,
             PurgeCheck(q) \/ PurgeBulk(q) \/ PurgeObjects(q) \/ captureLead(q)
                              \/ PurgeTail(q) \/ WorkerFails(q)
      PROVE  Fewer
  BY <1>9, <1>b DEF PurgeCheck, PurgeBulk, PurgeObjects, captureLead,
       PurgeTail, WorkerFails
<1>10. ASSUME NEW t \in Tenants,
              \/ CountUnderLock(t) \/ runExport(t) \/ requestPurge(t)
              \/ SweepRequeue(t)
              \/ \E op \in Ops : BeginRequest(t, op)
              \/ \E q \in Queue : TakeJob(q, t)
       PROVE  Fewer
  BY <1>10, <1>b DEF CountUnderLock, runExport, requestPurge, SweepRequeue,
       BeginRequest, TakeJob
<1>11. ASSUME AbortRequest \/ UNCHANGED tenantVars PROVE Fewer
  BY <1>11, <1>b DEF AbortRequest, tenantVars
<1> HIDE DEF Fewer, OneMore
<1>12. Fewer \/ OneMore
  BY <1>1, <1>2, <1>3, <1>5, <1>6, <1>7, <1>8, <1>9, <1>10, <1>11, TenantAssumptions DEF
       TenantNext, PurgeStep
<1> QED
  BY <1>12 DEF Fewer, OneMore

(* Every step keeps the cap.                                               *)
LEMMA NextRoom ==
  ASSUME LifeTypes, RoomForAnother, [TenantNext]_tenantVars
  PROVE  RoomForAnother'
<1>0. LifeTypes'
  BY NextTypes
<1>1. /\ IsFiniteSet(CountedActive)
      /\ IsFiniteSet({t \in Sandboxes : status[t] = "ACTIVE"})
      /\ IsFiniteSet(CountedActive')
  <2>1. CountedActive' \subseteq Tenants
    BY DEF CountedActive, Sandboxes
  <2> QED
    BY <2>1, ActiveFinite, FS_Subset, TenantAssumptions
<1>2. Cardinality(CountedActive) \in Nat /\ Cardinality(CountedActive') \in Nat
  BY <1>1, FS_CardinalityType
<1>3. CASE CountedActive' \subseteq CountedActive
  <2>1. Cardinality(CountedActive') <= Cardinality(CountedActive)
    BY <1>1, <1>3, FS_Subset
  <2>2. CASE capTx' \subseteq capTx
    BY <1>2, <2>1, <2>2, TenantAssumptions DEF RoomForAnother
  <2>3. CASE \E t \in Tenants : CountUnderLock(t)
    <3>1. PICK t \in Tenants : CountUnderLock(t)
      BY <2>3
    <3>2. capTx' = {t} /\ activeSandboxes < Cap
      BY <3>1 DEF CountUnderLock
    <3>3. CountedActive \subseteq {x \in Sandboxes : status[x] = "ACTIVE"}
      BY DEF CountedActive
    <3>4. Cardinality(CountedActive) <= activeSandboxes /\ activeSandboxes \in Nat
      BY <1>1, <3>3, FS_Subset, FS_CardinalityType DEF activeSandboxes
    <3> QED
      BY <1>2, <2>1, <3>2, <3>4, TenantAssumptions DEF RoomForAnother
  <2> QED
    BY <2>2, <2>3, LockMoves DEF LockMove
<1>4. ASSUME NEW t \in capTx, CountedActive' \subseteq CountedActive \cup {t}, capTx' = capTx \ {t}
      PROVE  RoomForAnother'
  <2>1. capTx' = {} /\ Cardinality(CountedActive) + 1 <= Cap
    BY <1>4 DEF RoomForAnother
  <2>2. /\ IsFiniteSet(CountedActive \cup {t})
        /\ Cardinality(CountedActive \cup {t}) \in Nat
        /\ Cardinality(CountedActive \cup {t}) <= Cardinality(CountedActive) + 1
    <3>1. /\ IsFiniteSet(CountedActive \cup {t})
          /\ Cardinality(CountedActive \cup {t}) =
               IF t \in CountedActive THEN Cardinality(CountedActive)
               ELSE Cardinality(CountedActive) + 1
      BY <1>1, FS_AddElement
    <3> QED
      BY <1>2, <3>1
  <2>3. Cardinality(CountedActive') <= Cardinality(CountedActive \cup {t})
    BY <1>4, <2>2, FS_Subset
  <2> QED
    BY <1>2, <2>1, <2>2, <2>3, TenantAssumptions DEF RoomForAnother
<1> QED
  BY <1>3, <1>4, ActiveMoves

(* Every step keeps the invariant.                                         *)
LEMMA LifeNext == LifeInv /\ [TenantNext]_tenantVars => LifeInv'
  BY NextTypes, NextStatus, NextObjects, NextGone, NextConsent, NextRoom DEF LifeInv

(* Type correctness of the tenant's life cycle.                            *)
THEOREM LifeTypeCorrect == TenantSpec => []TenantTypeOK
<1>1. LifeInv => TenantTypeOK
  BY DEF LifeInv, LifeTypes
<1> QED
  BY <1>1, LifeInit, LifeNext, PTL DEF TenantSpec

(* DemoLimits: no more sandboxes than the cap are ACTIVE, but the ones an  *)
(* operator put back, and a sandbox yields no more leads than it gave      *)
(* consents.  What the advisory lock of createSandbox protects already     *)
(* counts its own sandbox (RoomForAnother), and captureLead takes the      *)
(* consent in the transaction that writes the lead (ConsentSpentOnce).     *)
THEOREM DemoStaysLimited == TenantSpec => []DemoLimits
<1>1. ASSUME LifeInv PROVE DemoLimits
  <2>1. SandboxCap
    <3>1. Cardinality(CountedActive) \in Nat
      BY ActiveFinite, FS_CardinalityType
    <3>2. Cardinality(CountedActive) <= Cap
      BY <1>1, <3>1, TenantAssumptions DEF LifeInv, RoomForAnother
    <3> QED
      BY <3>2 DEF SandboxCap, CountedActive
  <2>2. LeadOncePerConsent
    BY <1>1 DEF LifeInv, LifeTypes, TenantTypeOK, ConsentSpentOnce, LeadOncePerConsent
  <2> QED
    BY <2>1, <2>2 DEF DemoLimits
<1> QED
  BY <1>1, LifeInit, LifeNext, PTL DEF TenantSpec

(* ErasedUnlessLate: a tenant whose row is gone has no rows, no consent    *)
(* and no stored object, but for an object that a request begun before the *)
(* purge stored after it. The order of the purge carries it: only a worker *)
(* past its check deletes the row, and by then the tenant can never serve  *)
(* again (StatusKnown).                                                    *)
THEOREM PurgeErases == TenantSpec => []ErasedUnlessLate
<1>1. LifeInv => ErasedUnlessLate
  BY DEF LifeInv, GoneIsErased, ErasedUnlessLate
<1> QED
  BY <1>1, LifeInit, LifeNext, PTL DEF TenantSpec

(* What a step deletes belongs to a tenant that is dying.                  *)
LEMMA OnlyPurgesDelete ==
  ASSUME LifeInv, [TenantNext]_tenantVars, NEW t \in Tenants,
         ~ (rows[t] \subseteq rows'[t]) \/ (t \in objects /\ t \notin objects')
  PROVE  status[t] \in Dying
<1>0. /\ rows \in [Tenants -> SUBSET {"business", "users"}] /\ LifeTypes
  BY DEF LifeInv, LifeTypes, TenantTypeOK
<1> DEFINE Kept == rows[t] \subseteq rows'[t] /\ (t \in objects => t \in objects')
<1>a. ASSUME UNCHANGED <<rows, objects>> PROVE Kept
  BY <1>a
<1>1. ASSUME NEW u \in Tenants, provisionTenant(u) \/ createSandbox(u) PROVE Kept
  BY <1>0, <1>1 DEF provisionTenant, createSandbox
<1>2. CASE FinishRequest
  <2>1. objects \subseteq objects'
    BY <1>2 DEF FinishRequest
  <2>2. rows' = rows \/ rows' = [rows EXCEPT ![req.t] = rows[req.t] \cup {"business"}]
    BY <1>2 DEF FinishRequest
  <2> QED
    BY <1>0, <2>1, <2>2
<1>3. ASSUME NEW u \in Tenants, runExport(u) PROVE Kept
  BY <1>3 DEF runExport
<1>4. ASSUME NEW q \in Queue, PurgeBulk(q) \/ PurgeObjects(q) \/ PurgeTail(q)
      PROVE  Kept \/ status[t] \in Dying
  <2>1. work[q] # None /\ StepOf(q) # "check"
    BY <1>4 DEF PurgeBulk, PurgeObjects, PurgeTail
  <2>2. status[work[q].t] \in Dying
    <3>1. work[q].at \in Nat /\ work[q].at >= 1 /\ work[q].at # 1
      BY <1>0, <2>1, AtStep
    <3> QED
      BY <2>1, <3>1 DEF LifeInv, StatusKnown
  <2>3. CASE t = work[q].t
    BY <2>2, <2>3
  <2>4. CASE t # work[q].t
    BY <1>0, <1>4, <2>4 DEF PurgeBulk, PurgeObjects, PurgeTail
  <2> QED
    BY <2>3, <2>4
<1>5. ASSUME NEW q \in Queue,
             PurgeCheck(q) \/ captureLead(q) \/ PurgeRow(q) \/ WorkerFails(q)
      PROVE  Kept
  BY <1>5, <1>a DEF PurgeCheck, captureLead, PurgeRow, WorkerFails
<1>6. ASSUME NEW u \in Tenants,
             \/ CountUnderLock(u)
             \/ \E to \in Status : setStatus(u, to)
             \/ \E op \in Ops : BeginRequest(u, op)
             \/ requestPurge(u) \/ SweepIdle(u) \/ SweepRequeue(u)
             \/ \E q \in Queue : TakeJob(q, u)
      PROVE  Kept
  BY <1>6, <1>a DEF CountUnderLock, setStatus, BeginRequest, requestPurge,
       SweepIdle, SweepRequeue, TakeJob
<1>7. CASE AbortRequest \/ PurgeCommit \/ UNCHANGED tenantVars
  BY <1>7, <1>a DEF AbortRequest, PurgeCommit, tenantVars
<1> HIDE DEF Kept
<1>8. Kept \/ status[t] \in Dying
  BY <1>1, <1>2, <1>3, <1>4, <1>5, <1>6, <1>7, TenantAssumptions DEF TenantNext, PurgeStep
<1> QED
  BY <1>8 DEF Kept

(* DeletesOnlyWhilePurging: no step removes a row or an object of a tenant *)
(* that is not being purged, whichever requests, sweeps and retried        *)
(* workers overlap.                                                        *)
THEOREM DeletesArePurges == TenantSpec => DeletesOnlyWhilePurging
<1> DEFINE Guarded ==
      \A t \in Tenants :
        (~ rows[t] \subseteq rows'[t] \/ (t \in objects /\ t \notin objects'))
          => status[t] \in {"PURGING", "GONE"}
<1>1. LifeInv /\ [TenantNext]_tenantVars => [Guarded]_tenantVars
  BY OnlyPurgesDelete DEF Dying
<1> HIDE DEF Guarded
<1>2. TenantSpec => [][Guarded]_tenantVars
  BY <1>1, LifeInit, LifeNext, PTL DEF TenantSpec
<1> QED
  BY <1>2 DEF Guarded, DeletesOnlyWhilePurging
=============================================================================
