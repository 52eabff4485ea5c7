----------------------------- MODULE Hr_proofs -----------------------------
(***************************************************************************)
(* Theorems about the HR module of the API: payroll, payslips and cash     *)
(* advances (Payroll), and the organisation with overtime and the clock    *)
(* (HrRecords).  The two share no state.                                   *)
(***************************************************************************)
EXTENDS Payroll, HrRecords, SumTheorems, WellFoundedInduction

-----------------------------------------------------------------------------
(* Part 1.  Payroll.                                                       *)

(* Request q is approving run r.                                           *)
Approving(q, r) == req[q].op = "approveRun" /\ req[q].run = r

(* What the fields of an open request say of each other: an approval knows *)
(* its run and works only on payslips it loaded, a change of an advance    *)
(* knows its advance, and only an approval repays.                         *)
Shaped(p) ==
  /\ req[p].op = "approveRun" =>
       /\ req[p].run \in Runs
       /\ req[p].emp # None => req[p].emp \in req[p].todo
       /\ \A e \in Employees : req[p].slips[e] # None => slip[<<req[p].run, e>>] # None
       /\ \A e \in req[p].todo : req[p].slips[e] # None
  /\ req[p].op \notin {"idle", "approveRun"} <=> req[p].adv # None
  /\ req[p].op # "approveRun" =>
       req[p].emp = None /\ \A a \in Advances : req[p].rest[a] = None

RequestShape == \A p \in Reqs : Shaped(p)

(* Two approvals of a run race, and once an unraced run is APPROVED no     *)
(* calculation of it is under way - neither its job is on the queue nor a  *)
(* request is about to put it there - and no request still approves it.    *)
Frozen ==
  /\ \A p, q \in Reqs : \A r \in Runs : p # q /\ Approving(p, r) /\ Approving(q, r) => r \in raced
  /\ \A r \in Runs \ raced : run[r] = "APPROVED" =>
       /\ \A j \in Jobs : calcJob[j] # None => calcJob[j].run # r
       /\ \A q \in Reqs : ~ Approving(q, r)

(* The figures are those of an approved payslip.                           *)
ShowsFrozen(s, figures) == run[s[1]] = "APPROVED" /\ figures = slip[s]

(* What the worker has rendered, and what is stored, are the figures of an *)
(* approved payslip, unless the worker read them before COMMIT or the run  *)
(* was raced.                                                              *)
PdfFresh ==
  \A s \in Slips : s[1] \notin raced =>
    /\ rendering # None /\ rendering.of = s /\ ~ rendering.early
         => ShowsFrozen(s, rendering.shown)
    /\ pdf[s] # None /\ s \notin early => ShowsFrozen(s, pdf[s])

(* What an approval that saw these balances takes off each advance.        *)
Repayments(seen) == [a \in Advances |-> advanceRepayment(seen[a], Installments[a])]

(* Two requests that handle one advance or one employee taint it.          *)
OneRequest ==
  \A p, q \in Reqs : p # q =>
    /\ \A a \in Advances : req[p].adv = a /\ req[q].adv = a => OwnerOf[a] \in tainted
    /\ \A e \in Employees : Handled(p, e) /\ Handled(q, e) => e \in tainted
    /\ \A e \in Employees : \A r \in Runs :
         Approving(p, r) /\ Approving(q, r) /\ req[p].slips[e] # None => e \in tainted

(* What request p remembers of advance a while its employee is untouched.  *)
Untouched(p, a) ==
  req[p].op = "approveRun" /\ ~ Handled(p, OwnerOf[a])
    => req[p].seen[a] = 0 /\ req[p].rest[a] = None

(* The advance still has the status that the request checked.              *)
StatusAsRead(p, a) ==
  OwnerOf[a] \notin tainted /\ req[p].adv = a => advance[a].status = From[req[p].op]

(* The balance is still the one that the approval pulled, and what it will *)
(* write is that balance less one repayment.                               *)
BalanceAsRead(p, a) ==
  OwnerOf[a] \notin tainted /\ Handled(p, OwnerOf[a]) =>
    /\ req[p].seen[a] > 0 => /\ advance[a].status \in {"DISBURSED", "REPAYING"}
                             /\ advance[a].outstanding = req[p].seen[a]
    /\ req[p].rest[a] = IF req[p].emp # OwnerOf[a] /\ req[p].seen[a] > 0
                          THEN applyRepayment(a, req[p].seen[a]) ELSE None

(* What a request loaded is what it will overwrite: no lost update on the  *)
(* advances of an untainted employee.                                      *)
ReadIsCurrent ==
  \A p \in Reqs : \A a \in Advances :
    Untouched(p, a) /\ StatusAsRead(p, a) /\ BalanceAsRead(p, a)

(* What an approval will write on a payslip is the sum of the repayments   *)
(* it will write on the advances.                                          *)
Pulled ==
  \A p \in Reqs : \A e \in Employees :
    e \notin tainted /\ Handled(p, e) /\ req[p].emp # e =>
      req[p].slips[e].advance = SumFunctionOnSet(Repayments(req[p].seen), SeenOf(p, e))

(* Nothing is deducted on a payslip of a run that is not approved, and     *)
(* nobody approves an approved run a second time.                          *)
PayslipsPaid ==
  \A e \in Employees \ tainted : \A r \in Runs :
    /\ run[r] # "APPROVED" /\ slip[<<r, e>>] # None => slip[<<r, e>>].advance = 0
    /\ run[r] = "APPROVED" => \A p \in Reqs : Approving(p, r) => req[p].slips[e] = None

(* The inductive invariant of payroll.                                     *)
IndInv == /\ TypeOK /\ RequestShape /\ Frozen /\ PdfFresh /\ OneRequest /\ ReadIsCurrent /\ Pulled
          /\ PayslipsPaid /\ AdvancesBalance

USE PayrollAssumptions

(* A repayment is at most the balance (advanceRepayment).                  *)
LEMMA RepaymentBounds ==
  ASSUME NEW n \in Nat, NEW k \in Nat
  PROVE  advanceRepayment(n, k) \in Nat /\ advanceRepayment(n, k) <= n
  BY DEF advanceRepayment, divideMoney, HalfUp

(* The balance after a repayment is not negative (applyRepayment).         *)
LEMMA RestBounds ==
  ASSUME NEW a \in Advances, NEW n \in Nat
  PROVE  applyRepayment(a, n) \in Nat
<1>1. Installments[a] \in Nat
  OBVIOUS
<1>2. advanceRepayment(n, Installments[a]) \in Nat /\ advanceRepayment(n, Installments[a]) <= n
  BY <1>1, RepaymentBounds
<1> QED
  BY <1>2 DEF applyRepayment

(* A sum of amounts is an amount (sumMoney).                               *)
LEMMA SumMoneyType ==
  ASSUME NEW amounts \in Seq(Int)
  PROVE  sumMoney(amounts) \in Int
<1> DEFINE D == DOMAIN amounts
<1>1. D = 1 .. Len(amounts) /\ Len(amounts) \in Int
  OBVIOUS
<1>2. IsFiniteSet(D)
  BY <1>1, FS_Interval
<1>3. \A i \in D : amounts[i] \in Int
  OBVIOUS
<1> HIDE DEF D
<1>4. SumFunctionOnSet(amounts, D) \in Int
  BY <1>2, <1>3, SumType
<1> QED
  BY <1>4 DEF sumMoney, SumFunction, D

(* computePayslip returns a payslip with the base and the deduction it was *)
(* given.                                                                  *)
LEMMA PayslipIsSlip ==
  ASSUME NEW b \in Nat, NEW a \in Nat
  PROVE  /\ payslip(b, a) \in Slip /\ payslip(b, a) # None
         /\ payslip(b, a).base = b /\ payslip(b, a).advance = a
<1> DEFINE in == <<b, 0>> \o <<>>
           out == <<0, 0, a>> \o <<>>
<1>1. in \in Seq(Int) /\ out \in Seq(Int)
  OBVIOUS
<1>2. payslip(b, a) = [base |-> b, advance |-> a, net |-> sumMoney(in) - sumMoney(out)]
  BY DEF payslip, computeTotals
<1> HIDE DEF in, out
<1>3. sumMoney(in) \in Int /\ sumMoney(out) \in Int
  BY <1>1, SumMoneyType
<1> QED
  BY <1>2, <1>3 DEF Slip

(* The fields of a request that is not open.                               *)
LEMMA IdleRow ==
  /\ Idle \in Request
  /\ Idle.op = "idle" /\ Idle.run = None /\ Idle.adv = None /\ Idle.emp = None /\ Idle.todo = {}
  /\ \A e \in Employees : Idle.slips[e] = None
  /\ \A a \in Advances : Idle.seen[a] = 0 /\ Idle.rest[a] = None
  BY DEF Idle, Request

-----------------------------------------------------------------------------
(* The rows of other requests stay; what the row of p becomes.             *)
Others(p) == \A q \in Reqs \ {p} : req'[q] = req[q]

Reset(p) ==
  /\ req'[p].op = "idle" /\ req'[p].run = None /\ req'[p].adv = None
  /\ req'[p].emp = None /\ req'[p].todo = {}
  /\ \A e \in Employees : req'[p].slips[e] = None
  /\ \A a \in Advances : req'[p].seen[a] = 0 /\ req'[p].rest[a] = None

Ended(p) == req' \in [Reqs -> Request] /\ Others(p) /\ Reset(p)

(* A request that commits or fails is over; the others go on.              *)
LEMMA EndSets ==
  ASSUME TypeOK, NEW p \in Reqs, req' = [req EXCEPT ![p] = Idle]
  PROVE  Ended(p)
  BY IdleRow DEF TypeOK, Ended, Others, Reset

(* What a change of an advance has loaded when its checks passed           *)
(* (transition).                                                           *)
LEMMA AdvanceReadSets ==
  ASSUME TypeOK, NEW p \in Reqs, NEW op \in {"approve", "reject", "disburse"},
         NEW a \in Advances, AdvanceRead(p, op, a)
  PROVE  /\ req' \in [Reqs -> Request] /\ Others(p)
         /\ req'[p].op = op /\ req'[p].run = None /\ req'[p].adv = a
         /\ req'[p].emp = None /\ req'[p].todo = {}
         /\ \A e \in Employees : req'[p].slips[e] = None
         /\ \A b \in Advances : req'[p].seen[b] = 0 /\ req'[p].rest[b] = None
<1> DEFINE row == [Idle EXCEPT !.op = op, !.adv = a]
<1>1. req' = [req EXCEPT ![p] = row]
  BY DEF AdvanceRead
<1>2. /\ row \in Request
      /\ row.op = op /\ row.run = None /\ row.adv = a /\ row.emp = None /\ row.todo = {}
      /\ \A e \in Employees : row.slips[e] = None
      /\ \A b \in Advances : row.seen[b] = 0 /\ row.rest[b] = None
  BY DEF Idle, Request
<1> HIDE DEF row
<1> QED
  BY <1>1, <1>2 DEF TypeOK, Others

(* What an approval has loaded when its checks passed (approve).           *)
LEMMA ApproveReadSets ==
  ASSUME TypeOK, NEW p \in Reqs, NEW r \in Runs, ApproveRead(p, r)
  PROVE  /\ req' \in [Reqs -> Request] /\ Others(p)
         /\ req'[p].op = "approveRun" /\ req'[p].run = r /\ req'[p].adv = None
         /\ req'[p].emp = None
         /\ req'[p].todo = {e \in Employees : slip[<<r, e>>] # None}
         /\ \A e \in Employees : req'[p].slips[e] = slip[<<r, e>>]
         /\ \A b \in Advances : req'[p].seen[b] = 0 /\ req'[p].rest[b] = None
<1> DEFINE slips == [e \in Employees |-> slip[<<r, e>>]]
           todo == {e \in Employees : slips[e] # None}
           row == [Idle EXCEPT !.op = "approveRun", !.run = r, !.slips = slips, !.todo = todo]
<1>1. req' = [req EXCEPT ![p] = row]
  BY DEF ApproveRead
<1>2. slips \in [Employees -> Slip \cup {None}] /\ todo \in SUBSET Employees
  BY DEF TypeOK, Slips
<1>3. /\ todo = {e \in Employees : slip[<<r, e>>] # None}
      /\ \A e \in Employees : slips[e] = slip[<<r, e>>]
  OBVIOUS
<1> HIDE DEF slips, todo
<1>4. /\ row \in Request
      /\ row.op = "approveRun" /\ row.run = r /\ row.adv = None /\ row.emp = None
      /\ row.todo = todo /\ row.slips = slips
      /\ \A b \in Advances : row.seen[b] = 0 /\ row.rest[b] = None
  BY <1>2 DEF Idle, Request
<1> HIDE DEF row
<1> QED
  BY <1>1, <1>3, <1>4 DEF TypeOK, Others

(* What an approval has loaded of the advances of an employee              *)
(* (outstandingFor).                                                       *)
LEMMA PullReadSets ==
  ASSUME TypeOK, NEW p \in Reqs, NEW e \in Employees, PullRead(p, e)
  PROVE  /\ req' \in [Reqs -> Request] /\ Others(p)
         /\ req'[p].op = "approveRun" /\ req'[p].run = req[p].run /\ req'[p].adv = req[p].adv
         /\ req'[p].emp = e /\ req'[p].todo = req[p].todo /\ req'[p].slips = req[p].slips
         /\ req'[p].rest = req[p].rest
         /\ \A a \in Advances : req'[p].seen[a] =
              IF a \in outstandingFor(e) THEN advance[a].outstanding ELSE req[p].seen[a]
<1> DEFINE seen == [a \in Advances |-> IF a \in outstandingFor(e) THEN advance[a].outstanding
                                                               ELSE req[p].seen[a]]
           row == [req[p] EXCEPT !.emp = e, !.seen = seen]
<1>1. req' = [req EXCEPT ![p] = row]
  BY DEF PullRead
<1>2. req[p] \in Request /\ req[p].op = "approveRun"
  BY DEF TypeOK, PullRead
<1>3. seen \in [Advances -> Nat]
  BY <1>2 DEF TypeOK, Request
<1>4. \A a \in Advances : seen[a] =
        IF a \in outstandingFor(e) THEN advance[a].outstanding ELSE req[p].seen[a]
  OBVIOUS
<1> HIDE DEF seen
<1>5. /\ row \in Request
      /\ row.op = req[p].op /\ row.run = req[p].run /\ row.adv = req[p].adv /\ row.emp = e
      /\ row.todo = req[p].todo /\ row.slips = req[p].slips /\ row.seen = seen
      /\ row.rest = req[p].rest
  BY <1>2, <1>3 DEF Request
<1> HIDE DEF row
<1> QED
  BY <1>1, <1>2, <1>4, <1>5 DEF TypeOK, Others

(* The repayments of an employee have a sum.                               *)
LEMMA PullTotal ==
  ASSUME TypeOK, NEW p \in Reqs, NEW e \in Employees
  PROVE  /\ IsFiniteSet(SeenOf(p, e))
         /\ SumFunctionOnSet(Repayments(req[p].seen), SeenOf(p, e)) \in Nat
<1> DEFINE f == Repayments(req[p].seen)
           S == SeenOf(p, e)
           z == [a \in Advances |-> 0]
<1>1. req[p].seen \in [Advances -> Nat]
  BY DEF TypeOK, Request
<1>2. \A a \in Advances : f[a] \in Nat
  BY <1>1, RepaymentBounds DEF Repayments
<1>3. S \subseteq Advances
  BY DEF SeenOf
<1>4. IsFiniteSet(S)
  BY <1>3, FS_Subset
<1>5. \A a \in S : z[a] = 0 /\ f[a] \in Int /\ z[a] \in Int /\ z[a] <= f[a]
  BY <1>2, <1>3
<1> HIDE DEF f, S, z
<1>6. SumFunctionOnSet(f, S) \in Int
  BY <1>4, <1>5, SumType
<1>7. SumFunctionOnSet(z, S) = 0
  BY <1>4, <1>5, SumOfZeros
<1>8. SumFunctionOnSet(z, S) <= SumFunctionOnSet(f, S)
  BY <1>4, <1>5, SumAtMost
<1> QED
  BY <1>4, <1>6, <1>7, <1>8 DEF f, S

(* What an approval has computed for an employee: the deduction on the     *)
(* payslip is the sum of the repayments.                                   *)
LEMMA PullWriteSets ==
  ASSUME TypeOK, RequestShape, NEW p \in Reqs, PullWrite(p)
  PROVE  LET e == req[p].emp IN
         /\ e \in Employees /\ req[p].op = "approveRun" /\ req[p].run \in Runs
         /\ e \in req[p].todo
         /\ req' \in [Reqs -> Request] /\ Others(p)
         /\ req'[p].op = req[p].op /\ req'[p].run = req[p].run /\ req'[p].adv = req[p].adv
         /\ req'[p].emp = None /\ req'[p].todo = req[p].todo \ {e}
         /\ req'[p].seen = req[p].seen
         /\ \A d \in Employees \ {e} : req'[p].slips[d] = req[p].slips[d]
         /\ req'[p].slips[e] # None
         /\ req'[p].slips[e].advance
              = SumFunctionOnSet(Repayments(req[p].seen), SeenOf(p, e))
         /\ \A a \in Advances : req'[p].rest[a] =
              IF OwnerOf[a] = e /\ req[p].seen[a] > 0
                THEN applyRepayment(a, req[p].seen[a]) ELSE req[p].rest[a]
<1> DEFINE e == req[p].emp
           total == SumFunctionOnSet(Repayments(req[p].seen), SeenOf(p, e))
           slips == [req[p].slips EXCEPT ![e] = payslip(req[p].slips[e].base, total)]
           rest == [a \in Advances |-> IF a \in SeenOf(p, e) THEN applyRepayment(a, req[p].seen[a])
                                                             ELSE req[p].rest[a]]
           todo == req[p].todo \ {e}
           row == [req[p] EXCEPT !.emp = None, !.todo = todo, !.slips = slips, !.rest = rest]
<1>1. req' = [req EXCEPT ![p] = row]
  BY DEF PullWrite, Repayments
<1>2. req[p] \in Request /\ e \in Employees
  BY DEF TypeOK, PullWrite, Request
<1>3. req[p].op = "approveRun"
  BY <1>2 DEF RequestShape, Shaped, PullWrite
<1>4. req[p].run \in Runs /\ e \in req[p].todo
  BY <1>2, <1>3 DEF RequestShape, Shaped
<1>5. req[p].slips[e] \in Slip
  BY <1>2, <1>3, <1>4 DEF RequestShape, Shaped, Request
<1>6. total \in Nat
  BY <1>2, PullTotal
<1> HIDE DEF total
<1>7. /\ payslip(req[p].slips[e].base, total) \in Slip
      /\ payslip(req[p].slips[e].base, total) # None
      /\ payslip(req[p].slips[e].base, total).advance = total
  <2>1. req[p].slips[e].base \in Nat
    BY <1>5 DEF Slip
  <2> QED
    BY <2>1, <1>6, PayslipIsSlip
<1>8. /\ slips \in [Employees -> Slip \cup {None}]
      /\ slips[e] # None /\ slips[e].advance = total
      /\ \A d \in Employees \ {e} : slips[d] = req[p].slips[d]
  BY <1>2, <1>7 DEF Request
<1>9. todo \in SUBSET Employees
  BY <1>2 DEF Request
<1>10. \A a \in Advances : /\ rest[a] \in Nat \cup {None}
                           /\ rest[a] = IF OwnerOf[a] = e /\ req[p].seen[a] > 0
                                THEN applyRepayment(a, req[p].seen[a]) ELSE req[p].rest[a]
  BY <1>2, RestBounds DEF Request, SeenOf
<1>11. rest \in [Advances -> Nat \cup {None}]
  BY <1>10
<1> HIDE DEF slips, rest, todo
<1>12. /\ row \in Request
       /\ row.op = req[p].op /\ row.run = req[p].run /\ row.adv = req[p].adv /\ row.emp = None
       /\ row.todo = todo /\ row.slips = slips /\ row.seen = req[p].seen /\ row.rest = rest
  BY <1>2, <1>8, <1>9, <1>11 DEF Request
<1> HIDE DEF row
<1>13. /\ req' \in [Reqs -> Request] /\ Others(p)
       /\ req'[p] = row
  BY <1>1, <1>12 DEF TypeOK, Others
<1> QED
  BY <1>2, <1>3, <1>4, <1>8, <1>10, <1>12, <1>13 DEF total, todo

(* A calculation goes on, short of its job running.                        *)
Calculation ==
  \/ \E j \in Jobs : \E r \in Runs : \E x \in SUBSET Employees : CalculateRead(j, r, x)
  \/ \E j \in Jobs : CalculateEnqueue(j) \/ CalculateDrop(j)

(* Until its job runs, a calculation touches nothing but itself.           *)
LEMMA CalculationSets ==
  ASSUME Calculation
  PROVE  UNCHANGED <<run, slip, pdf, advance, salary, employed, pdfQueued, rendering, req,
                     raced, tainted, early>>
  BY DEF Calculation, CalculateRead, CalculateEnqueue, CalculateDrop

(* A calculation under way after such a step was so before, and of the     *)
(* same run, or its run is not APPROVED: the request has just checked it.  *)
LEMMA CalculationRuns ==
  ASSUME TypeOK, Calculation, NEW k \in Jobs, calcJob'[k] # None
  PROVE  \/ calcJob[k] # None /\ calcJob'[k].run = calcJob[k].run
         \/ run[calcJob'[k].run] # "APPROVED"
<1>1. ASSUME NEW j \in Jobs, NEW r \in Runs, NEW x \in SUBSET Employees, CalculateRead(j, r, x)
      PROVE  IF k = j THEN calcJob'[k].run = r /\ run[r] # "APPROVED"
                      ELSE calcJob'[k] = calcJob[k]
  BY <1>1 DEF CalculateRead, TypeOK
<1>2. ASSUME NEW j \in Jobs, CalculateEnqueue(j)
      PROVE  calcJob[k] # None /\ calcJob'[k].run = calcJob[k].run
  BY <1>2 DEF CalculateEnqueue, TypeOK
<1>3. ASSUME NEW j \in Jobs, CalculateDrop(j) PROVE calcJob'[k] = calcJob[k]
  BY <1>3 DEF CalculateDrop, TypeOK
<1> QED
  BY <1>1, <1>2, <1>3 DEF Calculation

(* Every step keeps the types.                                             *)
LEMMA TypeStep == TypeOK /\ RequestShape /\ [Next]_vars => TypeOK'
<1> SUFFICES ASSUME TypeOK, RequestShape, [Next]_vars PROVE TypeOK'
  OBVIOUS
<1>1. CASE UNCHANGED vars
  BY <1>1 DEF TypeOK, vars
<1>2. ASSUME NEW a \in Advances, CreateAdvance(a) PROVE TypeOK'
  <2>1. advance' \in [Advances -> [status : AdvanceStatus, outstanding : Nat]]
    BY <1>2 DEF CreateAdvance, TypeOK, AdvanceStatus
  <2> QED
    BY <1>2, <2>1 DEF TypeOK, CreateAdvance
<1>3. ASSUME NEW p \in Reqs, NEW a \in Advances, NEW op \in {"approve", "reject", "disburse"},
             AdvanceRead(p, op, a) PROVE TypeOK'
  <2>1. req' \in [Reqs -> Request]
    BY <1>3, AdvanceReadSets
  <2> QED
    BY <1>3, <2>1 DEF TypeOK, AdvanceRead
<1>4. ASSUME NEW p \in Reqs, AdvanceCommit(p) PROVE TypeOK'
  <2>1. req' \in [Reqs -> Request]
    BY <1>4, EndSets DEF AdvanceCommit, Ended
  <2>2. req[p].adv \in Advances
    <3>1. req[p].op \notin {"idle", "approveRun"}
      BY <1>4 DEF AdvanceCommit
    <3>2. req[p].adv # None
      BY <3>1 DEF RequestShape, Shaped
    <3>3. req[p] \in Request
      BY DEF TypeOK
    <3> QED
      BY <3>2, <3>3 DEF Request
  <2>3. advance' \in [Advances -> [status : AdvanceStatus, outstanding : Nat]]
    BY <1>4, <2>2 DEF AdvanceCommit, TypeOK, AdvanceStatus, To
  <2> QED
    BY <1>4, <2>1, <2>3 DEF TypeOK, AdvanceCommit
<1>5. ASSUME NEW r \in Runs, CreateRun(r) PROVE TypeOK'
  BY <1>5 DEF TypeOK, CreateRun, RunStatus
<1>6. ASSUME Calculation PROVE TypeOK'
  <2>1. ASSUME NEW j \in Jobs, NEW r \in Runs, NEW x \in SUBSET Employees, CalculateRead(j, r, x)
        PROVE  /\ calcJob' \in [Jobs -> Calculations \cup {None}]
               /\ budget' \in 0 .. Budget
    BY <2>1 DEF CalculateRead, TypeOK, Calculations, Spend
  <2>2. ASSUME NEW j \in Jobs, CalculateEnqueue(j)
        PROVE  calcJob' \in [Jobs -> Calculations \cup {None}] /\ budget' = budget
    <3>1. calcJob[j] \in Calculations
      BY <2>2 DEF CalculateEnqueue, TypeOK
    <3>2. [calcJob[j] EXCEPT !.queued = TRUE] \in Calculations
      BY <3>1 DEF Calculations
    <3>3. calcJob' = [calcJob EXCEPT ![j] = [calcJob[j] EXCEPT !.queued = TRUE]]
      BY <2>2 DEF CalculateEnqueue, TypeOK
    <3> QED
      BY <2>2, <3>2, <3>3 DEF CalculateEnqueue, TypeOK
  <2>3. ASSUME NEW j \in Jobs, CalculateDrop(j)
        PROVE  calcJob' \in [Jobs -> Calculations \cup {None}] /\ budget' = budget
    BY <2>3 DEF CalculateDrop, TypeOK
  <2>4. budget \in 0 .. Budget
    BY DEF TypeOK
  <2>5. calcJob' \in [Jobs -> Calculations \cup {None}] /\ budget' \in 0 .. Budget
    BY <1>6, <2>1, <2>2, <2>3, <2>4 DEF Calculation
  <2> QED
    BY <1>6, <2>5, CalculationSets DEF TypeOK
<1>7. ASSUME NEW j \in Jobs, NEW acked \in BOOLEAN, ComputeRun(j, acked) PROVE TypeOK'
  <2>1. calcJob[j].run \in Runs
    BY <1>7 DEF ComputeRun, TypeOK, Calculations
  <2>2. \A e \in Employees : payslip(salary[e], 0) \in Slip
    BY PayslipIsSlip DEF TypeOK
  <2>3. slip' \in [Slips -> Slip \cup {None}] /\ pdf' \in [Slips -> Slip \cup {None}]
    BY <1>7, <2>1, <2>2 DEF ComputeRun, TypeOK, Slips
  <2>4. run' \in [Runs -> RunStatus]
    BY <1>7, <2>1 DEF ComputeRun, TypeOK, RunStatus
  <2>5. calcJob' \in [Jobs -> Calculations \cup {None}]
    BY <1>7 DEF ComputeRun, TypeOK
  <2>6. tainted' \in SUBSET Employees /\ early' \in SUBSET Slips /\ budget' \in 0 .. Budget
    BY <1>7 DEF ComputeRun, TypeOK, Spend
  <2> QED
    BY <1>7, <2>3, <2>4, <2>5, <2>6 DEF ComputeRun, TypeOK
<1>8. ASSUME NEW p \in Reqs, NEW r \in Runs, ApproveRead(p, r) PROVE TypeOK'
  <2>1. req' \in [Reqs -> Request]
    BY <1>8, ApproveReadSets
  <2>2. raced' \in SUBSET Runs /\ tainted' \in SUBSET Employees
    BY <1>8 DEF ApproveRead, TypeOK
  <2> QED
    BY <1>8, <2>1, <2>2 DEF TypeOK, ApproveRead
<1>9. ASSUME NEW p \in Reqs, NEW e \in Employees, PullRead(p, e) PROVE TypeOK'
  <2>1. req' \in [Reqs -> Request]
    BY <1>9, PullReadSets
  <2> QED
    BY <1>9, <2>1 DEF TypeOK, PullRead
<1>10. ASSUME NEW p \in Reqs, PullWrite(p) PROVE TypeOK'
  <2>1. req' \in [Reqs -> Request] /\ req[p].run \in Runs /\ req[p].emp \in Employees
    BY <1>10, PullWriteSets
  <2>2. pdfQueued' \in SUBSET Slips
    BY <1>10, <2>1 DEF TypeOK, PullWrite, Slips
  <2> QED
    BY <1>10, <2>1, <2>2 DEF TypeOK, PullWrite
<1>11. ASSUME NEW p \in Reqs, ApproveCommit(p) PROVE TypeOK'
  <2>1. req' \in [Reqs -> Request]
    BY <1>11, EndSets DEF ApproveCommit, Ended
  <2>2. req[p] \in Request /\ req[p].run \in Runs
    BY <1>11 DEF RequestShape, Shaped, TypeOK, ApproveCommit
  <2>3. slip' \in [Slips -> Slip \cup {None}]
    BY <1>11, <2>2 DEF ApproveCommit, TypeOK, Slips, Request
  <2>4. advance' \in [Advances -> [status : AdvanceStatus, outstanding : Nat]]
    BY <1>11, <2>2 DEF ApproveCommit, TypeOK, AdvanceStatus, Request
  <2>5. run' \in [Runs -> RunStatus] /\ raced' \in SUBSET Runs
    BY <1>11, <2>2 DEF ApproveCommit, TypeOK, RunStatus
  <2> QED
    BY <1>11, <2>1, <2>3, <2>4, <2>5 DEF TypeOK, ApproveCommit
<1>12. ASSUME NEW p \in Reqs, Rollback(p) PROVE TypeOK'
  <2>1. req' \in [Reqs -> Request]
    BY <1>12, EndSets DEF Rollback, Ended
  <2> QED
    BY <1>12, <2>1 DEF TypeOK, Rollback, Spend
<1>13. ASSUME NEW r \in Runs, NEW e \in Employees, PdfRead(r, e) PROVE TypeOK'
  <2>1. <<r, e>> \in Slips /\ slip[<<r, e>>] \in Slip
    BY <1>13 DEF Slips, TypeOK, PdfRead
  <2>2. rendering' \in [of : Slips, shown : Slip, early : BOOLEAN]
    BY <1>13, <2>1 DEF PdfRead
  <2> QED
    BY <1>13, <2>2 DEF TypeOK, PdfRead
<1>14. CASE PdfStore
  <2>1. rendering \in [of : Slips, shown : Slip, early : BOOLEAN]
    BY <1>14 DEF PdfStore, TypeOK
  <2>2. pdf' \in [Slips -> Slip \cup {None}] /\ early' \in SUBSET Slips
    BY <1>14, <2>1 DEF PdfStore, TypeOK
  <2> QED
    BY <1>14, <2>2 DEF TypeOK, PdfStore
<1>15. CASE PdfFail
  <2>1. pdfQueued' \in SUBSET Slips /\ (rendering' = rendering \/ rendering' = None)
    BY <1>15 DEF PdfFail, TypeOK
  <2> QED
    BY <1>15, <2>1 DEF TypeOK, PdfFail, Spend
<1>16. ASSUME NEW e \in Employees, NEW base \in Salaries, AddSalaryRecord(e, base) PROVE TypeOK'
  BY <1>16 DEF TypeOK, AddSalaryRecord, Spend
<1>17. ASSUME NEW e \in Employees, Resign(e) PROVE TypeOK'
  BY <1>17 DEF TypeOK, Resign, Spend
<1> DEFINE Advancing ==
             \/ \E a \in Advances : CreateAdvance(a)
             \/ \E p \in Reqs : \E a \in Advances :
                  \E op \in {"approve", "reject", "disburse"} : AdvanceRead(p, op, a)
             \/ \E p \in Reqs : AdvanceCommit(p) \/ Rollback(p)
           Running ==
             \/ \E r \in Runs : CreateRun(r)
             \/ Calculation
             \/ \E j \in Jobs : \E acked \in BOOLEAN : ComputeRun(j, acked)
           Approval ==
             \/ \E p \in Reqs : \E r \in Runs : ApproveRead(p, r)
             \/ \E p \in Reqs : \E e \in Employees : PullRead(p, e)
             \/ \E p \in Reqs : PullWrite(p) \/ ApproveCommit(p)
           Other ==
             \/ \E r \in Runs : \E e \in Employees : PdfRead(r, e)
             \/ PdfStore \/ PdfFail
             \/ \E e \in Employees : \E base \in Salaries : AddSalaryRecord(e, base)
             \/ \E e \in Employees : Resign(e)
<1>18. UNCHANGED vars \/ Advancing \/ Running \/ Approval \/ Other
  BY DEF Next, Calculation
<1>19. Advancing => TypeOK'
  BY <1>2, <1>3, <1>4, <1>12
<1>20. Running => TypeOK'
  BY <1>5, <1>6, <1>7
<1>21. Approval => TypeOK'
  BY <1>8, <1>9, <1>10, <1>11
<1>22. Other => TypeOK'
  BY <1>13, <1>14, <1>15, <1>16, <1>17
<1> HIDE DEF Advancing, Running, Approval, Other
<1> QED
  BY <1>1, <1>18, <1>19, <1>20, <1>21, <1>22

(* A payslip that exists goes on existing: a calculation writes only over  *)
(* it.                                                                     *)
LEMMA SlipsStay ==
  ASSUME TypeOK, RequestShape, [Next]_vars, NEW s \in Slips, slip[s] # None
  PROVE  slip'[s] # None
<1>1. CASE UNCHANGED slip
  BY <1>1
<1>2. ASSUME NEW j \in Jobs, NEW acked \in BOOLEAN, ComputeRun(j, acked) PROVE slip'[s] # None
  <2>1. payslip(salary[s[2]], 0) # None
    BY PayslipIsSlip DEF TypeOK, Slips
  <2> QED
    BY <1>2, <2>1 DEF ComputeRun
<1>3. ASSUME NEW p \in Reqs, ApproveCommit(p) PROVE slip'[s] # None
  BY <1>3 DEF ApproveCommit
<1>4. ASSUME Calculation PROVE UNCHANGED slip
  BY <1>4, CalculationSets
<1> QED
  BY <1>1, <1>2, <1>3, <1>4
     DEF Next, vars, CreateAdvance, AdvanceRead, AdvanceCommit, CreateRun, Calculation,
     ApproveRead, PullRead, PullWrite, Rollback, PdfRead, PdfStore, PdfFail, AddSalaryRecord, Resign

(* A step that leaves the requests alone.                                  *)
LEMMA ShapeOthers ==
  ASSUME TypeOK, RequestShape, [Next]_vars, NEW q \in Reqs, req'[q] = req[q]
  PROVE  Shaped(q)'
<1>1. Shaped(q) /\ req[q] \in Request
  BY DEF RequestShape, TypeOK
<1>2. ASSUME req[q].op = "approveRun", NEW e \in Employees, req[q].slips[e] # None
      PROVE slip'[<<req[q].run, e>>] # None
  <2>1. slip[<<req[q].run, e>>] # None /\ <<req[q].run, e>> \in Slips
    BY <1>1, <1>2 DEF Shaped, Slips
  <2> QED
    BY <2>1, SlipsStay
<1> QED
  BY <1>1, <1>2 DEF Shaped

(* A step of the PDF worker or of the employee master, or none.            *)
Quiet == UNCHANGED <<run, slip, advance, calcJob, req, raced, tainted>>

(* The steps, those that touch neither runs, payslips, advances, jobs nor  *)
(* requests taken as one.                                                  *)
LEMMA StepCases ==
  ASSUME [Next]_vars
  PROVE  \/ Quiet
         \/ \E a \in Advances : CreateAdvance(a)
         \/ \E p \in Reqs : \E a \in Advances :
              \E op \in {"approve", "reject", "disburse"} : AdvanceRead(p, op, a)
         \/ \E p \in Reqs : AdvanceCommit(p)
         \/ \E r \in Runs : CreateRun(r)
         \/ Calculation
         \/ \E j \in Jobs : \E acked \in BOOLEAN : ComputeRun(j, acked)
         \/ \E p \in Reqs : \E r \in Runs : ApproveRead(p, r)
         \/ \E p \in Reqs : \E e \in Employees : PullRead(p, e)
         \/ \E p \in Reqs : PullWrite(p)
         \/ \E p \in Reqs : ApproveCommit(p)
         \/ \E p \in Reqs : Rollback(p)
<1>1. CASE UNCHANGED vars
  BY <1>1 DEF vars, Quiet
<1>2. ASSUME NEW r \in Runs, NEW e \in Employees, PdfRead(r, e) PROVE Quiet
  BY <1>2 DEF PdfRead, Quiet
<1>3. ASSUME PdfStore \/ PdfFail PROVE Quiet
  BY <1>3 DEF PdfStore, PdfFail, Quiet
<1>4. ASSUME NEW e \in Employees, NEW base \in Salaries, AddSalaryRecord(e, base) PROVE Quiet
  BY <1>4 DEF AddSalaryRecord, Quiet
<1>5. ASSUME NEW e \in Employees, Resign(e) PROVE Quiet
  BY <1>5 DEF Resign, Quiet
<1> QED
  BY <1>1, <1>2, <1>3, <1>4, <1>5 DEF Next, Calculation

(* Every step keeps the shape of requests.                                 *)
LEMMA ShapeStep == TypeOK /\ RequestShape /\ [Next]_vars => RequestShape'
<1> SUFFICES ASSUME TypeOK, RequestShape, [Next]_vars, NEW q \in Reqs PROVE Shaped(q)'
  BY DEF RequestShape
<1>1. ASSUME UNCHANGED req PROVE Shaped(q)'
  BY <1>1, ShapeOthers
<1>2. ASSUME NEW p \in Reqs, NEW a \in Advances, NEW op \in {"approve", "reject", "disburse"},
             AdvanceRead(p, op, a) PROVE Shaped(q)'
  BY <1>2, AdvanceReadSets, ShapeOthers DEF Shaped, Others
<1>3. ASSUME NEW p \in Reqs, Ended(p) PROVE Shaped(q)'
  BY <1>3, ShapeOthers DEF Ended, Reset, Shaped, Others
<1>4. ASSUME NEW p \in Reqs, NEW r \in Runs, ApproveRead(p, r) PROVE Shaped(q)'
  <2>1. CASE q # p
    BY <2>1, <1>4, ApproveReadSets, ShapeOthers DEF Others
  <2>2. slip' = slip
    BY <1>4 DEF ApproveRead
  <2>3. /\ req'[p].op = "approveRun" /\ req'[p].run = r /\ req'[p].adv = None
        /\ req'[p].emp = None
        /\ req'[p].todo = {e \in Employees : slip[<<r, e>>] # None}
        /\ \A e \in Employees : req'[p].slips[e] = slip[<<r, e>>]
    BY <1>4, ApproveReadSets
  <2>4. Shaped(p)'
    BY <2>2, <2>3 DEF Shaped
  <2> QED
    BY <2>1, <2>4
<1>5. ASSUME NEW p \in Reqs, NEW e \in Employees, PullRead(p, e) PROVE Shaped(q)'
  <2>1. CASE q # p
    BY <2>1, <1>5, PullReadSets, ShapeOthers DEF Others
  <2>2. slip' = slip /\ e \in req[p].todo /\ Shaped(p) /\ req[p].op = "approveRun"
    BY <1>5 DEF PullRead, RequestShape
  <2>3. CASE q = p
    BY <2>2, <2>3, <1>5, PullReadSets DEF Shaped
  <2> QED
    BY <2>1, <2>3
<1>6. ASSUME NEW p \in Reqs, PullWrite(p) PROVE Shaped(q)'
  <2>1. CASE q # p
    BY <2>1, <1>6, PullWriteSets, ShapeOthers DEF Others
  <2>2. slip' = slip /\ Shaped(p) /\ req[p] \in Request
    BY <1>6 DEF PullWrite, RequestShape, TypeOK
  <2> DEFINE e == req[p].emp
  <2>3. /\ e \in Employees /\ req[p].op = "approveRun" /\ req[p].run \in Runs
        /\ e \in req[p].todo
        /\ req'[p].op = req[p].op /\ req'[p].run = req[p].run /\ req'[p].adv = req[p].adv
        /\ req'[p].emp = None /\ req'[p].todo = req[p].todo \ {e}
        /\ \A d \in Employees \ {e} : req'[p].slips[d] = req[p].slips[d]
        /\ req'[p].slips[e] # None
    BY <1>6, PullWriteSets
  <2>4. req[p].todo \subseteq Employees
    BY <2>2 DEF Request
  <2>5. Shaped(p)'
    BY <2>2, <2>3, <2>4 DEF Shaped
  <2> QED
    BY <2>1, <2>5
<1>7. ASSUME NEW p \in Reqs, AdvanceCommit(p) \/ ApproveCommit(p) \/ Rollback(p) PROVE Ended(p)
  BY <1>7, EndSets DEF AdvanceCommit, ApproveCommit, Rollback
<1>8. ASSUME Quiet PROVE UNCHANGED req
  BY <1>8 DEF Quiet
<1>9. ASSUME NEW a \in Advances, CreateAdvance(a) PROVE UNCHANGED req
  BY <1>9 DEF CreateAdvance
<1>10. ASSUME NEW r \in Runs, CreateRun(r) PROVE UNCHANGED req
  BY <1>10 DEF CreateRun
<1>11. ASSUME Calculation PROVE UNCHANGED req
  BY <1>11, CalculationSets
<1>12. ASSUME NEW j \in Jobs, NEW acked \in BOOLEAN, ComputeRun(j, acked) PROVE UNCHANGED req
  BY <1>12 DEF ComputeRun
<1> QED
  BY StepCases, <1>1, <1>2, <1>3, <1>4, <1>5, <1>6, <1>7, <1>8, <1>9, <1>10, <1>11, <1>12

(* What a step may do to the row of request q.                             *)
LEMMA RequestSteps ==
  ASSUME TypeOK, RequestShape, [Next]_vars, NEW q \in Reqs
  PROVE  \/ req'[q] = req[q]
         \/ Reset(q)
         \/ \E a \in Advances : \E op \in {"approve", "reject", "disburse"} : AdvanceRead(q, op, a)
         \/ \E r \in Runs : ApproveRead(q, r)
         \/ \E e \in Employees : PullRead(q, e)
         \/ PullWrite(q)
<1>1. ASSUME NEW p \in Reqs, NEW a \in Advances, NEW op \in {"approve", "reject", "disburse"},
             AdvanceRead(p, op, a), p # q PROVE req'[q] = req[q]
  BY <1>1, AdvanceReadSets DEF Others
<1>2. ASSUME NEW p \in Reqs, AdvanceCommit(p) \/ ApproveCommit(p) \/ Rollback(p)
      PROVE  req'[q] = req[q] \/ Reset(q)
  BY <1>2, EndSets DEF AdvanceCommit, ApproveCommit, Rollback, Ended, Others
<1>3. ASSUME NEW p \in Reqs, NEW r \in Runs, ApproveRead(p, r), p # q PROVE req'[q] = req[q]
  BY <1>3, ApproveReadSets DEF Others
<1>4. ASSUME NEW p \in Reqs, NEW e \in Employees, PullRead(p, e), p # q PROVE req'[q] = req[q]
  BY <1>4, PullReadSets DEF Others
<1>5. ASSUME NEW p \in Reqs, PullWrite(p), p # q PROVE req'[q] = req[q]
  BY <1>5, PullWriteSets DEF Others
<1>6. ASSUME Quiet PROVE req'[q] = req[q]
  BY <1>6 DEF Quiet
<1>7. ASSUME NEW a \in Advances, CreateAdvance(a) PROVE req'[q] = req[q]
  BY <1>7 DEF CreateAdvance
<1>8. ASSUME NEW r \in Runs, CreateRun(r) PROVE req'[q] = req[q]
  BY <1>8 DEF CreateRun
<1>9. ASSUME Calculation PROVE req'[q] = req[q]
  BY <1>9, CalculationSets
<1>10. ASSUME NEW j \in Jobs, NEW acked \in BOOLEAN, ComputeRun(j, acked) PROVE req'[q] = req[q]
  BY <1>10 DEF ComputeRun
<1> QED
  BY StepCases, <1>1, <1>2, <1>3, <1>4, <1>5, <1>6, <1>7, <1>8, <1>9, <1>10

(* A request that approves a run after a step did so before, or the step   *)
(* begins the approval.                                                    *)
LEMMA ApprovingStep ==
  ASSUME TypeOK, RequestShape, [Next]_vars, NEW q \in Reqs, NEW r \in Runs, Approving(q, r)'
  PROVE  /\ Approving(q, r) \/ ApproveRead(q, r)
         /\ \A e \in Employees : Approving(q, r) /\ req'[q].slips[e] # None
                                   => req[q].slips[e] # None
<1>1. CASE req'[q] = req[q]
  BY <1>1 DEF Approving
<1>2. CASE Reset(q)
  BY <1>2 DEF Reset, Approving
<1>3. ASSUME NEW a \in Advances, NEW op \in {"approve", "reject", "disburse"}, AdvanceRead(q, op, a)
      PROVE  FALSE
  BY <1>3, AdvanceReadSets DEF Approving
<1>4. ASSUME NEW x \in Runs, ApproveRead(q, x) PROVE ApproveRead(q, r) /\ ~ Approving(q, r)
  <2>1. x = r
    BY <1>4, ApproveReadSets DEF Approving
  <2>2. req[q].op = "idle"
    BY <1>4 DEF ApproveRead
  <2> QED
    BY <1>4, <2>1, <2>2 DEF Approving
<1>5. ASSUME NEW e \in Employees, PullRead(q, e)
      PROVE  Approving(q, r) /\ req'[q].slips = req[q].slips
  BY <1>5, PullReadSets DEF Approving, PullRead
<1>6. CASE PullWrite(q)
  <2>1. Approving(q, r)
    BY <1>6, PullWriteSets DEF Approving
  <2>2. req[q].slips[req[q].emp] # None
    BY <1>6, PullWriteSets DEF RequestShape, Shaped
  <2> QED
    BY <1>6, <2>1, <2>2, PullWriteSets
<1> QED
  BY RequestSteps, <1>1, <1>2, <1>3, <1>4, <1>5, <1>6

(* A run that was raced stays so.                                          *)
LEMMA RacedGrows == ASSUME [Next]_vars PROVE raced \subseteq raced'
<1>1. ASSUME NEW p \in Reqs, ApproveCommit(p) PROVE raced \subseteq raced'
  BY <1>1 DEF ApproveCommit
<1>2. ASSUME NEW p \in Reqs, NEW r \in Runs, ApproveRead(p, r) PROVE raced \subseteq raced'
  BY <1>2 DEF ApproveRead
<1> QED
  BY StepCases, CalculationSets, <1>1, <1>2
     DEF Quiet, CreateAdvance, AdvanceRead, AdvanceCommit, CreateRun, ComputeRun,
     PullRead, PullWrite, Rollback

(* Every step keeps Frozen.                                                *)
LEMMA FrozenStep == TypeOK /\ RequestShape /\ Frozen /\ [Next]_vars => Frozen'
<1> SUFFICES ASSUME TypeOK, RequestShape, Frozen, [Next]_vars PROVE Frozen'
  OBVIOUS
<1>b. raced \subseteq raced'
  BY RacedGrows
<1> DEFINE Once == \A p, q \in Reqs : \A r \in Runs :
                     p # q /\ Approving(p, r) /\ Approving(q, r) => r \in raced
           Idled(r) == /\ \A j \in Jobs : calcJob[j] # None => calcJob[j].run # r
                       /\ \A q \in Reqs : ~ Approving(q, r)
           Rest == \A r \in Runs \ raced : run[r] = "APPROVED" => Idled(r)
<1>a. Once /\ Rest
  BY DEF Frozen
<1>1. Once'
  <2> SUFFICES ASSUME NEW p \in Reqs, NEW q \in Reqs, NEW r \in Runs, p # q,
                      Approving(p, r)', Approving(q, r)'
               PROVE  r \in raced'
    OBVIOUS
  <2>1. CASE Approving(p, r) /\ Approving(q, r)
    BY <1>a, <1>b, <2>1
  <2>2. ASSUME NEW x \in Reqs, NEW y \in Reqs, x # y, ApproveRead(x, r), Approving(y, r)'
        PROVE  r \in raced'
    <3>1. req'[y] = req[y]
      BY <2>2, ApproveReadSets DEF Others
    <3>2. Approving(y, r)
      BY <2>2, <3>1 DEF Approving
    <3> QED
      BY <2>2, <3>2 DEF ApproveRead, Approving
  <2> QED
    BY <2>1, <2>2, ApprovingStep
<1>2. Rest'
  <2> SUFFICES ASSUME NEW r \in Runs \ raced', run'[r] = "APPROVED" PROVE Idled(r)'
    OBVIOUS
  <2>0. r \in Runs \ raced
    BY <1>b
  <2>1. ASSUME run[r] = "APPROVED" PROVE \A q \in Reqs : ~ Approving(q, r)'
    <3>1. \A q \in Reqs : ~ Approving(q, r)
      BY <2>0, <2>1, <1>a
    <3>2. \A q \in Reqs : ~ ApproveRead(q, r)
      BY <2>1 DEF ApproveRead
    <3> QED
      BY <3>1, <3>2, ApprovingStep
  <2>2. ASSUME run[r] = "APPROVED", calcJob' = calcJob PROVE Idled(r)'
    BY <2>0, <2>1, <2>2, <1>a
  <2>3. ASSUME Calculation PROVE Idled(r)'
    <3>1. run[r] = "APPROVED"
      BY <2>3, CalculationSets
    <3>2. \A k \in Jobs : calcJob'[k] # None => calcJob'[k].run # r
      BY <3>1, <2>0, <2>3, <1>a, CalculationRuns
    <3> QED
      BY <3>1, <3>2, <2>1
  <2>4. ASSUME NEW j \in Jobs, NEW acked \in BOOLEAN, ComputeRun(j, acked) PROVE Idled(r)'
    <3>1. calcJob[j].run \in Runs
      BY <2>4 DEF ComputeRun, TypeOK, Calculations
    <3>2. run[r] = "APPROVED"
      BY <2>4, <3>1 DEF ComputeRun, TypeOK
    <3>3. \A k \in Jobs : calcJob'[k] # None => calcJob'[k].run # r
      BY <3>2, <2>0, <2>4, <1>a DEF ComputeRun, TypeOK
    <3> QED
      BY <3>2, <3>3, <2>1
  <2>5. ASSUME NEW p \in Reqs, ApproveCommit(p) PROVE Idled(r)'
    <3>1. Ended(p)
      BY <2>5, EndSets DEF ApproveCommit
    <3>2. req[p].run \in Runs /\ calcJob' = calcJob
      BY <2>5 DEF ApproveCommit, RequestShape, Shaped
    <3>3. CASE req[p].run # r
      <4>1. run[r] = "APPROVED"
        BY <2>5, <3>2, <3>3 DEF ApproveCommit, TypeOK
      <4> QED
        BY <4>1, <3>2, <2>2
    <3>4. CASE req[p].run = r
      <4>1. \A j \in Jobs : calcJob'[j] # None => calcJob'[j].run # r
        BY <2>5, <3>2, <3>4 DEF ApproveCommit
      <4>2. Approving(p, r)
        BY <2>5, <3>4 DEF ApproveCommit, Approving
      <4>3. \A q \in Reqs \ {p} : ~ Approving(q, r)'
        BY <3>1, <4>2, <2>0, <1>a DEF Ended, Others, Approving
      <4>4. ~ Approving(p, r)'
        BY <3>1 DEF Ended, Reset, Approving
      <4> QED
        BY <4>1, <4>3, <4>4
    <3> QED
      BY <3>3, <3>4
  <2>6. ASSUME NEW x \in Runs, CreateRun(x) PROVE Idled(r)'
    <3>1. run[r] = "APPROVED" /\ calcJob' = calcJob
      BY <2>6 DEF CreateRun, TypeOK
    <3> QED
      BY <3>1, <2>2
  <2> QED
    BY StepCases, <2>2, <2>3, <2>4, <2>5, <2>6 DEF Quiet, CreateAdvance, AdvanceRead, AdvanceCommit,
       ApproveRead, PullRead, PullWrite, Rollback
<1> QED
  BY <1>1, <1>2 DEF Frozen

(* A step that finds an unraced run APPROVED leaves it and its payslips    *)
(* alone.                                                                  *)
LEMMA FrozenMove ==
  ASSUME TypeOK, RequestShape, Frozen, [Next]_vars, NEW r \in Runs \ raced, run[r] = "APPROVED"
  PROVE  run'[r] = "APPROVED" /\ \A e \in Employees : slip'[<<r, e>>] = slip[<<r, e>>]
<1> DEFINE Same == run'[r] = "APPROVED" /\ \A e \in Employees : slip'[<<r, e>>] = slip[<<r, e>>]
<1>1. ASSUME NEW j \in Jobs, NEW acked \in BOOLEAN, ComputeRun(j, acked) PROVE Same
  <2>1. calcJob[j].run \in Runs /\ calcJob[j].run # r
    BY <1>1 DEF ComputeRun, TypeOK, Calculations, Frozen
  <2> QED
    BY <1>1, <2>1 DEF ComputeRun, TypeOK, Slips
<1>2. ASSUME NEW p \in Reqs, ApproveCommit(p) PROVE Same
  <2>1. req[p].run \in Runs /\ req[p].run # r
    BY <1>2 DEF ApproveCommit, RequestShape, Shaped, Frozen, Approving
  <2> QED
    BY <1>2, <2>1 DEF ApproveCommit, TypeOK, Slips
<1>3. ASSUME NEW x \in Runs, CreateRun(x) PROVE Same
  BY <1>3 DEF CreateRun, TypeOK
<1> QED
  BY StepCases, CalculationSets, <1>1, <1>2, <1>3
     DEF Quiet, CreateAdvance, AdvanceRead, AdvanceCommit, ApproveRead,
     PullRead, PullWrite, Rollback

(* Every step keeps the stored PDFs true.                                  *)
LEMMA PdfStep == TypeOK /\ RequestShape /\ Frozen /\ PdfFresh /\ [Next]_vars => PdfFresh'
<1> SUFFICES ASSUME TypeOK, RequestShape, Frozen, PdfFresh, [Next]_vars,
                    NEW s \in Slips, s[1] \notin raced'
             PROVE  /\ rendering' # None /\ rendering'.of = s /\ ~ rendering'.early
                         => ShowsFrozen(s, rendering.shown)'
                    /\ pdf'[s] # None /\ s \notin early' => ShowsFrozen(s, pdf[s])'
  BY DEF PdfFresh
<1> DEFINE Goal == /\ rendering' # None /\ rendering'.of = s /\ ~ rendering'.early
                         => ShowsFrozen(s, rendering.shown)'
                   /\ pdf'[s] # None /\ s \notin early' => ShowsFrozen(s, pdf[s])'
<1>1. s[1] \in Runs \ raced /\ s[2] \in Employees /\ s = <<s[1], s[2]>>
  BY RacedGrows DEF Slips
<1>2. /\ rendering # None /\ rendering.of = s /\ ~ rendering.early
           => ShowsFrozen(s, rendering.shown)
      /\ pdf[s] # None /\ s \notin early => ShowsFrozen(s, pdf[s])
  BY <1>1 DEF PdfFresh
<1>3. ASSUME run[s[1]] = "APPROVED" PROVE run'[s[1]] = "APPROVED" /\ slip'[s] = slip[s]
  BY <1>1, <1>3, FrozenMove
<1>4. ASSUME UNCHANGED <<pdf, rendering, early>> PROVE Goal
  BY <1>2, <1>3, <1>4 DEF ShowsFrozen
<1>5. ASSUME NEW j \in Jobs, NEW acked \in BOOLEAN, ComputeRun(j, acked) PROVE Goal
  <2>1. /\ rendering' = rendering
        /\ pdf'[s] = None \/ (pdf'[s] = pdf[s] /\ (s \in early' <=> s \in early))
    BY <1>5 DEF ComputeRun
  <2> QED
    BY <2>1, <1>2, <1>3 DEF ShowsFrozen
<1>6. ASSUME NEW r \in Runs, NEW e \in Employees, PdfRead(r, e) PROVE Goal
  <2>1. UNCHANGED <<run, slip, pdf, early>>
    BY <1>6 DEF PdfRead
  <2>2. ASSUME rendering'.of = s, ~ rendering'.early
        PROVE  run[s[1]] = "APPROVED" /\ rendering'.shown = slip[s]
    BY <1>1, <1>6, <2>2 DEF PdfRead
  <2> QED
    BY <2>1, <2>2, <1>2 DEF ShowsFrozen
<1>7. ASSUME PdfStore PROVE Goal
  <2>1. UNCHANGED <<run, slip>> /\ rendering' = None /\ rendering # None
    BY <1>7 DEF PdfStore
  <2>2. CASE rendering.of # s
    <3>1. pdf'[s] = pdf[s] /\ (s \in early' <=> s \in early)
      BY <1>7, <2>2 DEF PdfStore, TypeOK
    <3> QED
      BY <2>1, <3>1, <1>2 DEF ShowsFrozen
  <2>3. CASE rendering.of = s
    <3>1. pdf'[s] = rendering.shown /\ (s \notin early' => ~ rendering.early)
      BY <1>7, <2>3 DEF PdfStore, TypeOK
    <3> QED
      BY <2>1, <2>3, <3>1, <1>2 DEF ShowsFrozen
  <2> QED
    BY <2>2, <2>3
<1>8. ASSUME PdfFail PROVE Goal
  <2>1. UNCHANGED <<run, slip, pdf, early>> /\ (rendering' = None \/ rendering' = rendering)
    BY <1>8 DEF PdfFail
  <2> QED
    BY <2>1, <1>2 DEF ShowsFrozen
<1>9. ASSUME Calculation PROVE Goal
  BY <1>4, <1>9, CalculationSets
<1> HIDE DEF Goal
<1> QED
  BY <1>4, <1>5, <1>6, <1>7, <1>8, <1>9
     DEF Goal, Next, vars, CreateAdvance, AdvanceRead, AdvanceCommit,
     CreateRun, Calculation, ApproveRead, PullRead, PullWrite, ApproveCommit, Rollback,
     AddSalaryRecord, Resign

(* An employee who is tainted stays so.                                    *)
LEMMA TaintedGrows == ASSUME [Next]_vars PROVE tainted \subseteq tainted'
<1>1. ASSUME NEW j \in Jobs, NEW acked \in BOOLEAN, ComputeRun(j, acked)
      PROVE  tainted \subseteq tainted'
  BY <1>1 DEF ComputeRun
<1>2. ASSUME NEW p \in Reqs, NEW r \in Runs, ApproveRead(p, r) PROVE tainted \subseteq tainted'
  BY <1>2 DEF ApproveRead
<1>3. ASSUME NEW p \in Reqs, NEW e \in Employees, PullRead(p, e) PROVE tainted \subseteq tainted'
  BY <1>3 DEF PullRead
<1>4. ASSUME NEW p \in Reqs, NEW a \in Advances, NEW op \in {"approve", "reject", "disburse"},
             AdvanceRead(p, op, a) PROVE tainted \subseteq tainted'
  BY <1>4 DEF AdvanceRead
<1>5. ASSUME NEW p \in Reqs, AdvanceCommit(p) \/ ApproveCommit(p) \/ PullWrite(p) \/ Rollback(p)
      PROVE  tainted' = tainted
  BY <1>5 DEF AdvanceCommit, ApproveCommit, PullWrite, Rollback
<1>6. ASSUME NEW a \in Advances, CreateAdvance(a) PROVE tainted' = tainted
  BY <1>6 DEF CreateAdvance
<1> QED
  BY StepCases, <1>1, <1>2, <1>3, <1>4, <1>5, <1>6, CalculationSets DEF Quiet, CreateRun

(* A request that changes an advance after a step did so before, or the    *)
(* step begins it.                                                         *)
LEMMA AdvStep ==
  ASSUME TypeOK, RequestShape, [Next]_vars, NEW q \in Reqs, NEW a \in Advances, req'[q].adv = a
  PROVE  \/ req[q].adv = a /\ req'[q].op = req[q].op
         \/ \E op \in {"approve", "reject", "disburse"} : AdvanceRead(q, op, a)
<1>1. CASE req'[q] = req[q]
  BY <1>1
<1>2. CASE Reset(q)
  BY <1>2 DEF Reset
<1>3. ASSUME NEW b \in Advances, NEW op \in {"approve", "reject", "disburse"}, AdvanceRead(q, op, b)
      PROVE  AdvanceRead(q, op, a)
  BY <1>3, AdvanceReadSets
<1>4. ASSUME NEW x \in Runs, ApproveRead(q, x) PROVE FALSE
  BY <1>4, ApproveReadSets
<1>5. ASSUME NEW e \in Employees, PullRead(q, e) PROVE req[q].adv = a /\ req'[q].op = req[q].op
  BY <1>5, PullReadSets DEF PullRead
<1>6. ASSUME PullWrite(q) PROVE req[q].adv = a /\ req'[q].op = req[q].op
  BY <1>6, PullWriteSets
<1> QED
  BY RequestSteps, <1>1, <1>2, <1>3, <1>4, <1>5, <1>6

(* An employee handled after a step was handled before, or the step pulls  *)
(* his advances.                                                           *)
LEMMA HandledStep ==
  ASSUME TypeOK, RequestShape, [Next]_vars, NEW q \in Reqs, NEW e \in Employees, Handled(q, e)'
  PROVE  Handled(q, e) \/ PullRead(q, e)
<1>1. CASE req'[q] = req[q]
  BY <1>1 DEF Handled
<1>2. CASE Reset(q)
  BY <1>2 DEF Reset, Handled
<1>3. ASSUME NEW b \in Advances, NEW op \in {"approve", "reject", "disburse"}, AdvanceRead(q, op, b)
      PROVE  FALSE
  BY <1>3, AdvanceReadSets DEF Handled
<1>4. ASSUME NEW x \in Runs, ApproveRead(q, x) PROVE FALSE
  <2>1. /\ req'[q].emp = None /\ req'[q].todo = {d \in Employees : slip[<<x, d>>] # None}
        /\ req'[q].slips[e] = slip[<<x, e>>]
    BY <1>4, ApproveReadSets
  <2> QED
    BY <2>1 DEF Handled
<1>5. ASSUME NEW d \in Employees, PullRead(q, d), d # e PROVE Handled(q, e)
  <2>1. /\ req'[q].emp = d /\ req'[q].todo = req[q].todo /\ req'[q].slips = req[q].slips
    BY <1>5, PullReadSets
  <2>2. req[q].op = "approveRun"
    BY <1>5 DEF PullRead
  <2> QED
    BY <1>5, <2>1, <2>2 DEF Handled
<1>6. CASE PullWrite(q)
  <2>1. req[q].slips[req[q].emp] # None
    BY <1>6, PullWriteSets DEF RequestShape, Shaped
  <2> QED
    BY <1>6, <2>1, PullWriteSets DEF Handled
<1> QED
  BY RequestSteps, <1>1, <1>2, <1>3, <1>4, <1>5, <1>6

(* Every step keeps OneRequest.                                            *)
LEMMA OneRequestStep == TypeOK /\ RequestShape /\ OneRequest /\ [Next]_vars => OneRequest'
<1> SUFFICES ASSUME TypeOK, RequestShape, OneRequest, [Next]_vars,
                    NEW p \in Reqs, NEW q \in Reqs, p # q
             PROVE  /\ \A a \in Advances : req'[p].adv = a /\ req'[q].adv = a
                         => OwnerOf[a] \in tainted'
                    /\ \A e \in Employees : Handled(p, e)' /\ Handled(q, e)' => e \in tainted'
                    /\ \A e \in Employees : \A r \in Runs :
                         Approving(p, r)' /\ Approving(q, r)' /\ req'[p].slips[e] # None
                           => e \in tainted'
  BY DEF OneRequest
<1>0. tainted \subseteq tainted'
  BY TaintedGrows
<1>1. ASSUME NEW a \in Advances, req'[p].adv = a, req'[q].adv = a PROVE OwnerOf[a] \in tainted'
  <2>1. ASSUME NEW x \in Reqs, NEW y \in Reqs, x # y, req'[y].adv = a,
               NEW op \in {"approve", "reject", "disburse"}, AdvanceRead(x, op, a)
        PROVE  OwnerOf[a] \in tainted'
    <3>1. req[y].adv = a
      BY <2>1, AdvanceReadSets DEF Others
    <3> QED
      BY <2>1, <3>1 DEF AdvanceRead
  <2>2. CASE req[p].adv = a /\ req[q].adv = a
    BY <2>2, <1>0 DEF OneRequest
  <2> QED
    BY <1>1, <2>1, <2>2, AdvStep
<1>2. ASSUME NEW e \in Employees, Handled(p, e)', Handled(q, e)' PROVE e \in tainted'
  <2>1. ASSUME NEW x \in Reqs, NEW y \in Reqs, x # y, Handled(y, e)', PullRead(x, e)
        PROVE  e \in tainted'
    <3>1. req'[y] = req[y]
      BY <2>1, PullReadSets DEF Others
    <3>2. Handled(y, e)
      BY <2>1, <3>1 DEF Handled
    <3> QED
      BY <2>1, <3>2 DEF PullRead
  <2>2. CASE Handled(p, e) /\ Handled(q, e)
    BY <2>2, <1>0 DEF OneRequest
  <2> QED
    BY <1>2, <2>1, <2>2, HandledStep
<1>3. ASSUME NEW e \in Employees, NEW r \in Runs, Approving(p, r)', Approving(q, r)',
             req'[p].slips[e] # None
      PROVE  e \in tainted'
  <2>1. CASE Approving(p, r) /\ Approving(q, r)
    BY <1>0, <1>3, <2>1, ApprovingStep DEF OneRequest
  <2>2. CASE ApproveRead(p, r)
    <3>1. req'[q] = req[q] /\ req'[p].slips[e] = slip[<<r, e>>]
      BY <2>2, ApproveReadSets DEF Others
    <3>2. Approving(q, r)
      BY <1>3, <3>1 DEF Approving
    <3> QED
      BY <1>3, <2>2, <3>1, <3>2 DEF ApproveRead, Approving
  <2>3. CASE ApproveRead(q, r)
    <3>1. req'[p] = req[p]
      BY <2>3, ApproveReadSets DEF Others
    <3>2. Approving(p, r) /\ slip[<<r, e>>] # None
      BY <1>3, <3>1 DEF Approving, RequestShape, Shaped
    <3> QED
      BY <1>3, <2>3, <3>2 DEF ApproveRead, Approving
  <2> QED
    BY <1>3, <2>1, <2>2, <2>3, ApprovingStep
<1> QED
  BY <1>1, <1>2, <1>3

-----------------------------------------------------------------------------
(* An approval remembers nothing of an employee it has not handled.        *)
LEMMA UntouchedStep ==
  ASSUME TypeOK, RequestShape, [Next]_vars, NEW p \in Reqs, NEW a \in Advances, Untouched(p, a)
  PROVE  Untouched(p, a)'
<1> DEFINE e == OwnerOf[a]
<1>0. e \in Employees /\ req[p] \in Request
  BY DEF TypeOK
<1>1. CASE req'[p] = req[p]
  BY <1>1 DEF Untouched, Handled
<1>2. CASE Reset(p)
  BY <1>2 DEF Reset, Untouched
<1>3. ASSUME NEW b \in Advances, NEW op \in {"approve", "reject", "disburse"}, AdvanceRead(p, op, b)
      PROVE  Untouched(p, a)'
  BY <1>3, AdvanceReadSets DEF Untouched
<1>4. ASSUME NEW r \in Runs, ApproveRead(p, r) PROVE Untouched(p, a)'
  BY <1>4, ApproveReadSets DEF Untouched
<1>5. ASSUME NEW d \in Employees, PullRead(p, d) PROVE Untouched(p, a)'
  <2>1. /\ req'[p].op = "approveRun" /\ req'[p].emp = d /\ req'[p].todo = req[p].todo
        /\ req'[p].slips = req[p].slips /\ req'[p].rest = req[p].rest
        /\ req'[p].seen[a] = IF a \in outstandingFor(d) THEN advance[a].outstanding
                                                        ELSE req[p].seen[a]
    BY <1>5, PullReadSets
  <2>2. req[p].op = "approveRun" /\ req[p].emp = None /\ d \in req[p].todo
    BY <1>5 DEF PullRead
  <2>3. CASE d = e
    <3>1. Handled(p, e)'
      BY <2>1, <2>2, <2>3 DEF RequestShape, Shaped, Handled
    <3> QED
      BY <3>1 DEF Untouched
  <2>4. CASE d # e
    <3>1. req'[p].seen[a] = req[p].seen[a]
      BY <2>1, <2>4 DEF outstandingFor
    <3>2. Handled(p, e)' <=> Handled(p, e)
      BY <1>0, <2>1, <2>2, <2>4 DEF Handled
    <3> QED
      BY <2>1, <2>2, <3>1, <3>2 DEF Untouched
  <2> QED
    BY <2>3, <2>4
<1>6. CASE PullWrite(p)
  <2> DEFINE d == req[p].emp
  <2>1. /\ req'[p].op = req[p].op /\ req'[p].emp = None /\ req'[p].todo = req[p].todo \ {d}
        /\ req'[p].seen = req[p].seen /\ d \in Employees
        /\ \A x \in Employees \ {d} : req'[p].slips[x] = req[p].slips[x]
        /\ req'[p].slips[d] # None /\ req[p].op = "approveRun"
        /\ req'[p].rest[a] = IF OwnerOf[a] = d /\ req[p].seen[a] > 0
                               THEN applyRepayment(a, req[p].seen[a]) ELSE req[p].rest[a]
    BY <1>6, PullWriteSets
  <2>2. CASE d = e
    <3>1. Handled(p, e)'
      BY <2>1, <2>2 DEF Handled
    <3> QED
      BY <3>1 DEF Untouched
  <2>3. CASE d # e
    <3>1. Handled(p, e)' <=> Handled(p, e)
      BY <1>0, <2>1, <2>3 DEF Handled
    <3> QED
      BY <2>1, <2>3, <3>1 DEF Untouched
  <2> QED
    BY <2>2, <2>3
<1> QED
  BY RequestSteps, <1>1, <1>2, <1>3, <1>4, <1>5, <1>6

(* Whatever a step does, it leaves an advance alone, or it is the step     *)
(* that writes it.                                                         *)
LEMMA AdvanceSteps ==
  ASSUME TypeOK, RequestShape, [Next]_vars, NEW a \in Advances
  PROVE  \/ advance'[a] = advance[a]
         \/ CreateAdvance(a)
         \/ \E q \in Reqs : AdvanceCommit(q) /\ req[q].adv = a
         \/ \E q \in Reqs : ApproveCommit(q) /\ req[q].rest[a] # None
<1>1. ASSUME NEW b \in Advances, CreateAdvance(b), a # b PROVE advance'[a] = advance[a]
  BY <1>1 DEF CreateAdvance, TypeOK
<1>2. ASSUME NEW q \in Reqs, AdvanceCommit(q), req[q].adv # a PROVE advance'[a] = advance[a]
  BY <1>2 DEF AdvanceCommit, TypeOK
<1>3. ASSUME NEW q \in Reqs, ApproveCommit(q), req[q].rest[a] = None PROVE advance'[a] = advance[a]
  BY <1>3 DEF ApproveCommit
<1>4. ASSUME NEW j \in Jobs, NEW acked \in BOOLEAN, ComputeRun(j, acked) PROVE advance' = advance
  BY <1>4 DEF ComputeRun
<1>5. ASSUME NEW q \in Reqs, PullWrite(q) \/ Rollback(q) PROVE advance' = advance
  BY <1>5 DEF PullWrite, Rollback
<1>6. ASSUME NEW q \in Reqs, NEW e \in Employees, PullRead(q, e) PROVE advance' = advance
  BY <1>6 DEF PullRead
<1>7. ASSUME NEW q \in Reqs, NEW r \in Runs, ApproveRead(q, r) PROVE advance' = advance
  BY <1>7 DEF ApproveRead
<1> QED
  BY StepCases, <1>1, <1>2, <1>3, <1>4, <1>5, <1>6, <1>7, CalculationSets
     DEF Quiet, CreateRun, AdvanceRead

(* An approval that repays an advance of an untainted employee has its     *)
(* current balance.                                                        *)
LEMMA RepaidIsCurrent ==
  ASSUME TypeOK, RequestShape, ReadIsCurrent, NEW q \in Reqs, NEW a \in Advances,
         req[q].rest[a] # None, OwnerOf[a] \notin tainted
  PROVE  /\ Handled(q, OwnerOf[a]) /\ req[q].emp # OwnerOf[a] /\ req[q].seen[a] > 0
         /\ advance[a].status \in {"DISBURSED", "REPAYING"}
         /\ advance[a].outstanding = req[q].seen[a]
         /\ req[q].rest[a] = applyRepayment(a, req[q].seen[a])
<1>1. req[q].op = "approveRun"
  BY DEF RequestShape, Shaped
<1>2. Handled(q, OwnerOf[a])
  BY <1>1 DEF ReadIsCurrent, Untouched
<1> QED
  BY <1>2 DEF ReadIsCurrent, BalanceAsRead

(* Every step keeps StatusAsRead: who overwrites a checked status taints.  *)
LEMMA StatusStep ==
  ASSUME TypeOK, RequestShape, OneRequest, ReadIsCurrent, [Next]_vars,
         NEW p \in Reqs, NEW a \in Advances
  PROVE  StatusAsRead(p, a)'
<1> SUFFICES ASSUME OwnerOf[a] \notin tainted', req'[p].adv = a
             PROVE  advance'[a].status = From[req'[p].op]
  BY DEF StatusAsRead
<1>0. OwnerOf[a] \notin tainted
  BY TaintedGrows
<1>1. ASSUME NEW op \in {"approve", "reject", "disburse"}, AdvanceRead(p, op, a)
      PROVE  advance'[a].status = From[req'[p].op]
  <2>1. req'[p].op = op
    BY <1>1, AdvanceReadSets
  <2> QED
    BY <1>1, <2>1 DEF AdvanceRead
<1>2. ASSUME req[p].adv = a, req'[p].op = req[p].op PROVE advance'[a].status = From[req'[p].op]
  <2>1. req[p].op \in {"approve", "reject", "disburse"}
    <3>1. req[p].op \in {"idle", "approveRun", "approve", "reject", "disburse"}
      BY DEF TypeOK, Request
    <3>2. Shaped(p) /\ req[p].adv # None
      BY <1>2 DEF RequestShape
    <3> QED
      BY <3>1, <3>2 DEF Shaped
  <2>2. advance[a].status = From[req[p].op]
    BY <1>0, <1>2 DEF ReadIsCurrent, StatusAsRead
  <2>3. advance[a].status \in {"SUBMITTED", "APPROVED"}
    BY <2>1, <2>2 DEF From
  <2>4. ~ CreateAdvance(a)
    BY <2>3 DEF CreateAdvance
  <2>5. ASSUME NEW q \in Reqs, AdvanceCommit(q), req[q].adv = a PROVE FALSE
    <3>1. Ended(q)
      BY <2>5, EndSets DEF AdvanceCommit
    <3>2. q # p
      BY <3>1 DEF Ended, Reset
    <3> QED
      BY <1>0, <1>2, <2>5, <3>2 DEF OneRequest
  <2>6. ASSUME NEW q \in Reqs, ApproveCommit(q), req[q].rest[a] # None PROVE FALSE
    BY <1>0, <2>3, <2>6, RepaidIsCurrent
  <2>7. advance'[a] = advance[a]
    BY AdvanceSteps, <2>4, <2>5, <2>6
  <2> QED
    BY <1>2, <2>2, <2>7
<1> QED
  BY <1>1, <1>2, AdvStep

(* While request p handles the owner of advance a, what it has seen of it  *)
(* stays, and its repayment is the one computed from that.                 *)
LEMMA HandledRow ==
  ASSUME TypeOK, RequestShape, ReadIsCurrent, [Next]_vars, NEW p \in Reqs, NEW a \in Advances,
         OwnerOf[a] \notin tainted, Handled(p, OwnerOf[a]), Handled(p, OwnerOf[a])'
  PROVE  /\ req'[p].seen[a] = req[p].seen[a]
         /\ req'[p].rest[a] = IF req'[p].emp # OwnerOf[a] /\ req[p].seen[a] > 0
                                THEN applyRepayment(a, req[p].seen[a]) ELSE None
<1> DEFINE e == OwnerOf[a]
           Goal == /\ req'[p].seen[a] = req[p].seen[a]
                   /\ req'[p].rest[a] = IF req'[p].emp # e /\ req[p].seen[a] > 0
                                          THEN applyRepayment(a, req[p].seen[a]) ELSE None
<1>0. e \in Employees /\ req[p] \in Request
  BY DEF TypeOK
<1>a. req[p].rest[a] = IF req[p].emp # e /\ req[p].seen[a] > 0
                         THEN applyRepayment(a, req[p].seen[a]) ELSE None
  BY DEF ReadIsCurrent, BalanceAsRead
<1>1. CASE req'[p] = req[p]
  BY <1>1, <1>a
<1>2. CASE Reset(p)
  BY <1>2 DEF Reset, Handled
<1>3. ASSUME NEW b \in Advances, NEW op \in {"approve", "reject", "disburse"}, AdvanceRead(p, op, b)
      PROVE  FALSE
  BY <1>3 DEF AdvanceRead, Handled
<1>4. ASSUME NEW r \in Runs, ApproveRead(p, r) PROVE FALSE
  BY <1>4 DEF ApproveRead, Handled
<1>5. ASSUME NEW d \in Employees, PullRead(p, d) PROVE Goal
  <2>1. /\ req'[p].emp = d /\ req'[p].rest = req[p].rest
        /\ req'[p].seen[a] = IF a \in outstandingFor(d) THEN advance[a].outstanding
                                                        ELSE req[p].seen[a]
    BY <1>5, PullReadSets
  <2>2. req[p].emp = None /\ d \in req[p].todo
    BY <1>5 DEF PullRead
  <2>3. d # e
    BY <1>0, <2>2 DEF Handled
  <2>4. req'[p].seen[a] = req[p].seen[a]
    BY <2>1, <2>3 DEF outstandingFor
  <2> QED
    BY <1>0, <1>a, <2>1, <2>2, <2>3, <2>4
<1>6. ASSUME PullWrite(p) PROVE Goal
  <2>1. /\ req'[p].emp = None /\ req'[p].seen = req[p].seen
        /\ req'[p].rest[a] = IF OwnerOf[a] = req[p].emp /\ req[p].seen[a] > 0
                               THEN applyRepayment(a, req[p].seen[a]) ELSE req[p].rest[a]
    BY <1>6, PullWriteSets
  <2> QED
    BY <1>0, <1>a, <2>1
<1> QED
  BY RequestSteps, <1>1, <1>2, <1>3, <1>4, <1>5, <1>6

(* Every step keeps BalanceAsRead: who overwrites a pulled balance taints. *)
LEMMA BalanceReadStep ==
  ASSUME TypeOK, RequestShape, OneRequest, ReadIsCurrent, [Next]_vars,
         NEW p \in Reqs, NEW a \in Advances
  PROVE  BalanceAsRead(p, a)'
<1> DEFINE e == OwnerOf[a]
<1> SUFFICES ASSUME e \notin tainted', Handled(p, e)' PROVE BalanceAsRead(p, a)'
  BY DEF BalanceAsRead
<1>0. e \notin tainted /\ e \in Employees /\ req[p] \in Request
  BY TaintedGrows DEF TypeOK
<1>1. ASSUME PullRead(p, e), ~ Handled(p, e) PROVE BalanceAsRead(p, a)'
  <2>1. /\ req'[p].emp = e /\ req'[p].rest = req[p].rest
        /\ req'[p].seen[a] = IF a \in outstandingFor(e) THEN advance[a].outstanding
                                                        ELSE req[p].seen[a]
    BY <1>0, <1>1, PullReadSets
  <2>2. req[p].op = "approveRun" /\ advance' = advance
    BY <1>1 DEF PullRead
  <2>3. req[p].seen[a] = 0 /\ req[p].rest[a] = None
    BY <1>1, <2>2 DEF ReadIsCurrent, Untouched
  <2>4. req'[p].seen[a] > 0 => /\ advance[a].status \in {"DISBURSED", "REPAYING"}
                               /\ advance[a].outstanding = req'[p].seen[a]
    BY <2>1, <2>3 DEF outstandingFor
  <2> QED
    BY <2>1, <2>2, <2>3, <2>4 DEF BalanceAsRead
<1>2. ASSUME Handled(p, e) PROVE BalanceAsRead(p, a)'
  <2>1. /\ req'[p].seen[a] = req[p].seen[a]
        /\ req'[p].rest[a] = IF req'[p].emp # e /\ req[p].seen[a] > 0
                               THEN applyRepayment(a, req[p].seen[a]) ELSE None
    BY <1>0, <1>2, HandledRow
  <2>2. ASSUME req[p].seen[a] > 0 PROVE advance'[a] = advance[a]
    <3>1. advance[a].status \in {"DISBURSED", "REPAYING"}
      BY <1>0, <1>2, <2>2 DEF ReadIsCurrent, BalanceAsRead
    <3>2. ~ CreateAdvance(a)
      BY <3>1 DEF CreateAdvance
    <3>3. ASSUME NEW q \in Reqs, AdvanceCommit(q), req[q].adv = a PROVE FALSE
      <4>1. advance[a].status = From[req[q].op] /\ req[q].op \in {"approve", "reject", "disburse"}
        BY <1>0, <3>3 DEF ReadIsCurrent, StatusAsRead, AdvanceCommit
      <4> QED
        BY <3>1, <4>1 DEF From
    <3>4. ASSUME NEW q \in Reqs, ApproveCommit(q), req[q].rest[a] # None PROVE FALSE
      <4>1. Handled(q, e)
        BY <1>0, <3>4, RepaidIsCurrent
      <4>2. Ended(q)
        BY <3>4, EndSets DEF ApproveCommit
      <4>3. q # p
        BY <4>2 DEF Ended, Reset, Handled
      <4> QED
        BY <1>0, <1>2, <4>1, <4>3 DEF OneRequest
    <3> QED
      BY AdvanceSteps, <3>2, <3>3, <3>4
  <2>3. req[p].seen[a] > 0 => /\ advance[a].status \in {"DISBURSED", "REPAYING"}
                              /\ advance[a].outstanding = req[p].seen[a]
    BY <1>0, <1>2 DEF ReadIsCurrent, BalanceAsRead
  <2> QED
    BY <2>1, <2>2, <2>3 DEF BalanceAsRead
<1> QED
  BY <1>0, <1>1, <1>2, HandledStep

(* Every step keeps ReadIsCurrent.                                         *)
LEMMA ReadStep ==
  TypeOK /\ RequestShape /\ OneRequest /\ ReadIsCurrent /\ [Next]_vars => ReadIsCurrent'
  BY UntouchedStep, StatusStep, BalanceReadStep DEF ReadIsCurrent

-----------------------------------------------------------------------------
(* What request p has pulled for an employee it is done with.              *)
LEMMA PulledStep ==
  TypeOK /\ RequestShape /\ ReadIsCurrent /\ Pulled /\ [Next]_vars => Pulled'
<1> SUFFICES ASSUME TypeOK, RequestShape, ReadIsCurrent, Pulled, [Next]_vars,
                    NEW p \in Reqs, NEW e \in Employees,
                    e \notin tainted', Handled(p, e)', req'[p].emp # e
             PROVE  req'[p].slips[e].advance
                      = SumFunctionOnSet(Repayments(req'[p].seen), SeenOf(p, e)')
  BY DEF Pulled
<1>0. e \notin tainted /\ req[p] \in Request
  BY TaintedGrows DEF TypeOK
<1>1. ~ PullRead(p, e)
  BY PullReadSets
<1>2. Handled(p, e)
  BY <1>1, HandledStep
<1>3. req'[p].op = "approveRun" /\ req[p].op = "approveRun"
  BY <1>2 DEF Handled
<1> DEFINE S == SeenOf(p, e)
           f == Repayments(req[p].seen)
<1>4. \A a \in Advances : OwnerOf[a] = e => req'[p].seen[a] = req[p].seen[a]
  BY <1>0, <1>2, HandledRow
<1>5. SeenOf(p, e)' = S
  BY <1>4 DEF SeenOf
<1>6. SumFunctionOnSet(Repayments(req'[p].seen), S) = SumFunctionOnSet(f, S)
  <2> DEFINE g == Repayments(req'[p].seen)
  <2>1. IsFiniteSet(S)
    BY PullTotal
  <2>2. \A a \in S : f[a] \in Int /\ g[a] = f[a]
    <3> TAKE a \in S
    <3>1. a \in Advances /\ req'[p].seen[a] = req[p].seen[a] /\ req[p].seen[a] \in Nat
      BY <1>0, <1>4 DEF SeenOf, Request
    <3>2. Installments[a] \in Nat
      BY <3>1
    <3>3. f[a] = advanceRepayment(req[p].seen[a], Installments[a]) /\ g[a] = f[a]
      BY <3>1 DEF Repayments
    <3>4. advanceRepayment(req[p].seen[a], Installments[a]) \in Nat
      BY <3>1, <3>2, RepaymentBounds
    <3> QED
      BY <3>3, <3>4
  <2> HIDE DEF S, f, g
  <2>3. SumFunctionOnSet(g, S) = SumFunctionOnSet(f, S)
    BY <2>1, <2>2, SumAgrees
  <2> QED
    BY <2>3 DEF g
<1>7. req'[p].slips[e].advance = SumFunctionOnSet(f, S)
  <2>0. req[p].emp # e => req[p].slips[e].advance = SumFunctionOnSet(f, S)
    BY <1>0, <1>2 DEF Pulled
  <2>1. CASE req'[p] = req[p]
    BY <2>0, <2>1
  <2>2. CASE Reset(p)
    BY <2>2, <1>3 DEF Reset
  <2>3. ASSUME NEW b \in Advances, NEW op \in {"approve", "reject", "disburse"},
               AdvanceRead(p, op, b) PROVE FALSE
    BY <2>3, <1>3 DEF AdvanceRead
  <2>4. ASSUME NEW r \in Runs, ApproveRead(p, r) PROVE FALSE
    BY <2>4, <1>3 DEF ApproveRead
  <2>5. ASSUME NEW d \in Employees, PullRead(p, d)
        PROVE  req'[p].slips[e].advance = SumFunctionOnSet(f, S)
    <3>1. req[p].emp = None /\ req'[p].slips = req[p].slips
      BY <2>5, PullReadSets DEF PullRead
    <3> QED
      BY <2>0, <3>1
  <2>6. CASE PullWrite(p)
    <3>1. CASE req[p].emp = e
      BY <2>6, <3>1, PullWriteSets
    <3>2. CASE req[p].emp # e
      BY <2>0, <2>6, <3>2, PullWriteSets
    <3> QED
      BY <3>1, <3>2
  <2> QED
    BY RequestSteps, <2>1, <2>2, <2>3, <2>4, <2>5, <2>6
<1> QED
  BY <1>5, <1>6, <1>7

-----------------------------------------------------------------------------
(* A run is APPROVED by the commit of its approval only.                   *)
LEMMA RunApproved ==
  ASSUME TypeOK, RequestShape, [Next]_vars, NEW r \in Runs, run'[r] = "APPROVED"
  PROVE  run[r] = "APPROVED" \/ \E q \in Reqs : ApproveCommit(q) /\ req[q].run = r
<1>1. ASSUME NEW x \in Runs, CreateRun(x) PROVE run[r] = "APPROVED"
  BY <1>1 DEF CreateRun, TypeOK
<1>2. ASSUME NEW j \in Jobs, NEW acked \in BOOLEAN, ComputeRun(j, acked) PROVE run[r] = "APPROVED"
  <2>1. calcJob[j].run \in Runs
    BY <1>2 DEF ComputeRun, TypeOK, Calculations
  <2> QED
    BY <1>2, <2>1 DEF ComputeRun, TypeOK
<1>3. ASSUME NEW q \in Reqs, ApproveCommit(q), req[q].run # r PROVE run[r] = "APPROVED"
  BY <1>3 DEF ApproveCommit, TypeOK
<1>4. ASSUME NEW q \in Reqs, AdvanceCommit(q) \/ PullWrite(q) \/ Rollback(q) PROVE run' = run
  BY <1>4 DEF AdvanceCommit, PullWrite, Rollback
<1>5. ASSUME NEW q \in Reqs, NEW e \in Employees, PullRead(q, e) PROVE run' = run
  BY <1>5 DEF PullRead
<1>6. ASSUME NEW q \in Reqs, NEW x \in Runs, ApproveRead(q, x) PROVE run' = run
  BY <1>6 DEF ApproveRead
<1> QED
  BY StepCases, <1>1, <1>2, <1>3, <1>4, <1>5, <1>6, CalculationSets
     DEF Quiet, CreateAdvance, AdvanceRead

(* Every step keeps PayslipsPaid.                                          *)
LEMMA PaidStep ==
  TypeOK /\ RequestShape /\ OneRequest /\ PayslipsPaid /\ [Next]_vars => PayslipsPaid'
<1> SUFFICES ASSUME TypeOK, RequestShape, OneRequest, PayslipsPaid, [Next]_vars,
                    NEW e \in Employees \ tainted', NEW r \in Runs
             PROVE  /\ run'[r] # "APPROVED" /\ slip'[<<r, e>>] # None
                         => slip'[<<r, e>>].advance = 0
                    /\ run'[r] = "APPROVED"
                         => \A p \in Reqs : Approving(p, r)' => req'[p].slips[e] = None
  BY DEF PayslipsPaid
<1>0. e \in Employees \ tainted /\ <<r, e>> \in Slips
  BY TaintedGrows DEF Slips
<1>1. ASSUME run'[r] # "APPROVED", slip'[<<r, e>>] # None PROVE slip'[<<r, e>>].advance = 0
  <2>1. ASSUME run[r] # "APPROVED", slip'[<<r, e>>] = slip[<<r, e>>]
        PROVE  slip'[<<r, e>>].advance = 0
    BY <1>0, <1>1, <2>1 DEF PayslipsPaid
  <2>2. ASSUME NEW j \in Jobs, NEW acked \in BOOLEAN, ComputeRun(j, acked)
        PROVE  slip'[<<r, e>>].advance = 0
    <3>1. calcJob[j].run \in Runs
      BY <2>2 DEF ComputeRun, TypeOK, Calculations
    <3>2. payslip(salary[e], 0).advance = 0
      BY PayslipIsSlip DEF TypeOK
    <3>3. slip'[<<r, e>>] = slip[<<r, e>>] \/ slip'[<<r, e>>] = payslip(salary[e], 0)
      BY <1>0, <2>2 DEF ComputeRun
    <3>4. CASE slip'[<<r, e>>] = slip[<<r, e>>]
      <4>1. calcJob[j].run # r => run'[r] = run[r]
        BY <2>2, <3>1 DEF ComputeRun, TypeOK
      <4>2. calcJob[j].run = r => run[r] # "APPROVED"
        BY <1>1, <2>2, <3>4 DEF ComputeRun
      <4> QED
        BY <1>1, <2>1, <3>4, <4>1, <4>2
    <3> QED
      BY <3>2, <3>3, <3>4
  <2>3. ASSUME NEW q \in Reqs, ApproveCommit(q) PROVE slip'[<<r, e>>].advance = 0
    <3>1. req[q].run \in Runs /\ req[q].run # r
      BY <1>1, <2>3 DEF ApproveCommit, RequestShape, Shaped, TypeOK
    <3>2. run'[r] = run[r] /\ slip'[<<r, e>>] = slip[<<r, e>>]
      BY <1>0, <2>3, <3>1 DEF ApproveCommit, TypeOK
    <3> QED
      BY <1>1, <2>1, <3>2
  <2>4. ASSUME NEW x \in Runs, CreateRun(x) PROVE slip'[<<r, e>>].advance = 0
    <3>1. run[r] # "APPROVED" /\ slip' = slip
      BY <1>1, <2>4 DEF CreateRun, TypeOK
    <3> QED
      BY <2>1, <3>1
  <2>5. ASSUME run' = run, slip' = slip PROVE slip'[<<r, e>>].advance = 0
    BY <1>1, <2>1, <2>5
  <2>6. ASSUME NEW q \in Reqs, AdvanceCommit(q) \/ PullWrite(q) \/ Rollback(q)
        PROVE  run' = run /\ slip' = slip
    BY <2>6 DEF AdvanceCommit, PullWrite, Rollback
  <2>7. ASSUME NEW q \in Reqs, NEW d \in Employees, PullRead(q, d) PROVE run' = run /\ slip' = slip
    BY <2>7 DEF PullRead
  <2>8. ASSUME NEW q \in Reqs, NEW x \in Runs, ApproveRead(q, x) PROVE run' = run /\ slip' = slip
    BY <2>8 DEF ApproveRead
  <2> QED
    BY StepCases, <2>2, <2>3, <2>4, <2>5, <2>6, <2>7, <2>8, CalculationSets
       DEF Quiet, CreateAdvance, AdvanceRead
<1>2. ASSUME run'[r] = "APPROVED", NEW p \in Reqs, Approving(p, r)' PROVE req'[p].slips[e] = None
  <2> SUFFICES ASSUME req'[p].slips[e] # None PROVE FALSE
    OBVIOUS
  <2>1. ~ ApproveRead(p, r)
    BY <1>2 DEF ApproveRead
  <2>2. Approving(p, r) /\ req[p].slips[e] # None
    BY <1>2, <2>1, ApprovingStep
  <2>3. run[r] # "APPROVED"
    BY <1>0, <2>2 DEF PayslipsPaid
  <2>4. PICK q \in Reqs : ApproveCommit(q) /\ req[q].run = r
    BY <1>2, <2>3, RunApproved
  <2>5. Approving(q, r) /\ q # p
    <3>1. Ended(q)
      BY <2>4, EndSets DEF ApproveCommit
    <3> QED
      BY <1>2, <2>4, <3>1 DEF Ended, Reset, Approving, ApproveCommit
  <2> QED
    BY <1>0, <2>2, <2>5 DEF OneRequest
<1> QED
  BY <1>1, <1>2
-----------------------------------------------------------------------------
(* The two sides of an employee's balance.                                 *)
Own(e) == {a \in PaidOut : OwnerOf[a] = e}
Paid(e) == {r \in Runs : run[r] = "APPROVED" /\ slip[<<r, e>>] # None}
Balances == [a \in Advances |-> advance[a].outstanding]
Deducted(e) == [r \in Runs |-> slip[<<r, e>>].advance]
Balanced(e) == SumFunctionOnSet(Amount, Own(e)) =
                 SumFunctionOnSet(Balances, Own(e)) + SumFunctionOnSet(Deducted(e), Paid(e))

(* The sums are finite sums of integers.                                   *)
BalanceTyped ==
  \A e \in Employees :
    /\ IsFiniteSet(Own(e)) /\ IsFiniteSet(Paid(e))
    /\ Own(e) \subseteq Advances /\ Paid(e) \subseteq Runs
    /\ \A a \in Own(e) : Balances[a] \in Int /\ Balances[a] = advance[a].outstanding
    /\ \A r \in Paid(e) : Deducted(e)[r] \in Int /\ Deducted(e)[r] = slip[<<r, e>>].advance

(* The types give what the sums need.                                      *)
LEMMA BalanceTypes == TypeOK => BalanceTyped
<1> SUFFICES ASSUME TypeOK, NEW e \in Employees
             PROVE  /\ IsFiniteSet(Own(e)) /\ IsFiniteSet(Paid(e))
                    /\ Own(e) \subseteq Advances /\ Paid(e) \subseteq Runs
                    /\ \A a \in Own(e) : Balances[a] \in Int /\ Balances[a] = advance[a].outstanding
                    /\ \A r \in Paid(e) : /\ Deducted(e)[r] \in Int
                                          /\ Deducted(e)[r] = slip[<<r, e>>].advance
  BY DEF BalanceTyped
<1>1. Own(e) \subseteq Advances /\ Paid(e) \subseteq Runs
  BY DEF Own, Paid, PaidOut
<1>2. IsFiniteSet(Own(e)) /\ IsFiniteSet(Paid(e))
  BY <1>1, FS_Subset
<1>3. \A a \in Own(e) : Balances[a] = advance[a].outstanding /\ Balances[a] \in Int
  BY <1>1 DEF Balances, TypeOK
<1>4. ASSUME NEW r \in Paid(e)
      PROVE  Deducted(e)[r] \in Int /\ Deducted(e)[r] = slip[<<r, e>>].advance
  <2>1. slip[<<r, e>>] \in Slip
    BY <1>1 DEF Paid, TypeOK, Slips
  <2> QED
    BY <1>1, <2>1 DEF Deducted, Slip
<1> QED
  BY <1>1, <1>2, <1>3, <1>4

(* ... and so they do after a step.                                        *)
LEMMA BalanceTypesNext == TypeOK' => BalanceTyped'
  BY BalanceTypes, PTL

(* The deductions of an employee after a step that approves at most run r. *)
LEMMA DeductedStep ==
  ASSUME TypeOK, TypeOK', NEW e \in Employees, NEW r \in Runs,
         Paid(e)' = Paid(e) \/ (r \notin Paid(e) /\ Paid(e)' = Paid(e) \cup {r}),
         \A x \in Paid(e) : slip'[<<x, e>>] = slip[<<x, e>>]
  PROVE  /\ SumFunctionOnSet(Deducted(e), Paid(e)) \in Int
         /\ Paid(e)' = Paid(e) =>
              SumFunctionOnSet(Deducted(e)', Paid(e)') = SumFunctionOnSet(Deducted(e), Paid(e))
         /\ Paid(e)' # Paid(e) =>
              SumFunctionOnSet(Deducted(e)', Paid(e)')
                = SumFunctionOnSet(Deducted(e), Paid(e)) + slip'[<<r, e>>].advance
<1> DEFINE P == Paid(e)
           Q == Paid(e)'
           f == Deducted(e)
           g == Deducted(e)'
<1>1. IsFiniteSet(P) /\ \A x \in P : f[x] \in Int /\ f[x] = slip[<<x, e>>].advance
  BY BalanceTypes DEF BalanceTyped
<1>2. IsFiniteSet(Q) /\ \A x \in Q : g[x] \in Int /\ g[x] = slip'[<<x, e>>].advance
  BY BalanceTypesNext DEF BalanceTyped
<1>3. Q = P \/ (r \notin P /\ Q = P \cup {r})
  OBVIOUS
<1>4. ASSUME NEW x \in P PROVE g[x] = f[x]
  <2>1. slip'[<<x, e>>] = slip[<<x, e>>] /\ x \in Q
    BY <1>3
  <2>2. g[x] = slip'[<<x, e>>].advance /\ f[x] = slip[<<x, e>>].advance
    BY <1>1, <1>2, <2>1
  <2> QED
    BY <2>1, <2>2
<1> HIDE DEF P, Q, f, g
<1>5. IsFiniteSet(P) /\ \A x \in P : f[x] \in Int /\ g[x] = f[x]
  BY <1>1, <1>4
<1>6. IsFiniteSet(Q) /\ \A x \in Q : g[x] \in Int
  BY <1>2
<1>7. SumFunctionOnSet(g, P) = SumFunctionOnSet(f, P)
  BY <1>5, SumAgrees
<1>8. ASSUME Q # P PROVE SumFunctionOnSet(g, Q) = slip'[<<r, e>>].advance + SumFunctionOnSet(g, P)
  <2>1. r \in Q /\ Q \ {r} = P
    BY <1>3, <1>8
  <2>2. SumFunctionOnSet(g, Q) = g[r] + SumFunctionOnSet(g, Q \ {r})
    BY <1>6, <2>1, SumSplit
  <2> QED
    BY <1>2, <2>1, <2>2
<1>9. ASSUME Q # P PROVE slip'[<<r, e>>].advance \in Int
  BY <1>2, <1>3, <1>9
<1>10. SumFunctionOnSet(f, P) \in Int
  BY <1>1, SumType
<1> QED
  BY <1>7, <1>8, <1>10, <1>9 DEF P, Q, f, g

(* An employee's balance holds after a step that changes nothing of it.    *)
LEMMA BalanceKept ==
  ASSUME TypeOK, TypeOK', NEW e \in Employees, Balanced(e),
         Own(e)' = Own(e), Paid(e)' = Paid(e),
         \A a \in Own(e) : advance'[a].outstanding = advance[a].outstanding,
         \A r \in Paid(e) : slip'[<<r, e>>] = slip[<<r, e>>]
  PROVE  Balanced(e)'
<1> DEFINE P == Paid(e)
           f == Deducted(e)
           g == Deducted(e)'
           W == Own(e)
           b == Balances
           c == Balances'
<1>1. /\ IsFiniteSet(P) /\ \A x \in P : f[x] \in Int /\ f[x] = slip[<<x, e>>].advance
      /\ IsFiniteSet(W) /\ \A a \in W : b[a] \in Int /\ b[a] = advance[a].outstanding
  BY BalanceTypes DEF BalanceTyped
<1>2. /\ \A x \in P : g[x] = slip'[<<x, e>>].advance
      /\ \A a \in W : c[a] = advance'[a].outstanding
  BY BalanceTypesNext DEF BalanceTyped
<1>3. /\ \A x \in P : f[x] \in Int /\ g[x] = f[x]
      /\ \A a \in W : b[a] \in Int /\ c[a] = b[a]
  <2>1. ASSUME NEW x \in P PROVE f[x] \in Int /\ g[x] = f[x]
    <3>1. slip'[<<x, e>>] = slip[<<x, e>>]
      OBVIOUS
    <3>2. g[x] = slip'[<<x, e>>].advance /\ f[x] = slip[<<x, e>>].advance
      BY <1>1, <1>2
    <3> QED
      BY <1>1, <3>1, <3>2
  <2>2. ASSUME NEW a \in W PROVE b[a] \in Int /\ c[a] = b[a]
    BY <1>1, <1>2
  <2> QED
    BY <2>1, <2>2
<1> HIDE DEF P, W, f, g, b, c
<1>4. SumFunctionOnSet(g, P) = SumFunctionOnSet(f, P)
  BY <1>1, <1>3, SumAgrees
<1>5. SumFunctionOnSet(c, W) = SumFunctionOnSet(b, W)
  BY <1>1, <1>3, SumAgrees
<1> QED
  BY <1>4, <1>5 DEF P, W, f, g, b, c, Balanced

(* A step that leaves the advances, the runs and the payslips alone.       *)
LEMMA BalanceStutter ==
  ASSUME NEW e \in Employees, Balanced(e), UNCHANGED <<run, slip, advance>>
  PROVE  Balanced(e)'
  BY DEF Balanced, Own, Paid, PaidOut, Balances, Deducted

(* ... disbursement: the balance grows by the amount that is paid out.     *)
LEMMA BalanceAdvanceCommit ==
  ASSUME TypeOK, TypeOK', RequestShape, ReadIsCurrent, NEW e \in Employees \ tainted, Balanced(e),
         NEW q \in Reqs, AdvanceCommit(q)
  PROVE  Balanced(e)'
<1> DEFINE a == req[q].adv
           op == req[q].op
<1>1. a \in Advances /\ op \in {"approve", "reject", "disburse"}
  BY DEF AdvanceCommit, RequestShape, Shaped, TypeOK, Request
<1>2. /\ \A b \in Advances \ {a} : advance'[b] = advance[b]
      /\ advance'[a].status = To[op]
      /\ advance'[a].outstanding = IF op = "disburse" THEN Amount[a] ELSE advance[a].outstanding
  BY <1>1 DEF AdvanceCommit, TypeOK
<1>3. run' = run /\ slip' = slip
  BY DEF AdvanceCommit
<1>4. Paid(e)' = Paid(e) /\ Deducted(e)' = Deducted(e)
  BY <1>3 DEF Paid, Deducted
<1>5. CASE OwnerOf[a] # e \/ op # "disburse"
  <2>1. OwnerOf[a] = e => advance[a].status = From[op]
    BY <1>1 DEF ReadIsCurrent, StatusAsRead
  <2>2. \A b \in Advances : OwnerOf[b] = e /\ b # a => (b \in PaidOut' <=> b \in PaidOut)
    BY <1>2 DEF PaidOut
  <2>3. OwnerOf[a] = e => a \notin PaidOut /\ a \notin PaidOut'
    BY <1>1, <1>2, <1>5, <2>1 DEF PaidOut, From, To
  <2>4. Own(e)' = Own(e)
    BY <2>2, <2>3 DEF Own, PaidOut
  <2>5. \A b \in Own(e) : advance'[b].outstanding = advance[b].outstanding
    BY <1>1, <1>2, <1>5 DEF Own, PaidOut
  <2> QED
    BY <1>3, <1>4, <2>4, <2>5, BalanceKept
<1>6. CASE OwnerOf[a] = e /\ op = "disburse"
  <2> DEFINE W == Own(e)
             V == Own(e)'
             b == Balances
             c == Balances'
             D == SumFunctionOnSet(Deducted(e), Paid(e))
  <2>1. advance[a].status = "APPROVED" /\ advance'[a].status = "DISBURSED"
        /\ advance'[a].outstanding = Amount[a]
    BY <1>1, <1>2, <1>6 DEF ReadIsCurrent, StatusAsRead, From, To
  <2>2. a \notin W /\ V = W \cup {a} /\ W \subseteq Advances /\ V \ {a} = W
    <3>1. a \notin PaidOut /\ PaidOut' = PaidOut \cup {a}
      BY <1>1, <1>2, <2>1 DEF PaidOut
    <3> QED
      BY <1>1, <1>6, <3>1 DEF Own, PaidOut
  <2>3. IsFiniteSet(W) /\ \A x \in W : b[x] \in Int /\ b[x] = advance[x].outstanding
    BY BalanceTypes DEF BalanceTyped
  <2>4. IsFiniteSet(V) /\ \A x \in V : c[x] \in Int /\ c[x] = advance'[x].outstanding
    BY BalanceTypesNext DEF BalanceTyped
  <2>5. \A x \in W : b[x] \in Int /\ c[x] = b[x]
    BY <1>2, <2>2, <2>3, <2>4
  <2>6. c[a] = Amount[a] /\ Amount[a] \in Int /\ a \in V
    BY <1>1, <2>1, <2>2, <2>4
  <2>7. \A x \in V : Amount[x] \in Int
    BY <1>1, <2>2
  <2>8. D \in Int
    BY BalanceTypes, SumType DEF BalanceTyped
  <2> HIDE DEF W, V, b, c, D, a, op
  <2>9. SumFunctionOnSet(c, V) = Amount[a] + SumFunctionOnSet(b, W)
    <3>0. IsFiniteSet(V) /\ a \in V /\ \A x \in V : c[x] \in Int
      BY <2>4, <2>6
    <3>1. SumFunctionOnSet(c, V) = c[a] + SumFunctionOnSet(c, V \ {a})
      BY <3>0, SumSplit
    <3>2. SumFunctionOnSet(c, W) = SumFunctionOnSet(b, W)
      BY <2>3, <2>5, SumAgrees
    <3> QED
      BY <2>2, <2>6, <3>1, <3>2
  <2>10. SumFunctionOnSet(Amount, V) = Amount[a] + SumFunctionOnSet(Amount, W)
    <3>1. IsFiniteSet(V) /\ a \in V
      BY <2>4, <2>6
    <3>2. \A x \in V : Amount[x] \in Int
      BY <2>7
    <3>3. SumFunctionOnSet(Amount, V) = Amount[a] + SumFunctionOnSet(Amount, V \ {a})
      BY <3>1, <3>2, SumSplit
    <3> QED
      BY <2>2, <3>3
  <2>11. SumFunctionOnSet(Amount, W) \in Int /\ SumFunctionOnSet(b, W) \in Int
    BY <2>2, <2>3, <2>7, SumType
  <2>12. SumFunctionOnSet(Amount, W) = SumFunctionOnSet(b, W) + D
    BY DEF Balanced, W, b, D
  <2>13. SumFunctionOnSet(Amount, V) = SumFunctionOnSet(c, V) + D
    BY <2>6, <2>8, <2>9, <2>10, <2>11, <2>12
  <2> QED
    BY <1>4, <2>13 DEF Balanced, V, c, D
<1> QED
  BY <1>5, <1>6

(* ... a calculation touches no approved payslip of an untainted employee. *)
LEMMA BalanceComputeRun ==
  ASSUME TypeOK, TypeOK', NEW e \in Employees \ tainted', Balanced(e),
         NEW j \in Jobs, NEW acked \in BOOLEAN, ComputeRun(j, acked)
  PROVE  Balanced(e)'
<1> DEFINE r == calcJob[j].run
<1>1. r \in Runs /\ advance' = advance
  BY DEF ComputeRun, TypeOK, Calculations
<1>2. \A x \in Runs \ {r} : run'[x] = run[x] /\ slip'[<<x, e>>] = slip[<<x, e>>]
  BY <1>1 DEF ComputeRun, TypeOK, Slips
<1>3. run'[r] = "CALCULATED" /\ ~ (run[r] = "APPROVED" /\ slip[<<r, e>>] # None)
  BY <1>1 DEF ComputeRun, TypeOK
<1>4. r \notin Paid(e) /\ r \notin Paid(e)'
  BY <1>3 DEF Paid
<1>5. Paid(e)' = Paid(e)
  BY <1>2, <1>4 DEF Paid
<1>6. \A x \in Paid(e) : slip'[<<x, e>>] = slip[<<x, e>>]
  BY <1>2, <1>4 DEF Paid
<1>7. Own(e)' = Own(e)
  BY <1>1 DEF Own, PaidOut
<1> QED
  BY <1>1, <1>5, <1>6, <1>7, BalanceKept

(* ... the approval of a run: what it takes off the balances it adds to    *)
(* the deductions.                                                         *)
LEMMA BalanceApproveCommit ==
  ASSUME TypeOK, TypeOK', RequestShape, ReadIsCurrent, Pulled, PayslipsPaid,
         NEW e \in Employees \ tainted, Balanced(e), NEW q \in Reqs, ApproveCommit(q)
  PROVE  Balanced(e)'
<1> DEFINE r == req[q].run
<1>1. r \in Runs /\ Approving(q, r)
  BY DEF ApproveCommit, RequestShape, Shaped, Approving
<1>2. \A x \in Runs \ {r} : run'[x] = run[x] /\ slip'[<<x, e>>] = slip[<<x, e>>]
  BY <1>1 DEF ApproveCommit, TypeOK, Slips
<1>3. /\ run'[r] = "APPROVED"
      /\ slip'[<<r, e>>] = IF req[q].slips[e] # None THEN req[q].slips[e] ELSE slip[<<r, e>>]
  BY <1>1 DEF ApproveCommit, TypeOK, Slips
<1>4. \A a \in Advances :
        /\ req[q].rest[a] = None => advance'[a] = advance[a]
        /\ req[q].rest[a] # None =>
             /\ advance'[a].status \in {"CLEARED", "REPAYING"}
             /\ advance'[a].outstanding = req[q].rest[a]
  BY DEF ApproveCommit
<1>5. \A a \in Advances : OwnerOf[a] = e /\ req[q].rest[a] # None =>
        /\ Handled(q, e) /\ req[q].seen[a] > 0 /\ advance[a].status \in {"DISBURSED", "REPAYING"}
        /\ advance[a].outstanding = req[q].seen[a]
        /\ req[q].rest[a] = applyRepayment(a, req[q].seen[a])
  BY RepaidIsCurrent
<1>6. Own(e)' = Own(e)
  <2>1. \A a \in Advances : OwnerOf[a] = e => (a \in PaidOut' <=> a \in PaidOut)
    BY <1>4, <1>5 DEF PaidOut
  <2> QED
    BY <2>1 DEF Own, PaidOut
<1>7. CASE req[q].slips[e] = None
  <2>1. \A a \in Advances : OwnerOf[a] = e => advance'[a] = advance[a]
    BY <1>4, <1>5, <1>7 DEF Handled
  <2>2. \A a \in Own(e) : advance'[a] = advance[a]
    BY <2>1 DEF Own, PaidOut
  <2>3. slip'[<<r, e>>] = slip[<<r, e>>]
    BY <1>3, <1>7
  <2>4. \A x \in Runs : slip'[<<x, e>>] = slip[<<x, e>>]
    BY <1>2, <2>3
  <2>5. Paid(e)' = Paid(e) \/ (r \notin Paid(e) /\ Paid(e)' = Paid(e) \cup {r})
    BY <1>1, <1>2, <1>3, <2>4 DEF Paid
  <2>6. CASE Paid(e)' = Paid(e)
    BY <1>6, <2>2, <2>4, <2>6, BalanceKept DEF Paid
  <2>7. CASE Paid(e)' # Paid(e)
    <3>1. slip'[<<r, e>>].advance = 0
      BY <1>1, <2>3, <2>4, <2>5, <2>7 DEF PayslipsPaid, Paid
    <3>2. SumFunctionOnSet(Deducted(e)', Paid(e)') = SumFunctionOnSet(Deducted(e), Paid(e))
      <4>1. \A x \in Paid(e) : slip'[<<x, e>>] = slip[<<x, e>>]
        BY <2>4 DEF Paid
      <4> QED
        BY <1>1, <2>5, <3>1, <4>1, DeductedStep
    <3>3. SumFunctionOnSet(Balances', Own(e)') = SumFunctionOnSet(Balances, Own(e))
      <4> DEFINE W == Own(e)
                 b == Balances
                 c == Balances'
      <4>1. IsFiniteSet(W) /\ \A a \in W : b[a] \in Int /\ b[a] = advance[a].outstanding
        BY BalanceTypes DEF BalanceTyped
      <4>2. \A a \in W : c[a] = advance'[a].outstanding
        BY <1>6, BalanceTypesNext DEF BalanceTyped
      <4>3. \A a \in W : b[a] \in Int /\ c[a] = b[a]
        BY <2>2, <4>1, <4>2
      <4> HIDE DEF W, b, c
      <4>4. SumFunctionOnSet(c, W) = SumFunctionOnSet(b, W)
        BY <4>1, <4>3, SumAgrees
      <4> QED
        BY <1>6, <4>4 DEF W, b, c
    <3> QED
      BY <1>6, <3>2, <3>3 DEF Balanced
  <2> QED
    BY <2>6, <2>7
<1>8. CASE req[q].slips[e] # None
  <2> DEFINE W == Own(e)
             b == Balances
             c == Balances'
             S == SeenOf(q, e)
             f == Repayments(req[q].seen)
             h == [a \in Advances |-> IF a \in S THEN f[a] ELSE 0]
             D == SumFunctionOnSet(Deducted(e), Paid(e))
             D2 == SumFunctionOnSet(Deducted(e)', Paid(e)')
  <2>1. Handled(q, e) /\ req[q].emp # e
    <3>1. req[q].todo = {} /\ req[q].op = "approveRun"
      BY DEF ApproveCommit
    <3>2. req[q].emp = None
      BY <3>1 DEF RequestShape, Shaped
    <3> QED
      BY <1>8, <3>1, <3>2 DEF Handled
  <2>2. req[q].slips[e].advance = SumFunctionOnSet(f, S)
    BY <2>1 DEF Pulled
  <2>3. r \notin Paid(e) /\ Paid(e)' = Paid(e) \cup {r}
    <3>1. r \notin Paid(e)
      BY <1>1, <1>8 DEF PayslipsPaid, Paid
    <3> QED
      BY <1>1, <1>2, <1>3, <1>8, <3>1 DEF Paid
  <2>4. D \in Int /\ D2 = D + SumFunctionOnSet(f, S)
    <3>1. \A x \in Paid(e) : slip'[<<x, e>>] = slip[<<x, e>>]
      BY <1>2, <2>3 DEF Paid
    <3>2. slip'[<<r, e>>].advance = SumFunctionOnSet(f, S)
      BY <1>3, <1>8, <2>2
    <3> QED
      BY <1>1, <2>3, <3>1, <3>2, DeductedStep
  <2>5. \A a \in Advances : OwnerOf[a] = e => (a \in S <=> req[q].rest[a] # None)
    <3> TAKE a \in Advances
    <3> HAVE OwnerOf[a] = e
    <3>1. applyRepayment(a, req[q].seen[a]) # None
      BY RestBounds DEF TypeOK, Request
    <3>2. BalanceAsRead(q, a)
      BY DEF ReadIsCurrent
    <3> QED
      BY <2>1, <3>1, <3>2 DEF BalanceAsRead, SeenOf
  <2>6. S \subseteq W /\ W \subseteq Advances
    BY <1>5, <2>5 DEF SeenOf, Own, PaidOut
  <2>7. IsFiniteSet(W) /\ \A a \in W : b[a] \in Int /\ b[a] = advance[a].outstanding
    BY BalanceTypes DEF BalanceTyped
  <2>8. \A a \in W : c[a] \in Int /\ c[a] = advance'[a].outstanding
    BY <1>6, BalanceTypesNext DEF BalanceTyped
  <2>9. \A a \in Advances : f[a] \in Int
    BY RepaymentBounds DEF Repayments, TypeOK, Request
  <2>10. \A a \in W : c[a] \in Int /\ h[a] \in Int /\ b[a] = c[a] + h[a]
    <3> TAKE a \in W
    <3>1. a \in Advances /\ OwnerOf[a] = e
      BY <2>6 DEF Own
    <3>2. CASE a \in S
      <4>1. /\ advance[a].outstanding = req[q].seen[a]
            /\ advance'[a].outstanding = applyRepayment(a, req[q].seen[a])
        BY <1>4, <1>5, <2>5, <3>1, <3>2
      <4>2. req[q].seen[a] \in Nat /\ Installments[a] \in Nat
        BY <3>1 DEF TypeOK, Request
      <4>3. /\ f[a] = advanceRepayment(req[q].seen[a], Installments[a])
            /\ h[a] = f[a] /\ f[a] \in Int
        BY <2>9, <3>1, <3>2 DEF Repayments
      <4>4. b[a] = req[q].seen[a] /\ c[a] = applyRepayment(a, req[q].seen[a])
        BY <2>7, <2>8, <4>1
      <4> HIDE DEF b, c, f, h
      <4> QED
        BY <4>2, <4>3, <4>4, <2>8 DEF applyRepayment
    <3>3. CASE a \notin S
      <4>1. h[a] = 0 /\ advance'[a] = advance[a]
        BY <1>4, <2>5, <3>1, <3>3
      <4>2. b[a] = c[a] /\ c[a] \in Int
        BY <2>7, <2>8, <4>1
      <4> HIDE DEF b, c, h
      <4> QED
        BY <4>1, <4>2
    <3> QED
      BY <3>2, <3>3
  <2>11. /\ IsFiniteSet(S)
         /\ \A a \in S : f[a] \in Int /\ h[a] = f[a]
         /\ \A a \in W : h[a] \in Int
         /\ \A a \in W \ S : h[a] = 0
    <3>1. IsFiniteSet(S)
      BY <2>6, <2>7, FS_Subset
    <3> QED
      BY <3>1, <2>6, <2>9
  <2> HIDE DEF W, b, c, S, f, h, D, D2
  <2>12. SumFunctionOnSet(b, W) = SumFunctionOnSet(c, W) + SumFunctionOnSet(h, W)
    BY <2>7, <2>10, SumOfSums
  <2>13. SumFunctionOnSet(h, W) = SumFunctionOnSet(h, S)
    BY <2>6, <2>7, <2>11, SumWithin
  <2>14. SumFunctionOnSet(h, S) = SumFunctionOnSet(f, S)
    BY <2>11, SumAgrees
  <2>15. SumFunctionOnSet(c, W) \in Int /\ SumFunctionOnSet(f, S) \in Int
    BY <2>7, <2>8, <2>11, SumType
  <2>16. SumFunctionOnSet(Amount, W) = SumFunctionOnSet(b, W) + D
    BY DEF Balanced, W, b, D
  <2>17. SumFunctionOnSet(Amount, W) = SumFunctionOnSet(c, W) + D2
    BY <2>4, <2>12, <2>13, <2>14, <2>15, <2>16
  <2> QED
    BY <1>6, <2>17 DEF Balanced, W, c, D2
<1> QED
  BY <1>7, <1>8

(* Every step keeps the balance of every employee who is not tainted.      *)
LEMMA BalanceStep ==
  IndInv /\ TypeOK' /\ [Next]_vars => AdvancesBalance'
<1> SUFFICES ASSUME IndInv, TypeOK', [Next]_vars, NEW e \in Employees \ tainted'
             PROVE  Balanced(e)'
  BY DEF AdvancesBalance, Balanced, Own, Paid, Balances, Deducted
<1>0. /\ e \in Employees \ tainted /\ Balanced(e)
      /\ TypeOK /\ RequestShape /\ ReadIsCurrent /\ Pulled /\ PayslipsPaid
  BY TaintedGrows DEF IndInv, AdvancesBalance, Balanced, Own, Paid, Balances, Deducted
<1>1. ASSUME UNCHANGED <<run, slip, advance>> PROVE Balanced(e)'
  BY <1>0, <1>1, BalanceStutter
<1>2. ASSUME NEW a \in Advances, CreateAdvance(a) PROVE Balanced(e)'
  <2>1. /\ \A b \in Advances \ {a} : advance'[b] = advance[b]
        /\ advance[a].status = "NONE" /\ advance'[a].status = "SUBMITTED"
        /\ run' = run /\ slip' = slip
    BY <1>0, <1>2 DEF CreateAdvance, TypeOK
  <2>2. PaidOut' = PaidOut /\ a \notin PaidOut
    BY <2>1 DEF PaidOut
  <2>3. Own(e)' = Own(e) /\ Paid(e)' = Paid(e)
    BY <2>1, <2>2 DEF Own, Paid
  <2>4. \A b \in Own(e) : advance'[b] = advance[b]
    BY <2>1, <2>2 DEF Own, PaidOut
  <2> QED
    BY <1>0, <2>1, <2>3, <2>4, BalanceKept
<1>3. ASSUME NEW r \in Runs, CreateRun(r) PROVE Balanced(e)'
  <2>1. /\ \A x \in Runs : run'[x] = "APPROVED" <=> run[x] = "APPROVED"
        /\ advance' = advance /\ slip' = slip
    BY <1>0, <1>3 DEF CreateRun, TypeOK
  <2>2. Own(e)' = Own(e) /\ Paid(e)' = Paid(e)
    BY <2>1 DEF Own, PaidOut, Paid
  <2> QED
    BY <1>0, <2>1, <2>2, BalanceKept
<1>4. ASSUME NEW q \in Reqs, AdvanceCommit(q) PROVE Balanced(e)'
  BY <1>0, <1>4, BalanceAdvanceCommit
<1>5. ASSUME NEW j \in Jobs, NEW acked \in BOOLEAN, ComputeRun(j, acked) PROVE Balanced(e)'
  BY <1>0, <1>5, BalanceComputeRun
<1>6. ASSUME NEW q \in Reqs, ApproveCommit(q) PROVE Balanced(e)'
  BY <1>0, <1>6, BalanceApproveCommit
<1>7. ASSUME NEW q \in Reqs, PullWrite(q) \/ Rollback(q)
      PROVE  UNCHANGED <<run, slip, advance>>
  BY <1>7 DEF PullWrite, Rollback
<1>8. ASSUME NEW q \in Reqs, NEW d \in Employees, PullRead(q, d)
      PROVE  UNCHANGED <<run, slip, advance>>
  BY <1>8 DEF PullRead
<1>9. ASSUME NEW q \in Reqs, NEW r \in Runs, ApproveRead(q, r)
      PROVE  UNCHANGED <<run, slip, advance>>
  BY <1>9 DEF ApproveRead
<1>10. ASSUME NEW q \in Reqs, NEW a \in Advances, NEW op \in {"approve", "reject", "disburse"},
              AdvanceRead(q, op, a)
       PROVE  UNCHANGED <<run, slip, advance>>
  BY <1>10 DEF AdvanceRead
<1> QED
  BY StepCases, CalculationSets, <1>1, <1>2, <1>3, <1>4, <1>5, <1>6, <1>7, <1>8, <1>9, <1>10
     DEF Quiet

(* Payroll starts in the invariant.                                        *)
LEMMA InitIndInv == Init => IndInv
<1> SUFFICES ASSUME Init PROVE IndInv
  OBVIOUS
<1>1. TypeOK
  BY IdleRow DEF Init, TypeOK, RunStatus, AdvanceStatus
<1>2. \A p \in Reqs : req[p] = Idle
  BY DEF Init
<1>3. /\ \A p \in Reqs : /\ req[p].op = "idle" /\ req[p].adv = None /\ req[p].emp = None
                         /\ \A a \in Advances : req[p].rest[a] = None
  BY <1>2, IdleRow
<1>4. RequestShape /\ OneRequest /\ ReadIsCurrent /\ Pulled
  BY <1>3 DEF RequestShape, Shaped, OneRequest, Approving, Handled, ReadIsCurrent, Untouched,
     StatusAsRead, BalanceAsRead, Pulled
<1>5. Frozen /\ PdfFresh /\ PayslipsPaid
  <2>1. Frozen
    BY <1>3 DEF Frozen, Approving, Init
  <2>2. PdfFresh
    BY DEF PdfFresh, Init
  <2>3. PayslipsPaid
    BY DEF PayslipsPaid, Init, Slips
  <2> QED
    BY <2>1, <2>2, <2>3
<1>6. AdvancesBalance
  <2> SUFFICES ASSUME NEW e \in Employees PROVE Balanced(e)
    BY DEF AdvancesBalance, Balanced, Own, Paid, Balances, Deducted
  <2>1. Own(e) = {} /\ Paid(e) = {}
    BY DEF Own, PaidOut, Paid, Init
  <2> QED
    BY <2>1, SumEmpty DEF Balanced
<1> QED
  BY <1>1, <1>4, <1>5, <1>6 DEF IndInv

(* Every step keeps the invariant.                                         *)
LEMMA IndInvStep == IndInv /\ [Next]_vars => IndInv'
<1> SUFFICES ASSUME IndInv, [Next]_vars PROVE IndInv'
  OBVIOUS
<1>1. TypeOK'
  BY TypeStep DEF IndInv
<1>2. AdvancesBalance'
  BY <1>1, BalanceStep
<1> QED
  BY <1>1, <1>2, ShapeStep, FrozenStep, PdfStep, OneRequestStep, ReadStep, PulledStep, PaidStep
     DEF IndInv

(* The invariant holds in every reachable state of payroll, for any number *)
(* of runs, employees, advances, requests and jobs.                        *)
THEOREM PayrollInduction == Spec => []IndInv
  BY InitIndInv, IndInvStep, PTL DEF Spec

(* Runs, payslips, advances, jobs and requests keep their types through    *)
(* every calculation, approval and PDF job (payroll.service.ts, cash-      *)
(* advance.service.ts, payslip-pdf.worker.ts).                             *)
THEOREM PayrollTypes == Spec => []TypeOK
<1>1. IndInv => TypeOK
  BY DEF IndInv
<1> QED
  BY PayrollInduction, <1>1, PTL

(* What was disbursed to an employee has been deducted on approved         *)
(* payslips or is still outstanding, however requests interleave, unless   *)
(* two of them handled his advances at once (payroll.service.ts approve,   *)
(* cash-advance.service.ts transition).                                    *)
THEOREM AdvancesAlwaysBalance == Spec => []AdvancesBalance
<1>1. IndInv => AdvancesBalance
  BY DEF IndInv
<1> QED
  BY PayrollInduction, <1>1, PTL

(* A stored PDF shows the figures of the approved payslip, unless the      *)
(* worker read them before the approval committed, or another approval or  *)
(* a calculation of the run - its request past the status check, or its    *)
(* job - was under way then (payslip-pdf.worker.ts).                       *)
THEOREM PdfsShowTheirPayslip == Spec => []PdfShowsPayslip
<1>1. IndInv => PdfShowsPayslip
  BY DEF IndInv, PdfFresh, ShowsFrozen, PdfShowsPayslip
<1> QED
  BY PayrollInduction, <1>1, PTL

(* A run that is APPROVED, and every payslip of it, stays as it is, unless *)
(* another approval or a calculation was under way when it was approved: a *)
(* calculate request that had checked the status, though its job may have  *)
(* been queued only later, or the job (payroll.service.ts, "APPROVED runs  *)
(* are frozen").                                                           *)
THEOREM ApprovedRunsAreFrozen == Spec => FrozenUnlessRaced
<1> DEFINE A == \A r \in Runs \ raced : run[r] = "APPROVED" =>
                  /\ run'[r] = "APPROVED"
                  /\ \A e \in Employees : slip'[<<r, e>>] = slip[<<r, e>>]
<1>1. IndInv /\ [Next]_vars => [A]_vars
  BY FrozenMove DEF IndInv
<1> HIDE DEF A
<1>2. Spec => [][A]_vars
  BY <1>1, PayrollInduction, PTL DEF Spec
<1> QED
  BY <1>2 DEF A, FrozenUnlessRaced

-----------------------------------------------------------------------------
(* Part 2.  The organisation, overtime and the clock.                      *)

HIDE PayrollAssumptions
USE HrAssumptions

(* A non-empty set of natural numbers has a least element.                 *)
LEMMA LeastOf ==
  ASSUME NEW B \in SUBSET Nat, B # {}
  PROVE  \E m \in B : \A k \in B : m <= k
<1>1. PICK m \in B : \A k \in B : ~ (<<k, m>> \in OpToRel(<, Nat))
  BY WFMin, NatLessThanWellFounded
<1>2. \A k \in B : ~ (k < m)
  BY <1>1 DEF OpToRel
<1> QED
  BY <1>2

(* f is the walk of m hops from start.                                     *)
WalkStep(up, x) == IF x = NoRow THEN NoRow ELSE up[x]
(* f is the walk of m hops from start.                                     *)
IsWalk(f, up, start, m) ==
  f = [n \in 0 .. m |-> IF n = 0 THEN start
                        ELSE IF f[n - 1] = NoRow THEN NoRow ELSE up[f[n - 1]]]

(* There is such a walk for every number of hops: a least number without   *)
(* one would be reached by one more hop.                                   *)
LEMMA WalkExists ==
  ASSUME NEW up, NEW start, NEW L \in Nat
  PROVE  \E f : IsWalk(f, up, start, L)
<1> DEFINE B == {m \in Nat : ~ \E f : IsWalk(f, up, start, m)}
<1> SUFFICES ASSUME B # {} PROVE FALSE
  OBVIOUS
<1>1. PICK m \in B : \A k \in B : m <= k
  BY LeastOf
<1>2. m \in Nat /\ ~ \E f : IsWalk(f, up, start, m)
  OBVIOUS
<1>3. CASE m = 0
  <2> DEFINE f == [n \in 0 .. 0 |-> start]
  <2>1. \A n \in 0 .. 0 : n = 0
    OBVIOUS
  <2>2. IsWalk(f, up, start, 0)
    BY <2>1 DEF IsWalk
  <2> QED
    BY <1>2, <1>3, <2>2
<1>4. CASE m # 0
  <2>1. m - 1 \in Nat /\ m - 1 \notin B
    BY <1>1, <1>2, <1>4
  <2>2. PICK f : IsWalk(f, up, start, m - 1)
    BY <2>1
  <2> DEFINE g == [n \in 0 .. m |-> IF n = m THEN WalkStep(up, f[m - 1]) ELSE f[n]]
  <2>3. \A n \in 0 .. (m - 1) : f[n] = IF n = 0 THEN start ELSE WalkStep(up, f[n - 1])
    <3> DEFINE h == [n \in 0 .. (m - 1) |-> IF n = 0 THEN start
                        ELSE IF f[n - 1] = NoRow THEN NoRow ELSE up[f[n - 1]]]
    <3>1. f = h
      BY <2>2 DEF IsWalk
    <3>2. \A n \in 0 .. (m - 1) : h[n] = IF n = 0 THEN start ELSE WalkStep(up, f[n - 1])
      BY DEF WalkStep
    <3> HIDE DEF h
    <3> QED
      BY <3>1, <3>2
  <2>4. \A n \in 0 .. m : g[n] = IF n = 0 THEN start ELSE WalkStep(up, g[n - 1])
    <3> TAKE n \in 0 .. m
    <3>1. CASE n = m
      <4>1. m - 1 \in 0 .. m /\ m - 1 # m /\ n # 0
        BY <1>2, <1>4, <2>1, <3>1
      <4> QED
        BY <3>1, <4>1
    <3>2. CASE n # m /\ n # 0
      <4>1. n \in 0 .. (m - 1) /\ n - 1 \in 0 .. m /\ n - 1 # m
        BY <1>2, <3>2
      <4>2. g[n] = f[n] /\ g[n - 1] = f[n - 1]
        BY <3>2, <4>1
      <4> QED
        BY <2>3, <3>2, <4>1, <4>2
    <3>3. CASE n = 0
      <4>1. n \in 0 .. (m - 1) /\ n # m
        BY <1>2, <1>4, <3>3
      <4> QED
        BY <2>3, <3>3, <4>1
    <3> QED
      BY <3>1, <3>2, <3>3
  <2>5. IsWalk(g, up, start, m)
    <3>1. g = [n \in 0 .. m |-> g[n]]
      OBVIOUS
    <3> HIDE DEF g
    <3> QED
      BY <2>4, <3>1 DEF IsWalk, WalkStep
  <2> QED
    BY <1>2, <2>5
<1> QED
  BY <1>3, <1>4

(* What Walk computes: it starts at start and goes up one row a hop.       *)
LEMMA WalkHops ==
  ASSUME NEW up, NEW start
  PROVE  LET at == Walk(up, start)
         IN /\ DOMAIN at = 0 .. CYCLE_HOP_LIMIT
            /\ at[0] = start
            /\ \A n \in 0 .. CYCLE_HOP_LIMIT : n # 0 => at[n] = WalkStep(up, at[n - 1])
<1> DEFINE L == CYCLE_HOP_LIMIT
           at == CHOOSE f : IsWalk(f, up, start, L)
<1>1. L \in Nat
  OBVIOUS
<1>2. Walk(up, start) = at
  BY DEF Walk, IsWalk
<1>3. IsWalk(at, up, start, L)
  BY <1>1, WalkExists
<1> HIDE DEF at
<1> DEFINE h == [n \in 0 .. L |-> IF n = 0 THEN start
                        ELSE IF at[n - 1] = NoRow THEN NoRow ELSE up[at[n - 1]]]
<1>4. at = h
  BY <1>3 DEF IsWalk
<1>5. /\ DOMAIN h = 0 .. L
      /\ \A n \in 0 .. L : h[n] = IF n = 0 THEN start ELSE WalkStep(up, at[n - 1])
  BY DEF WalkStep
<1> HIDE DEF h
<1>6. 0 \in 0 .. L
  BY <1>1
<1> QED
  BY <1>2, <1>4, <1>5, <1>6

(* The walk does not leave a set that is closed upwards but for id.        *)
LEMMA WalkStays ==
  ASSUME NEW up, NEW start, NEW id, NEW C, start \in C, NoRow \notin C,
         \A x \in C \ {id} : up[x] \in C
  PROVE  ~ assertNoCycle(up, id, start)
<1> SUFFICES ASSUME assertNoCycle(up, id, start) PROVE FALSE
  OBVIOUS
<1> DEFINE at == Walk(up, start)
           L == CYCLE_HOP_LIMIT
           B == {n \in 0 .. L : at[n] \notin C}
<1>1. L \in Nat /\ 0 \in 0 .. L /\ L \in 0 .. L
  OBVIOUS
<1>2. /\ DOMAIN at = 0 .. L /\ at[0] = start
      /\ \A n \in 0 .. L : n # 0 => at[n] = WalkStep(up, at[n - 1])
  BY WalkHops
<1>3. at[L] = NoRow /\ \A n \in 0 .. L : at[n] # id
  BY <1>2 DEF assertNoCycle
<1> HIDE DEF at, L
<1>4. L \in B /\ B \in SUBSET Nat
  BY <1>1, <1>3
<1>5. PICK m \in B : \A k \in B : m <= k
  BY <1>4, LeastOf
<1>6. m \in 0 .. L /\ at[m] \notin C /\ m # 0
  BY <1>2, <1>5
<1>7. m - 1 \in 0 .. L /\ at[m - 1] \in C
  BY <1>1, <1>5, <1>6
<1>8. at[m] = up[at[m - 1]] /\ at[m - 1] # id
  BY <1>2, <1>3, <1>6, <1>7 DEF WalkStep
<1> QED
  BY <1>6, <1>7, <1>8

-----------------------------------------------------------------------------
(* The operations that hang a row elsewhere, and those on overtime.        *)
Moves == {"updateDepartment", "setReportingLine"}
OtOps == {"submit", "approve", "reconcile"}

(* Which tables the ids of a request belong to.                            *)
RowShape(p) ==
  /\ hrReq[p].op = "updateDepartment" =>
       hrReq[p].id \in Departments /\ hrReq[p].arg \in Departments \cup {NoRow}
  /\ hrReq[p].op = "deleteDepartment" => hrReq[p].id \in Departments
  /\ hrReq[p].op = "updatePosition" => hrReq[p].id \in Positions /\ hrReq[p].arg \in Departments
  /\ hrReq[p].op = "deletePosition" => hrReq[p].id \in Positions
  /\ hrReq[p].op = "setReportingLine" =>
       hrReq[p].id \in Staff /\ hrReq[p].arg \in Staff \cup {NoRow}
  /\ hrReq[p].op \in OtOps => hrReq[p].id \in OtRequests

RequestRows == \A p \in HrReqs : RowShape(p)

(* Request q is as it was, except that a delete may have overtaken it.     *)
Kept(q) ==
  /\ hrReq'[q] \in HrRequest
  /\ hrReq'[q].op = hrReq[q].op /\ hrReq'[q].id = hrReq[q].id /\ hrReq'[q].arg = hrReq[q].arg
  /\ hrReq'[q].hours = hrReq[q].hours /\ (hrReq[q].raced => hrReq'[q].raced)

(* Request p ends, the others go on.                                       *)
Over(p) ==
  /\ hrReq' \in [HrReqs -> HrRequest]
  /\ hrReq'[p].op = "idle"
  /\ \A q \in HrReqs \ {p} : Kept(q)

(* Request p begins with this operation on this row.                       *)
Starts(p, op, id, arg) ==
  /\ hrReq' \in [HrReqs -> HrRequest]
  /\ hrReq[p].op = "idle"
  /\ hrReq'[p].op = op /\ hrReq'[p].id = id /\ hrReq'[p].arg = arg /\ ~ hrReq'[p].raced
  /\ \A q \in HrReqs \ {p} : hrReq'[q] = hrReq[q]

(* The fields of a request that is not open.                               *)
LEMMA NoRequestRow ==
  /\ NoRequest \in HrRequest
  /\ NoRequest.op = "idle" /\ NoRequest.id = NoRow /\ NoRequest.arg = NoRow
  /\ NoRequest.raced = FALSE /\ NoRequest.hours = 0
  BY DEF NoRequest, HrRequest, HrOps, Refs

(* A move that passed its checks has begun.                                *)
LEMMA StartSets ==
  ASSUME HrTypeOK, NEW p \in HrReqs, NEW op \in HrOps, NEW id \in Refs, NEW arg \in Refs,
         Begin(p, [NoRequest EXCEPT !.op = op, !.id = id, !.arg = arg])
  PROVE  Starts(p, op, id, arg)
<1> DEFINE row == [NoRequest EXCEPT !.op = op, !.id = id, !.arg = arg]
<1>1. /\ row \in HrRequest
      /\ row.op = op /\ row.id = id /\ row.arg = arg /\ row.raced = FALSE
  BY DEF NoRequest, HrRequest
<1>2. hrReq[p] = NoRequest /\ hrReq' = [hrReq EXCEPT ![p] = row]
  BY DEF Begin
<1> HIDE DEF row
<1> QED
  BY <1>1, <1>2, NoRequestRow DEF HrTypeOK, Starts

(* A delete that passed its checks has begun.                              *)
LEMMA DeleteSets ==
  ASSUME HrTypeOK, NEW p \in HrReqs, NEW op \in HrOps, NEW id \in Refs,
         Begin(p, [NoRequest EXCEPT !.op = op, !.id = id])
  PROVE  Starts(p, op, id, NoRow)
<1> DEFINE row == [NoRequest EXCEPT !.op = op, !.id = id]
<1>1. /\ row \in HrRequest
      /\ row.op = op /\ row.id = id /\ row.arg = NoRow /\ row.raced = FALSE
  BY DEF NoRequest, HrRequest, Refs
<1>2. hrReq[p] = NoRequest /\ hrReq' = [hrReq EXCEPT ![p] = row]
  BY DEF Begin
<1> HIDE DEF row
<1> QED
  BY <1>1, <1>2, NoRequestRow DEF HrTypeOK, Starts

(* A transition of overtime has begun; the hours of a reconciliation       *)
(* without an override are at most those asked for and those on the clock. *)
LEMMA OtSets ==
  ASSUME HrTypeOK, NEW p \in HrReqs, NEW op \in OtOps, NEW o \in OtRequests,
         NEW override \in {{}} \cup {{h} : h \in Clock}, OtRead(p, op, o, override)
  PROVE  /\ Starts(p, op, o, NoRow)
         /\ op = "reconcile" /\ override = {} =>
              hrReq'[p].hours <= Requested[o] /\ hrReq'[p].hours <= attended[WorkedBy[o]]
<1> DEFINE hours == IF op = "reconcile"
                      THEN approvedHours(Requested[o], attended[WorkedBy[o]], override) ELSE 0
           row == [NoRequest EXCEPT !.op = op, !.id = o, !.hours = hours]
<1>1. Requested[o] \in Nat /\ attended[WorkedBy[o]] \in Nat
  BY DEF HrTypeOK
<1>2. /\ hours \in Nat
      /\ op = "reconcile" /\ override = {} =>
           hours <= Requested[o] /\ hours <= attended[WorkedBy[o]]
  <2>1. override # {} => (CHOOSE h \in override : TRUE) \in Nat
    OBVIOUS
  <2> QED
    BY <1>1, <2>1 DEF approvedHours
<1>3. hrReq[p] = NoRequest /\ hrReq' = [hrReq EXCEPT ![p] = row]
  BY DEF Begin, OtRead
<1> HIDE DEF hours
<1>4. /\ row \in HrRequest
      /\ row.op = op /\ row.id = o /\ row.arg = NoRow /\ row.raced = FALSE /\ row.hours = hours
  BY <1>2 DEF NoRequest, HrRequest, Refs, OtOps, HrOps
<1> HIDE DEF row
<1> QED
  BY <1>2, <1>3, <1>4, NoRequestRow DEF HrTypeOK, Starts

(* A request that commits or fails is over.                                *)
LEMMA OverSets ==
  ASSUME HrTypeOK, NEW p \in HrReqs, hrReq' = [hrReq EXCEPT ![p] = NoRequest]
  PROVE  Over(p)
  BY NoRequestRow DEF HrTypeOK, Over, Kept

(* A delete is over, and what still aims at its row is raced.              *)
LEMMA EndDeleteSets ==
  ASSUME HrTypeOK, NEW p \in HrReqs, NEW y, EndDelete(p, y)
  PROVE  Over(p) /\ \A q \in HrReqs \ {p} : hrReq[q].arg = y => hrReq'[q].raced
<1>1. hrReq'[p] = NoRequest
  BY DEF EndDelete
<1>2. ASSUME NEW q \in HrReqs \ {p} PROVE Kept(q) /\ (hrReq[q].arg = y => hrReq'[q].raced)
  <2> DEFINE row == [hrReq[q] EXCEPT !.raced = TRUE]
  <2>1. hrReq'[q] = IF hrReq[q].arg = y THEN row ELSE hrReq[q]
    BY DEF EndDelete
  <2>2. hrReq[q] \in HrRequest
    BY DEF HrTypeOK
  <2>3. /\ row \in HrRequest
        /\ row.op = hrReq[q].op /\ row.id = hrReq[q].id /\ row.arg = hrReq[q].arg
        /\ row.hours = hrReq[q].hours /\ row.raced = TRUE
    BY <2>2 DEF HrRequest
  <2> HIDE DEF row
  <2> QED
    BY <2>1, <2>2, <2>3 DEF Kept
<1>3. hrReq' \in [HrReqs -> HrRequest]
  <2>1. hrReq' = [q \in HrReqs |-> hrReq'[q]]
    BY DEF EndDelete
  <2>2. \A q \in HrReqs : hrReq'[q] \in HrRequest
    BY <1>1, <1>2, NoRequestRow DEF Kept
  <2> HIDE DEF HrRequest
  <2> QED
    BY <2>1, <2>2
<1> QED
  BY <1>1, <1>2, <1>3, NoRequestRow DEF Over

-----------------------------------------------------------------------------
(* The steps that begin a request.                                         *)
ReadsOf(p) ==
  \/ \E d \in Departments : \E u \in (Departments \cup {NoRow}) : UpdateDepartmentRead(p, d, u)
  \/ \E d \in Departments : DeleteDepartmentRead(p, d)
  \/ \E x \in Positions : \E d \in Departments : UpdatePositionRead(p, x, d)
  \/ \E x \in Positions : DeletePositionRead(p, x)
  \/ \E e \in Staff : \E m \in Staff \cup {NoRow} : SetReportingLineRead(p, e, m)
  \/ \E op \in OtOps : \E o \in OtRequests :
       \E override \in {{}} \cup {{h} : h \in Clock} : OtRead(p, op, o, override)

(* The transitions of overtime are submit, approve and reconcile.          *)
LEMMA OtOpsAre == DOMAIN OtFrom = OtOps
  BY DEF OtFrom, OtOps

(* What each Read begins.                                                  *)
LEMMA ReadSets ==
  ASSUME HrTypeOK, NEW p \in HrReqs
  PROVE  /\ \A d \in Departments : \A u \in Departments \cup {NoRow} :
              UpdateDepartmentRead(p, d, u) => Starts(p, "updateDepartment", d, u)
         /\ \A d \in Departments :
              DeleteDepartmentRead(p, d) => Starts(p, "deleteDepartment", d, NoRow)
         /\ \A x \in Positions : \A d \in Departments :
              UpdatePositionRead(p, x, d) => Starts(p, "updatePosition", x, d)
         /\ \A x \in Positions :
              DeletePositionRead(p, x) => Starts(p, "deletePosition", x, NoRow)
         /\ \A e \in Staff : \A m \in Staff \cup {NoRow} :
              SetReportingLineRead(p, e, m) => Starts(p, "setReportingLine", e, m)
<1>1. ASSUME NEW d \in Departments, NEW u \in Departments \cup {NoRow},
             UpdateDepartmentRead(p, d, u)
      PROVE  Starts(p, "updateDepartment", d, u)
  BY <1>1, StartSets DEF UpdateDepartmentRead, HrOps, Refs
<1>2. ASSUME NEW d \in Departments, DeleteDepartmentRead(p, d)
      PROVE  Starts(p, "deleteDepartment", d, NoRow)
  BY <1>2, DeleteSets DEF DeleteDepartmentRead, HrOps, Refs
<1>3. ASSUME NEW x \in Positions, NEW d \in Departments, UpdatePositionRead(p, x, d)
      PROVE  Starts(p, "updatePosition", x, d)
  BY <1>3, StartSets DEF UpdatePositionRead, HrOps, Refs
<1>4. ASSUME NEW x \in Positions, DeletePositionRead(p, x)
      PROVE  Starts(p, "deletePosition", x, NoRow)
  BY <1>4, DeleteSets DEF DeletePositionRead, HrOps, Refs
<1>5. ASSUME NEW e \in Staff, NEW m \in Staff \cup {NoRow}, SetReportingLineRead(p, e, m)
      PROVE  Starts(p, "setReportingLine", e, m)
  BY <1>5, StartSets DEF SetReportingLineRead, HrOps, Refs
<1> QED
  BY <1>1, <1>2, <1>3, <1>4, <1>5

(* Every Read begins a request.                                            *)
LEMMA ReadStarts ==
  ASSUME HrTypeOK, NEW p \in HrReqs, ReadsOf(p)
  PROVE  \E op \in HrOps : \E id, arg \in Refs : Starts(p, op, id, arg)
<1>1. \A op \in OtOps : \A o \in OtRequests : \A override \in {{}} \cup {{h} : h \in Clock} :
        OtRead(p, op, o, override) => Starts(p, op, o, NoRow)
  BY OtSets
<1>2. {"updateDepartment", "deleteDepartment", "updatePosition", "deletePosition",
       "setReportingLine"} \subseteq HrOps /\ OtOps \subseteq HrOps
  BY DEF HrOps, OtOps
<1>3. /\ Departments \cup {NoRow} \subseteq Refs /\ Positions \subseteq Refs
      /\ Staff \cup {NoRow} \subseteq Refs /\ OtRequests \subseteq Refs /\ NoRow \in Refs
  BY DEF Refs
<1> QED
  BY <1>1, <1>2, <1>3, ReadSets DEF ReadsOf

(* The steps that end a request.                                           *)
EndOf(p) ==
  \/ UpdateDepartmentCommit(p) \/ DeleteDepartmentCommit(p) \/ UpdatePositionCommit(p)
  \/ DeletePositionCommit(p) \/ SetReportingLineCommit(p) \/ OtCommit(p) \/ HrRollback(p)

(* They do end it.                                                         *)
LEMMA EndOver == ASSUME HrTypeOK, NEW p \in HrReqs, EndOf(p) PROVE Over(p)
<1>1. UpdateDepartmentCommit(p) => Over(p)
  BY OverSets DEF UpdateDepartmentCommit
<1>2. DeleteDepartmentCommit(p) => Over(p)
  BY EndDeleteSets DEF DeleteDepartmentCommit
<1>3. UpdatePositionCommit(p) => Over(p)
  BY OverSets DEF UpdatePositionCommit
<1>4. DeletePositionCommit(p) => Over(p)
  BY EndDeleteSets DEF DeletePositionCommit
<1>5. SetReportingLineCommit(p) => Over(p)
  BY OverSets DEF SetReportingLineCommit
<1>6. OtCommit(p) => Over(p)
  BY OverSets DEF OtCommit
<1>7. HrRollback(p) => Over(p)
  BY OverSets DEF HrRollback
<1> QED
  BY <1>1, <1>2, <1>3, <1>4, <1>5, <1>6, <1>7 DEF EndOf

(* What a step is: one that writes at once, the beginning or the end of a  *)
(* request.                                                                *)
WritesAtOnce ==
  \/ \E d \in Departments : \E u \in Departments \cup {NoRow} : createDepartment(d, u)
  \/ \E x \in Positions : \E d \in Departments : createPosition(x, d)
  \/ \E e \in Staff : \E x \in Positions \cup {NoRow} : setPosition(e, x)
  \/ \E o \in OtRequests : createOt(o)
  \/ \E e \in Staff : \E hours \in Clock : import(e, hours)

(* Every step is one of these.                                             *)
LEMMA HrStepCases ==
  ASSUME [HrNext]_hrVars
  PROVE  \/ UNCHANGED hrVars
         \/ WritesAtOnce
         \/ \E p \in HrReqs : ReadsOf(p) \/ EndOf(p)
  BY OtOpsAre DEF HrNext, WritesAtOnce, ReadsOf, EndOf

(* A step that writes at once leaves the requests alone.                   *)
LEMMA WritesKeepRequests == WritesAtOnce => hrReq' = hrReq
  BY DEF WritesAtOnce, createDepartment, createPosition, setPosition, createOt, import

(* What becomes of a request in a step.                                    *)
LEMMA HrRequestSteps ==
  ASSUME HrTypeOK, [HrNext]_hrVars, NEW q \in HrReqs
  PROVE  hrReq'[q].op = "idle" \/ Kept(q) \/ ReadsOf(q)
<1>1. ASSUME hrReq' = hrReq PROVE Kept(q)
  BY <1>1 DEF Kept, HrTypeOK
<1>2. ASSUME NEW p \in HrReqs, ReadsOf(p), p # q PROVE Kept(q)
  <2>1. hrReq'[q] = hrReq[q]
    BY <1>2, ReadStarts DEF Starts
  <2> QED
    BY <2>1 DEF Kept, HrTypeOK
<1>3. ASSUME NEW p \in HrReqs, EndOf(p) PROVE hrReq'[q].op = "idle" \/ Kept(q)
  BY <1>3, EndOver DEF Over
<1> QED
  BY HrStepCases, WritesKeepRequests, <1>1, <1>2, <1>3 DEF hrVars

(* Every step keeps the tables of the ids.                                 *)
LEMMA RowShapeStep ==
  ASSUME HrTypeOK, RequestRows, [HrNext]_hrVars
  PROVE  RequestRows'
<1> SUFFICES ASSUME NEW q \in HrReqs PROVE RowShape(q)'
  BY DEF RequestRows
<1>1. CASE hrReq'[q].op = "idle"
  BY <1>1 DEF RowShape, OtOps
<1>2. CASE Kept(q)
  <2>1. RowShape(q)
    BY DEF RequestRows
  <2> QED
    BY <1>2, <2>1 DEF RowShape, Kept
<1>3. CASE ReadsOf(q)
  <2>1. ASSUME NEW op \in OtOps, NEW o \in OtRequests,
               NEW override \in {{}} \cup {{h} : h \in Clock}, OtRead(q, op, o, override)
        PROVE  RowShape(q)'
    <3>1. hrReq'[q].op = op /\ hrReq'[q].id = o
      BY <2>1, OtSets DEF Starts
    <3> QED
      BY <3>1 DEF RowShape, OtOps
  <2>2. ASSUME NEW d \in Departments, NEW u \in Departments \cup {NoRow},
               UpdateDepartmentRead(q, d, u) PROVE RowShape(q)'
    <3>1. hrReq'[q].op = "updateDepartment" /\ hrReq'[q].id = d /\ hrReq'[q].arg = u
      BY <2>2, ReadSets DEF Starts
    <3> QED
      BY <3>1 DEF RowShape, OtOps
  <2>3. ASSUME NEW d \in Departments, DeleteDepartmentRead(q, d) PROVE RowShape(q)'
    <3>1. hrReq'[q].op = "deleteDepartment" /\ hrReq'[q].id = d
      BY <2>3, ReadSets DEF Starts
    <3> QED
      BY <3>1 DEF RowShape, OtOps
  <2>4. ASSUME NEW x \in Positions, NEW d \in Departments, UpdatePositionRead(q, x, d)
        PROVE  RowShape(q)'
    <3>1. hrReq'[q].op = "updatePosition" /\ hrReq'[q].id = x /\ hrReq'[q].arg = d
      BY <2>4, ReadSets DEF Starts
    <3> QED
      BY <3>1 DEF RowShape, OtOps
  <2>5. ASSUME NEW x \in Positions, DeletePositionRead(q, x) PROVE RowShape(q)'
    <3>1. hrReq'[q].op = "deletePosition" /\ hrReq'[q].id = x
      BY <2>5, ReadSets DEF Starts
    <3> QED
      BY <3>1 DEF RowShape, OtOps
  <2>6. ASSUME NEW e \in Staff, NEW m \in Staff \cup {NoRow}, SetReportingLineRead(q, e, m)
        PROVE  RowShape(q)'
    <3>1. hrReq'[q].op = "setReportingLine" /\ hrReq'[q].id = e /\ hrReq'[q].arg = m
      BY <2>6, ReadSets DEF Starts
    <3> QED
      BY <3>1 DEF RowShape, OtOps
  <2> QED
    BY <1>3, <2>1, <2>2, <2>3, <2>4, <2>5, <2>6 DEF ReadsOf
<1> QED
  BY HrRequestSteps, <1>1, <1>2, <1>3

-----------------------------------------------------------------------------
(* The rows that an overlapping move taints are those of the open moves.   *)
LEMMA OverlapSets ==
  ASSUME NEW op, NEW x
  PROVE  /\ \A q \in HrReqs : hrReq[q].op = op =>
              hrReq[q].id \in Overlapping(op, x) /\ x \in Overlapping(op, x)
         /\ \A y \in Overlapping(op, x) :
              y = x \/ \E q \in HrReqs : hrReq[q].op = op /\ hrReq[q].id = y
<1> DEFINE others == {hrReq[q].id : q \in {r \in HrReqs : hrReq[r].op = op}}
<1>1. Overlapping(op, x) = IF others = {} THEN {} ELSE others \cup {x}
  BY DEF Overlapping
<1>2. /\ \A q \in HrReqs : hrReq[q].op = op => hrReq[q].id \in others
      /\ \A y \in others : \E q \in HrReqs : hrReq[q].op = op /\ hrReq[q].id = y
  OBVIOUS
<1> HIDE DEF others
<1> QED
  BY <1>1, <1>2

(* A row that is placed and not loose afterwards was placed under a        *)
(* checked row that nobody is deleting.                                    *)
LEMMA PlacedSets ==
  ASSUME NEW x \in Departments \cup Positions \cup Staff, NEW y, NEW unchecked, NEW deleting,
         Placed(x, y, unchecked, deleting), loose \subseteq Departments \cup Positions \cup Staff
  PROVE  /\ loose' \subseteq Departments \cup Positions \cup Staff
         /\ loose' \ {x} = loose \ {x}
         /\ x \notin loose' => y = NoRow \/ (~ unchecked /\ ~ deleting)
  BY DEF Placed

(* Every step keeps the types.                                             *)
LEMMA HrTypeStep == HrTypeOK /\ RequestRows /\ [HrNext]_hrVars => HrTypeOK'
<1> SUFFICES ASSUME HrTypeOK, RequestRows, [HrNext]_hrVars PROVE HrTypeOK'
  OBVIOUS
<1>1. CASE UNCHANGED hrVars
  BY <1>1 DEF hrVars, HrTypeOK
<1>2. ASSUME NEW d \in Departments, NEW u \in Departments \cup {NoRow}, createDepartment(d, u)
      PROVE  HrTypeOK'
  <2>1. loose' \subseteq Departments \cup Positions \cup Staff
    BY <1>2, PlacedSets DEF createDepartment, HrTypeOK
  <2>2. dept' \in [Departments -> [state : RowState, parent : Departments \cup {NoRow}]]
    BY <1>2 DEF createDepartment, HrTypeOK, RowState
  <2> QED
    BY <1>2, <2>1, <2>2 DEF createDepartment, HrTypeOK, Op
<1>3. ASSUME NEW x \in Positions, NEW d \in Departments, createPosition(x, d) PROVE HrTypeOK'
  <2>1. loose' \subseteq Departments \cup Positions \cup Staff
    BY <1>3, PlacedSets DEF createPosition, HrTypeOK
  <2>2. pos' \in [Positions -> [state : RowState, dept : Departments \cup {NoRow}]]
    BY <1>3 DEF createPosition, HrTypeOK, RowState
  <2> QED
    BY <1>3, <2>1, <2>2 DEF createPosition, HrTypeOK, Op
<1>4. ASSUME NEW e \in Staff, NEW x \in Positions \cup {NoRow}, setPosition(e, x) PROVE HrTypeOK'
  <2>1. loose' \subseteq Departments \cup Positions \cup Staff
    BY <1>4, PlacedSets DEF setPosition, HrTypeOK
  <2> QED
    BY <1>4, <2>1 DEF setPosition, HrTypeOK, Op
<1>5. ASSUME NEW o \in OtRequests, createOt(o) PROVE HrTypeOK'
  <2>1. ot' \in [OtRequests -> [status : OtStatus, hours : Nat]]
    BY <1>5 DEF createOt, HrTypeOK, OtStatus
  <2> QED
    BY <1>5, <2>1 DEF createOt, HrTypeOK, Op
<1>6. ASSUME NEW e \in Staff, NEW hours \in Clock, import(e, hours) PROVE HrTypeOK'
  BY <1>6 DEF import, HrTypeOK, Op
<1>7. ASSUME NEW p \in HrReqs, ReadsOf(p) PROVE HrTypeOK'
  <2>1. hrReq' \in [HrReqs -> HrRequest]
    BY <1>7, ReadStarts DEF Starts
  <2>2. /\ UNCHANGED <<dept, pos, position, manager, ot, attended, loose>> /\ Op
        /\ racedMoves' \subseteq Departments \cup Staff
        /\ stale' \subseteq OtRequests
    <3>1. ASSUME NEW d \in Departments, NEW u \in Departments \cup {NoRow},
                 UpdateDepartmentRead(p, d, u)
          PROVE  racedMoves' \subseteq Departments \cup Staff
      BY <3>1, OverlapSets DEF UpdateDepartmentRead, HrTypeOK, RequestRows, RowShape
    <3>2. ASSUME NEW e \in Staff, NEW m \in Staff \cup {NoRow}, SetReportingLineRead(p, e, m)
          PROVE  racedMoves' \subseteq Departments \cup Staff
      BY <3>2, OverlapSets DEF SetReportingLineRead, HrTypeOK, RequestRows, RowShape
    <3>3. ASSUME NEW op \in OtOps, NEW o \in OtRequests,
                 NEW override \in {{}} \cup {{h} : h \in Clock}, OtRead(p, op, o, override)
          PROVE  stale' \subseteq OtRequests
      BY <3>3 DEF OtRead, HrTypeOK
    <3>4. racedMoves \subseteq Departments \cup Staff /\ stale \subseteq OtRequests
      BY DEF HrTypeOK
    <3>5. UNCHANGED <<dept, pos, position, manager, ot, attended, loose>> /\ Op
      BY <1>7 DEF ReadsOf, UpdateDepartmentRead, DeleteDepartmentRead, UpdatePositionRead,
         DeletePositionRead, SetReportingLineRead, OtRead
    <3> QED
      BY <1>7, <3>1, <3>2, <3>3, <3>4, <3>5 DEF ReadsOf, UpdateDepartmentRead,
         DeleteDepartmentRead, UpdatePositionRead, DeletePositionRead, SetReportingLineRead, OtRead
  <2> QED
    BY <2>1, <2>2 DEF HrTypeOK, Op
<1>8. ASSUME NEW p \in HrReqs, EndOf(p) PROVE HrTypeOK'
  <2>1. hrReq' \in [HrReqs -> HrRequest]
    BY <1>8, EndOver DEF Over
  <2>2. RowShape(p) /\ hrReq[p] \in HrRequest
    BY DEF RequestRows, HrTypeOK
  <2>3. CASE UpdateDepartmentCommit(p)
    <3>1. hrReq[p].id \in Departments /\ hrReq[p].arg \in Departments \cup {NoRow}
      BY <2>2, <2>3 DEF UpdateDepartmentCommit, RowShape
    <3>2. loose' \subseteq Departments \cup Positions \cup Staff
      BY <2>3, <3>1, PlacedSets DEF UpdateDepartmentCommit, HrTypeOK
    <3>3. dept' \in [Departments -> [state : RowState, parent : Departments \cup {NoRow}]]
      BY <2>3, <3>1 DEF UpdateDepartmentCommit, HrTypeOK
    <3> QED
      BY <2>1, <2>3, <3>2, <3>3 DEF UpdateDepartmentCommit, HrTypeOK
  <2>4. CASE DeleteDepartmentCommit(p)
    <3>1. hrReq[p].id \in Departments
      BY <2>2, <2>4 DEF DeleteDepartmentCommit, RowShape
    <3>2. dept' \in [Departments -> [state : RowState, parent : Departments \cup {NoRow}]]
      BY <2>4, <3>1 DEF DeleteDepartmentCommit, HrTypeOK, RowState
    <3> QED
      BY <2>1, <2>4, <3>2 DEF DeleteDepartmentCommit, HrTypeOK
  <2>5. CASE UpdatePositionCommit(p)
    <3>1. hrReq[p].id \in Positions /\ hrReq[p].arg \in Departments
      BY <2>2, <2>5 DEF UpdatePositionCommit, RowShape
    <3>2. loose' \subseteq Departments \cup Positions \cup Staff
      BY <2>5, <3>1, PlacedSets DEF UpdatePositionCommit, HrTypeOK
    <3>3. pos' \in [Positions -> [state : RowState, dept : Departments \cup {NoRow}]]
      BY <2>5, <3>1 DEF UpdatePositionCommit, HrTypeOK
    <3> QED
      BY <2>1, <2>5, <3>2, <3>3 DEF UpdatePositionCommit, HrTypeOK
  <2>6. CASE DeletePositionCommit(p)
    <3>1. hrReq[p].id \in Positions
      BY <2>2, <2>6 DEF DeletePositionCommit, RowShape
    <3>2. pos' \in [Positions -> [state : RowState, dept : Departments \cup {NoRow}]]
      BY <2>6, <3>1 DEF DeletePositionCommit, HrTypeOK, RowState
    <3> QED
      BY <2>1, <2>6, <3>2 DEF DeletePositionCommit, HrTypeOK
  <2>7. CASE SetReportingLineCommit(p)
    <3>1. hrReq[p].id \in Staff /\ hrReq[p].arg \in Staff \cup {NoRow}
      BY <2>2, <2>7 DEF SetReportingLineCommit, RowShape
    <3> QED
      BY <2>1, <2>7, <3>1 DEF SetReportingLineCommit, HrTypeOK
  <2>8. CASE OtCommit(p)
    <3> DEFINE o == hrReq[p].id
               op == hrReq[p].op
               row == [status |-> OtTo[op],
                       hours |-> IF op = "reconcile" THEN hrReq[p].hours ELSE ot[o].hours]
    <3>1. o \in OtRequests /\ op \in OtOps /\ hrReq[p].hours \in Nat
      BY <2>2, <2>8, OtOpsAre DEF OtCommit, RowShape, HrRequest
    <3>2. row \in [status : OtStatus, hours : Nat]
      BY <3>1 DEF HrTypeOK, OtOps, OtTo, OtStatus
    <3>3. ot' = [ot EXCEPT ![o] = row]
      BY <2>8 DEF OtCommit
    <3> HIDE DEF row
    <3>4. ot' \in [OtRequests -> [status : OtStatus, hours : Nat]]
      BY <3>2, <3>3 DEF HrTypeOK
    <3> QED
      BY <2>1, <2>8, <3>4 DEF OtCommit, HrTypeOK
  <2>9. CASE HrRollback(p)
    BY <2>1, <2>9 DEF HrRollback, HrTypeOK
  <2> QED
    BY <1>8, <2>3, <2>4, <2>5, <2>6, <2>7, <2>8, <2>9 DEF EndOf
<1> QED
  BY HrStepCases, <1>1, <1>2, <1>3, <1>4, <1>5, <1>6, <1>7, <1>8 DEF WritesAtOnce

-----------------------------------------------------------------------------
(* Moving row d under u closes no loop but one through a raced row.        *)
SafeMove(up, Rows, d, u) ==
  \A C \in SUBSET Rows :
    d \in C /\ u \in C /\ (\A x \in C \ {d} : up[x] \in C) => C \cap racedMoves # {}

(* Every open move is safe in the tree as it is now.                       *)
MovesSafe(op, up, Rows) ==
  \A p \in HrReqs : hrReq[p].op = op => SafeMove(up, Rows, hrReq[p].id, hrReq[p].arg)

(* Two moves that are open at once are raced.                              *)
MovesRaced(op) ==
  \A p, q \in HrReqs :
    p # q /\ hrReq[p].op = op /\ hrReq[q].op = op => hrReq[p].id \in racedMoves

(* Every cycle goes through a raced row.                                   *)
NoLoops(up, Rows) == \A C \in SUBSET Rows : Loops(up, C) => C \cap racedMoves # {}

(* The row was created; it may be deleted since.                           *)
Exists(d) == d # NoRow => dept[d].state # "none"

(* No row hangs below, and no move aims at, a department that is not yet   *)
(* created.                                                                *)
ParentsExist ==
  /\ \A d \in Departments : Exists(dept[d].parent)
  /\ \A p \in HrReqs : hrReq[p].op = "updateDepartment" =>
       Exists(hrReq[p].id) /\ Exists(hrReq[p].arg)

(* The part of the invariant that is about cycles.                         *)
Forest ==
  /\ NoLoops(ParentOf, Departments) /\ NoLoops(manager, Staff)
  /\ MovesSafe("updateDepartment", ParentOf, Departments)
  /\ MovesSafe("setReportingLine", manager, Staff)
  /\ MovesRaced("updateDepartment") /\ MovesRaced("setReportingLine")
  /\ ParentsExist

(* A row that was moved in a race stays raced.                             *)
LEMMA RacedMovesGrow == ASSUME [HrNext]_hrVars PROVE racedMoves \subseteq racedMoves'
<1>1. WritesAtOnce => racedMoves' = racedMoves
  BY DEF WritesAtOnce, createDepartment, createPosition, setPosition, createOt, import
<1>2. ASSUME NEW p \in HrReqs, ReadsOf(p) PROVE racedMoves \subseteq racedMoves'
  BY <1>2 DEF ReadsOf, UpdateDepartmentRead, DeleteDepartmentRead, UpdatePositionRead,
     DeletePositionRead, SetReportingLineRead, OtRead
<1>3. ASSUME NEW p \in HrReqs, EndOf(p) PROVE racedMoves' = racedMoves
  BY <1>3 DEF EndOf, UpdateDepartmentCommit, DeleteDepartmentCommit, UpdatePositionCommit,
     DeletePositionCommit, SetReportingLineCommit, OtCommit, HrRollback
<1> QED
  BY HrStepCases, <1>1, <1>2, <1>3 DEF hrVars

(* A request that is open after a step with this operation was open with   *)
(* it before, on the same rows, or the step begins it.                     *)
LEMMA MoveSteps ==
  ASSUME HrTypeOK, [HrNext]_hrVars, NEW q \in HrReqs
  PROVE  /\ hrReq'[q].op = "updateDepartment" => Kept(q) \/
              \E d \in Departments : \E u \in Departments \cup {NoRow} :
                 /\ UpdateDepartmentRead(q, d, u)
                 /\ Starts(q, "updateDepartment", d, u)
         /\ hrReq'[q].op = "setReportingLine" => Kept(q) \/
              \E e \in Staff : \E m \in Staff \cup {NoRow} :
                 /\ SetReportingLineRead(q, e, m)
                 /\ Starts(q, "setReportingLine", e, m)
         /\ hrReq'[q].op = "updatePosition" => Kept(q) \/
              \E x \in Positions : \E d \in Departments :
                 UpdatePositionRead(q, x, d) /\ Starts(q, "updatePosition", x, d)
         /\ hrReq'[q].op = "deleteDepartment" => Kept(q) \/
              \E d \in Departments :
                 DeleteDepartmentRead(q, d) /\ Starts(q, "deleteDepartment", d, NoRow)
         /\ hrReq'[q].op = "deletePosition" => Kept(q) \/
              \E x \in Positions :
                 DeletePositionRead(q, x) /\ Starts(q, "deletePosition", x, NoRow)
         /\ hrReq'[q].op = "reconcile" => Kept(q) \/
              \E o \in OtRequests : \E override \in {{}} \cup {{h} : h \in Clock} :
                 OtRead(q, "reconcile", o, override)
<1>1. ASSUME NEW op \in OtOps, NEW o \in OtRequests,
             NEW override \in {{}} \cup {{h} : h \in Clock}, OtRead(q, op, o, override)
      PROVE  hrReq'[q].op = op
  BY <1>1, OtSets DEF Starts
<1>2. ASSUME hrReq'[q].op # "idle", ~ Kept(q) PROVE ReadsOf(q)
  BY <1>2, HrRequestSteps
<1>3. \A op, id, arg : Starts(q, op, id, arg) => hrReq'[q].op = op
  BY DEF Starts
<1>4. "reconcile" \in OtOps /\ \A op \in OtOps : op \notin {"updateDepartment",
        "deleteDepartment", "updatePosition", "deletePosition", "setReportingLine"}
  BY DEF OtOps
<1> QED
  BY <1>1, <1>2, <1>3, <1>4, ReadSets DEF ReadsOf

(* Every step keeps MovesRaced: a move that begins taints the open ones    *)
(* and itself.                                                             *)
LEMMA MovesRacedStep ==
  ASSUME HrTypeOK, [HrNext]_hrVars, NEW op \in Moves, MovesRaced(op)
  PROVE  MovesRaced(op)'
<1> SUFFICES ASSUME NEW p \in HrReqs, NEW q \in HrReqs, p # q,
                    hrReq'[p].op = op, hrReq'[q].op = op
             PROVE  hrReq'[p].id \in racedMoves'
  BY DEF MovesRaced
<1>1. \A r \in HrReqs : hrReq'[r].op = op =>
        Kept(r) \/ \E x \in Refs : \E arg \in Refs :
           /\ Starts(r, op, x, arg)
           /\ racedMoves' = racedMoves \cup Overlapping(op, x)
  <2>1. op = "updateDepartment" \/ op = "setReportingLine"
    BY DEF Moves
  <2>2. Departments \cup {NoRow} \subseteq Refs /\ Staff \cup {NoRow} \subseteq Refs
    BY DEF Refs
  <2>3. \A r \in HrReqs : \A d \in Departments : \A u \in Departments \cup {NoRow} :
          UpdateDepartmentRead(r, d, u) =>
            racedMoves' = racedMoves \cup Overlapping("updateDepartment", d)
    BY DEF UpdateDepartmentRead
  <2>4. \A r \in HrReqs : \A e \in Staff : \A m \in Staff \cup {NoRow} :
          SetReportingLineRead(r, e, m) =>
            racedMoves' = racedMoves \cup Overlapping("setReportingLine", e)
    BY DEF SetReportingLineRead
  <2> QED
    BY <2>1, <2>2, <2>3, <2>4, MoveSteps
<1>2. CASE Kept(p) /\ Kept(q)
  BY <1>2, RacedMovesGrow DEF Kept, MovesRaced
<1>3. CASE ~ Kept(p)
  <2>1. PICK x \in Refs, arg \in Refs :
          Starts(p, op, x, arg) /\ racedMoves' = racedMoves \cup Overlapping(op, x)
    BY <1>1, <1>3
  <2>2. hrReq[q].op = op /\ hrReq'[p].id = x
    BY <2>1 DEF Starts
  <2> QED
    BY <2>1, <2>2, OverlapSets
<1>4. CASE ~ Kept(q)
  <2>1. PICK x \in Refs, arg \in Refs :
          Starts(q, op, x, arg) /\ racedMoves' = racedMoves \cup Overlapping(op, x)
    BY <1>1, <1>4
  <2>2. hrReq[p].op = op /\ hrReq'[p].id = hrReq[p].id
    BY <2>1 DEF Starts
  <2> QED
    BY <2>1, <2>2, OverlapSets
<1> QED
  BY <1>2, <1>3, <1>4

(* A safe move, once made, leaves no loop.                                 *)
LEMMA MoveUnloops ==
  ASSUME NEW Rows, NEW up, NEW up2, NEW d \in Rows, NEW u, NEW R,
         NoLoops(up, Rows), SafeMove(up, Rows, d, u), racedMoves \subseteq R,
         up2[d] = u, \A x \in Rows \ {d} : up2[x] = up[x],
         NEW C \in SUBSET Rows, Loops(up2, C)
  PROVE  C \cap R # {}
<1>1. CASE d \in C
  <2>1. u \in C /\ \A x \in C \ {d} : up[x] \in C
    BY <1>1 DEF Loops
  <2> QED
    BY <1>1, <2>1 DEF SafeMove
<1>2. CASE d \notin C
  <2>1. Loops(up, C)
    BY <1>2 DEF Loops
  <2> QED
    BY <2>1 DEF NoLoops
<1> QED
  BY <1>1, <1>2

(* A row that is added below another, and that had none below it, closes   *)
(* no loop.                                                                *)
LEMMA AddUnloops ==
  ASSUME NEW Rows, NEW up, NEW up2, NEW c \in Rows, NEW R,
         NoLoops(up, Rows), racedMoves \subseteq R,
         up2[c] # c, \A x \in Rows \ {c} : up2[x] = up[x] /\ up[x] # c,
         NEW C \in SUBSET Rows, Loops(up2, C)
  PROVE  C \cap R # {}
<1> DEFINE D == C \ {c}
<1>1. Loops(up, D)
  <2>1. \A x \in D : up[x] \in D
    BY DEF Loops
  <2>2. D # {}
    BY DEF Loops
  <2> QED
    BY <2>1, <2>2 DEF Loops
<1> QED
  BY <1>1 DEF NoLoops

(* What a step does to the tree of departments, and to reporting lines.    *)
LEMMA TreeSteps ==
  ASSUME HrTypeOK, RequestRows, [HrNext]_hrVars
  PROVE  \/ ParentOf' = ParentOf
         \/ \E c \in Departments : \E u \in Departments \cup {NoRow} :
              /\ createDepartment(c, u)
              /\ ParentOf'[c] = u
              /\ \A x \in Departments \ {c} : ParentOf'[x] = ParentOf[x]
         \/ \E p \in HrReqs :
              /\ UpdateDepartmentCommit(p) /\ hrReq[p].id \in Departments
              /\ ParentOf'[hrReq[p].id] = hrReq[p].arg
              /\ \A x \in Departments \ {hrReq[p].id} : ParentOf'[x] = ParentOf[x]
<1>1. ASSUME dept' = dept
      PROVE  ParentOf' = ParentOf
  BY <1>1 DEF ParentOf
<1>2. ASSUME NEW c \in Departments, NEW u \in Departments \cup {NoRow}, createDepartment(c, u)
      PROVE  ParentOf'[c] = u /\ \A x \in Departments \ {c} : ParentOf'[x] = ParentOf[x]
  BY <1>2 DEF createDepartment, ParentOf, HrTypeOK
<1>3. ASSUME NEW p \in HrReqs, UpdateDepartmentCommit(p)
      PROVE  /\ hrReq[p].id \in Departments
             /\ ParentOf'[hrReq[p].id] = hrReq[p].arg
             /\ \A x \in Departments \ {hrReq[p].id} : ParentOf'[x] = ParentOf[x]
  <2>1. hrReq[p].id \in Departments
    BY <1>3 DEF RequestRows, RowShape, UpdateDepartmentCommit
  <2> QED
    BY <1>3, <2>1 DEF UpdateDepartmentCommit, ParentOf, HrTypeOK
<1>4. ASSUME NEW p \in HrReqs, DeleteDepartmentCommit(p)
      PROVE  ParentOf' = ParentOf
  <2>1. hrReq[p].id \in Departments
    BY <1>4 DEF RequestRows, RowShape, DeleteDepartmentCommit
  <2>2. \A d \in Departments : dept'[d].parent = dept[d].parent
    BY <1>4, <2>1 DEF DeleteDepartmentCommit, HrTypeOK
  <2> QED
    BY <2>2 DEF ParentOf
<1>5. ASSUME WritesAtOnce PROVE dept' = dept \/
        \E d \in Departments : \E u \in Departments \cup {NoRow} : createDepartment(d, u)
  BY <1>5 DEF WritesAtOnce, createPosition, setPosition, createOt, import
<1>6. ASSUME NEW p \in HrReqs, ReadsOf(p) PROVE dept' = dept
  BY <1>6 DEF ReadsOf, UpdateDepartmentRead, DeleteDepartmentRead, UpdatePositionRead,
     DeletePositionRead, SetReportingLineRead, OtRead
<1>7. ASSUME NEW p \in HrReqs, EndOf(p)
      PROVE  dept' = dept \/ UpdateDepartmentCommit(p) \/ DeleteDepartmentCommit(p)
  BY <1>7 DEF EndOf, UpdatePositionCommit, DeletePositionCommit, SetReportingLineCommit, OtCommit,
     HrRollback
<1> HIDE DEF ParentOf
<1> QED
  BY HrStepCases, <1>1, <1>2, <1>3, <1>4, <1>5, <1>6, <1>7 DEF hrVars

(* ... and to reporting lines.                                             *)
LEMMA LineSteps ==
  ASSUME HrTypeOK, RequestRows, [HrNext]_hrVars
  PROVE  \/ manager' = manager
         \/ \E p \in HrReqs :
              /\ SetReportingLineCommit(p) /\ hrReq[p].id \in Staff
              /\ manager'[hrReq[p].id] = hrReq[p].arg
              /\ \A x \in Staff \ {hrReq[p].id} : manager'[x] = manager[x]
<1>1. ASSUME NEW p \in HrReqs, SetReportingLineCommit(p)
      PROVE  /\ hrReq[p].id \in Staff
             /\ manager'[hrReq[p].id] = hrReq[p].arg
             /\ \A x \in Staff \ {hrReq[p].id} : manager'[x] = manager[x]
  <2>1. hrReq[p].id \in Staff
    BY <1>1 DEF RequestRows, RowShape, SetReportingLineCommit
  <2> QED
    BY <1>1, <2>1 DEF SetReportingLineCommit, HrTypeOK
<1>2. WritesAtOnce => manager' = manager
  BY DEF WritesAtOnce, createDepartment, createPosition, setPosition, createOt, import
<1>3. ASSUME NEW p \in HrReqs, ReadsOf(p) PROVE manager' = manager
  BY <1>3 DEF ReadsOf, UpdateDepartmentRead, DeleteDepartmentRead, UpdatePositionRead,
     DeletePositionRead, SetReportingLineRead, OtRead
<1>4. ASSUME NEW p \in HrReqs, EndOf(p) PROVE manager' = manager \/ SetReportingLineCommit(p)
  BY <1>4 DEF EndOf, UpdateDepartmentCommit, DeleteDepartmentCommit, UpdatePositionCommit,
     DeletePositionCommit, OtCommit, HrRollback
<1> QED
  BY HrStepCases, <1>1, <1>2, <1>3, <1>4 DEF hrVars

(* A department that exists goes on existing.                              *)
LEMMA ExistsStays ==
  ASSUME HrTypeOK, RequestRows, [HrNext]_hrVars, NEW d \in Departments \cup {NoRow}, Exists(d)
  PROVE  Exists(d)'
<1> SUFFICES ASSUME d # NoRow, dept[d].state # "none" PROVE dept'[d].state # "none"
  BY DEF Exists
<1>1. ASSUME NEW c \in Departments, NEW u \in Departments \cup {NoRow}, createDepartment(c, u)
      PROVE  dept'[d].state # "none"
  BY <1>1 DEF createDepartment, HrTypeOK
<1>2. ASSUME NEW p \in HrReqs, UpdateDepartmentCommit(p) \/ DeleteDepartmentCommit(p)
      PROVE  dept'[d].state # "none"
  BY <1>2 DEF UpdateDepartmentCommit, DeleteDepartmentCommit, HrTypeOK
<1>3. ASSUME WritesAtOnce PROVE dept' = dept \/
        \E c \in Departments : \E u \in Departments \cup {NoRow} : createDepartment(c, u)
  BY <1>3 DEF WritesAtOnce, createPosition, setPosition, createOt, import
<1>4. ASSUME NEW p \in HrReqs, ReadsOf(p) PROVE dept' = dept
  BY <1>4 DEF ReadsOf, UpdateDepartmentRead, DeleteDepartmentRead, UpdatePositionRead,
     DeletePositionRead, SetReportingLineRead, OtRead
<1>5. ASSUME NEW p \in HrReqs, EndOf(p)
      PROVE  dept' = dept \/ UpdateDepartmentCommit(p) \/ DeleteDepartmentCommit(p)
  BY <1>5 DEF EndOf, UpdatePositionCommit, DeletePositionCommit, SetReportingLineCommit, OtCommit,
     HrRollback
<1> QED
  BY HrStepCases, <1>1, <1>2, <1>3, <1>4, <1>5 DEF hrVars

(* Every step keeps ParentsExist.                                          *)
LEMMA ParentsExistStep ==
  ASSUME HrTypeOK, RequestRows, ParentsExist, [HrNext]_hrVars
  PROVE  ParentsExist'
<1>0. \A d \in Departments : dept[d].parent \in Departments \cup {NoRow}
  BY DEF HrTypeOK
<1>1. ASSUME NEW d \in Departments PROVE Exists(dept[d].parent)'
  <2> SUFFICES \E u \in Departments \cup {NoRow} : dept'[d].parent = u /\ Exists(u)
    <3>1. PICK u \in Departments \cup {NoRow} : dept'[d].parent = u /\ Exists(u)
      OBVIOUS
    <3>2. Exists(u)'
      BY <3>1, ExistsStays
    <3> QED
      BY <3>1, <3>2 DEF Exists
  <2>0. /\ ParentOf[d] = dept[d].parent /\ ParentOf'[d] = dept'[d].parent
        /\ Exists(dept[d].parent)
    BY DEF ParentOf, ParentsExist
  <2>1. CASE dept'[d].parent = dept[d].parent
    BY <1>0, <2>0, <2>1
  <2>2. ASSUME NEW u \in Departments \cup {NoRow}, createDepartment(d, u), dept'[d].parent = u
        PROVE  Exists(u)
    BY <2>2 DEF createDepartment, Exists
  <2>3. ASSUME NEW p \in HrReqs, UpdateDepartmentCommit(p), dept'[d].parent = hrReq[p].arg
        PROVE  Exists(hrReq[p].arg) /\ hrReq[p].arg \in Departments \cup {NoRow}
    BY <2>3 DEF UpdateDepartmentCommit, ParentsExist, RequestRows, RowShape
  <2> QED
    BY TreeSteps, <2>0, <2>1, <2>2, <2>3
<1>2. ASSUME NEW q \in HrReqs, hrReq'[q].op = "updateDepartment"
      PROVE  Exists(hrReq[q].id)' /\ Exists(hrReq[q].arg)'
  <2> SUFFICES \E d \in Departments : \E u \in Departments \cup {NoRow} :
                 hrReq'[q].id = d /\ hrReq'[q].arg = u /\ Exists(d) /\ Exists(u)
    <3>1. PICK d \in Departments, u \in Departments \cup {NoRow} :
            hrReq'[q].id = d /\ hrReq'[q].arg = u /\ Exists(d) /\ Exists(u)
      OBVIOUS
    <3>2. Exists(d)' /\ Exists(u)'
      BY <3>1, ExistsStays
    <3> QED
      BY <3>1, <3>2 DEF Exists
  <2>1. CASE Kept(q)
    BY <1>2, <2>1 DEF Kept, ParentsExist, RequestRows, RowShape
  <2>2. ASSUME NEW d \in Departments, NEW u \in Departments \cup {NoRow},
               UpdateDepartmentRead(q, d, u), Starts(q, "updateDepartment", d, u)
        PROVE  hrReq'[q].id = d /\ hrReq'[q].arg = u /\ Exists(d) /\ Exists(u)
    BY <2>2 DEF UpdateDepartmentRead, Starts, Exists, liveDept
  <2> QED
    BY <1>2, <2>1, <2>2, MoveSteps
<1> QED
  BY <1>1, <1>2 DEF ParentsExist

(* Every step keeps the forest: the walk makes a move safe when it begins, *)
(* and another move that commits meanwhile has raced with it.              *)
LEMMA ForestStep ==
  ASSUME HrTypeOK, RequestRows, Forest, [HrNext]_hrVars
  PROVE  Forest'
<1>0. racedMoves \subseteq racedMoves'
  BY RacedMovesGrow
<1>1. NoLoops(ParentOf, Departments)'
  <2> SUFFICES ASSUME NEW C \in SUBSET Departments, Loops(ParentOf', C)
               PROVE  C \cap racedMoves' # {}
    BY DEF NoLoops, Loops
  <2>1. CASE ParentOf' = ParentOf
    BY <1>0, <2>1 DEF Forest, NoLoops
  <2>2. ASSUME NEW c \in Departments, NEW u \in Departments \cup {NoRow},
               createDepartment(c, u), ParentOf'[c] = u,
               \A x \in Departments \ {c} : ParentOf'[x] = ParentOf[x]
        PROVE  C \cap racedMoves' # {}
    <3>1. u # c /\ \A x \in Departments \ {c} : ParentOf[x] # c
      BY <2>2 DEF createDepartment, Forest, ParentsExist, Exists, ParentOf
    <3>2. NoLoops(ParentOf, Departments)
      BY DEF Forest
    <3>3. \A x \in Departments \ {c} : ParentOf'[x] = ParentOf[x] /\ ParentOf[x] # c
      BY <2>2, <3>1
    <3>4. ParentOf'[c] # c
      BY <2>2, <3>1
    <3> QED
      BY <1>0, <3>2, <3>3, <3>4, AddUnloops
  <2>3. ASSUME NEW p \in HrReqs, UpdateDepartmentCommit(p), hrReq[p].id \in Departments,
               ParentOf'[hrReq[p].id] = hrReq[p].arg,
               \A x \in Departments \ {hrReq[p].id} : ParentOf'[x] = ParentOf[x]
        PROVE  C \cap racedMoves' # {}
    <3>1. /\ NoLoops(ParentOf, Departments)
          /\ SafeMove(ParentOf, Departments, hrReq[p].id, hrReq[p].arg)
      BY <2>3 DEF Forest, MovesSafe, UpdateDepartmentCommit
    <3> DEFINE d == hrReq[p].id
               u == hrReq[p].arg
               up2 == ParentOf'
    <3>2. d \in Departments /\ up2[d] = u /\ \A x \in Departments \ {d} : up2[x] = ParentOf[x]
      BY <2>3
    <3>3. SafeMove(ParentOf, Departments, d, u) /\ Loops(up2, C)
      BY <3>1
    <3> HIDE DEF d, u, up2
    <3> QED
      BY <1>0, <3>1, <3>2, <3>3, MoveUnloops
  <2> QED
    BY TreeSteps, <2>1, <2>2, <2>3
<1>2. NoLoops(manager, Staff)'
  <2> SUFFICES ASSUME NEW C \in SUBSET Staff, Loops(manager', C)
               PROVE  C \cap racedMoves' # {}
    BY DEF NoLoops, Loops
  <2>1. CASE manager' = manager
    BY <1>0, <2>1 DEF Forest, NoLoops
  <2>2. ASSUME NEW p \in HrReqs, SetReportingLineCommit(p), hrReq[p].id \in Staff,
               manager'[hrReq[p].id] = hrReq[p].arg,
               \A x \in Staff \ {hrReq[p].id} : manager'[x] = manager[x]
        PROVE  C \cap racedMoves' # {}
    <3>1. /\ NoLoops(manager, Staff)
          /\ SafeMove(manager, Staff, hrReq[p].id, hrReq[p].arg)
      BY <2>2 DEF Forest, MovesSafe, SetReportingLineCommit
    <3> DEFINE d == hrReq[p].id
               u == hrReq[p].arg
               up2 == manager'
    <3>2. d \in Staff /\ up2[d] = u /\ \A x \in Staff \ {d} : up2[x] = manager[x]
      BY <2>2
    <3>3. SafeMove(manager, Staff, d, u) /\ Loops(up2, C)
      BY <3>1
    <3> HIDE DEF d, u, up2
    <3> QED
      BY <1>0, <3>1, <3>2, <3>3, MoveUnloops
  <2> QED
    BY LineSteps, <2>1, <2>2
<1>3. MovesSafe("updateDepartment", ParentOf, Departments)'
  <2> SUFFICES ASSUME NEW q \in HrReqs, hrReq'[q].op = "updateDepartment",
                      NEW C \in SUBSET Departments, hrReq'[q].id \in C, hrReq'[q].arg \in C,
                      \A x \in C \ {hrReq'[q].id} : ParentOf'[x] \in C
               PROVE  C \cap racedMoves' # {}
    BY DEF MovesSafe, SafeMove
  <2>1. CASE Kept(q)
    <3>1. hrReq[q].op = "updateDepartment" /\ hrReq'[q].id = hrReq[q].id
          /\ hrReq'[q].arg = hrReq[q].arg
      BY <2>1 DEF Kept
    <3>2. SafeMove(ParentOf, Departments, hrReq[q].id, hrReq[q].arg)
      BY <3>1 DEF Forest, MovesSafe
    <3>3. CASE ParentOf' = ParentOf
      BY <1>0, <3>1, <3>2, <3>3 DEF SafeMove
    <3>4. ASSUME NEW c \in Departments, NEW u \in Departments \cup {NoRow},
                 createDepartment(c, u),
                 \A x \in Departments \ {c} : ParentOf'[x] = ParentOf[x]
          PROVE  C \cap racedMoves' # {}
      <4>1. /\ hrReq[q].id # c /\ hrReq[q].arg # c
            /\ \A x \in Departments \ {c} : ParentOf[x] # c
        BY <3>1, <3>4 DEF createDepartment, Forest, ParentsExist, Exists, ParentOf
      <4>2. \A x \in Departments \ {c} : ParentOf'[x] = ParentOf[x] /\ ParentOf[x] # c
        BY <3>4, <4>1
      <4> DEFINE D == C \ {c}
      <4>3. /\ D \in SUBSET Departments /\ hrReq[q].id \in D /\ hrReq[q].arg \in D
            /\ \A x \in D \ {hrReq[q].id} : ParentOf[x] \in D
        BY <3>1, <4>1, <4>2
      <4>4. D \cap racedMoves # {}
        BY <3>2, <4>3 DEF SafeMove
      <4> QED
        BY <1>0, <4>4
    <3>5. ASSUME NEW p \in HrReqs, UpdateDepartmentCommit(p) PROVE C \cap racedMoves' # {}
      <4>1. Over(p) /\ hrReq[p].op = "updateDepartment"
        BY <3>5, EndOver DEF EndOf, UpdateDepartmentCommit
      <4>2. p # q
        BY <4>1 DEF Over
      <4>3. hrReq[q].id \in racedMoves
        BY <3>1, <4>1, <4>2 DEF Forest, MovesRaced
      <4> QED
        BY <1>0, <3>1, <4>3
    <3> QED
      BY TreeSteps, <3>3, <3>4, <3>5
  <2>2. ASSUME NEW d \in Departments, NEW u \in Departments \cup {NoRow},
               UpdateDepartmentRead(q, d, u), Starts(q, "updateDepartment", d, u)
        PROVE  FALSE
    <3>1. hrReq'[q].id = d /\ hrReq'[q].arg = u /\ ParentOf' = ParentOf
      BY <2>2 DEF Starts, UpdateDepartmentRead, ParentOf
    <3>2. u \in C /\ NoRow \notin C /\ \A x \in C \ {d} : ParentOf[x] \in C
      BY <3>1
    <3>3. assertNoCycle(ParentOf, d, u)
      BY <2>2, <3>2 DEF UpdateDepartmentRead
    <3> QED
      BY <3>2, <3>3, WalkStays
  <2> QED
    BY MoveSteps, <2>1, <2>2
<1>4. MovesSafe("setReportingLine", manager, Staff)'
  <2> SUFFICES ASSUME NEW q \in HrReqs, hrReq'[q].op = "setReportingLine",
                      NEW C \in SUBSET Staff, hrReq'[q].id \in C, hrReq'[q].arg \in C,
                      \A x \in C \ {hrReq'[q].id} : manager'[x] \in C
               PROVE  C \cap racedMoves' # {}
    BY DEF MovesSafe, SafeMove
  <2>1. CASE Kept(q)
    <3>1. hrReq[q].op = "setReportingLine" /\ hrReq'[q].id = hrReq[q].id
          /\ hrReq'[q].arg = hrReq[q].arg
      BY <2>1 DEF Kept
    <3>2. SafeMove(manager, Staff, hrReq[q].id, hrReq[q].arg)
      BY <3>1 DEF Forest, MovesSafe
    <3>3. CASE manager' = manager
      BY <1>0, <3>1, <3>2, <3>3 DEF SafeMove
    <3>4. ASSUME NEW p \in HrReqs, SetReportingLineCommit(p) PROVE C \cap racedMoves' # {}
      <4>1. Over(p) /\ hrReq[p].op = "setReportingLine"
        BY <3>4, EndOver DEF EndOf, SetReportingLineCommit
      <4>2. p # q
        BY <4>1 DEF Over
      <4>3. hrReq[q].id \in racedMoves
        BY <3>1, <4>1, <4>2 DEF Forest, MovesRaced
      <4> QED
        BY <1>0, <3>1, <4>3
    <3> QED
      BY LineSteps, <3>3, <3>4
  <2>2. ASSUME NEW e \in Staff, NEW m \in Staff \cup {NoRow},
               SetReportingLineRead(q, e, m), Starts(q, "setReportingLine", e, m)
        PROVE  FALSE
    <3>1. hrReq'[q].id = e /\ hrReq'[q].arg = m /\ manager' = manager
      BY <2>2 DEF Starts, SetReportingLineRead
    <3>2. m \in C /\ NoRow \notin C /\ \A x \in C \ {e} : manager[x] \in C
      BY <3>1
    <3>3. assertNoCycle(manager, e, m)
      BY <2>2, <3>2 DEF SetReportingLineRead
    <3> QED
      BY <3>2, <3>3, WalkStays
  <2> QED
    BY MoveSteps, <2>1, <2>2
<1>5. MovesRaced("updateDepartment")' /\ MovesRaced("setReportingLine")'
  BY MovesRacedStep DEF Forest, Moves
<1>6. ParentsExist'
  BY ParentsExistStep DEF Forest
<1> QED
  BY <1>1, <1>2, <1>3, <1>4, <1>5, <1>6 DEF Forest

-----------------------------------------------------------------------------
(* The target of a move that no delete has overtaken is live.              *)
TargetsLive ==
  \A p \in HrReqs :
    hrReq[p].op \in {"updateDepartment", "updatePosition"} /\ hrReq[p].arg # NoRow
      /\ ~ hrReq[p].raced => liveDept(hrReq[p].arg)

(* A row that is being deleted is empty, but for rows placed meanwhile.    *)
DeletesSafe ==
  \A p \in HrReqs :
    /\ hrReq[p].op = "deleteDepartment" =>
         childrenOf(hrReq[p].id) \subseteq loose /\ positionsOf(hrReq[p].id) \subseteq loose
    /\ hrReq[p].op = "deletePosition" => \A e \in Staff \ loose : position[e] # hrReq[p].id

(* The steps that change rows of the organisation or what counts as loose. *)
OrgQuiet == UNCHANGED <<dept, pos, position, loose>>

(* A step leaves the organisation alone, or is one of these.               *)
LEMMA OrgSteps ==
  ASSUME [HrNext]_hrVars
  PROVE  \/ OrgQuiet
         \/ \E d \in Departments : \E u \in Departments \cup {NoRow} : createDepartment(d, u)
         \/ \E x \in Positions : \E d \in Departments : createPosition(x, d)
         \/ \E e \in Staff : \E x \in Positions \cup {NoRow} : setPosition(e, x)
         \/ \E p \in HrReqs : \/ UpdateDepartmentCommit(p) \/ DeleteDepartmentCommit(p)
                              \/ UpdatePositionCommit(p) \/ DeletePositionCommit(p)
<1>1. ASSUME NEW p \in HrReqs, ReadsOf(p) PROVE OrgQuiet
  BY <1>1 DEF OrgQuiet, ReadsOf, UpdateDepartmentRead, DeleteDepartmentRead, UpdatePositionRead,
     DeletePositionRead, SetReportingLineRead, OtRead
<1>2. ASSUME NEW p \in HrReqs, SetReportingLineCommit(p) \/ OtCommit(p) \/ HrRollback(p)
      PROVE  OrgQuiet
  BY <1>2 DEF OrgQuiet, SetReportingLineCommit, OtCommit, HrRollback
<1>3. ASSUME NEW o \in OtRequests, createOt(o) PROVE OrgQuiet
  BY <1>3 DEF OrgQuiet, createOt
<1>4. ASSUME NEW e \in Staff, NEW hours \in Clock, import(e, hours) PROVE OrgQuiet
  BY <1>4 DEF OrgQuiet, import
<1>5. UNCHANGED hrVars => OrgQuiet
  BY DEF OrgQuiet, hrVars
<1> QED
  BY HrStepCases, <1>1, <1>2, <1>3, <1>4, <1>5 DEF WritesAtOnce, EndOf

(* Whatever a step does, it leaves each row as it was, or it is the step   *)
(* that writes that row.                                                   *)
LEMMA DeptRow ==
  ASSUME HrTypeOK, RequestRows, [HrNext]_hrVars, NEW d \in Departments
  PROVE  \/ dept'[d] = dept[d] /\ (d \in loose' <=> d \in loose)
         \/ \E u \in Departments \cup {NoRow} : createDepartment(d, u)
         \/ \E p \in HrReqs : UpdateDepartmentCommit(p) /\ hrReq[p].id = d
         \/ \E p \in HrReqs : DeleteDepartmentCommit(p) /\ hrReq[p].id = d
<1> DEFINE Same == dept'[d] = dept[d] /\ (d \in loose' <=> d \in loose)
<1>0. loose \subseteq Departments \cup Positions \cup Staff
  BY DEF HrTypeOK
<1>1. ASSUME NEW c \in Departments, NEW u \in Departments \cup {NoRow}, createDepartment(c, u),
             c # d
      PROVE  Same
  <2>1. loose' \ {c} = loose \ {c}
    BY <1>0, <1>1, PlacedSets DEF createDepartment
  <2> QED
    BY <1>1, <2>1 DEF createDepartment, HrTypeOK
<1>2. ASSUME NEW x \in Positions, NEW c \in Departments, createPosition(x, c) PROVE Same
  <2>1. loose' \ {x} = loose \ {x} /\ dept' = dept
    BY <1>0, <1>2, PlacedSets DEF createPosition
  <2> QED
    BY <2>1
<1>3. ASSUME NEW e \in Staff, NEW x \in Positions \cup {NoRow}, setPosition(e, x) PROVE Same
  <2>1. loose' \ {e} = loose \ {e} /\ dept' = dept
    BY <1>0, <1>3, PlacedSets DEF setPosition
  <2> QED
    BY <2>1
<1>4. ASSUME NEW p \in HrReqs, UpdateDepartmentCommit(p), hrReq[p].id # d PROVE Same
  <2>1. hrReq[p].id \in Departments
    BY <1>4 DEF UpdateDepartmentCommit, RequestRows, RowShape
  <2>2. loose' \ {hrReq[p].id} = loose \ {hrReq[p].id}
    BY <1>0, <1>4, <2>1, PlacedSets DEF UpdateDepartmentCommit
  <2> QED
    BY <1>4, <2>2 DEF UpdateDepartmentCommit, HrTypeOK
<1>5. ASSUME NEW p \in HrReqs, UpdatePositionCommit(p) PROVE Same
  <2>1. hrReq[p].id \in Positions
    BY <1>5 DEF UpdatePositionCommit, RequestRows, RowShape
  <2>2. loose' \ {hrReq[p].id} = loose \ {hrReq[p].id} /\ dept' = dept
    BY <1>0, <1>5, <2>1, PlacedSets DEF UpdatePositionCommit
  <2> QED
    BY <2>1, <2>2
<1>6. ASSUME NEW p \in HrReqs, DeleteDepartmentCommit(p), hrReq[p].id # d PROVE Same
  BY <1>6 DEF DeleteDepartmentCommit, HrTypeOK
<1>7. ASSUME NEW p \in HrReqs, DeletePositionCommit(p) PROVE Same
  BY <1>7 DEF DeletePositionCommit
<1>8. OrgQuiet => Same
  BY DEF OrgQuiet
<1> HIDE DEF Same
<1>9. \/ Same
      \/ \E u \in Departments \cup {NoRow} : createDepartment(d, u)
      \/ \E p \in HrReqs : UpdateDepartmentCommit(p) /\ hrReq[p].id = d
      \/ \E p \in HrReqs : DeleteDepartmentCommit(p) /\ hrReq[p].id = d
  BY OrgSteps, <1>1, <1>2, <1>3, <1>4, <1>5, <1>6, <1>7, <1>8
<1> QED
  BY <1>9 DEF Same

(* ... the same of a position.                                             *)
LEMMA PosRow ==
  ASSUME HrTypeOK, RequestRows, [HrNext]_hrVars, NEW x \in Positions
  PROVE  \/ pos'[x] = pos[x] /\ (x \in loose' <=> x \in loose)
         \/ \E d \in Departments : createPosition(x, d)
         \/ \E p \in HrReqs : UpdatePositionCommit(p) /\ hrReq[p].id = x
         \/ \E p \in HrReqs : DeletePositionCommit(p) /\ hrReq[p].id = x
<1> DEFINE Same == pos'[x] = pos[x] /\ (x \in loose' <=> x \in loose)
<1>0. loose \subseteq Departments \cup Positions \cup Staff
  BY DEF HrTypeOK
<1>1. ASSUME NEW c \in Departments, NEW u \in Departments \cup {NoRow}, createDepartment(c, u)
      PROVE  Same
  <2>1. loose' \ {c} = loose \ {c} /\ pos' = pos
    BY <1>0, <1>1, PlacedSets DEF createDepartment
  <2> QED
    BY <2>1
<1>2. ASSUME NEW y \in Positions, NEW c \in Departments, createPosition(y, c), y # x PROVE Same
  <2>1. loose' \ {y} = loose \ {y}
    BY <1>0, <1>2, PlacedSets DEF createPosition
  <2> QED
    BY <1>2, <2>1 DEF createPosition, HrTypeOK
<1>3. ASSUME NEW e \in Staff, NEW y \in Positions \cup {NoRow}, setPosition(e, y) PROVE Same
  <2>1. loose' \ {e} = loose \ {e} /\ pos' = pos
    BY <1>0, <1>3, PlacedSets DEF setPosition
  <2> QED
    BY <2>1
<1>4. ASSUME NEW p \in HrReqs, UpdateDepartmentCommit(p) PROVE Same
  <2>1. hrReq[p].id \in Departments
    BY <1>4 DEF UpdateDepartmentCommit, RequestRows, RowShape
  <2>2. loose' \ {hrReq[p].id} = loose \ {hrReq[p].id} /\ pos' = pos
    BY <1>0, <1>4, <2>1, PlacedSets DEF UpdateDepartmentCommit
  <2> QED
    BY <2>1, <2>2
<1>5. ASSUME NEW p \in HrReqs, UpdatePositionCommit(p), hrReq[p].id # x PROVE Same
  <2>1. hrReq[p].id \in Positions
    BY <1>5 DEF UpdatePositionCommit, RequestRows, RowShape
  <2>2. loose' \ {hrReq[p].id} = loose \ {hrReq[p].id}
    BY <1>0, <1>5, <2>1, PlacedSets DEF UpdatePositionCommit
  <2> QED
    BY <1>5, <2>2 DEF UpdatePositionCommit, HrTypeOK
<1>6. ASSUME NEW p \in HrReqs, DeleteDepartmentCommit(p) PROVE Same
  BY <1>6 DEF DeleteDepartmentCommit
<1>7. ASSUME NEW p \in HrReqs, DeletePositionCommit(p), hrReq[p].id # x PROVE Same
  BY <1>7 DEF DeletePositionCommit, HrTypeOK
<1>8. OrgQuiet => Same
  BY DEF OrgQuiet
<1> HIDE DEF Same
<1>9. \/ Same
      \/ \E d \in Departments : createPosition(x, d)
      \/ \E p \in HrReqs : UpdatePositionCommit(p) /\ hrReq[p].id = x
      \/ \E p \in HrReqs : DeletePositionCommit(p) /\ hrReq[p].id = x
  BY OrgSteps, <1>1, <1>2, <1>3, <1>4, <1>5, <1>6, <1>7, <1>8
<1> QED
  BY <1>9 DEF Same

(* ... the same of an employee.                                            *)
LEMMA StaffRow ==
  ASSUME HrTypeOK, RequestRows, [HrNext]_hrVars, NEW e \in Staff
  PROVE  \/ position'[e] = position[e] /\ (e \in loose' <=> e \in loose)
         \/ \E x \in Positions \cup {NoRow} : setPosition(e, x)
<1> DEFINE Same == position'[e] = position[e] /\ (e \in loose' <=> e \in loose)
<1>0. loose \subseteq Departments \cup Positions \cup Staff
  BY DEF HrTypeOK
<1>1. ASSUME NEW c \in Departments, NEW u \in Departments \cup {NoRow}, createDepartment(c, u)
      PROVE  Same
  <2>1. loose' \ {c} = loose \ {c} /\ position' = position
    BY <1>0, <1>1, PlacedSets DEF createDepartment
  <2> QED
    BY <2>1
<1>2. ASSUME NEW y \in Positions, NEW c \in Departments, createPosition(y, c) PROVE Same
  <2>1. loose' \ {y} = loose \ {y} /\ position' = position
    BY <1>0, <1>2, PlacedSets DEF createPosition
  <2> QED
    BY <2>1
<1>3. ASSUME NEW f \in Staff, NEW y \in Positions \cup {NoRow}, setPosition(f, y), f # e
      PROVE  Same
  <2>1. loose' \ {f} = loose \ {f}
    BY <1>0, <1>3, PlacedSets DEF setPosition
  <2> QED
    BY <1>3, <2>1 DEF setPosition, HrTypeOK
<1>4. ASSUME NEW p \in HrReqs, UpdateDepartmentCommit(p) \/ UpdatePositionCommit(p) PROVE Same
  <2>1. hrReq[p].id \in Departments \cup Positions
    BY <1>4 DEF UpdateDepartmentCommit, UpdatePositionCommit, RequestRows, RowShape
  <2>2. loose' \ {hrReq[p].id} = loose \ {hrReq[p].id} /\ position' = position
    BY <1>0, <1>4, <2>1, PlacedSets DEF UpdateDepartmentCommit, UpdatePositionCommit
  <2> QED
    BY <2>1, <2>2
<1>5. ASSUME NEW p \in HrReqs, DeleteDepartmentCommit(p) \/ DeletePositionCommit(p) PROVE Same
  BY <1>5 DEF DeleteDepartmentCommit, DeletePositionCommit
<1>6. OrgQuiet => Same
  BY DEF OrgQuiet
<1> HIDE DEF Same
<1>7. Same \/ \E x \in Positions \cup {NoRow} : setPosition(e, x)
  BY OrgSteps, <1>1, <1>2, <1>3, <1>4, <1>5, <1>6
<1> QED
  BY <1>7 DEF Same

(* A live row stays live unless a delete of it commits.                    *)
LEMMA LiveDeptStays ==
  ASSUME HrTypeOK, RequestRows, [HrNext]_hrVars, NEW d, liveDept(d),
         \A p \in HrReqs : ~ (DeleteDepartmentCommit(p) /\ hrReq[p].id = d)
  PROVE  liveDept(d)'
<1>1. d \in Departments /\ dept[d].state = "live"
  BY DEF liveDept
<1>2. ASSUME NEW u \in Departments \cup {NoRow}, createDepartment(d, u) PROVE FALSE
  BY <1>1, <1>2 DEF createDepartment
<1>3. ASSUME NEW p \in HrReqs, UpdateDepartmentCommit(p), hrReq[p].id = d
      PROVE  dept'[d].state = "live"
  BY <1>1, <1>3 DEF UpdateDepartmentCommit, HrTypeOK
<1> QED
  BY <1>1, <1>2, <1>3, DeptRow DEF liveDept

(* ... the same of a position.                                             *)
LEMMA LivePosStays ==
  ASSUME HrTypeOK, RequestRows, [HrNext]_hrVars, NEW x, livePos(x),
         \A p \in HrReqs : ~ (DeletePositionCommit(p) /\ hrReq[p].id = x)
  PROVE  livePos(x)'
<1>1. x \in Positions /\ pos[x].state = "live"
  BY DEF livePos
<1>2. ASSUME NEW d \in Departments, createPosition(x, d) PROVE FALSE
  BY <1>1, <1>2 DEF createPosition
<1>3. ASSUME NEW p \in HrReqs, UpdatePositionCommit(p), hrReq[p].id = x
      PROVE  pos'[x].state = "live"
  BY <1>1, <1>3 DEF UpdatePositionCommit, HrTypeOK
<1> QED
  BY <1>1, <1>2, <1>3, PosRow DEF livePos

(* Every step keeps the targets live: a delete that commits marks the      *)
(* moves that aim at its row.                                              *)
LEMMA TargetsLiveStep ==
  ASSUME HrTypeOK, RequestRows, TargetsLive, [HrNext]_hrVars
  PROVE  TargetsLive'
<1> SUFFICES ASSUME NEW q \in HrReqs, hrReq'[q].op \in {"updateDepartment", "updatePosition"},
                    hrReq'[q].arg # NoRow, ~ hrReq'[q].raced
             PROVE  liveDept(hrReq[q].arg)'
  BY DEF TargetsLive
<1> SUFFICES \E d : hrReq'[q].arg = d /\ liveDept(d) /\
               \A p \in HrReqs : ~ (DeleteDepartmentCommit(p) /\ hrReq[p].id = d)
  <2>1. PICK d : hrReq'[q].arg = d /\ liveDept(d) /\
               \A p \in HrReqs : ~ (DeleteDepartmentCommit(p) /\ hrReq[p].id = d)
    OBVIOUS
  <2>2. liveDept(d)'
    BY <2>1, LiveDeptStays
  <2> QED
    BY <2>1, <2>2 DEF liveDept
<1>1. CASE Kept(q)
  <2>1. hrReq'[q].arg = hrReq[q].arg /\ liveDept(hrReq[q].arg)
    BY <1>1 DEF Kept, TargetsLive
  <2>2. ASSUME NEW p \in HrReqs, DeleteDepartmentCommit(p), hrReq[p].id = hrReq[q].arg
        PROVE  FALSE
    <3>1. /\ hrReq'[p].op = "idle"
          /\ \A r \in HrReqs \ {p} : hrReq[r].arg = hrReq[p].id => hrReq'[r].raced
      BY <2>2, EndDeleteSets DEF DeleteDepartmentCommit, Over
    <3>2. p # q
      BY <3>1
    <3> QED
      BY <2>2, <3>1, <3>2
  <2> QED
    BY <2>1, <2>2
<1>2. ASSUME NEW d \in Departments, NEW u \in Departments \cup {NoRow},
             UpdateDepartmentRead(q, d, u), Starts(q, "updateDepartment", d, u)
      PROVE  /\ hrReq'[q].arg = u /\ liveDept(u)
             /\ \A p \in HrReqs : ~ (DeleteDepartmentCommit(p) /\ hrReq[p].id = u)
  <2>1. hrReq'[q].arg = u /\ liveDept(u) /\ dept' = dept
    BY <1>2 DEF UpdateDepartmentRead, Starts
  <2> QED
    BY <2>1 DEF DeleteDepartmentCommit, HrTypeOK, liveDept
<1>3. ASSUME NEW x \in Positions, NEW d \in Departments,
             UpdatePositionRead(q, x, d), Starts(q, "updatePosition", x, d)
      PROVE  /\ hrReq'[q].arg = d /\ liveDept(d)
             /\ \A p \in HrReqs : ~ (DeleteDepartmentCommit(p) /\ hrReq[p].id = d)
  <2>1. hrReq'[q].arg = d /\ liveDept(d) /\ dept' = dept
    BY <1>3 DEF UpdatePositionRead, Starts
  <2> QED
    BY <2>1 DEF DeleteDepartmentCommit, HrTypeOK, liveDept
<1> QED
  BY MoveSteps, <1>1, <1>2, <1>3

(* A row that was placed and is not loose has a live target.               *)
LEMMA PlacedLive ==
  ASSUME HrTypeOK, RequestRows, TargetsLive, [HrNext]_hrVars
  PROVE  /\ \A d \in Departments \ loose' : \A u \in Departments \cup {NoRow} :
              createDepartment(d, u) => dept'[d].parent = u /\ (u # NoRow => liveDept(u)')
         /\ \A p \in HrReqs : UpdateDepartmentCommit(p) /\ hrReq[p].id \notin loose' =>
              /\ dept'[hrReq[p].id].parent = hrReq[p].arg
              /\ hrReq[p].arg # NoRow => \E u \in Departments : hrReq[p].arg = u /\ liveDept(u)'
         /\ \A x \in Positions \ loose' : \A d \in Departments :
              createPosition(x, d) => pos'[x].dept = d /\ liveDept(d)'
         /\ \A p \in HrReqs : UpdatePositionCommit(p) /\ hrReq[p].id \notin loose' =>
              /\ pos'[hrReq[p].id].dept = hrReq[p].arg
              /\ \E d \in Departments : hrReq[p].arg = d /\ liveDept(d)'
         /\ \A e \in Staff \ loose' : \A x \in Positions \cup {NoRow} :
              setPosition(e, x) => position'[e] = x /\ (x # NoRow => livePos(x)')
<1>0. loose \subseteq Departments \cup Positions \cup Staff
  BY DEF HrTypeOK
<1>1. ASSUME NEW d, liveDept(d), ~ Open("deleteDepartment", d) PROVE liveDept(d)'
  BY <1>1, LiveDeptStays DEF Open, DeleteDepartmentCommit
<1>2. ASSUME NEW x, livePos(x), ~ Open("deletePosition", x) PROVE livePos(x)'
  BY <1>2, LivePosStays DEF Open, DeletePositionCommit
<1>3. ASSUME NEW d \in Departments \ loose', NEW u \in Departments \cup {NoRow},
             createDepartment(d, u)
      PROVE  dept'[d].parent = u /\ (u # NoRow => liveDept(u)')
  <2>1. u = NoRow \/ (liveDept(u) /\ ~ Open("deleteDepartment", u))
    BY <1>0, <1>3, PlacedSets DEF createDepartment
  <2>2. dept'[d].parent = u
    BY <1>3 DEF createDepartment, HrTypeOK
  <2> QED
    BY <1>1, <2>1, <2>2
<1>4. ASSUME NEW p \in HrReqs, UpdateDepartmentCommit(p), hrReq[p].id \notin loose'
      PROVE  /\ dept'[hrReq[p].id].parent = hrReq[p].arg
             /\ hrReq[p].arg # NoRow => \E u \in Departments : hrReq[p].arg = u /\ liveDept(u)'
  <2>1. /\ hrReq[p].id \in Departments /\ hrReq[p].arg \in Departments \cup {NoRow}
        /\ hrReq[p].op = "updateDepartment"
    BY <1>4 DEF UpdateDepartmentCommit, RequestRows, RowShape
  <2>2. hrReq[p].arg = NoRow \/ (~ hrReq[p].raced /\ ~ Open("deleteDepartment", hrReq[p].arg))
    BY <1>0, <1>4, <2>1, PlacedSets DEF UpdateDepartmentCommit
  <2>3. hrReq[p].arg # NoRow => liveDept(hrReq[p].arg)
    BY <2>1, <2>2 DEF TargetsLive
  <2>4. dept'[hrReq[p].id].parent = hrReq[p].arg
    BY <1>4, <2>1 DEF UpdateDepartmentCommit, HrTypeOK
  <2> QED
    BY <1>1, <2>1, <2>2, <2>3, <2>4
<1>5. ASSUME NEW x \in Positions \ loose', NEW d \in Departments, createPosition(x, d)
      PROVE  pos'[x].dept = d /\ liveDept(d)'
  <2>1. liveDept(d) /\ ~ Open("deleteDepartment", d)
    <3>1. Placed(x, d, ~ liveDept(d), Open("deleteDepartment", d)) /\ x \notin loose' /\ d # NoRow
      BY <1>5 DEF createPosition
    <3> QED
      BY <3>1 DEF Placed
  <2>2. pos'[x].dept = d
    BY <1>5 DEF createPosition, HrTypeOK
  <2> QED
    BY <1>1, <2>1, <2>2
<1>6. ASSUME NEW p \in HrReqs, UpdatePositionCommit(p), hrReq[p].id \notin loose'
      PROVE  /\ pos'[hrReq[p].id].dept = hrReq[p].arg
             /\ \E d \in Departments : hrReq[p].arg = d /\ liveDept(d)'
  <2>1. /\ hrReq[p].id \in Positions /\ hrReq[p].arg \in Departments
        /\ hrReq[p].op = "updatePosition" /\ hrReq[p].arg # NoRow
    BY <1>6 DEF UpdatePositionCommit, RequestRows, RowShape
  <2>2. ~ hrReq[p].raced /\ ~ Open("deleteDepartment", hrReq[p].arg)
    BY <1>0, <1>6, <2>1, PlacedSets DEF UpdatePositionCommit
  <2>3. liveDept(hrReq[p].arg)
    BY <2>1, <2>2 DEF TargetsLive
  <2>4. pos'[hrReq[p].id].dept = hrReq[p].arg
    BY <1>6, <2>1 DEF UpdatePositionCommit, HrTypeOK
  <2> QED
    BY <1>1, <2>1, <2>2, <2>3, <2>4
<1>7. ASSUME NEW e \in Staff \ loose', NEW x \in Positions \cup {NoRow}, setPosition(e, x)
      PROVE  position'[e] = x /\ (x # NoRow => livePos(x)')
  <2>1. x = NoRow \/ (livePos(x) /\ ~ Open("deletePosition", x))
    BY <1>0, <1>7, PlacedSets DEF setPosition
  <2>2. position'[e] = x
    BY <1>7 DEF setPosition, HrTypeOK
  <2> QED
    BY <1>2, <2>1, <2>2
<1> QED
  BY <1>3, <1>4, <1>5, <1>6, <1>7

(* Every step keeps deleted rows empty.                                    *)
LEMMA DeletedIsEmptyStep ==
  ASSUME HrTypeOK, RequestRows, TargetsLive, DeletesSafe, DeletedIsEmpty, [HrNext]_hrVars
  PROVE  DeletedIsEmpty'
<1>1. ASSUME NEW d \in Departments \ loose', dept'[d].state = "live", dept'[d].parent # NoRow
      PROVE  liveDept(dept[d].parent)'
  <2> SUFFICES \E u : dept'[d].parent = u /\ liveDept(u)'
    BY DEF liveDept
  <2>1. ASSUME dept'[d] = dept[d], d \in loose' <=> d \in loose
        PROVE  dept'[d].parent = dept[d].parent /\ liveDept(dept[d].parent)
               /\ \A p \in HrReqs : ~ (DeleteDepartmentCommit(p) /\ hrReq[p].id = dept[d].parent)
    <3>1. d \notin loose /\ dept[d].state = "live" /\ dept[d].parent # NoRow
      BY <1>1, <2>1
    <3>2. liveDept(dept[d].parent)
      BY <3>1 DEF DeletedIsEmpty
    <3>3. d \in childrenOf(dept[d].parent)
      BY <3>1 DEF childrenOf, liveDept
    <3>4. ASSUME NEW p \in HrReqs, DeleteDepartmentCommit(p), hrReq[p].id = dept[d].parent
          PROVE  FALSE
      BY <3>1, <3>3, <3>4 DEF DeletesSafe, DeleteDepartmentCommit
    <3> QED
      BY <2>1, <3>2, <3>4
  <2>2. ASSUME dept'[d] = dept[d], d \in loose' <=> d \in loose
        PROVE  \E u : dept'[d].parent = u /\ liveDept(u)'
    <3>1. PICK u : u = dept[d].parent
      OBVIOUS
    <3>2. liveDept(u)'
      BY <2>1, <2>2, <3>1, LiveDeptStays
    <3> QED
      BY <2>2, <3>1, <3>2
  <2>3. ASSUME NEW u \in Departments \cup {NoRow}, createDepartment(d, u)
        PROVE  dept'[d].parent = u /\ liveDept(u)'
    BY <1>1, <2>3, PlacedLive
  <2>4. ASSUME NEW p \in HrReqs, UpdateDepartmentCommit(p), hrReq[p].id = d
        PROVE  \E u : dept'[d].parent = u /\ liveDept(u)'
    BY <1>1, <2>4, PlacedLive
  <2>5. ASSUME NEW p \in HrReqs, DeleteDepartmentCommit(p), hrReq[p].id = d PROVE FALSE
    BY <1>1, <2>5 DEF DeleteDepartmentCommit, HrTypeOK
  <2> QED
    BY DeptRow, <2>2, <2>3, <2>4, <2>5
<1>2. ASSUME NEW x \in Positions \ loose', pos'[x].state = "live" PROVE liveDept(pos[x].dept)'
  <2> SUFFICES \E u : pos'[x].dept = u /\ liveDept(u)'
    BY DEF liveDept
  <2>1. ASSUME pos'[x] = pos[x], x \in loose' <=> x \in loose
        PROVE  \E u : pos'[x].dept = u /\ liveDept(u)'
    <3>1. x \notin loose /\ pos[x].state = "live"
      BY <1>2, <2>1
    <3>2. liveDept(pos[x].dept) /\ x \in positionsOf(pos[x].dept)
      BY <3>1 DEF DeletedIsEmpty, positionsOf, livePos
    <3>3. ASSUME NEW p \in HrReqs, DeleteDepartmentCommit(p), hrReq[p].id = pos[x].dept
          PROVE  FALSE
      BY <3>1, <3>2, <3>3 DEF DeletesSafe, DeleteDepartmentCommit
    <3>4. PICK u : u = pos[x].dept
      OBVIOUS
    <3>5. liveDept(u)'
      BY <3>2, <3>3, <3>4, LiveDeptStays
    <3> QED
      BY <2>1, <3>4, <3>5
  <2>2. ASSUME NEW d \in Departments, createPosition(x, d)
        PROVE  pos'[x].dept = d /\ liveDept(d)'
    BY <1>2, <2>2, PlacedLive
  <2>3. ASSUME NEW p \in HrReqs, UpdatePositionCommit(p), hrReq[p].id = x
        PROVE  \E u : pos'[x].dept = u /\ liveDept(u)'
    BY <1>2, <2>3, PlacedLive
  <2>4. ASSUME NEW p \in HrReqs, DeletePositionCommit(p), hrReq[p].id = x PROVE FALSE
    BY <1>2, <2>4 DEF DeletePositionCommit, HrTypeOK
  <2> QED
    BY PosRow, <2>1, <2>2, <2>3, <2>4
<1>3. ASSUME NEW e \in Staff \ loose', position'[e] # NoRow PROVE livePos(position[e])'
  <2> SUFFICES \E x : position'[e] = x /\ livePos(x)'
    BY DEF livePos
  <2>1. ASSUME position'[e] = position[e], e \in loose' <=> e \in loose
        PROVE  \E x : position'[e] = x /\ livePos(x)'
    <3>1. e \notin loose /\ livePos(position[e])
      BY <1>3, <2>1 DEF DeletedIsEmpty
    <3>2. ASSUME NEW p \in HrReqs, DeletePositionCommit(p), hrReq[p].id = position[e] PROVE FALSE
      BY <3>1, <3>2 DEF DeletesSafe, DeletePositionCommit
    <3>3. PICK x : x = position[e]
      OBVIOUS
    <3>4. livePos(x)'
      BY <3>1, <3>2, <3>3, LivePosStays
    <3> QED
      BY <2>1, <3>3, <3>4
  <2>2. ASSUME NEW x \in Positions \cup {NoRow}, setPosition(e, x)
        PROVE  position'[e] = x /\ livePos(x)'
    BY <1>3, <2>2, PlacedLive
  <2> QED
    BY StaffRow, <2>1, <2>2
<1> QED
  BY <1>1, <1>2, <1>3 DEF DeletedIsEmpty

(* Every step keeps rows that are being deleted empty: what is placed in   *)
(* them meanwhile is loose.                                                *)
LEMMA DeletesSafeStep ==
  ASSUME HrTypeOK, RequestRows, DeletesSafe, [HrNext]_hrVars
  PROVE  DeletesSafe'
<1>1. ASSUME NEW q \in HrReqs, hrReq'[q].op = "deleteDepartment"
      PROVE  /\ childrenOf(hrReq[q].id)' \subseteq loose'
             /\ positionsOf(hrReq[q].id)' \subseteq loose'
  <2> SUFFICES \E d : /\ hrReq'[q].id = d
                      /\ \A c \in Departments : dept'[c].state = "live" /\ dept'[c].parent = d
                                                  => c \in loose'
                      /\ \A x \in Positions : pos'[x].state = "live" /\ pos'[x].dept = d
                                                => x \in loose'
    BY DEF childrenOf, positionsOf, liveDept, livePos
  <2>1. CASE Kept(q)
    <3>1. PICK d : d = hrReq[q].id
      OBVIOUS
    <3>2. /\ hrReq'[q].id = d /\ hrReq[q].op = "deleteDepartment"
          /\ childrenOf(d) \subseteq loose /\ positionsOf(d) \subseteq loose
          /\ Open("deleteDepartment", d)
      BY <1>1, <2>1, <3>1 DEF Kept, DeletesSafe, Open
    <3>3. ASSUME NEW c \in Departments, dept'[c].state = "live", dept'[c].parent = d
          PROVE  c \in loose'
      <4>0. d \in Departments
        BY <3>1, <3>2 DEF RequestRows, RowShape
      <4>1. ASSUME dept'[c] = dept[c], c \in loose' <=> c \in loose PROVE c \in loose'
        BY <3>2, <3>3, <4>1 DEF childrenOf, liveDept
      <4>2. ASSUME NEW u \in Departments \cup {NoRow}, createDepartment(c, u) PROVE c \in loose'
        <5>1. dept'[c].parent = u
          BY <4>2 DEF createDepartment, HrTypeOK
        <5> QED
          BY <3>2, <3>3, <4>0, <4>2, <5>1 DEF createDepartment, Placed
      <4>3. ASSUME NEW p \in HrReqs, UpdateDepartmentCommit(p), hrReq[p].id = c PROVE c \in loose'
        <5>1. dept'[c].parent = hrReq[p].arg
          BY <4>3 DEF UpdateDepartmentCommit, HrTypeOK
        <5> QED
          BY <3>2, <3>3, <4>0, <4>3, <5>1 DEF UpdateDepartmentCommit, Placed
      <4>4. ASSUME NEW p \in HrReqs, DeleteDepartmentCommit(p), hrReq[p].id = c PROVE FALSE
        BY <3>3, <4>4 DEF DeleteDepartmentCommit, HrTypeOK
      <4> QED
        BY DeptRow, <4>1, <4>2, <4>3, <4>4
    <3>4. ASSUME NEW x \in Positions, pos'[x].state = "live", pos'[x].dept = d
          PROVE  x \in loose'
      <4>0. d \in Departments
        BY <3>1, <3>2 DEF RequestRows, RowShape
      <4>1. ASSUME pos'[x] = pos[x], x \in loose' <=> x \in loose PROVE x \in loose'
        BY <3>2, <3>4, <4>1 DEF positionsOf, livePos
      <4>2. ASSUME NEW u \in Departments, createPosition(x, u) PROVE x \in loose'
        <5>1. pos'[x].dept = u
          BY <4>2 DEF createPosition, HrTypeOK
        <5> QED
          BY <3>2, <3>4, <4>0, <4>2, <5>1 DEF createPosition, Placed
      <4>3. ASSUME NEW p \in HrReqs, UpdatePositionCommit(p), hrReq[p].id = x PROVE x \in loose'
        <5>1. pos'[x].dept = hrReq[p].arg
          BY <4>3 DEF UpdatePositionCommit, HrTypeOK
        <5> QED
          BY <3>2, <3>4, <4>0, <4>3, <5>1 DEF UpdatePositionCommit, Placed
      <4>4. ASSUME NEW p \in HrReqs, DeletePositionCommit(p), hrReq[p].id = x PROVE FALSE
        BY <3>4, <4>4 DEF DeletePositionCommit, HrTypeOK
      <4> QED
        BY PosRow, <4>1, <4>2, <4>3, <4>4
    <3> QED
      BY <3>2, <3>3, <3>4
  <2>2. ASSUME NEW d \in Departments, DeleteDepartmentRead(q, d),
               Starts(q, "deleteDepartment", d, NoRow)
        PROVE  /\ hrReq'[q].id = d
               /\ \A c \in Departments : ~ (dept'[c].state = "live" /\ dept'[c].parent = d)
               /\ \A x \in Positions : ~ (pos'[x].state = "live" /\ pos'[x].dept = d)
    <3>1. dept' = dept /\ pos' = pos /\ childrenOf(d) = {} /\ positionsOf(d) = {}
      BY <2>2 DEF DeleteDepartmentRead
    <3> QED
      BY <2>2, <3>1 DEF Starts, childrenOf, positionsOf, liveDept, livePos
  <2> QED
    BY <1>1, MoveSteps, <2>1, <2>2
<1>2. ASSUME NEW q \in HrReqs, hrReq'[q].op = "deletePosition"
      PROVE  \A e \in Staff \ loose' : position'[e] # hrReq'[q].id
  <2>1. CASE Kept(q)
    <3>1. PICK x : x = hrReq[q].id
      OBVIOUS
    <3>2. /\ hrReq'[q].id = x /\ hrReq[q].op = "deletePosition" /\ x \in Positions
          /\ \A e \in Staff \ loose : position[e] # x
          /\ Open("deletePosition", x)
      BY <1>2, <2>1, <3>1 DEF Kept, DeletesSafe, Open, RequestRows, RowShape
    <3>3. ASSUME NEW e \in Staff \ loose', position'[e] = x PROVE FALSE
      <4>1. ASSUME position'[e] = position[e], e \in loose' <=> e \in loose PROVE FALSE
        BY <3>2, <3>3, <4>1
      <4>2. ASSUME NEW y \in Positions \cup {NoRow}, setPosition(e, y) PROVE FALSE
        <5>1. position'[e] = y
          BY <4>2 DEF setPosition, HrTypeOK
        <5> QED
          BY <3>2, <3>3, <4>2, <5>1 DEF setPosition, Placed
      <4> QED
        BY StaffRow, <4>1, <4>2
    <3> QED
      BY <3>2, <3>3
  <2>2. ASSUME NEW x \in Positions, DeletePositionRead(q, x),
               Starts(q, "deletePosition", x, NoRow)
        PROVE  \A e \in Staff \ loose' : position'[e] # hrReq'[q].id
    BY <2>2 DEF DeletePositionRead, Starts
  <2> QED
    BY <1>2, MoveSteps, <2>1, <2>2
<1> QED
  BY <1>1, <1>2 DEF DeletesSafe

-----------------------------------------------------------------------------
(* Overtime.                                                               *)
Worked(o, hours) == hours <= Requested[o] /\ hours <= attended[WorkedBy[o]]

(* What an open reconciliation will write was worked.                      *)
ReconcilesWorked ==
  \A p \in HrReqs : hrReq[p].op = "reconcile" /\ hrReq[p].id \notin stale =>
    Worked(hrReq[p].id, hrReq[p].hours)

(* Overtime that is stale stays so.                                        *)
LEMMA StaleGrows == ASSUME [HrNext]_hrVars PROVE stale \subseteq stale'
<1>1. WritesAtOnce => stale \subseteq stale'
  BY DEF WritesAtOnce, createDepartment, createPosition, setPosition, createOt, import
<1>2. ASSUME NEW p \in HrReqs, ReadsOf(p) PROVE stale \subseteq stale'
  BY <1>2 DEF ReadsOf, UpdateDepartmentRead, DeleteDepartmentRead, UpdatePositionRead,
     DeletePositionRead, SetReportingLineRead, OtRead
<1>3. ASSUME NEW p \in HrReqs, EndOf(p) PROVE stale' = stale
  BY <1>3 DEF EndOf, UpdateDepartmentCommit, DeleteDepartmentCommit, UpdatePositionCommit,
     DeletePositionCommit, SetReportingLineCommit, OtCommit, HrRollback
<1> QED
  BY HrStepCases, <1>1, <1>2, <1>3 DEF hrVars

(* The clock changes by an import only, and that makes stale what rests    *)
(* on it.                                                                  *)
LEMMA ClockStep ==
  ASSUME HrTypeOK, [HrNext]_hrVars, NEW o \in OtRequests \ stale',
         ot[o].status = "RECONCILED" \/ Open("reconcile", o)
  PROVE  attended'[WorkedBy[o]] = attended[WorkedBy[o]]
<1>1. ASSUME NEW e \in Staff, NEW hours \in Clock, import(e, hours)
      PROVE  attended'[WorkedBy[o]] = attended[WorkedBy[o]]
  <2>1. WorkedBy[o] # e
    BY <1>1 DEF import
  <2> QED
    BY <1>1, <2>1 DEF import, HrTypeOK
<1>2. WritesAtOnce => attended' = attended \/ \E e \in Staff : \E h \in Clock : import(e, h)
  BY DEF WritesAtOnce, createDepartment, createPosition, setPosition, createOt
<1>3. ASSUME NEW p \in HrReqs, ReadsOf(p) PROVE attended' = attended
  BY <1>3 DEF ReadsOf, UpdateDepartmentRead, DeleteDepartmentRead, UpdatePositionRead,
     DeletePositionRead, SetReportingLineRead, OtRead
<1>4. ASSUME NEW p \in HrReqs, EndOf(p) PROVE attended' = attended
  BY <1>4 DEF EndOf, UpdateDepartmentCommit, DeleteDepartmentCommit, UpdatePositionCommit,
     DeletePositionCommit, SetReportingLineCommit, OtCommit, HrRollback
<1> QED
  BY HrStepCases, <1>1, <1>2, <1>3, <1>4 DEF hrVars

(* A step that leaves overtime RECONCILED leaves it alone or is the commit *)
(* of a reconciliation.                                                    *)
LEMMA OtSteps ==
  ASSUME HrTypeOK, RequestRows, [HrNext]_hrVars, NEW o \in OtRequests
  PROVE  \/ ot'[o] = ot[o]
         \/ ot'[o].status # "RECONCILED"
         \/ \E p \in HrReqs : /\ hrReq[p].op = "reconcile" /\ hrReq[p].id = o
                              /\ ot'[o].hours = hrReq[p].hours
<1>1. ASSUME NEW x \in OtRequests, createOt(x)
      PROVE  ot'[o] = ot[o] \/ ot'[o].status # "RECONCILED"
  BY <1>1 DEF createOt, HrTypeOK
<1>2. ASSUME NEW p \in HrReqs, OtCommit(p)
      PROVE  \/ ot'[o] = ot[o]
             \/ ot'[o].status # "RECONCILED"
             \/ /\ hrReq[p].op = "reconcile" /\ hrReq[p].id = o
                /\ ot'[o].hours = hrReq[p].hours
  <2>1. hrReq[p].id \in OtRequests /\ hrReq[p].op \in OtOps
    BY <1>2, OtOpsAre DEF OtCommit, RequestRows, RowShape
  <2>2. hrReq[p].id # o => ot'[o] = ot[o]
    BY <1>2 DEF OtCommit, HrTypeOK
  <2>3. hrReq[p].id = o => /\ ot'[o].status = OtTo[hrReq[p].op]
                           /\ hrReq[p].op = "reconcile" => ot'[o].hours = hrReq[p].hours
    BY <1>2 DEF OtCommit, HrTypeOK
  <2>4. hrReq[p].op # "reconcile" => OtTo[hrReq[p].op] # "RECONCILED"
    BY <2>1 DEF OtOps, OtTo
  <2> QED
    BY <2>2, <2>3, <2>4
<1>3. WritesAtOnce => ot' = ot \/ \E x \in OtRequests : createOt(x)
  BY DEF WritesAtOnce, createDepartment, createPosition, setPosition, import
<1>4. ASSUME NEW p \in HrReqs, ReadsOf(p) PROVE ot' = ot
  BY <1>4 DEF ReadsOf, UpdateDepartmentRead, DeleteDepartmentRead, UpdatePositionRead,
     DeletePositionRead, SetReportingLineRead, OtRead
<1>5. ASSUME NEW p \in HrReqs, EndOf(p) PROVE ot' = ot \/ OtCommit(p)
  BY <1>5 DEF EndOf, UpdateDepartmentCommit, DeleteDepartmentCommit, UpdatePositionCommit,
     DeletePositionCommit, SetReportingLineCommit, HrRollback
<1> QED
  BY HrStepCases, <1>1, <1>2, <1>3, <1>4, <1>5 DEF hrVars

(* Every step keeps reconciled hours worked.                               *)
LEMMA OtStep ==
  ASSUME HrTypeOK, RequestRows, ReconcilesWorked, OtWasWorked, [HrNext]_hrVars
  PROVE  ReconcilesWorked' /\ OtWasWorked'
<1>1. ASSUME NEW q \in HrReqs, hrReq'[q].op = "reconcile", hrReq'[q].id \notin stale'
      PROVE  Worked(hrReq[q].id, hrReq[q].hours)'
  <2>1. CASE Kept(q)
    <3>1. /\ hrReq[q].op = "reconcile" /\ hrReq'[q].id = hrReq[q].id
          /\ hrReq'[q].hours = hrReq[q].hours
      BY <1>1, <2>1 DEF Kept
    <3>2. hrReq[q].id \in OtRequests \ stale' /\ hrReq[q].id \notin stale
      BY <1>1, <3>1, StaleGrows DEF RequestRows, RowShape, OtOps
    <3>3. Worked(hrReq[q].id, hrReq[q].hours)
      BY <3>1, <3>2 DEF ReconcilesWorked
    <3>4. attended'[WorkedBy[hrReq[q].id]] = attended[WorkedBy[hrReq[q].id]]
      BY <3>1, <3>2, ClockStep DEF Open
    <3> QED
      BY <3>1, <3>3, <3>4 DEF Worked
  <2>2. ASSUME NEW o \in OtRequests, NEW override \in {{}} \cup {{h} : h \in Clock},
               OtRead(q, "reconcile", o, override)
        PROVE  Worked(hrReq[q].id, hrReq[q].hours)'
    <3>1. /\ hrReq'[q].id = o
          /\ override = {} =>
               hrReq'[q].hours <= Requested[o] /\ hrReq'[q].hours <= attended[WorkedBy[o]]
      BY <2>2, OtSets DEF Starts, OtOps
    <3>2. override = {} /\ attended' = attended
      BY <1>1, <2>2, <3>1 DEF OtRead
    <3> QED
      BY <3>1, <3>2 DEF Worked
  <2> QED
    BY <1>1, MoveSteps, <2>1, <2>2
<1>2. ASSUME NEW o \in OtRequests \ stale', ot'[o].status = "RECONCILED"
      PROVE  ot'[o].hours <= Requested[o] /\ ot'[o].hours <= attended'[WorkedBy[o]]
  <2>0. o \notin stale
    BY StaleGrows
  <2>1. CASE ot'[o] = ot[o]
    BY <1>2, <2>0, <2>1, ClockStep DEF OtWasWorked
  <2>2. ASSUME NEW p \in HrReqs, hrReq[p].op = "reconcile", hrReq[p].id = o,
               ot'[o].hours = hrReq[p].hours
        PROVE  ot'[o].hours <= Requested[o] /\ ot'[o].hours <= attended'[WorkedBy[o]]
    <3>1. Worked(o, hrReq[p].hours)
      BY <2>0, <2>2 DEF ReconcilesWorked
    <3>2. attended'[WorkedBy[o]] = attended[WorkedBy[o]]
      BY <2>2, ClockStep DEF Open
    <3> QED
      BY <2>2, <3>1, <3>2 DEF Worked
  <2> QED
    BY OtSteps, <1>2, <2>1, <2>2
<1> QED
  BY <1>1, <1>2 DEF ReconcilesWorked, OtWasWorked

-----------------------------------------------------------------------------
(* The inductive invariant of HR records.                                  *)
HrIndInv ==
  /\ HrTypeOK /\ RequestRows
  /\ Forest
  /\ TargetsLive /\ DeletesSafe /\ DeletedIsEmpty
  /\ ReconcilesWorked /\ OtWasWorked

(* HR records start in the invariant.                                      *)
LEMMA HrInitIndInv == HrInit => HrIndInv
<1> SUFFICES ASSUME HrInit PROVE HrIndInv
  OBVIOUS
<1>1. HrTypeOK
  BY NoRequestRow DEF HrInit, HrTypeOK, RowState, OtStatus
<1>2. \A p \in HrReqs : hrReq[p].op = "idle"
  BY NoRequestRow DEF HrInit
<1>3. RequestRows /\ TargetsLive /\ DeletesSafe /\ ReconcilesWorked
  BY <1>2 DEF RequestRows, RowShape, OtOps, TargetsLive, DeletesSafe, ReconcilesWorked
<1>4. DeletedIsEmpty /\ OtWasWorked
  BY DEF HrInit, DeletedIsEmpty, OtWasWorked
<1>5. NoLoops(ParentOf, Departments) /\ NoLoops(manager, Staff)
  <2>1. /\ \A d \in Departments : ParentOf[d] = NoRow
        /\ \A e \in Staff : manager[e] = NoRow
    BY DEF HrInit, ParentOf
  <2> QED
    BY <2>1 DEF NoLoops, Loops
<1>6. Forest
  BY <1>2, <1>5 DEF Forest, MovesSafe, MovesRaced, ParentsExist, Exists, HrInit
<1> QED
  BY <1>1, <1>3, <1>4, <1>6 DEF HrIndInv

(* Every step keeps the invariant.                                         *)
LEMMA HrIndInvStep == HrIndInv /\ [HrNext]_hrVars => HrIndInv'
<1> SUFFICES ASSUME HrIndInv, [HrNext]_hrVars PROVE HrIndInv'
  OBVIOUS
<1> USE DEF HrIndInv
<1>1. HrTypeOK' /\ RequestRows'
  BY HrTypeStep, RowShapeStep
<1>2. Forest'
  BY ForestStep
<1>3. TargetsLive' /\ DeletesSafe' /\ DeletedIsEmpty'
  BY TargetsLiveStep, DeletesSafeStep, DeletedIsEmptyStep
<1>4. ReconcilesWorked' /\ OtWasWorked'
  BY OtStep
<1> QED
  BY <1>1, <1>2, <1>3, <1>4

(* The invariant holds in every reachable state of the HR records, for any *)
(* number of departments, positions, employees, overtime and requests.     *)
THEOREM HrInduction == HrSpec => []HrIndInv
  BY HrInitIndInv, HrIndInvStep, PTL DEF HrSpec

(* Rows, overtime, the clock and open requests keep their types through    *)
(* every handler (employee.service.ts, ot.service.ts,                      *)
(* attendance.service.ts).                                                 *)
THEOREM HrTypes == HrSpec => []HrTypeOK
<1>1. HrIndInv => HrTypeOK
  BY DEF HrIndInv
<1> QED
  BY HrInduction, <1>1, PTL

(* No department is its own ancestor, nobody reports to himself, and       *)
(* nothing live hangs on a deleted row, for trees of any size and any hop  *)
(* limit, except through rows that were moved or placed while another      *)
(* request was under way (employee.service.ts).                            *)
THEOREM OrganisationIsAForest == HrSpec => []OrganisationUnlessRaced
<1>1. HrIndInv => OrganisationUnlessRaced
  BY DEF HrIndInv, Forest, NoLoops, OrganisationUnlessRaced, AcyclicUnlessRaced
<1> QED
  BY HrInduction, <1>1, PTL

(* Reconciled overtime is at most what was asked for and what the clock    *)
(* shows, unless HR overrode it or the clock was imported again            *)
(* (ot.service.ts reconcile, attendance.service.ts import).                *)
THEOREM ReconciledOtWasWorked == HrSpec => []OtWasWorked
<1>1. HrIndInv => OtWasWorked
  BY DEF HrIndInv
<1> QED
  BY HrInduction, <1>1, PTL
=============================================================================
