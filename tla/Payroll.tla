------------------------------ MODULE Payroll ------------------------------
(***************************************************************************)
(* Payroll runs, payslips and cash advances (apps/api/src/hr).             *)
(*                                                                         *)
(* A run goes DRAFT, CALCULATED, APPROVED.  Calculation is a request and   *)
(* then a job on the payroll queue: calculate() loads the run and checks   *)
(* its status, and only then puts the job on the queue, without a lock     *)
(* between the two; computeRun() does not check the status again.          *)
(* Approval is one transaction that pulls each employee's outstanding      *)
(* advances into the payslip: it reads an advance, computes the rest and   *)
(* writes that absolute value; nothing is locked before the write.  The    *)
(* payslip PDF jobs are put on Redis inside the transaction, so a worker   *)
(* may see one before COMMIT, and also after a ROLLBACK.                   *)
(*                                                                         *)
(* READ COMMITTED: a statement sees committed rows; a row written by an    *)
(* open transaction blocks other writers until it ends.  The writes of an  *)
(* open transaction are kept in req and published by the commit action.    *)
(***************************************************************************)
EXTENDS PayrollMath, FiniteSets, Functions

CONSTANTS
  Runs,          \* payroll runs (one per period: the period is unique)
  Employees,
  Advances,      \* cash advance requests
  OwnerOf,       \* the employee of an advance
  Amount,        \* the amount asked for
  Installments,  \* repayment plan: number of installments, 0 for LUMP
  CeilingPct,    \* advance_policy.ceiling_pct as <<num, den>>
  Salaries,      \* base salaries that occur; bound
  Reqs,          \* HTTP requests (transactions) that may overlap
  Jobs,          \* calculations, each a request and then a payroll.calculate
                 \* job, that may be under way at once; bound
  Budget,        \* bound: calculations, rollbacks, redeliveries, PDF failures,
                 \* salary changes and resignations, taken together
  None           \* "no value"

ASSUME PayrollAssumptions ==
  /\ OwnerOf \in [Advances -> Employees]
  /\ Amount \in [Advances -> Nat \ {0}]
  /\ Installments \in [Advances -> Nat]
  /\ Budget \in Nat
  /\ CeilingPct \in Nat \X (Nat \ {0})
  /\ Salaries \subseteq Nat /\ Salaries # {}
  /\ IsFiniteSet(Runs) /\ IsFiniteSet(Advances)
  /\ None \notin Runs \cup Employees \cup Advances \cup Nat
  /\ None \notin [base : Nat, advance : Nat, net : Int]

VARIABLES
  run,         \* payroll_run.status, "NONE" before the row exists
  slip,        \* committed payslip figures per run and employee, or None
  pdf,         \* the figures on the stored PDF that pdf_key names, or None
  advance,     \* committed cash_advance rows
  salary,      \* current base salary (the latest effective salary_record)
  employed,    \* employees with status ACTIVE or PROBATION
  calcJob,     \* calculations under way: [run, excluded, queued] or None; not
               \* queued is a request that has checked the status, queued is
               \* its job on the payroll queue
  pdfQueued,   \* payslip.pdf jobs on the pdf queue
  rendering,   \* what the pdf worker has read and not yet stored, or None
  req,         \* open request transactions
  budget,      \* what is left of Budget
  raced,       \* history: runs approved by overlapping requests, or with a
               \* calculation still under way, whether request or job
  tainted,     \* history: employees whose advances two requests handled at once
  early        \* history: payslips whose last finished PDF job had read them
               \* before the approval committed

vars == <<run, slip, pdf, advance, salary, employed, calcJob, pdfQueued,
          rendering, req, budget, raced, tainted, early>>

-----------------------------------------------------------------------------
Slips == Runs \X Employees
Slip == [base : Nat, advance : Nat, net : Int]
Calculations == [run : Runs, excluded : SUBSET Employees, queued : BOOLEAN]
RunStatus == {"NONE", "DRAFT", "CALCULATED", "APPROVED"}
AdvanceStatus == {"NONE", "SUBMITTED", "APPROVED", "REJECTED", "DISBURSED",
                  "REPAYING", "CLEARED"}

(* What a request transaction remembers: the run or advance it loaded, the *)
(* payslips it selected, the employees still to do, the one at work with   *)
(* the outstanding balances read for it, and its uncommitted writes.       *)
Request == [op : {"idle", "approveRun", "approve", "reject", "disburse"},
            run : Runs \cup {None}, adv : Advances \cup {None},
            slips : [Employees -> Slip \cup {None}],
            todo : SUBSET Employees, emp : Employees \cup {None},
            seen : [Advances -> Nat], rest : [Advances -> Nat \cup {None}]]

Idle == [op |-> "idle", run |-> None, adv |-> None,
         slips |-> [e \in Employees |-> None], todo |-> {}, emp |-> None,
         seen |-> [a \in Advances |-> 0], rest |-> [a \in Advances |-> None]]

(* One of the bounded events happens.                                      *)
Spend == budget > 0 /\ budget' = budget - 1

TypeOK ==
  /\ run \in [Runs -> RunStatus]
  /\ slip \in [Slips -> Slip \cup {None}]
  /\ pdf \in [Slips -> Slip \cup {None}]
  /\ advance \in [Advances -> [status : AdvanceStatus, outstanding : Nat]]
  /\ salary \in [Employees -> Salaries]
  /\ employed \in SUBSET Employees
  /\ calcJob \in [Jobs -> Calculations \cup {None}]
  /\ pdfQueued \in SUBSET Slips
  /\ rendering \in [of : Slips, shown : Slip, early : BOOLEAN] \cup {None}
  /\ req \in [Reqs -> Request]
  /\ budget \in 0 .. Budget
  /\ raced \in SUBSET Runs
  /\ tainted \in SUBSET Employees
  /\ early \in SUBSET Slips

Init ==
  /\ run = [r \in Runs |-> "NONE"]
  /\ slip = [s \in Slips |-> None]
  /\ pdf = [s \in Slips |-> None]
  /\ advance = [a \in Advances |-> [status |-> "NONE", outstanding |-> 0]]
  /\ salary \in [Employees -> Salaries]
  /\ employed = Employees
  /\ calcJob = [j \in Jobs |-> None]
  /\ pdfQueued = {}
  /\ rendering = None
  /\ req = [p \in Reqs |-> Idle]
  /\ budget = Budget
  /\ raced = {} /\ tainted = {} /\ early = {}

-----------------------------------------------------------------------------
(* Cash advances.                                                          *)

(* create: 422 above ceiling_pct x current base salary.                    *)
CreateAdvance(a) ==
  /\ advance[a].status = "NONE"
  /\ Amount[a] <= advanceCeiling(salary[OwnerOf[a]], CeilingPct)
  /\ advance' = [advance EXCEPT ![a].status = "SUBMITTED"]
  /\ UNCHANGED <<run, slip, pdf, salary, employed, calcJob, pdfQueued,
                 rendering, req, raced, tainted, early, budget>>

(* The edge of each request on an advance.                                 *)
From == [approve |-> "SUBMITTED", reject |-> "SUBMITTED", disburse |-> "APPROVED"]
To == [approve |-> "APPROVED", reject |-> "REJECTED", disburse |-> "DISBURSED"]

(* approve, reject, disburse: load the advance and check its status.       *)
AdvanceRead(p, op, a) ==
  /\ req[p].op = "idle"
  /\ advance[a].status = From[op]
  /\ req' = [req EXCEPT ![p] = [Idle EXCEPT !.op = op, !.adv = a]]
  /\ tainted' = IF \E q \in Reqs : req[q].adv = a THEN tainted \cup {OwnerOf[a]}
                                                  ELSE tainted
  /\ UNCHANGED <<run, slip, pdf, advance, salary, employed, calcJob, pdfQueued,
                 rendering, raced, early, budget>>

(* No other open transaction has written the row of advance a.             *)
Unlocked(p, a) == \A q \in Reqs \ {p} : req[q].rest[a] = None

(* ... and write the status; disburse also sets outstanding = amount.      *)
AdvanceCommit(p) ==
  LET a == req[p].adv
      op == req[p].op
  IN /\ op \in {"approve", "reject", "disburse"}
     /\ Unlocked(p, a)
     /\ advance' = [advance EXCEPT ![a] =
          [status |-> To[op],
           outstanding |-> IF op = "disburse" THEN Amount[a] ELSE @.outstanding]]
     /\ req' = [req EXCEPT ![p] = Idle]
     /\ UNCHANGED <<run, slip, pdf, salary, employed, calcJob, pdfQueued,
                    rendering, raced, tainted, early, budget>>

-----------------------------------------------------------------------------
(* Runs.                                                                   *)

(* create: the period is unique, so a run is created once.                 *)
CreateRun(r) ==
  /\ run[r] = "NONE"
  /\ run' = [run EXCEPT ![r] = "DRAFT"]
  /\ UNCHANGED <<slip, pdf, advance, salary, employed, calcJob, pdfQueued,
                 rendering, req, raced, tainted, early, budget>>

(* Mutant: a frozen run may be recalculated.                               *)
CalculateReadAnyRun(j, r, excluded) ==
  /\ run[r] # "NONE"
  /\ calcJob[j] = None
  /\ calcJob' = [calcJob EXCEPT ![j] = [run |-> r, excluded |-> excluded, queued |-> FALSE]]
  /\ Spend
  /\ UNCHANGED <<run, slip, pdf, advance, salary, employed, pdfQueued,
                 rendering, req, raced, tainted, early>>

(* calculate: load the run; only a DRAFT or CALCULATED one is calculated.  *)
CalculateRead(j, r, excluded) ==
  /\ run[r] \in {"DRAFT", "CALCULATED"}
  /\ calcJob[j] = None
  /\ calcJob' = [calcJob EXCEPT ![j] = [run |-> r, excluded |-> excluded, queued |-> FALSE]]
  /\ Spend
  /\ UNCHANGED <<run, slip, pdf, advance, salary, employed, pdfQueued,
                 rendering, req, raced, tainted, early>>

(* ... and put the job on the queue, whatever the run has become meanwhile. *)
CalculateEnqueue(j) ==
  /\ calcJob[j] # None
  /\ ~ calcJob[j].queued
  /\ calcJob' = [calcJob EXCEPT ![j].queued = TRUE]
  /\ UNCHANGED <<run, slip, pdf, advance, salary, employed, pdfQueued,
                 rendering, req, raced, tainted, early, budget>>

(* queue.add throws or the process dies before it, or the job has used up  *)
(* its attempts; either way nothing was written.                           *)
CalculateDrop(j) ==
  /\ calcJob[j] # None
  /\ calcJob' = [calcJob EXCEPT ![j] = None]
  /\ UNCHANGED <<run, slip, pdf, advance, salary, employed, pdfQueued,
                 rendering, req, raced, tainted, early, budget>>

(* The figures computeTotals derives from a base salary and an advance     *)
(* line; the other lines of the breakdown are left out.                    *)
payslip(base, adv) ==
  [base |-> base, advance |-> adv,
   net |-> computeTotals([base |-> base, ot |-> 0, allowances |-> <<>>,
                          sso |-> 0, tax |-> 0, advance |-> adv,
                          deductions |-> <<>>]).net]

(* Payslip rows an open approval of run r has already written.             *)
Written(q, r) ==
  IF req[q].op = "approveRun" /\ req[q].run = r
    THEN {e \in Employees : req[q].slips[e] # None} \ req[q].todo
    ELSE {}

(* computeRun: a fresh payslip, without advance and without PDF, for every *)
(* employee that is employed and not deselected; the payslips of others    *)
(* stay.  The run becomes CALCULATED whatever it was.  acked = FALSE is a  *)
(* job that is delivered again after it committed.                         *)
ComputeRun(j, acked) ==
  LET r == calcJob[j].run
      scope == employed \ calcJob[j].excluded
      redone == {r} \X scope
  IN /\ calcJob[j] # None
     /\ calcJob[j].queued
     /\ \A q \in Reqs : Written(q, r) \cap scope = {}
     /\ slip' = [s \in Slips |-> IF s \in redone THEN payslip(salary[s[2]], 0)
                                                 ELSE slip[s]]
     /\ pdf' = [s \in Slips |-> IF s \in redone THEN None ELSE pdf[s]]
     /\ run' = [run EXCEPT ![r] = "CALCULATED"]
     /\ calcJob' = IF acked THEN [calcJob EXCEPT ![j] = None] ELSE calcJob
     /\ tainted' = IF run[r] = "APPROVED"
                     THEN tainted \cup {e \in Employees : slip[<<r, e>>] # None}
                     ELSE tainted
     /\ early' = early \ redone
     /\ IF acked THEN UNCHANGED budget ELSE Spend
     /\ UNCHANGED <<advance, salary, employed, pdfQueued, rendering, req,
                    raced>>

(* approve: the run must be CALCULATED; its payslips are selected.         *)
ApproveRead(p, r) ==
  LET slips == [e \in Employees |-> slip[<<r, e>>]]
      overlap == \E q \in Reqs : req[q].op = "approveRun" /\ req[q].run = r
  IN /\ req[p].op = "idle"
     /\ run[r] = "CALCULATED"
     /\ req' = [req EXCEPT ![p] = [Idle EXCEPT !.op = "approveRun", !.run = r,
                  !.slips = slips, !.todo = {e \in Employees : slips[e] # None}]]
     /\ raced' = IF overlap THEN raced \cup {r} ELSE raced
     /\ tainted' = IF overlap THEN tainted \cup {e \in Employees : slips[e] # None}
                              ELSE tainted
     /\ UNCHANGED <<run, slip, pdf, advance, salary, employed, calcJob,
                    pdfQueued, rendering, early, budget>>

(* outstandingFor: the employee's advances with a positive balance.        *)
outstandingFor(e) ==
  {a \in Advances : /\ OwnerOf[a] = e
                    /\ advance[a].status \in {"DISBURSED", "REPAYING"}
                    /\ advance[a].outstanding > 0}

(* Employee e is, or has been, handled by the open approval q.             *)
Handled(q, e) ==
  req[q].op = "approveRun" /\ req[q].slips[e] # None /\
  (req[q].emp = e \/ e \notin req[q].todo)

PullRead(p, e) ==
  /\ req[p].op = "approveRun"
  /\ req[p].emp = None
  /\ e \in req[p].todo
  /\ req' = [req EXCEPT ![p] = [req[p] EXCEPT !.emp = e,
               !.seen = [a \in Advances |->
                  IF a \in outstandingFor(e) THEN advance[a].outstanding
                                             ELSE req[p].seen[a]]]]
  /\ tainted' = IF \E q \in Reqs \ {p} : Handled(q, e) THEN tainted \cup {e} ELSE tainted
  /\ UNCHANGED <<run, slip, pdf, advance, salary, employed, calcJob, pdfQueued,
                 rendering, raced, early, budget>>

(* Mutant: the repayment is taken from the pay but not from the advance.   *)
applyRepaymentKeeps(a, outstanding) == outstanding

(* applyRepayment: what remains of the balance that was read.              *)
applyRepayment(a, outstanding) ==
  outstanding - advanceRepayment(outstanding, Installments[a])

(* The advances whose balance the request has read for employee e.         *)
SeenOf(p, e) == {a \in Advances : OwnerOf[a] = e /\ req[p].seen[a] > 0}

(* Repayments and the payslip of the employee are written (their rows are  *)
(* locked until the transaction ends), and the PDF job goes to Redis.      *)
PullWrite(p) ==
  LET e == req[p].emp
      r == req[p].run
      pulls == SeenOf(p, e)
      total == SumFunctionOnSet(
                 [a \in Advances |-> advanceRepayment(req[p].seen[a], Installments[a])],
                 pulls)
  IN /\ e # None
     /\ \A a \in pulls : Unlocked(p, a)
     /\ \A q \in Reqs \ {p} : e \notin Written(q, r)
     /\ req' = [req EXCEPT ![p] = [req[p] EXCEPT
          !.emp = None,
          !.todo = req[p].todo \ {e},
          !.slips = [req[p].slips EXCEPT ![e] = payslip(req[p].slips[e].base, total)],
          !.rest = [a \in Advances |->
             IF a \in pulls THEN applyRepayment(a, req[p].seen[a]) ELSE req[p].rest[a]]]]
     /\ pdfQueued' = pdfQueued \cup {<<r, e>>}
     /\ UNCHANGED <<run, slip, pdf, advance, salary, employed, calcJob,
                    rendering, raced, tainted, early, budget>>

(* COMMIT of the approval: CLEARED at zero, else REPAYING; the run is      *)
(* APPROVED.                                                               *)
ApproveCommit(p) ==
  LET r == req[p].run
  IN /\ req[p].op = "approveRun"
     /\ req[p].todo = {}
     /\ slip' = [s \in Slips |->
          IF s[1] = r /\ req[p].slips[s[2]] # None THEN req[p].slips[s[2]] ELSE slip[s]]
     /\ advance' = [a \in Advances |->
          IF req[p].rest[a] = None THEN advance[a]
          ELSE [status |-> IF req[p].rest[a] = 0 THEN "CLEARED" ELSE "REPAYING",
                outstanding |-> req[p].rest[a]]]
     /\ run' = [run EXCEPT ![r] = "APPROVED"]
     /\ raced' = IF \E j \in Jobs : calcJob[j] # None /\ calcJob[j].run = r
                   THEN raced \cup {r} ELSE raced
     /\ req' = [req EXCEPT ![p] = Idle]
     /\ UNCHANGED <<pdf, salary, employed, calcJob, pdfQueued, rendering,
                    tainted, early, budget>>

(* The handler threw, or the process died: PDF jobs already sent stay.     *)
Rollback(p) ==
  /\ req[p].op # "idle"
  /\ req' = [req EXCEPT ![p] = Idle]
  /\ Spend
  /\ UNCHANGED <<run, slip, pdf, advance, salary, employed, calcJob, pdfQueued,
                 rendering, raced, tainted, early>>

-----------------------------------------------------------------------------
(* The payslip PDF worker: one job at a time.                              *)

(* generate reads the committed payslip and renders it.                    *)
PdfRead(r, e) ==
  /\ <<r, e>> \in pdfQueued
  /\ rendering = None
  /\ slip[<<r, e>>] # None
  /\ pdfQueued' = pdfQueued \ {<<r, e>>}
  /\ rendering' = [of |-> <<r, e>>, shown |-> slip[<<r, e>>],
                   early |-> run[r] # "APPROVED"]
  /\ UNCHANGED <<run, slip, pdf, advance, salary, employed, calcJob, req,
                 raced, tainted, early, budget>>

(* Mutant: a payslip that has a PDF is left alone.                         *)
PdfStoreOnce ==
  LET s == rendering.of
  IN /\ rendering # None
     /\ pdf' = [pdf EXCEPT ![s] = IF @ = None THEN rendering.shown ELSE @]
     /\ early' = IF rendering.early THEN early \cup {s} ELSE early \ {s}
     /\ rendering' = None
     /\ UNCHANGED <<run, slip, advance, salary, employed, calcJob, pdfQueued,
                    req, raced, tainted, budget>>

(* The object is stored under the payslip's key and pdf_key is set; the    *)
(* put waits for no transaction.                                           *)
PdfStore ==
  LET s == rendering.of
  IN /\ rendering # None
     /\ pdf' = [pdf EXCEPT ![s] = rendering.shown]
     /\ early' = IF rendering.early THEN early \cup {s} ELSE early \ {s}
     /\ rendering' = None
     /\ UNCHANGED <<run, slip, advance, salary, employed, calcJob, pdfQueued,
                    req, raced, tainted, budget>>

(* The job fails and is retried, or is lost: queue.add is not awaited, and *)
(* another worker of the pdf queue completes a job it does not know.       *)
PdfFail ==
  /\ \/ /\ rendering # None
        /\ rendering' = None
        /\ pdfQueued' \in {pdfQueued, pdfQueued \cup {rendering.of}}
     \/ /\ \E s \in pdfQueued : pdfQueued' = pdfQueued \ {s}
        /\ UNCHANGED rendering
  /\ Spend
  /\ UNCHANGED <<run, slip, pdf, advance, salary, employed, calcJob, req,
                 raced, tainted, early>>

-----------------------------------------------------------------------------
(* addSalaryRecord with an effective date that is due; bound: raises only. *)
AddSalaryRecord(e, base) ==
  /\ salary[e] < base
  /\ salary' = [salary EXCEPT ![e] = base]
  /\ Spend
  /\ UNCHANGED <<run, slip, pdf, advance, employed, calcJob, pdfQueued,
                 rendering, req, raced, tainted, early>>

(* EmployeeService.setStatus: the employee resigns.                        *)
Resign(e) ==
  /\ e \in employed
  /\ employed' = employed \ {e}
  /\ Spend
  /\ UNCHANGED <<run, slip, pdf, advance, salary, calcJob, pdfQueued,
                 rendering, req, raced, tainted, early>>

Next ==
  \/ \E a \in Advances : CreateAdvance(a)
  \/ \E p \in Reqs : \E a \in Advances :
       \E op \in {"approve", "reject", "disburse"} : AdvanceRead(p, op, a)
  \/ \E p \in Reqs : AdvanceCommit(p)
  \/ \E r \in Runs : CreateRun(r)
  \/ \E j \in Jobs : \E r \in Runs : \E x \in SUBSET Employees : CalculateRead(j, r, x)
  \/ \E j \in Jobs : CalculateEnqueue(j) \/ CalculateDrop(j)
  \/ \E j \in Jobs : \E acked \in BOOLEAN : ComputeRun(j, acked)
  \/ \E p \in Reqs : \E r \in Runs : ApproveRead(p, r)
  \/ \E p \in Reqs : \E e \in Employees : PullRead(p, e)
  \/ \E p \in Reqs : PullWrite(p)
  \/ \E p \in Reqs : ApproveCommit(p)
  \/ \E p \in Reqs : Rollback(p)
  \/ \E r \in Runs : \E e \in Employees : PdfRead(r, e)
  \/ PdfStore
  \/ PdfFail
  \/ \E e \in Employees : \E base \in Salaries : AddSalaryRecord(e, base)
  \/ \E e \in Employees : Resign(e)

Spec == Init /\ [][Next]_vars

-----------------------------------------------------------------------------
PaidOut == {a \in Advances : advance[a].status \in {"DISBURSED", "REPAYING", "CLEARED"}}

(* What an employee was advanced is what is still outstanding plus what    *)
(* the payslips of approved runs have deducted: no repayment is taken      *)
(* twice, dropped or forgiven over installments, recalculations, rolled    *)
(* back approvals and retried jobs - for every employee whose advances no  *)
(* two requests handled at once and whose approved payslips no pending     *)
(* calculation overwrote (PayrollService.approve, applyRepayment).         *)
AdvancesBalance ==
  \A e \in Employees \ tainted :
    LET own == {a \in PaidOut : OwnerOf[a] = e}
        paid == {r \in Runs : run[r] = "APPROVED" /\ slip[<<r, e>>] # None}
    IN SumFunctionOnSet(Amount, own) =
         SumFunctionOnSet([a \in Advances |-> advance[a].outstanding], own) +
         SumFunctionOnSet([r \in Runs |-> slip[<<r, e>>].advance], paid)

(* "APPROVED runs are frozen": neither the status nor a payslip of an      *)
(* approved run changes - unless, when it was approved, a second approval  *)
(* was under way, or a calculation: a request that had checked the status  *)
(* and may not have enqueued its job yet, or the job (calculate).          *)
FrozenUnlessRaced ==
  [][\A r \in Runs \ raced : run[r] = "APPROVED" =>
       /\ run'[r] = "APPROVED"
       /\ \A e \in Employees : slip'[<<r, e>>] = slip[<<r, e>>]]_vars

(* The PDF an employee downloads for an approved run shows the frozen      *)
(* figures once its job has run, also after earlier PDFs of rolled back    *)
(* approvals - unless the worker read the payslip before the approval      *)
(* committed, or the run was approved while another approval or a          *)
(* calculation of it was under way (PayslipService.generate).              *)
PdfShowsPayslip ==
  \A s \in Slips :
    run[s[1]] = "APPROVED" /\ s[1] \notin raced /\ pdf[s] # None /\ s \notin early
      => pdf[s] = slip[s]
=============================================================================
