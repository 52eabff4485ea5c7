---------------------------- MODULE PayrollMath ----------------------------
(***************************************************************************)
(* The pure payroll arithmetic of apps/api/src/hr/payroll-math.ts, in the  *)
(* units of the Money module.  Hours are quantities.                       *)
(***************************************************************************)
EXTENDS Money

STANDARD_MONTHLY_HOURS == 26 * 8
STANDARD_DAILY_HOURS == 8

hourlyRate(base, employmentType) ==
  divideMoney(base, IF employmentType = "MONTHLY" THEN STANDARD_MONTHLY_HOURS
                                                  ELSE STANDARD_DAILY_HOURS)

(* approved hours x hourly rate x multiplier, rounded once.                *)
otPay(hours, hourly, multiplier) ==
  HalfUp(hours * hourly * multiplier[1], QtyScale * multiplier[2])

(* Clock times are minutes since midnight; a window that would cross       *)
(* midnight counts nothing.                                                *)
hoursBetween(start, end) ==
  HalfUp((IF end > start THEN end - start ELSE 0) * QtyScale, 60)

(* override is a set: empty when the body carries none.                    *)
approvedHours(requested, attended, override) ==
  IF override # {} THEN CHOOSE h \in override : TRUE
  ELSE IF requested <= attended THEN requested ELSE attended

-----------------------------------------------------------------------------
(* A band is [lower, upper, rate]; upper = NoUpper is the open top band.   *)
NoUpper == -1

(* The loop of annualTax: bands in order, until one starts at or above the *)
(* income.  Sums are kept over the common denominator den of the rates.    *)
BandTax(income, band) ==
  LET cap == IF band.upper = NoUpper \/ income <= band.upper THEN income
                                                             ELSE band.upper
  IN IF cap > band.lower THEN (cap - band.lower) * band.rate ELSE 0

annualTax(income, brackets, den) ==
  LET reached == SelectSeq(brackets, LAMBDA b : income > b.lower)
  IN HalfUp(FoldSeq(LAMBDA b, acc : acc + BandTax(income, b), 0, reached), den)

monthlyTax(monthlyTaxable, brackets, den) ==
  divideMoney(annualTax(12 * monthlyTaxable, brackets, den), 12)

(* min(ceiling, max(floor, wage)) x rate.                                  *)
ssoContribution(wage, config) ==
  LET atLeastFloor == IF wage <= config.wageFloor THEN config.wageFloor ELSE wage
      clamped == IF atLeastFloor <= config.wageCeiling THEN atLeastFloor
                                                       ELSE config.wageCeiling
  IN HalfUp(clamped * config.rate[1], config.rate[2])

(* net = (base + allowances + ot) - (sso + tax + advance + deductions).    *)
computeTotals(b) ==
  LET gross == sumMoney(<<b.base, b.ot>> \o b.allowances)
      totalDeductions == sumMoney(<<b.sso, b.tax, b.advance>> \o b.deductions)
  IN [gross |-> gross, totalDeductions |-> totalDeductions,
      net |-> gross - totalDeductions]

advanceCeiling(baseSalary, pct) == HalfUp(baseSalary * pct[1], pct[2])

(* installments = 0 stands for a LUMP or missing plan.                     *)
advanceRepayment(outstanding, installments) ==
  IF installments > 0
    THEN LET perPeriod == divideMoney(outstanding, installments)
         IN IF perPeriod > outstanding THEN outstanding ELSE perPeriod
    ELSE outstanding
-----------------------------------------------------------------------------
(* CompensationService and PayrollConfigService: the rows of a table with  *)
(* effective dates that are in force.  Tax bands share their date; of two  *)
(* salary, SSO, OT or policy rows of one date LIMIT 1 takes either.        *)
currentEffective(rows, asOf) ==
  {r \in rows : /\ r.date <= asOf
                /\ \A s \in rows : s.date <= asOf => s.date <= r.date}

(* Assigned components become allowances or deductions.                    *)
resolveComponents(rows) ==
  [allowances |-> SelectSeq(rows, LAMBDA r : r.type = "ALLOWANCE"),
   deductions |-> SelectSeq(rows, LAMBDA r : r.type # "ALLOWANCE")]

(* The reconciled requests of the period, at the multiplier in force at    *)
(* its end.  multiplier maps a rate type to <<num, den>>.                  *)
periodOtPay(requests, base, employmentType, start, end, multiplier) ==
  LET paid == SelectSeq(requests, LAMBDA r : /\ r.status = "RECONCILED"
                                             /\ r.date \in start .. end)
  IN sumMoney([k \in DOMAIN paid |->
                 otPay(paid[k].hours, hourlyRate(base, employmentType),
                       multiplier[paid[k].rateType])])
=============================================================================
