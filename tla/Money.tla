------------------------------- MODULE Money -------------------------------
(***************************************************************************)
(* Decimal arithmetic on money and quantities: packages/utils/src/money.ts *)
(* and the computations built on it, the document totals of                *)
(* apps/api/src/sales/totals.service.ts and the issue costing of           *)
(* apps/api/src/inventory/costing.service.ts.                              *)
(*                                                                         *)
(* An amount of money is an integer number of its smallest unit (0.0001 in *)
(* the code), a quantity an integer number of QtyScale-ths (10^6 in the    *)
(* code), a rate a fraction <<num, den>>.  formatMoney, formatQty and the  *)
(* divisions round half up, away from zero, to the unit: HalfUp.           *)
(***************************************************************************)
EXTENDS Integers, Sequences, SequencesExt

CONSTANTS QtyScale      \* smallest quantity units per unit of measure

ASSUME QtyScaleAssumption == QtyScale \in Nat \ {0}

(* num / den at the unit, Decimal.ROUND_HALF_UP.                           *)
HalfUp(num, den) ==
  IF num >= 0 THEN (2 * num + den) \div (2 * den)
              ELSE - ((den - 2 * num) \div (2 * den))

sumMoney(amounts) == SumFunction(amounts)

(* Division by zero throws: the callers below never divide by zero.        *)
divideMoney(a, b) == HalfUp(a, b)

(* grand / (1 + rate).                                                     *)
vatBackOut(grand, rate) == HalfUp(grand * rate[2], rate[1] + rate[2])

movingAverage(qtyOnHand, avgCost, inQty, inCost) ==
  IF qtyOnHand + inQty = 0
    THEN inCost
    ELSE HalfUp(qtyOnHand * avgCost + inQty * inCost, qtyOnHand + inQty)

(* The first of the largest weights takes the rounding remainder.          *)
LargestWeight(weights) ==
  CHOOSE i \in DOMAIN weights :
    /\ \A j \in DOMAIN weights : weights[j] <= weights[i]
    /\ \A j \in 1 .. (i - 1) : weights[j] < weights[i]

allocate(total, weights) ==
  LET n == Len(weights)
      weightSum == sumMoney(weights)
      rounded == [i \in 1 .. n |->
                    IF weightSum = 0 THEN HalfUp(total, n)
                                     ELSE HalfUp(total * weights[i], weightSum)]
      remainder == total - sumMoney(rounded)
  IN IF n = 0 THEN <<>>
     ELSE [rounded EXCEPT ![LargestWeight(weights)] = @ + remainder]

-----------------------------------------------------------------------------
(* TotalsService.                                                          *)
VAT_RATE == <<7, 100>>

(* qty x unit_price - discount, rounded once.                              *)
lineTotal(line) ==
  HalfUp(line.qty * line.unitPrice - line.discount * QtyScale, QtyScale)

(* wht_rate = <<0, 1>> stands for a missing or zero rate.                  *)
compute(lines, opts) ==
  LET rawSum == sumMoney([i \in DOMAIN lines |-> lineTotal(lines[i])])
      nai == opts.vatMode = "VAT" /\ opts.vatCalc = "VatNai"
      subtotal == IF nai THEN vatBackOut(rawSum, VAT_RATE) ELSE rawSum
      vat == IF opts.vatMode = "NON_VAT" THEN 0
             ELSE IF nai THEN rawSum - subtotal
             ELSE HalfUp(subtotal * VAT_RATE[1], VAT_RATE[2])
  IN [subtotal |-> subtotal, vat |-> vat,
      grand |-> IF nai THEN rawSum ELSE subtotal + vat,
      wht |-> HalfUp(subtotal * opts.whtRate[1], opts.whtRate[2])]

-----------------------------------------------------------------------------
(* CostingService.resolveFifo over the open lots, oldest first: how much   *)
(* each lot gives, and the shortfall posted at the fallback cost.          *)
Consumed(lots, baseQty, i) ==
  LET before == sumMoney([j \in 1 .. (i - 1) |-> lots[j].qty])
      left == IF before >= baseQty THEN 0 ELSE baseQty - before
  IN IF left < lots[i].qty THEN left ELSE lots[i].qty

resolveFifo(lots, baseQty, fallbackCost) ==
  LET takes == [i \in DOMAIN lots |-> Consumed(lots, baseQty, i)]
      fromLots == [i \in DOMAIN lots |->
                     [qty |-> - takes[i], unitCost |-> lots[i].unitCost, lot |-> i]]
      short == baseQty - sumMoney(takes)
  IN SelectSeq(fromLots, LAMBDA s : s.qty # 0) \o
     (IF short > 0 THEN <<[qty |-> - short, unitCost |-> fallbackCost, lot |-> 0]>>
                   ELSE <<>>)

(* STANDARD issues at the standard cost, MAV at the moving average.        *)
resolveIssue(item, lots, baseQty, avgCost) ==
  CASE item.costingMethod = "STANDARD" ->
         <<[qty |-> - baseQty, unitCost |-> item.standardCost, lot |-> 0]>>
    [] item.costingMethod = "MAV" ->
         <<[qty |-> - baseQty, unitCost |-> avgCost, lot |-> 0]>>
    [] item.costingMethod = "FIFO" -> resolveFifo(lots, baseQty, avgCost)
=============================================================================
