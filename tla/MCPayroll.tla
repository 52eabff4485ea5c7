----------------------------- MODULE MCPayroll -----------------------------
(* Small instance of Payroll, and the checks of the pure operators (money, *)
(* payroll and costing arithmetic, pages and reports) against what they    *)
(* are for, over bounded inputs.  TLC evaluates the ASSUMEs before it      *)
(* explores the states.                                                    *)
EXTENDS Payroll, Reports

CONSTANTS r1, r2, e1, a1, p1, p2

MCOwnerOf == (a1 :> e1)
MCAmount == (a1 :> 3)
MCInstallments == (a1 :> 2)
MCCeilingPct == <<1, 2>>

Symmetry == Permutations({r1, r2}) \cup Permutations({p1, p2})

-----------------------------------------------------------------------------
Weights == UNION {[1 .. n -> 0 .. 4] : n \in 1 .. 3}
Signs == {-1, 1}

(* HalfUp is the nearest integer, the one further from zero at a half.     *)
ASSUME RoundsHalfUp ==
  \A num \in -25 .. 25 : \A den \in 1 .. 6 :
    LET r == HalfUp(num, den)
        off == r * den - num
    IN /\ 2 * off <= den /\ -2 * off <= den
       /\ 2 * off = den => num > 0
       /\ -2 * off = den => num < 0

(* allocate gives out exactly the total, and every line but the one that   *)
(* takes the remainder is its rounded share.                               *)
ASSUME AllocatesAll ==
  \A total \in -10 .. 10 : \A w \in Weights :
    LET parts == allocate(total, w)
        sum == sumMoney(w)
    IN /\ sumMoney(parts) = total
       /\ \A i \in DOMAIN w \ {LargestWeight(w)} :
            parts[i] = IF sum = 0 THEN HalfUp(total, Len(w))
                                  ELSE HalfUp(total * w[i], sum)

(* A moving average lies between the two costs it averages.                *)
ASSUME AverageIsBetween ==
  \A q, inQty \in 0 .. 4 : \A avg, cost \in 0 .. 5 : q + inQty > 0 =>
    LET m == movingAverage(q, avg, inQty, cost)
    IN \/ avg <= m /\ m <= cost
       \/ cost <= m /\ m <= avg

(* Totals: the grand total is always subtotal plus VAT; backing VAT out of *)
(* a gross price and adding it again lands within one unit of that price.  *)
ASSUME TotalsAddUp ==
  \A qty \in 0 .. 3 : \A price \in 0 .. 60 : \A discount \in {0, 5} :
  \A mode \in {"VAT", "NON_VAT"} : \A calc \in {"VatNai", "VatNok"} :
    LET lines == <<[qty |-> qty * QtyScale, unitPrice |-> price, discount |-> discount]>>
        t == compute(lines, [vatMode |-> mode, vatCalc |-> calc, whtRate |-> <<3, 100>>])
        again == t.subtotal + HalfUp(t.subtotal * VAT_RATE[1], VAT_RATE[2])
    IN /\ t.grand = t.subtotal + t.vat
       /\ mode = "NON_VAT" => t.vat = 0 /\ t.grand = qty * price - discount
       /\ mode = "VAT" => again - t.grand \in -1 .. 1

Lots == UNION {[1 .. n -> [qty : 1 .. 3, unitCost : {7}]] : n \in 0 .. 3}

(* FIFO: the whole quantity is issued; a lot is touched only when all      *)
(* older ones are used up; the fallback cost covers only what no lot has.  *)
ASSUME FifoIsOldestFirst ==
  \A lots \in Lots : \A qty \in 1 .. 10 :
    LET parts == resolveFifo(lots, qty, 9)
        took(i) == -sumMoney([k \in DOMAIN parts |->
                               IF parts[k].lot = i THEN parts[k].qty ELSE 0])
        all == sumMoney([i \in DOMAIN lots |-> lots[i].qty])
    IN /\ -sumMoney([k \in DOMAIN parts |-> parts[k].qty]) = qty
       /\ \A i, j \in DOMAIN lots : i < j /\ took(j) > 0 => took(i) = lots[i].qty
       /\ took(0) = IF qty > all THEN qty - all ELSE 0

Brackets == <<[lower |-> 0, upper |-> 3, rate |-> 0],
              [lower |-> 3, upper |-> 6, rate |-> 5],
              [lower |-> 6, upper |-> NoUpper, rate |-> 20]>>

(* The tax is the rounded sum of the marginal rates of every unit earned,  *)
(* so it never falls as income rises.                                      *)
ASSUME TaxIsMarginal ==
  \A income \in 0 .. 40 :
    LET rateAt(u) == IF u <= 3 THEN 0 ELSE IF u <= 6 THEN 5 ELSE 20
    IN /\ annualTax(income, Brackets, 100) =
            HalfUp(sumMoney([u \in 1 .. income |-> rateAt(u)]), 100)
       /\ annualTax(income, Brackets, 100) <= annualTax(income + 1, Brackets, 100)

(* No installment takes more than is outstanding, a lump takes it all, and *)
(* one takes nothing only when its share rounds to zero.                   *)
ASSUME RepaymentIsBounded ==
  \A outstanding \in 1 .. 20 : \A n \in 0 .. 6 :
    LET pull == advanceRepayment(outstanding, n)
    IN /\ pull \in 0 .. outstanding
       /\ pull = 0 => 2 * outstanding < n
       /\ n <= 1 => pull = outstanding

(* Approved overtime is never more than was asked for or attended, unless  *)
(* the approver overrides it; a shift past midnight counts nothing.        *)
ASSUME OvertimeIsBounded ==
  /\ \A r, a \in 0 .. 5 : approvedHours(r, a, {}) <= r /\ approvedHours(r, a, {}) <= a
  /\ \A s, e \in {0, 60, 90, 1439} : hoursBetween(s, e) > 0 <=> e > s
  /\ \A wage \in 0 .. 30 :
       ssoContribution(wage, [wageFloor |-> 5, wageCeiling |-> 20, rate |-> <<1, 1>>])
         \in 5 .. 20
(* A row dated after the period changes nothing, one dated at its end      *)
(* supersedes all earlier ones.                                            *)
ASSUME LatestIsInForce ==
  \A rows \in SUBSET [date : 1 .. 4, value : {1, 2}] : \A asOf \in 1 .. 4 :
    LET now == currentEffective(rows, asOf)
    IN /\ now = {} <=> \A r \in rows : r.date > asOf
       /\ now = currentEffective({r \in rows : r.date <= asOf}, asOf)
       /\ \A r \in rows : r.date = asOf => r \in now
       /\ \A r \in now, s \in rows : s.date \in (r.date + 1) .. 4 => s.date > asOf

(* Paying two adjoining periods pays every reconciled request once.        *)
ASSUME OvertimePaidOnce ==
  \A reqs \in UNION {[1 .. n -> [date : 1 .. 3, hours : {100, 150}, rateType : {"x"},
                                 status : {"APPROVED", "RECONCILED"}]] : n \in 0 .. 2} :
    LET pay(s, e) == periodOtPay(reqs, 416, "MONTHLY", s, e, [x |-> <<3, 2>>])
    IN pay(1, 2) + pay(3, 3) = pay(1, 3)

-----------------------------------------------------------------------------
Listed == SUBSET [at : 0 .. 3, id : 1 .. 2]

(* Following the cursors lists every row once, in order, when the cursor   *)
(* is exact.  A cursor cut to the millisecond never repeats a row; it may  *)
(* skip one, of the millisecond of a page's last row.                      *)
ASSUME PagesListRows ==
  \A rows \in Listed : \A limit \in 1 .. 3 :
    LET all == inOrder(rows)
        cut == readAll(rows, limit, FALSE, {})
        shown == Range(cut)
    IN /\ readAll(rows, limit, TRUE, {}) = all
       /\ cut = SelectSeq(all, LAMBDA r : r \in shown)
       /\ \A r \in rows \ shown : \E s \in shown :
            s.at \div PER_MS = r.at \div PER_MS /\ Newer(s, r)
       /\ (\A r \in rows : r.at % PER_MS = 0) => cut = all

Catalogues ==
  LET bom(v, lines) == [version |-> v, active |-> TRUE, conversionCost |-> 1, lines |-> lines]
      line(i) == [item |-> i, qty |-> 2 * QtyScale, scrap |-> <<0, 100>>]
      bomsOf == {{}} \cup {{bom(1, <<line(i)>>)} : i \in 1 .. 3}
                    \cup {{bom(1, <<line(1)>>), bom(2, <<line(i), line(j)>>)} : i, j \in 1 .. 3}
  IN [1 .. 3 -> [boms : bomsOf, avgCost : {0}, standardCost : {5}]]

(* The components of an item, and everything that goes into it.            *)
Parts(items, i) ==
  IF items[i].boms = {} THEN {}
  ELSE {activeBom(items[i]).lines[k].item : k \in DOMAIN activeBom(items[i]).lines}

Within(items, i) ==
  LET next(S) == S \cup UNION {Parts(items, j) : j \in S}
  IN next(next(next(Parts(items, i))))

(* Without a cycle the cost of a product is its conversion cost plus the   *)
(* costs of its parts, whatever path it is reached on; the roll-up ends on *)
(* every catalogue, and a product that contains itself enters its own cost *)
(* at its flat cost.                                                       *)
ASSUME RollUpAddsUp ==
  \A items \in Catalogues : \A i \in 1 .. 3 :
    LET cost(j) == costOf(items, j, {})
        lines == activeBom(items[i]).lines
        cyclic == \E j \in Within(items, i) \cup {i} : j \in Within(items, j)
    IN IF items[i].boms = {} THEN cost(i) = 5
       ELSE IF \A j \in Parts(items, i) : j = i \/ items[j].boms = {}
         THEN cost(i) = 1 + 2 * 5 * Len(lines)
       ELSE IF cyclic THEN cost(i) >= 1 + 2 * Len(lines)
       ELSE cost(i) = 1 + sumMoney([k \in DOMAIN lines |-> 2 * cost(lines[k].item)])

(* Where one stock card ends the next one opens: with the same quantity,   *)
(* and with a value that differs by the rounding of its lines only.        *)
ASSUME StockCardsJoin ==
  \A moves \in UNION {[1 .. n -> [qty : {-50, 150}, unitCost : {1, 3}]] : n \in 0 .. 3} :
    LET ledger == [k \in DOMAIN moves |-> moves[k] @@ [at |-> k]]
    IN \A from \in 1 .. 3 : \A to \in from .. 3 :
         LET card == stockCard(ledger, from, to)
             next == stockCard(ledger, to + 1, 3)
             off == card.closingValue - next.openingValue
         IN /\ card.closingQty = next.openingQty
            /\ off \in (- Len(card.rows) - 1) .. (Len(card.rows) + 1)
            /\ from > Len(ledger) => off = 0

(* Every baht outstanding is in one bucket of its customer, and nothing of *)
(* a settled, overpaid or voided invoice is.                               *)
ASSUME AgingAddsUp ==
  \A invoices \in UNION {[1 .. n -> [customer : {1, 2}, grand : {3}, wht : {0, 1}, paid : {0, 2, 4},
                                     status : {"PARTIALLY_PAID", "OVERDUE", "VOID"},
                                     days : {-1, 0, 1, 30, 31, 91}]] : n \in 0 .. 2} :
    LET r == report(invoices)
        owed(c) == sumMoney([k \in DOMAIN invoices |->
                               IF /\ invoices[k].customer = c
                                  /\ invoices[k].status # "VOID"
                                  /\ invoices[k].paid + invoices[k].wht < 3
                                 THEN 3 - invoices[k].paid - invoices[k].wht ELSE 0])
        listed(c) == IF c \in DOMAIN r
                       THEN MapThenSumSet(LAMBDA b : r[c][b], Buckets) ELSE 0
    IN /\ \A c \in {1, 2} : listed(c) = owed(c)
       /\ \A c \in DOMAIN r : r[c]["current"] > 0 => \E k \in DOMAIN invoices : invoices[k].days <= 0
       /\ \A c \in DOMAIN r : r[c]["d1_30"] > 0 => \E k \in DOMAIN invoices : invoices[k].days \in 1 .. 30
=============================================================================
