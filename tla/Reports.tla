------------------------------ MODULE Reports ------------------------------
(***************************************************************************)
(* What the API computes when it reads: cursor pages                       *)
(* (apps/api/src/common/pagination/cursor.ts and the list methods), the    *)
(* roll-up of a bill of materials and unit conversion                      *)
(* (inventory/bom.service.ts, item.service.ts), the stock card             *)
(* (inventory/report.service.ts) and the aging of receivables              *)
(* (sales/aging-report.service.ts).  Amounts are in the units of Money.    *)
(***************************************************************************)
EXTENDS Money, FiniteSets

(* A time is an integer number of PostgreSQL's microseconds; a JavaScript  *)
(* Date keeps the milliseconds, here PER_MS units long.                    *)
PER_MS == 2

(* ORDER BY created_at DESC, id DESC, and the comparison with the cursor.  *)
Newer(a, b) == a.at > b.at \/ (a.at = b.at /\ a.id > b.id)

inOrder(rows) ==
  [k \in 1 .. Cardinality(rows) |->
     CHOOSE r \in rows : Cardinality({s \in rows : Newer(s, r)}) = k - 1]

(* Services that put toISOString() in the cursor cut it to the             *)
(* millisecond, those that select the column as text keep it exact.        *)
toCursor(row, exact) == [row EXCEPT !.at = IF exact THEN @ ELSE @ - (@ % PER_MS)]

(* A page from at most limit + 1 rows; no next cursor when none is left.   *)
buildPage(rows, limit, exact) ==
  LET hasMore == Len(rows) > limit
      data == IF hasMore THEN SubSeq(rows, 1, limit) ELSE rows
  IN [data |-> data,
      next |-> IF hasMore THEN {toCursor(Last(data), exact)} ELSE {}]

(* cursor is a set: empty for the first page.                              *)
list(rows, limit, exact, cursor) ==
  LET older == {r \in rows : \A c \in cursor : Newer(c, r)}
      found == inOrder(older)
      n == IF Len(found) > limit THEN limit + 1 ELSE Len(found)
  IN buildPage(SubSeq(found, 1, n), limit, exact)

(* The rows a client sees that follows the cursors to the end.             *)
RECURSIVE readAll(_, _, _, _)
readAll(rows, limit, exact, cursor) ==
  LET page == list(rows, limit, exact, cursor)
  IN IF page.next = {} THEN page.data
     ELSE page.data \o readAll(rows, limit, exact, page.next)

-----------------------------------------------------------------------------
(* factors maps a unit to its factor <<num, den>> to the item's base unit; *)
(* a unit without one is refused (the set is empty).  A line without a     *)
(* unit is in the base unit.                                               *)
toBase(qty, unit, base, factors) ==
  IF unit = base THEN {qty}
  ELSE {HalfUp(qty * f[2][1], f[2][2]) : f \in {g \in factors : g[1] = unit}}

(* qty x (1 + scrap_pct).                                                  *)
effectiveQty(line) == HalfUp(line.qty * (line.scrap[1] + line.scrap[2]), line.scrap[2])

(* The active BOM of the highest version: create never deactivates one.    *)
activeBom(item) ==
  CHOOSE b \in item.boms :
    /\ b.active
    /\ \A c \in item.boms : c.active => c.version <= b.version

flatCost(item) == IF item.avgCost > 0 THEN item.avgCost ELSE item.standardCost

(* A produced item rolls up its BOM; an item already on the path, which    *)
(* only a cycle can reach again, counts at its flat cost.                  *)
RECURSIVE costOf(_, _, _)
RECURSIVE rollup(_, _, _)
costOf(items, i, visited) ==
  IF i \notin visited /\ \E b \in items[i].boms : b.active
    THEN rollup(items, activeBom(items[i]), visited \cup {i})
    ELSE flatCost(items[i])

(* Conversion cost plus the extended cost of every component.              *)
rollup(items, b, visited) ==
  b.conversionCost +
  sumMoney([k \in DOMAIN b.lines |->
              lineTotal([qty |-> effectiveQty(b.lines[k]), discount |-> 0,
                         unitPrice |-> costOf(items, b.lines[k].item, visited)])])

-----------------------------------------------------------------------------
(* moves is the ledger of one item in order of time.  The opening value is *)
(* summed by the database and rounded once; the value of the window is     *)
(* rounded once per line.                                                  *)
stockCard(moves, from, to) ==
  LET before == SelectSeq(moves, LAMBDA m : m.at < from)
      rows == SelectSeq(moves, LAMBDA m : from <= m.at /\ m.at <= to)
      qtyOf(s) == sumMoney([k \in DOMAIN s |-> s[k].qty])
      opening == HalfUp(sumMoney([k \in DOMAIN before |->
                                    before[k].qty * before[k].unitCost]), QtyScale)
      value == sumMoney([k \in DOMAIN rows |->
                           lineTotal([qty |-> rows[k].qty, discount |-> 0,
                                      unitPrice |-> rows[k].unitCost])])
  IN [openingQty |-> qtyOf(before), openingValue |-> opening, rows |-> rows,
      closingQty |-> qtyOf(before) + qtyOf(rows),
      closingValue |-> opening + value]

-----------------------------------------------------------------------------
Buckets == {"current", "d1_30", "d31_60", "d61_90", "over_90"}

(* days is the number of whole days past the due date.                     *)
bucketFor(days) ==
  CASE days <= 0 -> "current"
    [] days \in 1 .. 30 -> "d1_30"
    [] days \in 31 .. 60 -> "d31_60"
    [] days \in 61 .. 90 -> "d61_90"
    [] days > 90 -> "over_90"

(* grand - wht - paid, of the invoices that still wait for money.  An      *)
(* invoice without a due date has days = 0.                                *)
outstandingOf(inv) ==
  IF inv.status \in {"ISSUED", "PARTIALLY_PAID", "OVERDUE"}
    THEN inv.grand - inv.wht - inv.paid ELSE 0

report(invoices) ==
  [c \in {inv.customer : inv \in {i \in Range(invoices) : outstandingOf(i) > 0}} |->
     [b \in Buckets |->
        sumMoney([k \in DOMAIN invoices |->
                    IF /\ outstandingOf(invoices[k]) > 0
                       /\ invoices[k].customer = c
                       /\ bucketFor(invoices[k].days) = b
                      THEN outstandingOf(invoices[k]) ELSE 0])]]
=============================================================================
