----------------------------- MODULE StockLedger -----------------------------
(***************************************************************************)
(* The stock ledger of apps/api/src/inventory for one (item, warehouse):   *)
(* goods receipts, goods issues, adjustments, stock counts and backflush,  *)
(* all of which post through LedgerService.post.                           *)
(*                                                                         *)
(* stock_movement is append-only; stock_balance is a cache that post reads *)
(* without a lock and then writes as an absolute value.  A posting handler *)
(* is therefore three steps: Check (the document's status and the          *)
(* availability read), Load (post's loadBalance) and Commit (movement,     *)
(* upsert of the balance, document status).  Other requests may commit     *)
(* between any two of them.  Quantities only: costs are left out.          *)
(***************************************************************************)
EXTENDS Integers, FiniteSets, FiniteSetsExt

CONSTANTS
  Receipts, Issues, Adjustments,  \* document ids, each with one line
  WorkOrders,                     \* completed work orders that consume this item
  Counts,                         \* stock counts that list this item
  NoCount,                        \* an adjustment that comes from no count
  Balance,                        \* the stock_balance row, for the ghost raced
  Requests,                       \* concurrently running requests
  Qtys,                           \* line quantities, in base UOM
  Consumed,                       \* quantity one backflush consumes
  MinStock,                       \* item.min_stock
  AllowNegative,                  \* INVENTORY_ALLOW_NEGATIVE_STOCK
  MaxMovements                    \* bound: movements explored

Docs == Receipts \cup Issues \cup Adjustments \cup WorkOrders

(* A tenant has finitely many documents, and no id serves two tables.      *)
ASSUME StockAssumptions ==
  /\ IsFiniteSet(Docs)
  /\ Receipts \cap Issues = {}
  /\ (Receipts \cup Issues) \cap Adjustments = {}
  /\ (Receipts \cup Issues \cup Adjustments) \cap WorkOrders = {}
  /\ Qtys \subseteq Nat \ {0}
  /\ Consumed \in Nat \ {0}
  /\ MinStock \in Nat
  /\ AllowNegative \in BOOLEAN
  /\ MaxMovements \in Nat
  /\ NoCount \notin Counts
  /\ Balance \notin Docs \cup Counts

VARIABLES
  status,   \* per document: "NONE" before the row exists
  delta,    \* per document: signed base quantity of its line
  source,   \* per adjustment: the count it reconciles, or NoCount
  posted,   \* per document: number of stock_movement rows with its ref_id
  onHand,   \* stock_balance.qty_on_hand
  signals,  \* LowStockReached events published
  count,    \* stock_count header and its line for this item
  tx,       \* per request: what it has read and is about to write
  raced     \* ghost: rows one request wrote while another, which had read
            \*   them, had not committed

docs == <<status, delta, source>>
vars == <<status, delta, source, posted, onHand, signals, count, tx, raced>>

DocStatus == {"NONE", "DRAFT", "CONFIRMED", "APPROVED", "POSTED"}
CountStatus == {"NONE", "OPEN", "COUNTING", "RECONCILED"}
Uncounted == -1
Idle == [op |-> "idle"]
Tx ==
  {Idle}
  \cup [op : {"advance"}, doc : Docs, to : DocStatus]
  \cup [op : {"check"}, doc : Docs]
  \cup [op : {"post"}, doc : Docs, loaded : Int]
  \cup [op : {"setLines"}, count : Counts, counted : Nat]
  \cup [op : {"reconcile"}, count : Counts, delta : Int]

TypeOK ==
  /\ status \in [Docs -> DocStatus]
  /\ delta \in [Docs -> Int]
  /\ \A d \in Receipts : delta[d] >= 0
  /\ \A d \in Issues : delta[d] <= 0
  /\ source \in [Adjustments -> Counts \cup {NoCount}]
  /\ posted \in [Docs -> Nat]
  /\ onHand \in Int
  /\ signals \in Nat
  /\ count \in [Counts -> [status : CountStatus, system : Int, counted : Nat \cup {Uncounted}]]
  /\ tx \in [Requests -> Tx]
  /\ raced \subseteq Docs \cup Counts \cup {Balance}

Init ==
  /\ status = [d \in Docs |-> "NONE"]
  /\ delta = [d \in Docs |-> IF d \in WorkOrders THEN -Consumed ELSE 0]
  /\ source = [d \in Adjustments |-> NoCount]
  /\ posted = [d \in Docs |-> 0]
  /\ onHand = 0
  /\ signals = 0
  /\ count = [c \in Counts |-> [status |-> "NONE", system |-> 0, counted |-> Uncounted]]
  /\ tx = [r \in Requests |-> Idle]
  /\ raced = {}

-----------------------------------------------------------------------------
ledger == <<posted, onHand, signals>>

(* A request remembers what it has read.                                   *)
Keep(r, snapshot) == tx' = [tx EXCEPT ![r] = snapshot] /\ UNCHANGED raced

(* The rows a request has read and will write.                             *)
touches(r) ==
  CASE tx[r].op = "advance" -> {tx[r].doc}
    [] tx[r].op \in {"check", "post"} -> {tx[r].doc, Balance}
    [] tx[r].op \in {"setLines", "reconcile"} -> {tx[r].count}
    [] OTHER -> {}

(* COMMIT; the ghost notes which rows another request had decided on.      *)
Commit(r) ==
  /\ tx' = [tx EXCEPT ![r] = Idle]
  /\ raced' = raced \cup {x \in touches(r) : \E q \in Requests \ {r} : x \in touches(q)}

(* A document is created as a DRAFT with its line.                         *)
Create(r, d, qty) ==
  /\ tx[r] = Idle
  /\ status[d] = "NONE"
  /\ status' = [status EXCEPT ![d] = "DRAFT"]
  /\ delta' = [delta EXCEPT ![d] = qty]
  /\ UNCHANGED <<source, ledger, count, tx, raced>>

(* GoodsReceiptService.create: an IN quantity is positive.                 *)
CreateReceipt(r) == \E d \in Receipts : \E q \in Qtys : Create(r, d, q)

(* GoodsIssueService.create: an OUT quantity counts negative.              *)
CreateIssue(r) == \E d \in Issues : \E q \in Qtys : Create(r, d, -q)

(* StockAdjustmentService.create: either sign, with a reason.              *)
CreateAdjustment(r) ==
  \E d \in Adjustments : \E q \in Qtys : Create(r, d, q) \/ Create(r, d, -q)

(* A handler that moves a DRAFT on; the check is on the snapshot.          *)
Advance(r, d, to) ==
  /\ tx[r] = Idle
  /\ status[d] = "DRAFT"
  /\ Keep(r, [op |-> "advance", doc |-> d, to |-> to])
  /\ UNCHANGED <<docs, ledger, count>>

(* GoodsReceiptService.confirm; its landed-cost allocation is left out.    *)
ConfirmReceipt(r, d) == d \in Receipts /\ Advance(r, d, "CONFIRMED")

(* StockAdjustmentService.approve.                                         *)
ApproveAdjustment(r, d) == d \in Adjustments /\ Advance(r, d, "APPROVED")

AdvanceCommit(r) ==
  /\ tx[r].op = "advance"
  /\ status' = [status EXCEPT ![tx[r].doc] = tx[r].to]
  /\ Commit(r)
  /\ UNCHANGED <<delta, source, ledger, count>>

(* Mutant: an issue that would leave a balance of -1 passes.               *)
availableOffByOne(d) == AllowNegative \/ onHand + delta[d] >= -1

(* GoodsIssueService.post: 422 unless the balance covers the line.         *)
available(d) == AllowNegative \/ onHand + delta[d] >= 0

(* The conditions under which each handler goes on to post.                *)
receiptPostable(d) == d \in Receipts /\ status[d] = "CONFIRMED"
issuePostable(d) == d \in Issues /\ status[d] = "DRAFT" /\ available(d)
adjustmentPostable(d) == d \in Adjustments /\ status[d] = "APPROVED"

(* Mutant: backflush does not look for an earlier movement.                *)
backflushableAlways(d) == d \in WorkOrders

(* Backflush skips when a BACKFLUSH movement refers to the work order.     *)
backflushable(d) == d \in WorkOrders /\ posted[d] = 0

postable(d) ==
  receiptPostable(d) \/ issuePostable(d) \/ adjustmentPostable(d) \/ backflushable(d)

(* Movements committed or under way, for the bound.                        *)
movements ==
  SumFunctionOnSet(posted, Docs)
    + Cardinality({r \in Requests : tx[r].op \in {"check", "post"}})

PostCheck(r, d) ==
  /\ tx[r] = Idle
  /\ movements < MaxMovements
  /\ postable(d)
  /\ Keep(r, [op |-> "check", doc |-> d])
  /\ UNCHANGED <<docs, ledger, count>>

(* LedgerService.post: loadBalance.                                        *)
PostLoad(r) ==
  /\ tx[r].op = "check"
  /\ Keep(r, [op |-> "post", doc |-> tx[r].doc, loaded |-> onHand])
  /\ UNCHANGED <<docs, ledger, count>>

(* Mutant: the cache ignores a movement's sign.                            *)
applyToBalanceUnsigned(before, qty) == IF qty < 0 THEN before - qty ELSE before + qty

(* applyToBalance and the threshold test of maybeSignalLowStock.           *)
applyToBalance(before, qty) == before + qty
crossedDown(before, after) == after <= MinStock /\ before > MinStock

(* The movement is appended, the balance is set to a value computed from   *)
(* the loaded one, and the document's status follows in the same commit.   *)
PostCommit(r) ==
  LET d == tx[r].doc
      after == applyToBalance(tx[r].loaded, delta[d])
  IN /\ tx[r].op = "post"
     /\ posted' = [posted EXCEPT ![d] = @ + 1]
     /\ onHand' = after
     /\ signals' = IF crossedDown(tx[r].loaded, after) THEN signals + 1 ELSE signals
     /\ status' = [status EXCEPT ![d] = IF d \in WorkOrders THEN @ ELSE "POSTED"]
     /\ Commit(r)
     /\ UNCHANGED <<delta, source, count>>

-----------------------------------------------------------------------------
(* StockCountService.create snapshots the balance as system_qty.           *)
CreateCount(r, c) ==
  /\ tx[r] = Idle
  /\ count[c].status = "NONE"
  /\ count' = [count EXCEPT ![c] = [status |-> "OPEN", system |-> onHand, counted |-> Uncounted]]
  /\ UNCHANGED <<docs, ledger, tx, raced>>

(* Mutant: the lines of a reconciled count may still be changed.           *)
SetLinesReadAlways(r, c, counted) ==
  /\ tx[r] = Idle
  /\ count[c].status # "NONE"
  /\ Keep(r, [op |-> "setLines", count |-> c, counted |-> counted])
  /\ UNCHANGED <<docs, ledger, count>>

(* StockCountService.setLines.                                             *)
SetLinesRead(r, c, counted) ==
  /\ tx[r] = Idle
  /\ count[c].status \in {"OPEN", "COUNTING"}
  /\ Keep(r, [op |-> "setLines", count |-> c, counted |-> counted])
  /\ UNCHANGED <<docs, ledger, count>>

SetLinesCommit(r) ==
  /\ tx[r].op = "setLines"
  /\ count' = [count EXCEPT ![tx[r].count].counted = tx[r].counted,
                            ![tx[r].count].status = "COUNTING"]
  /\ Commit(r)
  /\ UNCHANGED <<docs, ledger>>

(* reconcile: a counted difference becomes a DRAFT adjustment.             *)
ReconcileRead(r, c) ==
  /\ tx[r] = Idle
  /\ count[c].status = "COUNTING"
  /\ count[c].counted # count[c].system
  /\ Keep(r, [op |-> "reconcile", count |-> c, delta |-> count[c].counted - count[c].system])
  /\ UNCHANGED <<docs, ledger, count>>

ReconcileCommit(r) ==
  /\ tx[r].op = "reconcile"
  /\ \E d \in Adjustments :
       /\ status[d] = "NONE"
       /\ status' = [status EXCEPT ![d] = "DRAFT"]
       /\ delta' = [delta EXCEPT ![d] = tx[r].delta]
       /\ source' = [source EXCEPT ![d] = tx[r].count]
  /\ count' = [count EXCEPT ![tx[r].count].status = "RECONCILED"]
  /\ Commit(r)
  /\ UNCHANGED ledger

Rollback(r) ==
  /\ tx[r] # Idle
  /\ Keep(r, Idle)
  /\ UNCHANGED <<docs, ledger, count>>

Next ==
  \E r \in Requests :
    \/ CreateReceipt(r) \/ CreateIssue(r) \/ CreateAdjustment(r)
    \/ \E d \in Docs : ConfirmReceipt(r, d) \/ ApproveAdjustment(r, d) \/ PostCheck(r, d)
    \/ AdvanceCommit(r) \/ PostLoad(r) \/ PostCommit(r)
    \/ \E c \in Counts :
         \/ CreateCount(r, c)
         \/ \E n \in Qtys \cup {0} : SetLinesRead(r, c, n)
         \/ ReconcileRead(r, c)
    \/ SetLinesCommit(r) \/ ReconcileCommit(r) \/ Rollback(r)

Spec == Init /\ [][Next]_vars

-----------------------------------------------------------------------------
(* The balance that rebuildBalance would compute from the movements, of    *)
(* which each document has so many.                                        *)
rebuildBalance(of) == SumFunctionOnSet([d \in Docs |-> of[d] * delta[d]], Docs)
replay == rebuildBalance(posted)

(* However requests interleave, the cache misses whole movements at most:  *)
(* it is the sum of some of the postings, each counted at most once.       *)
CacheIsPartialReplay ==
  \E kept \in [Docs -> UNION {0 .. posted[d] : d \in Docs}] :
    /\ \A d \in Docs : kept[d] <= posted[d]
    /\ onHand = rebuildBalance(kept)

(* "the result equals the live cache" (rebuildBalance): replaying the      *)
(* ledger gives the stored balance.                                        *)
CacheIsReplay == onHand = replay

-----------------------------------------------------------------------------
(* CacheIsReplay and the properties below are promised without condition.  *)
(* They hold as long as no two requests overlap on the row they are about  *)
(* (two postings always overlap on the balance); an overlap breaks each.   *)

(* The balance is the replay of the ledger until two postings overlap.     *)
CacheIsReplayUnlessRaced == Balance \notin raced => CacheIsReplay

(* "the issue is rejected with 422": posting a goods issue never leaves a  *)
(* negative balance, and never takes more than the movements put in.       *)
IssueNeverOverdraws ==
  [][\A d \in Issues :
       posted'[d] > posted[d] /\ ~AllowNegative /\ Balance \notin raced => replay' >= 0]_vars

(* "posting an already-posted receipt MUST return 409", and backflush is   *)
(* "idempotent on wo_id": every document and every completed work order    *)
(* moves stock at most once.                                               *)
PostedOnce == \A d \in Docs \ raced : posted[d] <= 1

(* "reconcile" books what was counted: the adjustment raised from a count  *)
(* is the difference its lines record, and there is one per count.         *)
DifferenceIsBooked ==
  \A c \in Counts \ raced :
    LET raised == {d \in Adjustments : source[d] = c}
    IN /\ Cardinality(raised) <= 1
       /\ \A d \in raised : delta[d] = count[c].counted - count[c].system

(* LowStockReached is published by every movement that takes the balance   *)
(* from above min_stock to or below it, and by no other.                   *)
LowStockSignalled ==
  [][\/ Balance \in raced
     \/ signals' = signals + (IF onHand > MinStock /\ onHand' <= MinStock THEN 1 ELSE 0)]_vars

(* What the ledger says agrees with what is stored: the balance with the   *)
(* movements (rebuildBalance), an adjustment with its count (reconcile).   *)
LedgerAgreesUnlessRaced == CacheIsReplayUnlessRaced /\ DifferenceIsBooked

(* What a posting may not do: overdraw the stock by a goods issue, or pass *)
(* min_stock without a signal (GoodsIssueService.post, LedgerService.post).*)
PostingRules == IssueNeverOverdraws /\ LowStockSignalled
==============================================================================
