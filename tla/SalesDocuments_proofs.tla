------------------------- MODULE SalesDocuments_proofs -------------------------
(***************************************************************************)
(* What no interleaving of sales requests can break, for every set of      *)
(* invoices, quotations, amounts and concurrent requests: receipts, the    *)
(* cover of amount_paid, and stock leaving once.  Then what holds of a     *)
(* document as long as no two requests overlap on it.                      *)
(***************************************************************************)
EXTENDS SalesDocuments, SumTheorems

USE SalesAssumptions

LEMMA InitIndInv == Init => IndInv
  BY DEF Init, IndInv, TypeOK, QuotationStatus, InvoiceStatus, InvoiceRow, Tx, Idle,
         PayersSawCommitted, ReceiptWithFirstPayment, PaidIsCovered, StockLeavesOnce,
         StockIsOwed

(* A handler that stores a snapshot of Tx keeps the types.                 *)
LEMMA ReadTypeOK ==
  ASSUME TypeOK, NEW r \in Requests, NEW t \in Tx, Read(r, t)
  PROVE  TypeOK'
  BY DEF TypeOK, Read, db

(* The ghosts keep their types, and so does all that COMMIT itself writes. *)
LEMMA MarkTypeOK ==
  ASSUME TypeOK, NEW r \in Requests, MarkRaced(r)
  PROVE  raced' \subseteq Invoices \cup Quotes
  BY DEF TypeOK, MarkRaced

LEMMA CommitTypeOK ==
  ASSUME TypeOK, NEW r \in Requests, Commit(r)
  PROVE  /\ tx' \in [Requests -> Tx]
         /\ pastDue' \subseteq Invoices
         /\ raced' \subseteq Invoices \cup Quotes
         /\ lost' \subseteq Invoices
  BY MarkTypeOK DEF TypeOK, Commit, Tx

(* An inserted invoice is a well-formed row.                               *)
LEMMA InsertTypeOK ==
  ASSUME TypeOK, NEW q \in Quotes \cup {NoQuote}, NEW a \in Nat, insertInvoice(q, a)
  PROVE  invoice' \in [Invoices -> InvoiceRow]
  BY DEF TypeOK, insertInvoice, InvoiceRow, InvoiceStatus

(* A status update keeps the row well formed.                              *)
LEMMA SetStatusTypeOK ==
  ASSUME TypeOK, NEW i \in Invoices, NEW status \in InvoiceStatus, setStatus(i, status)
  PROVE  invoice' \in [Invoices -> InvoiceRow]
  BY DEF TypeOK, setStatus, InvoiceRow

LEMMA NextTypeOK == TypeOK /\ [Next]_vars => TypeOK'
<1> SUFFICES ASSUME TypeOK, [Next]_vars PROVE TypeOK'
  OBVIOUS
<1>0. \A r \in Requests : tx[r] \in Tx
  BY DEF TypeOK
<1>1. CASE UNCHANGED vars
  BY <1>1 DEF vars, TypeOK
<1>2. ASSUME NEW i \in Invoices, DueDatePasses(i) PROVE TypeOK'
  BY <1>2 DEF DueDatePasses, TypeOK, db
<1>3. ASSUME NEW r \in Requests, NEW q \in Quotes,
             CreateQuotation(r, q) \/ TransitionRead(r, q) \/ ConvertRead(r, q)
      PROVE TypeOK'
  <2>1. CASE CreateQuotation(r, q)
    BY <2>1 DEF CreateQuotation, TypeOK, QuotationStatus
  <2>2. CASE TransitionRead(r, q)
    <3>1. \A t \in Transitions : [op |-> "transition", quote |-> q, to |-> t[2]] \in Tx
      BY DEF Transitions, Tx, QuotationStatus
    <3> QED
      BY <2>2, <3>1, ReadTypeOK DEF TransitionRead
  <2>3. CASE ConvertRead(r, q)
    <3>1. [op |-> "convert", quote |-> q] \in Tx
      BY DEF Tx
    <3> QED
      BY <2>3, <3>1, ReadTypeOK DEF ConvertRead
  <2> QED
    BY <1>3, <2>1, <2>2, <2>3
<1>4. ASSUME NEW r \in Requests, NEW q \in Quotes \cup {NoQuote}, NEW a \in Amounts,
             CreateInvoiceRead(r, q, a)
      PROVE TypeOK'
  <2>1. [op |-> "create", quote |-> q, subtotal |-> a] \in Tx
    BY DEF Tx
  <2> QED
    BY <1>4, <2>1, ReadTypeOK DEF CreateInvoiceRead
<1>5. ASSUME NEW r \in Requests, NEW i \in Invoices, IssueRead(r, i) \/ VoidRead(r, i)
      PROVE TypeOK'
  <2>1. [op |-> "issue", inv |-> i] \in Tx /\ [op |-> "void", inv |-> i] \in Tx
    BY DEF Tx
  <2> QED
    BY <1>5, <2>1, ReadTypeOK DEF IssueRead, VoidRead
<1>6. ASSUME NEW r \in Requests, NEW i \in Invoices, NEW a \in Amounts,
             RecordPaymentRead(r, i, a)
      PROVE TypeOK'
  <2>1. [op |-> "pay", inv |-> i, amount |-> a, seen |-> invoice[i]] \in Tx
    BY DEF Tx, TypeOK
  <2> QED
    BY <1>6, <2>1, ReadTypeOK DEF RecordPaymentRead
<1>7. ASSUME NEW r \in Requests, SweepRead(r) PROVE TypeOK'
  <2> DEFINE due == {i \in pastDue : invoice[i].status \in {"ISSUED", "PARTIALLY_PAID"}}
  <2>1. [op |-> "sweep", due |-> due] \in Tx
    BY DEF Tx, TypeOK
  <2> QED
    BY <1>7, <2>1, ReadTypeOK DEF SweepRead
<1>8. ASSUME NEW r \in Requests, TransitionCommit(r) PROVE TypeOK'
  BY <1>0, <1>8, CommitTypeOK DEF TransitionCommit, TypeOK, Tx, Idle
<1>9. ASSUME NEW r \in Requests, ConvertCommit(r) PROVE TypeOK'
  <2>1. tx[r].quote \in Quotes
    BY <1>0, <1>9 DEF ConvertCommit, Tx, Idle
  <2>2. invoice' \in [Invoices -> InvoiceRow]
    BY <1>9, <2>1, InsertTypeOK DEF ConvertCommit
  <2> QED
    BY <1>9, <2>1, <2>2, CommitTypeOK DEF ConvertCommit, TypeOK, QuotationStatus
<1>10. ASSUME NEW r \in Requests, CreateInvoiceCommit(r) PROVE TypeOK'
  <2>1. tx[r].quote \in Quotes \cup {NoQuote} /\ tx[r].subtotal \in Nat
    <3>1. tx[r] \in [op : {"create"}, quote : Quotes \cup {NoQuote}, subtotal : Amounts]
      BY <1>0, <1>10 DEF CreateInvoiceCommit, Tx, Idle
    <3> QED
      BY <3>1
  <2>2. invoice' \in [Invoices -> InvoiceRow]
    BY <1>10, <2>1, InsertTypeOK DEF CreateInvoiceCommit
  <2> QED
    BY <1>10, <2>2, CommitTypeOK DEF CreateInvoiceCommit, TypeOK
<1>11. ASSUME NEW r \in Requests, IssueCommit(r) PROVE TypeOK'
  <2>1. tx[r].inv \in Invoices
    BY <1>0, <1>11 DEF IssueCommit, Tx, Idle
  <2> QED
    BY <1>11, <2>1, CommitTypeOK, SetStatusTypeOK
    DEF IssueCommit, issueForSale, TypeOK, InvoiceStatus
<1>12. ASSUME NEW r \in Requests, RecordPaymentCommit(r) PROVE TypeOK'
  <2>1. tx[r].inv \in Invoices /\ tx[r].amount \in Nat /\ tx[r].seen \in InvoiceRow
    BY <1>0, <1>12 DEF RecordPaymentCommit, Tx, Idle
  <2>2. /\ newPaid(tx[r].seen, tx[r].amount) \in Nat
        /\ newStatus(tx[r].seen, tx[r].amount) \in InvoiceStatus
    BY <2>1 DEF newPaid, newStatus, InvoiceRow, InvoiceStatus
  <2>3. invoice' \in [Invoices -> InvoiceRow]
    BY <1>12, <2>1, <2>2 DEF RecordPaymentCommit, TypeOK, InvoiceRow
  <2> QED
    BY <1>12, <2>1, <2>3, CommitTypeOK DEF RecordPaymentCommit, issueReceipt, TypeOK
<1>13. ASSUME NEW r \in Requests, VoidCommit(r) PROVE TypeOK'
  <2>1. tx[r].inv \in Invoices
    BY <1>0, <1>13 DEF VoidCommit, Tx, Idle
  <2>2. [op |-> "voided", inv |-> tx[r].inv] \in Tx
    BY <2>1 DEF Tx
  <2>3. invoice' \in [Invoices -> InvoiceRow]
    BY <1>13, <2>1, SetStatusTypeOK DEF VoidCommit, InvoiceStatus
  <2>4. raced' \subseteq Invoices \cup Quotes
    BY <1>13, MarkTypeOK DEF VoidCommit
  <2> QED
    BY <1>13, <2>2, <2>3, <2>4 DEF VoidCommit, TypeOK
<1>14. ASSUME NEW r \in Requests, SweepCommit(r) PROVE TypeOK'
  BY <1>14, CommitTypeOK DEF SweepCommit, TypeOK, InvoiceRow, InvoiceStatus
<1>15. ASSUME NEW r \in Requests, CompensateRead(r) PROVE TypeOK'
  <2>1. tx[r].inv \in Invoices
    BY <1>0, <1>15 DEF CompensateRead, Tx, Idle
  <2>2. [op |-> "compensate", inv |-> tx[r].inv, outs |-> out[tx[r].inv]] \in Tx
    BY <2>1 DEF Tx, TypeOK
  <2>3. Idle \in Tx
    BY DEF Tx
  <2> QED
    BY <1>15, <2>2, <2>3 DEF CompensateRead, TypeOK, db
<1>16. ASSUME NEW r \in Requests, CompensateCommit(r) PROVE TypeOK'
  <2>1. tx[r].inv \in Invoices /\ tx[r].outs \in Nat
    BY <1>0, <1>16 DEF CompensateCommit, Tx, Idle
  <2> QED
    BY <1>16, <2>1, CommitTypeOK DEF CompensateCommit, TypeOK
<1>17. ASSUME NEW r \in Requests, Rollback(r) \/ HookLost(r) PROVE TypeOK'
  <2>1. CASE Rollback(r)
    BY <2>1 DEF Rollback, TypeOK, Tx, db
  <2>2. CASE HookLost(r)
    <3>1. tx[r].inv \in Invoices
      BY <1>0, <2>2 DEF HookLost, Tx, Idle
    <3> QED
      BY <2>2, <3>1 DEF HookLost, TypeOK, Tx, db
  <2> QED
    BY <1>17, <2>1, <2>2
<1> QED
  BY <1>1, <1>2, <1>3, <1>4, <1>5, <1>6, <1>7, <1>8, <1>9, <1>10, <1>11, <1>12, <1>13,
     <1>14, <1>15, <1>16, <1>17 DEF Next, Hooks

-----------------------------------------------------------------------------
(* The steps that leave invoices, payments, receipts and issues alone.     *)
Elsewhere(r) ==
  \/ \E q \in Quotes : CreateQuotation(r, q) \/ TransitionRead(r, q) \/ ConvertRead(r, q)
  \/ \E q \in Quotes \cup {NoQuote} : \E a \in Amounts : CreateInvoiceRead(r, q, a)
  \/ \E i \in Invoices : IssueRead(r, i) \/ VoidRead(r, i)
  \/ SweepRead(r) \/ TransitionCommit(r) \/ CompensateRead(r) \/ CompensateCommit(r)
  \/ Rollback(r) \/ HookLost(r)

(* Such a step changes no row the invariant speaks of, and starts no       *)
(* payment.                                                                *)
LEMMA ElsewhereKeeps ==
  ASSUME TypeOK, NEW r \in Requests, Elsewhere(r)
  PROVE  /\ UNCHANGED <<invoice, paid, receipts, out>>
         /\ \A s \in Requests : tx'[s] = tx[s] \/ tx'[s].op # "pay"
<1>1. CASE \E q \in Quotes : CreateQuotation(r, q) \/ TransitionRead(r, q) \/ ConvertRead(r, q)
  BY <1>1 DEF CreateQuotation, TransitionRead, ConvertRead, Read, db, TypeOK
<1>2. CASE \E q \in Quotes \cup {NoQuote} : \E a \in Amounts : CreateInvoiceRead(r, q, a)
  BY <1>2 DEF CreateInvoiceRead, Read, db, TypeOK
<1>3. CASE \E i \in Invoices : IssueRead(r, i) \/ VoidRead(r, i)
  BY <1>3 DEF IssueRead, VoidRead, Read, db, TypeOK
<1>4. CASE SweepRead(r)
  BY <1>4 DEF SweepRead, Read, db, TypeOK
<1>5. CASE TransitionCommit(r) \/ CompensateCommit(r) \/ Rollback(r) \/ HookLost(r)
  BY <1>5 DEF TransitionCommit, CompensateCommit, Rollback, HookLost, Commit, Idle, db, TypeOK
<1>6. CASE CompensateRead(r)
  BY <1>6 DEF CompensateRead, Idle, db, TypeOK
<1> QED
  BY <1>1, <1>2, <1>3, <1>4, <1>5, <1>6 DEF Elsewhere

(* Nothing but an insert gives an unused id a subtotal, and nothing takes  *)
(* payments back.                                                          *)
LEMMA InsertKeeps ==
  ASSUME TypeOK, NEW q, NEW a, insertInvoice(q, a), NEW j \in Invoices
  PROVE  \/ invoice'[j] = invoice[j]
         \/ /\ invoice[j].status = "NONE"
            /\ invoice'[j].status = "DRAFT"
            /\ invoice'[j].amountPaid = 0
  BY DEF TypeOK, insertInvoice

(* How one step moves one invoice: not at all, by an insert, by a change   *)
(* of status alone (never to PAID), or by a payment.                       *)
Moved(j) ==
  \/ invoice'[j] = invoice[j]
  \/ /\ invoice[j].status = "NONE"
     /\ invoice'[j].status = "DRAFT"
     /\ invoice'[j].amountPaid = 0
  \/ /\ invoice'[j].status \in {"ISSUED", "VOID", "OVERDUE"}
     /\ invoice'[j].subtotal = invoice[j].subtotal
     /\ invoice'[j].amountPaid = invoice[j].amountPaid

LEMMA CommitMoves ==
  ASSUME TypeOK, NEW r \in Requests, NEW j \in Invoices,
         \/ ConvertCommit(r) \/ CreateInvoiceCommit(r)
         \/ IssueCommit(r) \/ VoidCommit(r) \/ SweepCommit(r)
  PROVE  /\ Moved(j)
         /\ UNCHANGED <<paid, receipts>>
         /\ \A s \in Requests : tx'[s] = tx[s] \/ tx'[s].op # "pay"
<1>1. CASE ConvertCommit(r)
  BY <1>1, InsertKeeps DEF ConvertCommit, Commit, Moved, Idle, TypeOK
<1>2. CASE CreateInvoiceCommit(r)
  BY <1>2, InsertKeeps DEF CreateInvoiceCommit, Commit, Moved, Idle, TypeOK
<1>3. CASE IssueCommit(r)
  BY <1>3 DEF IssueCommit, setStatus, Commit, Moved, Idle, TypeOK, InvoiceRow
<1>4. CASE VoidCommit(r)
  BY <1>4 DEF VoidCommit, setStatus, Moved, TypeOK, InvoiceRow
<1>5. CASE SweepCommit(r)
  BY <1>5 DEF SweepCommit, Commit, Moved, Idle, TypeOK, InvoiceRow
<1> QED
  BY <1>1, <1>2, <1>3, <1>4, <1>5

(* A payment is applied to the invoice its request read, with a positive   *)
(* amount.                                                                 *)
LEMMA PayerType ==
  ASSUME TypeOK, NEW r \in Requests, tx[r].op = "pay"
  PROVE  /\ tx[r].inv \in Invoices
         /\ tx[r].amount \in Nat \ {0}
         /\ tx[r].seen.amountPaid \in Nat
         /\ tx[r].seen.subtotal \in Nat
<1>1. tx[r] \in [op : {"pay"}, inv : Invoices, amount : Amounts, seen : InvoiceRow]
  BY DEF TypeOK, Tx, Idle
<1> QED
  BY <1>1 DEF InvoiceRow

-----------------------------------------------------------------------------
(* Every step either leaves a payment under way alone, or is a payment     *)
(* that adds a row under it, or starts it from the committed invoice.      *)
LEMMA NextPayers == IndInv /\ [Next]_vars => PayersSawCommitted'
<1> SUFFICES ASSUME IndInv, [Next]_vars, NEW s \in Requests, tx'[s].op = "pay"
             PROVE  /\ invoice'[tx'[s].inv].status # "NONE"
                    /\ invoice'[tx'[s].inv].subtotal = tx'[s].seen.subtotal
                    /\ tx'[s].seen.amountPaid <= paid'[tx'[s].inv]
  BY DEF PayersSawCommitted
<1>0. TypeOK /\ PayersSawCommitted /\ PaidIsCovered
  BY DEF IndInv
<1>1. ASSUME tx'[s] = tx[s], \A j \in Invoices : Moved(j), paid' = paid
      PROVE  /\ invoice'[tx'[s].inv].status # "NONE"
             /\ invoice'[tx'[s].inv].subtotal = tx'[s].seen.subtotal
             /\ tx'[s].seen.amountPaid <= paid'[tx'[s].inv]
  BY <1>0, <1>1, PayerType DEF PayersSawCommitted, Moved
<1>2. CASE UNCHANGED vars
  BY <1>1, <1>2 DEF vars, Moved
<1>3. ASSUME NEW i \in Invoices, DueDatePasses(i)
      PROVE  tx' = tx /\ invoice' = invoice /\ paid' = paid
  BY <1>3 DEF DueDatePasses, db
<1>4. ASSUME NEW r \in Requests, Elsewhere(r)
      PROVE  tx'[s] = tx[s] /\ invoice' = invoice /\ paid' = paid
  BY <1>0, <1>4, ElsewhereKeeps
<1>5. ASSUME NEW r \in Requests,
             \/ ConvertCommit(r) \/ CreateInvoiceCommit(r)
             \/ IssueCommit(r) \/ VoidCommit(r) \/ SweepCommit(r)
      PROVE  tx'[s] = tx[s] /\ paid' = paid /\ \A j \in Invoices : Moved(j)
  <2>1. \A j \in Invoices : Moved(j)
    BY <1>0, <1>5, CommitMoves
  <2>2. UNCHANGED tx[s] /\ paid' = paid
    BY <1>0, <1>5, PayerType, CommitMoves
    DEF ConvertCommit, CreateInvoiceCommit, IssueCommit, VoidCommit, SweepCommit, Commit,
        Idle, TypeOK
  <2> QED
    BY <2>1, <2>2
<1>6. ASSUME NEW r \in Requests, NEW i \in Invoices, NEW a \in Amounts,
             RecordPaymentRead(r, i, a)
      PROVE  /\ invoice'[tx'[s].inv].status # "NONE"
             /\ invoice'[tx'[s].inv].subtotal = tx'[s].seen.subtotal
             /\ tx'[s].seen.amountPaid <= paid'[tx'[s].inv]
  <2>1. invoice' = invoice /\ paid' = paid
    BY <1>6 DEF RecordPaymentRead, Read, db
  <2>2. CASE s = r
    BY <1>0, <1>6, <2>1, <2>2
    DEF RecordPaymentRead, Read, PAYABLE, PaidIsCovered, TypeOK
  <2>3. CASE s # r
    BY <1>0, <1>1, <1>6, <2>1, <2>3 DEF RecordPaymentRead, Read, Moved, TypeOK
  <2> QED
    BY <2>2, <2>3
<1>7. ASSUME NEW r \in Requests, RecordPaymentCommit(r)
      PROVE  /\ invoice'[tx'[s].inv].status # "NONE"
             /\ invoice'[tx'[s].inv].subtotal = tx'[s].seen.subtotal
             /\ tx'[s].seen.amountPaid <= paid'[tx'[s].inv]
  <2>1. s # r /\ tx'[s] = tx[s]
    BY <1>0, <1>7 DEF RecordPaymentCommit, Commit, Idle, TypeOK
  <2>2. tx[r].op = "pay" /\ tx[s].op = "pay"
    BY <1>7, <2>1 DEF RecordPaymentCommit
  <2>3. \A j \in Invoices : /\ invoice'[j].subtotal = invoice[j].subtotal
                            /\ invoice'[j].status = invoice[j].status
                                 \/ invoice'[j].status \in {"PAID", "PARTIALLY_PAID"}
                            /\ paid'[j] >= paid[j]
    BY <1>0, <1>7, <2>2, PayerType
    DEF RecordPaymentCommit, newStatus, TypeOK, InvoiceRow
  <2>4. tx[s].inv \in Invoices /\ tx[s].seen.amountPaid \in Nat
    BY <1>0, <2>2, PayerType
  <2>5. paid[tx[s].inv] \in Nat /\ paid'[tx[s].inv] \in Nat
    BY <1>0, <2>4, NextTypeOK DEF TypeOK
  <2> QED
    BY <1>0, <2>1, <2>2, <2>3, <2>4, <2>5 DEF PayersSawCommitted
<1> QED
  BY <1>1, <1>2, <1>3, <1>4, <1>5, <1>6, <1>7 DEF Next, Hooks, Elsewhere, Moved

(* The receipt, the cover of amount_paid and the single issue of one       *)
(* invoice, all three, survive every step.                                 *)
LEMMA NextSafe ==
  IndInv /\ [Next]_vars => ReceiptWithFirstPayment' /\ PaidIsCovered' /\ StockLeavesOnce'
<1> SUFFICES ASSUME IndInv, [Next]_vars, NEW j \in Invoices
             PROVE  /\ receipts'[j] = IF paid'[j] > 0 THEN 1 ELSE 0
                    /\ invoice'[j].amountPaid <= paid'[j]
                    /\ invoice'[j].status = "PAID" => paid'[j] >= invoice'[j].subtotal
                    /\ out'[j] <= (IF j \in Stocked THEN 1 ELSE 0)
  BY DEF ReceiptWithFirstPayment, PaidIsCovered, StockLeavesOnce
<1>0. /\ TypeOK /\ PayersSawCommitted
      /\ receipts[j] = IF paid[j] > 0 THEN 1 ELSE 0
      /\ invoice[j].amountPaid <= paid[j]
      /\ invoice[j].status = "PAID" => paid[j] >= invoice[j].subtotal
      /\ out[j] <= (IF j \in Stocked THEN 1 ELSE 0)
      /\ paid[j] \in Nat /\ out[j] \in Nat
  BY DEF IndInv, ReceiptWithFirstPayment, PaidIsCovered, StockLeavesOnce, TypeOK
<1>1. CASE UNCHANGED <<invoice, paid, receipts, out>>
  BY <1>0, <1>1
<1>2. CASE UNCHANGED vars
  BY <1>1, <1>2 DEF vars
<1>3. ASSUME NEW i \in Invoices, DueDatePasses(i) PROVE UNCHANGED <<invoice, paid, receipts, out>>
  BY <1>3 DEF DueDatePasses, db
<1>4. ASSUME NEW r \in Requests, Elsewhere(r) PROVE UNCHANGED <<invoice, paid, receipts, out>>
  BY <1>0, <1>4, ElsewhereKeeps
<1>5. ASSUME NEW r \in Requests, NEW i \in Invoices, NEW a \in Amounts,
             RecordPaymentRead(r, i, a)
      PROVE  UNCHANGED <<invoice, paid, receipts, out>>
  BY <1>5 DEF RecordPaymentRead, Read, db
<1>6. ASSUME NEW r \in Requests,
             \/ ConvertCommit(r) \/ CreateInvoiceCommit(r)
             \/ IssueCommit(r) \/ VoidCommit(r) \/ SweepCommit(r)
      PROVE  /\ receipts'[j] = IF paid'[j] > 0 THEN 1 ELSE 0
             /\ invoice'[j].amountPaid <= paid'[j]
             /\ invoice'[j].status = "PAID" => paid'[j] >= invoice'[j].subtotal
             /\ out'[j] <= (IF j \in Stocked THEN 1 ELSE 0)
  <2>1. Moved(j) /\ paid' = paid /\ receipts' = receipts
    BY <1>0, <1>6, CommitMoves
  <2>2. CASE IssueCommit(r)
    BY <1>0, <2>1, <2>2 DEF IssueCommit, issueForSale, TypeOK, Moved
  <2>3. CASE ConvertCommit(r) \/ CreateInvoiceCommit(r) \/ VoidCommit(r) \/ SweepCommit(r)
    BY <1>0, <2>1, <2>3 DEF ConvertCommit, CreateInvoiceCommit, VoidCommit, SweepCommit, Moved
  <2> QED
    BY <1>6, <2>2, <2>3
<1>7. ASSUME NEW r \in Requests, RecordPaymentCommit(r)
      PROVE  /\ receipts'[j] = IF paid'[j] > 0 THEN 1 ELSE 0
             /\ invoice'[j].amountPaid <= paid'[j]
             /\ invoice'[j].status = "PAID" => paid'[j] >= invoice'[j].subtotal
             /\ out'[j] <= (IF j \in Stocked THEN 1 ELSE 0)
  <2>0. tx[r].op = "pay" /\ out' = out
    BY <1>7 DEF RecordPaymentCommit
  <2>1. CASE j = tx[r].inv
    <3>1. /\ paid'[j] = paid[j] + tx[r].amount
          /\ receipts'[j] = IF receipts[j] = 0 THEN 1 ELSE receipts[j]
          /\ invoice'[j].amountPaid = tx[r].seen.amountPaid + tx[r].amount
          /\ invoice'[j].subtotal = invoice[j].subtotal
          /\ invoice'[j].status = "PAID"
               => tx[r].seen.amountPaid + tx[r].amount >= tx[r].seen.subtotal
      BY <1>0, <1>7, <2>1
      DEF RecordPaymentCommit, issueReceipt, newPaid, newStatus, TypeOK, InvoiceRow
    <3>2. /\ tx[r].seen.amountPaid <= paid[j]
          /\ tx[r].seen.subtotal = invoice[j].subtotal
      BY <1>0, <2>0, <2>1 DEF PayersSawCommitted
    <3> QED
      BY <1>0, <2>0, <3>1, <3>2, PayerType
  <2>2. CASE j # tx[r].inv
    BY <1>0, <1>7, <2>0, <2>2 DEF RecordPaymentCommit, issueReceipt, TypeOK
  <2> QED
    BY <2>1, <2>2
<1> QED
  BY <1>1, <1>2, <1>3, <1>4, <1>5, <1>6, <1>7 DEF Next, Hooks, Elsewhere

-----------------------------------------------------------------------------
(* Request r still has to give back the stock of invoice i.                *)
Owes(r, i) ==
  \/ tx[r] = [op |-> "voided", inv |-> i]
  \/ tx[r].op = "compensate" /\ tx[r].inv = i /\ tx[r].outs > 0

(* The steps that neither void an invoice nor run or lose a hook.          *)
Hookless(r) ==
  \/ \E q \in Quotes : CreateQuotation(r, q) \/ TransitionRead(r, q) \/ ConvertRead(r, q)
  \/ \E q \in Quotes \cup {NoQuote} : \E a \in Amounts : CreateInvoiceRead(r, q, a)
  \/ \E i \in Invoices : IssueRead(r, i) \/ VoidRead(r, i)
  \/ \E i \in Invoices : \E a \in Amounts : RecordPaymentRead(r, i, a)
  \/ SweepRead(r) \/ TransitionCommit(r) \/ ConvertCommit(r) \/ CreateInvoiceCommit(r)
  \/ IssueCommit(r) \/ RecordPaymentCommit(r) \/ SweepCommit(r) \/ Rollback(r)

(* They leave the hooks under way alone, and only a void makes an invoice  *)
(* VOID: an issue that moves stock leaves it ISSUED.                       *)
LEMMA HooklessKeeps ==
  ASSUME TypeOK, NEW r \in Requests, Hookless(r), NEW i \in Invoices
  PROVE  /\ UNCHANGED <<in, lost>>
         /\ \A s \in Requests : tx[s].op \in {"voided", "compensate"} => tx'[s] = tx[s]
         /\ invoice'[i].status = "VOID" => invoice[i].status = "VOID" /\ out'[i] = out[i]
<1>1. CASE \E q \in Quotes : CreateQuotation(r, q) \/ TransitionRead(r, q) \/ ConvertRead(r, q)
  BY <1>1 DEF CreateQuotation, TransitionRead, ConvertRead, Read, Idle, db, TypeOK
<1>2. CASE \E q \in Quotes \cup {NoQuote} : \E a \in Amounts : CreateInvoiceRead(r, q, a)
  BY <1>2 DEF CreateInvoiceRead, Read, Idle, db, TypeOK
<1>3. CASE \E j \in Invoices : IssueRead(r, j) \/ VoidRead(r, j)
  BY <1>3 DEF IssueRead, VoidRead, Read, Idle, db, TypeOK
<1>4. CASE \E j \in Invoices : \E a \in Amounts : RecordPaymentRead(r, j, a)
  BY <1>4 DEF RecordPaymentRead, Read, Idle, db, TypeOK
<1>5. CASE SweepRead(r)
  BY <1>5 DEF SweepRead, Read, Idle, db, TypeOK
<1>6. CASE TransitionCommit(r) \/ Rollback(r)
  BY <1>6 DEF TransitionCommit, Rollback, Commit, db, TypeOK
<1>7. CASE ConvertCommit(r)
  BY <1>7, InsertKeeps DEF ConvertCommit, Commit, TypeOK
<1>8. CASE CreateInvoiceCommit(r)
  BY <1>8, InsertKeeps DEF CreateInvoiceCommit, Commit, TypeOK
<1>9. CASE IssueCommit(r)
  BY <1>9 DEF IssueCommit, setStatus, issueForSale, Commit, TypeOK, InvoiceRow
<1>10. CASE RecordPaymentCommit(r)
  BY <1>10 DEF RecordPaymentCommit, newStatus, Commit, TypeOK, InvoiceRow
<1>11. CASE SweepCommit(r)
  BY <1>11 DEF SweepCommit, Commit, TypeOK, InvoiceRow
<1> QED
  BY <1>1, <1>2, <1>3, <1>4, <1>5, <1>6, <1>7, <1>8, <1>9, <1>10, <1>11 DEF Hookless

(* Stock owed stays owed until it is returned or its hook is lost.         *)
LEMMA NextOwed == IndInv /\ [Next]_vars => StockIsOwed'
<1> SUFFICES ASSUME IndInv, [Next]_vars, NEW i \in Invoices,
                    invoice'[i].status = "VOID", out'[i] > 0, in'[i] = 0
             PROVE  i \in lost' \/ \E r \in Requests : Owes(r, i)'
  BY DEF StockIsOwed, Owes
<1>0. /\ TypeOK
      /\ invoice[i].status = "VOID" /\ out[i] > 0 /\ in[i] = 0
           => i \in lost \/ \E r \in Requests : Owes(r, i)
  BY DEF IndInv, StockIsOwed, Owes
<1>1. ASSUME UNCHANGED <<in, lost>>, invoice[i].status = "VOID", out'[i] = out[i],
             \A s \in Requests : tx[s].op \in {"voided", "compensate"} => tx'[s] = tx[s]
      PROVE  i \in lost' \/ \E r \in Requests : Owes(r, i)'
  BY <1>0, <1>1 DEF Owes
<1>2. CASE UNCHANGED vars
  BY <1>1, <1>2 DEF vars
<1>3. ASSUME NEW j \in Invoices, DueDatePasses(j)
      PROVE  i \in lost' \/ \E r \in Requests : Owes(r, i)'
  BY <1>1, <1>3 DEF DueDatePasses, db
<1>4. ASSUME NEW r \in Requests, Hookless(r)
      PROVE  i \in lost' \/ \E s \in Requests : Owes(s, i)'
  BY <1>0, <1>1, <1>4, HooklessKeeps
<1>5. ASSUME NEW r \in Requests, VoidCommit(r)
      PROVE  i \in lost' \/ \E s \in Requests : Owes(s, i)'
  <2>1. CASE tx[r].inv = i
    BY <1>0, <1>5, <2>1 DEF VoidCommit, Owes, TypeOK
  <2>2. CASE tx[r].inv # i
    BY <1>0, <1>1, <1>5, <2>2 DEF VoidCommit, setStatus, TypeOK
  <2> QED
    BY <2>1, <2>2
<1>6. ASSUME NEW r \in Requests, CompensateRead(r) \/ CompensateCommit(r) \/ HookLost(r)
      PROVE  i \in lost' \/ \E s \in Requests : Owes(s, i)'
  <2>1. /\ UNCHANGED <<invoice, out>> /\ lost \subseteq lost'
        /\ \A s \in Requests \ {r} : tx'[s] = tx[s]
    BY <1>0, <1>6 DEF CompensateRead, CompensateCommit, HookLost, Commit, db, TypeOK
  <2>2. in[i] = 0 /\ (Owes(r, i) => Owes(r, i)' \/ i \in lost')
    <3>1. CASE CompensateRead(r)
      BY <1>0, <3>1 DEF CompensateRead, Owes, db, TypeOK
    <3>2. CASE CompensateCommit(r)
      <4>1. tx[r].inv \in Invoices /\ tx[r].outs \in Nat
        BY <1>0, <3>2 DEF CompensateCommit, TypeOK, Tx, Idle
      <4> QED
        BY <1>0, <3>2, <4>1 DEF CompensateCommit, Owes, TypeOK
    <3>3. CASE HookLost(r)
      BY <1>0, <3>3 DEF HookLost, Owes, db, TypeOK
    <3> QED
      BY <1>6, <3>1, <3>2, <3>3
  <2>3. i \in lost \/ \E s \in Requests : Owes(s, i)
    BY <1>0, <2>1, <2>2
  <2>4. CASE i \in lost
    BY <2>1, <2>4
  <2>5. ASSUME NEW s \in Requests, Owes(s, i), s # r PROVE Owes(s, i)'
    BY <2>1, <2>5 DEF Owes
  <2> QED
    BY <2>2, <2>3, <2>4, <2>5
<1> QED
  BY <1>2, <1>3, <1>4, <1>5, <1>6 DEF Next, Hooks, Hookless

(* IndInv holds in every reachable state.                                  *)
THEOREM SalesInvariant == Spec => []IndInv
<1>1. IndInv /\ [Next]_vars => IndInv'
  BY NextTypeOK, NextPayers, NextSafe, NextOwed DEF IndInv
<1> QED
  BY InitIndInv, <1>1, PTL DEF Spec

(* Rows and snapshots keep their types.                                    *)
THEOREM TypeCorrect == Spec => []TypeOK
<1>1. IndInv => TypeOK
  BY DEF IndInv
<1> QED
  BY SalesInvariant, <1>1, PTL

(* Each paid invoice has exactly one receipt, however payments interleave. *)
THEOREM OneReceipt == Spec => []ReceiptWithFirstPayment
<1>1. IndInv => ReceiptWithFirstPayment
  BY DEF IndInv
<1> QED
  BY SalesInvariant, <1>1, PTL

(* A lost update never reports more than was paid.                         *)
THEOREM PaidCovered == Spec => []PaidIsCovered
<1>1. IndInv => PaidIsCovered
  BY DEF IndInv
<1> QED
  BY SalesInvariant, <1>1, PTL

(* A document leaves stock at most once.                                   *)
THEOREM IssuedOnce == Spec => []StockLeavesOnce
<1>1. IndInv => StockLeavesOnce
  BY DEF IndInv
<1> QED
  BY SalesInvariant, <1>1, PTL

(* A void that had left stock is owed it by a running hook until it is     *)
(* back, or the hook was lost.                                             *)
THEOREM ReturnIsOwed == Spec => []StockIsOwed
<1>1. IndInv => StockIsOwed
  BY DEF IndInv
<1> QED
  BY SalesInvariant, <1>1, PTL

-----------------------------------------------------------------------------
(* What holds for a document on which no two requests overlapped.  The     *)
(* invariant says, row by row, that what a request under way has read is   *)
(* still what is stored.                                                   *)

(* The invoice a request works on exists; so does every one marked.        *)
WorksOnExisting ==
  /\ \A i \in raced \cap Invoices : invoice[i].status # "NONE"
  /\ \A r \in Requests :
       /\ tx[r].op \in {"issue", "void", "pay"} => invoice[tx[r].inv].status # "NONE"
       /\ tx[r].op = "sweep" => \A i \in tx[r].due : invoice[i].status # "NONE"

(* Only a payment settles an invoice, and only of one that exists.         *)
PaidWasPaid ==
  \A i \in Invoices :
    /\ invoice[i].status = "PAID" => paid[i] > 0
    /\ invoice[i].status = "NONE" => paid[i] = 0

InvoiceIsCurrent ==
  \A i \in Invoices \ raced :
    /\ invoice[i].amountPaid = paid[i]
    /\ invoice[i].status = "VOID" => receipts[i] = 0
    /\ \A r \in Requests :
         /\ tx[r].op = "issue" /\ tx[r].inv = i => invoice[i].status = "DRAFT"
         /\ tx[r].op = "pay" /\ tx[r].inv = i =>
              /\ invoice[i].status \in PAYABLE
              /\ tx[r].seen.amountPaid = invoice[i].amountPaid
         /\ tx[r].op = "void" /\ tx[r].inv = i =>
              invoice[i].status \notin {"NONE", "VOID"} /\ receipts[i] = 0
         /\ tx[r].op = "sweep" /\ i \in tx[r].due =>
              invoice[i].status \in {"ISSUED", "PARTIALLY_PAID"}

(* Neither the quotation nor any invoice billed to it was overlapped on.   *)
Undisturbed(q) == q \notin raced /\ \A i \in raced \cap Invoices : invoice[i].quotation # q

QuoteIsCurrent ==
  \A q \in Quotes :
    /\ q \notin raced =>
         \A r \in Requests :
           tx[r].op \in {"transition", "convert"} /\ tx[r].quote = q => quotation[q] # "CONVERTED"
    /\ Undisturbed(q) =>
         /\ quotation[q] = "CONVERTED" \/ billed(q) <= QuoteSubtotal
         /\ \A r \in Requests :
              tx[r].op = "create" /\ tx[r].quote = q => billed(q) + tx[r].subtotal <= QuoteSubtotal

RowInv == WorksOnExisting /\ PaidWasPaid /\ InvoiceIsCurrent /\ QuoteIsCurrent

-----------------------------------------------------------------------------
(* The steps by their shape.                                               *)

LEMMA SnapshotShape ==
  ASSUME TypeOK, NEW r \in Requests
  PROVE  /\ tx[r].op \in {"transition", "convert"} => tx[r].quote \in Quotes
         /\ tx[r].op = "create" => tx[r].quote \in Quotes \cup {NoQuote} /\ tx[r].subtotal \in Nat
         /\ tx[r].op \in {"issue", "void", "pay"} => tx[r].inv \in Invoices
         /\ tx[r].op = "sweep" => tx[r].due \subseteq Invoices
<1>1. tx[r] \in Tx
  BY DEF TypeOK
<1>2. tx[r].op \in {"transition", "convert"} => tx[r].quote \in Quotes
  BY <1>1 DEF Tx, Idle
<1>3. tx[r].op = "create" => tx[r].quote \in Quotes \cup {NoQuote} /\ tx[r].subtotal \in Nat
  <2> SUFFICES ASSUME tx[r].op = "create"
               PROVE  tx[r].quote \in Quotes \cup {NoQuote} /\ tx[r].subtotal \in Nat
    OBVIOUS
  <2>1. tx[r] \in [op : {"create"}, quote : Quotes \cup {NoQuote}, subtotal : Amounts]
    BY <1>1 DEF Tx, Idle
  <2> QED
    BY <2>1
<1>4. tx[r].op \in {"issue", "void", "pay"} => tx[r].inv \in Invoices
  BY <1>1 DEF Tx, Idle
<1>5. tx[r].op = "sweep" => tx[r].due \subseteq Invoices
  BY <1>1 DEF Tx, Idle
<1> QED
  BY <1>2, <1>3, <1>4, <1>5

LEMMA TouchesShape ==
  ASSUME NEW r \in Requests
  PROVE  /\ tx[r].op \in {"transition", "convert", "create"} => touches(r) = {tx[r].quote}
         /\ tx[r].op \in {"issue", "void", "pay"} => touches(r) = {tx[r].inv}
         /\ tx[r].op = "sweep" => touches(r) = tx[r].due
         /\ tx[r].op \in {"idle", "voided", "compensate"} => touches(r) = {}
  BY DEF touches

(* What request r has just read is what is stored.                         *)
Fresh(r) ==
  \/ tx'[r].op \in {"transition", "convert"} /\ quotation[tx'[r].quote] # "CONVERTED"
  \/ /\ tx'[r].op = "create"
     /\ tx'[r].quote \in Quotes => billed(tx'[r].quote) + tx'[r].subtotal <= QuoteSubtotal
  \/ tx'[r].op = "issue" /\ invoice[tx'[r].inv].status = "DRAFT"
  \/ /\ tx'[r].op = "pay"
     /\ invoice[tx'[r].inv].status \in PAYABLE /\ tx'[r].seen = invoice[tx'[r].inv]
  \/ /\ tx'[r].op = "void"
     /\ invoice[tx'[r].inv].status \notin {"NONE", "VOID"} /\ receipts[tx'[r].inv] = 0
  \/ /\ tx'[r].op = "sweep"
     /\ \A i \in tx'[r].due : invoice[i].status \in {"ISSUED", "PARTIALLY_PAID"}

(* A request reads, gives up, or runs its hook.                            *)
Reading(r) ==
  /\ UNCHANGED <<quotation, invoice, paid, receipts, raced>>
  /\ \A s \in Requests \ {r} : tx'[s] = tx[s]
  /\ tx'[r].op \in {"idle", "voided", "compensate"} \/ Fresh(r)

(* A request commits: no other one still relies on a row it wrote, unless  *)
(* the row is marked.                                                      *)
Done(r) ==
  /\ \A s \in Requests \ {r} : tx'[s] = tx[s]
  /\ tx'[r].op \in {"idle", "voided"}
  /\ raced \subseteq raced' /\ raced' \subseteq raced \cup touches(r)
  /\ \A s \in Requests \ {r} : touches(r) \cap touches(s) \cap (Invoices \cup Quotes) \subseteq raced'

LEMMA CommitDone ==
  ASSUME TypeOK, NEW r \in Requests, Commit(r) \/ VoidCommit(r)
  PROVE  Done(r)
<1>1. MarkRaced(r)
  BY DEF Commit, VoidCommit
<1>2. (\A s \in Requests \ {r} : tx'[s] = tx[s]) /\ tx'[r].op \in {"idle", "voided"}
  BY DEF Commit, VoidCommit, Idle, TypeOK
<1> QED
  BY <1>1, <1>2 DEF MarkRaced, Done

LEMMA ReadingSteps ==
  ASSUME TypeOK, NEW r \in Requests, Elsewhere(r) \/ \E i \in Invoices : \E a \in Amounts : RecordPaymentRead(r, i, a)
  PROVE  Reading(r) \/ TransitionCommit(r) \/ \E q \in Quotes : CreateQuotation(r, q)
<1>1. ASSUME NEW t, Read(r, t)
      PROVE  /\ UNCHANGED <<quotation, invoice, paid, receipts, raced>>
             /\ \A s \in Requests \ {r} : tx'[s] = tx[s]
             /\ tx'[r] = t
  BY <1>1 DEF Read, db, TypeOK
<1>2. ASSUME NEW q \in Quotes, TransitionRead(r, q) \/ ConvertRead(r, q)
      PROVE  Reading(r)
  BY <1>1, <1>2 DEF TransitionRead, Transitions, ConvertRead, Reading, Fresh
<1>3. ASSUME NEW q \in Quotes \cup {NoQuote}, NEW a \in Amounts, CreateInvoiceRead(r, q, a)
      PROVE  Reading(r)
  BY <1>1, <1>3 DEF CreateInvoiceRead, assertUnderBillingCeiling, Reading, Fresh
<1>4. ASSUME NEW i \in Invoices, IssueRead(r, i) \/ VoidRead(r, i)
      PROVE  Reading(r)
  BY <1>1, <1>4 DEF IssueRead, VoidRead, Reading, Fresh
<1>5. ASSUME NEW i \in Invoices, NEW a \in Amounts, RecordPaymentRead(r, i, a)
      PROVE  Reading(r)
  BY <1>1, <1>5 DEF RecordPaymentRead, Reading, Fresh
<1>6. CASE SweepRead(r)
  BY <1>1, <1>6 DEF SweepRead, Reading, Fresh
<1>7. CASE CompensateRead(r) \/ Rollback(r) \/ HookLost(r)
  BY <1>7 DEF CompensateRead, Rollback, HookLost, Idle, db, Reading, TypeOK
<1>8. CASE CompensateCommit(r)
  BY <1>8, CommitDone, TouchesShape DEF CompensateCommit, Done, Reading
<1> QED
  BY <1>2, <1>3, <1>4, <1>5, <1>6, <1>7, <1>8 DEF Elsewhere

LEMMA StepShape ==
  ASSUME TypeOK, [Next]_vars
  PROVE  \/ UNCHANGED <<quotation, invoice, paid, receipts, tx, raced>>
         \/ \E r \in Requests :
              \/ Reading(r) \/ TransitionCommit(r) \/ ConvertCommit(r) \/ CreateInvoiceCommit(r)
              \/ IssueCommit(r) \/ RecordPaymentCommit(r) \/ VoidCommit(r) \/ SweepCommit(r)
              \/ \E q \in Quotes : CreateQuotation(r, q)
<1>1. ASSUME NEW i \in Invoices, DueDatePasses(i)
      PROVE  UNCHANGED <<quotation, invoice, paid, receipts, tx, raced>>
  BY <1>1 DEF DueDatePasses, db
<1>2. CASE UNCHANGED vars
  BY <1>2 DEF vars
<1> QED
  BY <1>1, <1>2, ReadingSteps DEF Next, Hooks, Elsewhere

(* The commits that write one invoice, or several, and nothing else of the *)
(* rows below.                                                             *)
LEMMA InsertWrites ==
  ASSUME TypeOK, NEW r \in Requests, ConvertCommit(r) \/ CreateInvoiceCommit(r)
  PROVE  \E j \in Invoices :
           /\ invoice[j].status = "NONE"
           /\ invoice'[j].status = "DRAFT" /\ invoice'[j].amountPaid = 0
           /\ invoice'[j].quotation = tx[r].quote
           /\ invoice'[j].subtotal = IF tx[r].op = "create" THEN tx[r].subtotal ELSE QuoteSubtotal
           /\ \A i \in Invoices \ {j} : invoice'[i] = invoice[i]
  BY DEF ConvertCommit, CreateInvoiceCommit, insertInvoice, TypeOK

LEMMA StatusWrites ==
  ASSUME TypeOK, NEW i \in Invoices, NEW s \in InvoiceStatus, setStatus(i, s)
  PROVE  /\ invoice'[i].status = s
         /\ invoice'[i].amountPaid = invoice[i].amountPaid
         /\ invoice'[i].quotation = invoice[i].quotation
         /\ invoice'[i].subtotal = invoice[i].subtotal
         /\ \A j \in Invoices \ {i} : invoice'[j] = invoice[j]
<1>1. invoice[i] \in InvoiceRow
  BY DEF TypeOK
<1> QED
  BY <1>1 DEF setStatus, InvoiceRow, TypeOK

LEMMA PaymentWrites ==
  ASSUME TypeOK, NEW r \in Requests, RecordPaymentCommit(r)
  PROVE  /\ tx[r].op = "pay" /\ tx[r].inv \in Invoices
         /\ paid'[tx[r].inv] = paid[tx[r].inv] + tx[r].amount /\ tx[r].amount \in Nat \ {0}
         /\ invoice'[tx[r].inv].status \in {"PAID", "PARTIALLY_PAID"}
         /\ invoice'[tx[r].inv].amountPaid = tx[r].seen.amountPaid + tx[r].amount
         /\ invoice'[tx[r].inv].quotation = invoice[tx[r].inv].quotation
         /\ invoice'[tx[r].inv].subtotal = invoice[tx[r].inv].subtotal
         /\ \A j \in Invoices \ {tx[r].inv} :
              invoice'[j] = invoice[j] /\ paid'[j] = paid[j] /\ receipts'[j] = receipts[j]
         /\ quotation' = quotation /\ Commit(r)
<1> DEFINE i == tx[r].inv
<1>1. tx[r].op = "pay" /\ i \in Invoices /\ tx[r].amount \in Nat \ {0}
  BY PayerType DEF RecordPaymentCommit
<1>2. /\ newPaid(tx[r].seen, tx[r].amount) = tx[r].seen.amountPaid + tx[r].amount
      /\ newStatus(tx[r].seen, tx[r].amount) \in {"PAID", "PARTIALLY_PAID"}
  BY DEF newPaid, newStatus
<1>3. invoice[i] \in InvoiceRow
  BY <1>1 DEF TypeOK
<1>4. /\ invoice'[i].status = newStatus(tx[r].seen, tx[r].amount)
      /\ invoice'[i].amountPaid = newPaid(tx[r].seen, tx[r].amount)
      /\ invoice'[i].quotation = invoice[i].quotation
      /\ invoice'[i].subtotal = invoice[i].subtotal
      /\ \A j \in Invoices \ {i} : invoice'[j] = invoice[j]
  BY <1>1, <1>3 DEF RecordPaymentCommit, InvoiceRow, TypeOK
<1>5. /\ paid'[i] = paid[i] + tx[r].amount
      /\ \A j \in Invoices \ {i} : paid'[j] = paid[j] /\ receipts'[j] = receipts[j]
      /\ quotation' = quotation /\ Commit(r)
  BY <1>1 DEF RecordPaymentCommit, issueReceipt, TypeOK
<1> QED
  BY <1>1, <1>2, <1>4, <1>5

LEMMA SweepWrites ==
  ASSUME TypeOK, NEW r \in Requests, SweepCommit(r)
  PROVE  /\ tx[r].op = "sweep" /\ tx[r].due \subseteq Invoices
         /\ \A i \in tx[r].due :
              /\ invoice'[i].status = "OVERDUE"
              /\ invoice'[i].amountPaid = invoice[i].amountPaid
              /\ invoice'[i].quotation = invoice[i].quotation
              /\ invoice'[i].subtotal = invoice[i].subtotal
         /\ \A j \in Invoices \ tx[r].due : invoice'[j] = invoice[j]
         /\ UNCHANGED <<quotation, paid, receipts>> /\ Commit(r)
<1>1. tx[r].op = "sweep" /\ tx[r].due \subseteq Invoices
  BY SnapshotShape DEF SweepCommit
<1>2. \A i \in Invoices : invoice[i] \in InvoiceRow
  BY DEF TypeOK
<1> QED
  BY <1>1, <1>2 DEF SweepCommit, InvoiceRow
(* The four commits that update invoices their request has read.           *)
Updating(r) == IssueCommit(r) \/ RecordPaymentCommit(r) \/ VoidCommit(r) \/ SweepCommit(r)

LEMMA UpdateWrites ==
  ASSUME TypeOK, NEW r \in Requests, Updating(r)
  PROVE  /\ Done(r) /\ quotation' = quotation
         /\ tx[r].op \in {"issue", "pay", "void", "sweep"}
         /\ touches(r) \subseteq Invoices
         /\ \A i \in Invoices \ touches(r) :
              invoice'[i] = invoice[i] /\ paid'[i] = paid[i] /\ receipts'[i] = receipts[i]
         /\ \A i \in touches(r) :
              /\ invoice'[i].quotation = invoice[i].quotation
              /\ invoice'[i].subtotal = invoice[i].subtotal
              /\ invoice'[i].status # "NONE"
<1>1. CASE IssueCommit(r)
  <2>1. tx[r].op = "issue" /\ tx[r].inv \in Invoices /\ touches(r) = {tx[r].inv}
    BY <1>1, SnapshotShape, TouchesShape DEF IssueCommit
  <2> QED
    BY <1>1, <2>1, StatusWrites, CommitDone DEF IssueCommit, InvoiceStatus
<1>2. CASE RecordPaymentCommit(r)
  BY <1>2, PaymentWrites, TouchesShape, CommitDone
<1>3. CASE VoidCommit(r)
  <2>1. tx[r].op = "void" /\ tx[r].inv \in Invoices /\ touches(r) = {tx[r].inv}
    BY <1>3, SnapshotShape, TouchesShape DEF VoidCommit
  <2> QED
    BY <1>3, <2>1, StatusWrites, CommitDone DEF VoidCommit, InvoiceStatus
<1>4. CASE SweepCommit(r)
  BY <1>4, SweepWrites, TouchesShape, CommitDone
<1> QED
  BY <1>1, <1>2, <1>3, <1>4 DEF Updating

(* The two commits that insert an invoice.                                 *)
Inserting(r) == ConvertCommit(r) \/ CreateInvoiceCommit(r)

(* The insert, told apart by the id the new row gets.                      *)
InsertsAt(r, j) ==
  /\ invoice[j].status = "NONE"
  /\ invoice'[j].status = "DRAFT" /\ invoice'[j].amountPaid = 0
  /\ invoice'[j].quotation = tx[r].quote
  /\ invoice'[j].subtotal = IF tx[r].op = "create" THEN tx[r].subtotal ELSE QuoteSubtotal
  /\ \A i \in Invoices \ {j} : invoice'[i] = invoice[i]

LEMMA InsertShape ==
  ASSUME TypeOK, NEW r \in Requests, Inserting(r)
  PROVE  /\ Done(r) /\ UNCHANGED <<paid, receipts>>
         /\ touches(r) = {tx[r].quote} /\ tx[r].quote \in Quotes \cup {NoQuote}
         /\ \E j \in Invoices : InsertsAt(r, j)
<1>1. tx[r].op \in {"convert", "create"}
  BY DEF Inserting, ConvertCommit, CreateInvoiceCommit
<1>2. Done(r) /\ UNCHANGED <<paid, receipts>>
  BY CommitDone DEF Inserting, ConvertCommit, CreateInvoiceCommit
<1>3. touches(r) = {tx[r].quote} /\ tx[r].quote \in Quotes \cup {NoQuote}
  BY <1>1, SnapshotShape, TouchesShape
<1>4. \E j \in Invoices : InsertsAt(r, j)
  BY InsertWrites DEF Inserting, InsertsAt
<1> QED
  BY <1>2, <1>3, <1>4

-----------------------------------------------------------------------------
(* Rows persist, and marks are put on rows that exist.                     *)

LEMMA RowsPersist ==
  ASSUME TypeOK, [Next]_vars, NEW i \in Invoices, invoice[i].status # "NONE"
  PROVE  invoice'[i].status # "NONE" /\ invoice'[i].quotation = invoice[i].quotation
<1>1. ASSUME NEW r \in Requests, Inserting(r) PROVE invoice'[i] = invoice[i]
  BY <1>1, InsertShape DEF InsertsAt
<1>2. ASSUME NEW r \in Requests, Updating(r)
      PROVE  invoice'[i].status # "NONE" /\ invoice'[i].quotation = invoice[i].quotation
  BY <1>2, UpdateWrites
<1>3. ASSUME NEW r \in Requests,
             Reading(r) \/ TransitionCommit(r) \/ \E q \in Quotes : CreateQuotation(r, q)
      PROVE  invoice' = invoice
  BY <1>3 DEF Reading, TransitionCommit, CreateQuotation
<1> QED
  BY <1>1, <1>2, <1>3, StepShape DEF Inserting, Updating

LEMMA NextExisting ==
  ASSUME TypeOK, TypeOK', WorksOnExisting, [Next]_vars
  PROVE  WorksOnExisting'
<1>1. \A i \in Invoices : invoice[i].status # "NONE" => invoice'[i].status # "NONE"
  BY RowsPersist
<1>2. ASSUME NEW s \in Requests, tx'[s] = tx[s]
      PROVE  /\ tx'[s].op \in {"issue", "void", "pay"} => invoice'[tx'[s].inv].status # "NONE"
             /\ tx'[s].op = "sweep" => \A i \in tx'[s].due : invoice'[i].status # "NONE"
  BY <1>1, <1>2, SnapshotShape DEF WorksOnExisting
<1>3. \A i \in raced \cap Invoices : invoice'[i].status # "NONE"
  BY <1>1 DEF WorksOnExisting
<1>4. ASSUME NEW r \in Requests, Reading(r)
      PROVE  WorksOnExisting'
  <2>1. /\ tx'[r].op \in {"issue", "void", "pay"} => invoice'[tx'[r].inv].status # "NONE"
        /\ tx'[r].op = "sweep" => \A i \in tx'[r].due : invoice'[i].status # "NONE"
    BY <1>4 DEF Reading, Fresh, PAYABLE
  <2> QED
    BY <1>2, <1>3, <1>4, <2>1 DEF WorksOnExisting, Reading
<1>5. ASSUME NEW r \in Requests, Done(r), touches(r) \cap Invoices # {} => Updating(r)
      PROVE  WorksOnExisting'
  <2>1. \A i \in touches(r) \cap Invoices : invoice[i].status # "NONE"
    <3>1. CASE touches(r) \cap Invoices # {}
      BY <1>5, <3>1, UpdateWrites, TouchesShape, SnapshotShape DEF WorksOnExisting
    <3> QED
      BY <3>1
  <2>2. \A i \in raced' \cap Invoices : invoice'[i].status # "NONE"
    BY <1>1, <1>3, <1>5, <2>1 DEF Done
  <2> QED
    BY <1>2, <1>5, <2>2 DEF WorksOnExisting, Done
<1>6. ASSUME NEW r \in Requests, Inserting(r) \/ TransitionCommit(r)
      PROVE  Done(r) /\ touches(r) \cap Invoices = {}
  <2>1. CASE Inserting(r)
    BY <2>1, InsertShape
  <2>2. CASE TransitionCommit(r)
    BY <2>2, CommitDone, TouchesShape, SnapshotShape DEF TransitionCommit
  <2> QED
    BY <1>6, <2>1, <2>2
<1>7. ASSUME UNCHANGED <<tx, raced>> PROVE WorksOnExisting'
  BY <1>2, <1>3, <1>7 DEF WorksOnExisting
<1>8. ASSUME NEW r \in Requests, NEW q \in Quotes, CreateQuotation(r, q)
      PROVE  UNCHANGED <<tx, raced>>
  BY <1>8 DEF CreateQuotation
<1> QED
  BY <1>4, <1>5, <1>6, <1>7, <1>8, StepShape, UpdateWrites DEF Inserting, Updating

LEMMA NextPaidWasPaid ==
  ASSUME TypeOK, WorksOnExisting, PaidWasPaid, [Next]_vars
  PROVE  PaidWasPaid'
<1> SUFFICES ASSUME NEW i \in Invoices
             PROVE  /\ invoice'[i].status = "PAID" => paid'[i] > 0
                    /\ invoice'[i].status = "NONE" => paid'[i] = 0
  BY DEF PaidWasPaid
<1>0. /\ paid[i] \in Nat
      /\ invoice[i].status = "PAID" => paid[i] > 0
      /\ invoice[i].status = "NONE" => paid[i] = 0
  BY DEF PaidWasPaid, TypeOK
<1>1. ASSUME invoice'[i] = invoice[i], paid'[i] = paid[i]
      PROVE  /\ invoice'[i].status = "PAID" => paid'[i] > 0
             /\ invoice'[i].status = "NONE" => paid'[i] = 0
  BY <1>0, <1>1
<1>2. ASSUME NEW r \in Requests, Inserting(r)
      PROVE  paid'[i] = paid[i] /\ (invoice'[i] = invoice[i] \/ invoice'[i].status = "DRAFT")
  BY <1>2, InsertShape DEF InsertsAt
<1>3. ASSUME NEW r \in Requests, Updating(r)
      PROVE  \/ invoice'[i] = invoice[i] /\ paid'[i] = paid[i]
             \/ invoice'[i].status \notin {"PAID", "NONE"}
             \/ invoice'[i].status # "NONE" /\ paid'[i] > 0
  <2>1. CASE i \notin touches(r)
    BY <1>3, <2>1, UpdateWrites
  <2>2. CASE i \in touches(r) /\ ~RecordPaymentCommit(r)
    <3>1. CASE IssueCommit(r)
      BY <2>2, <3>1, StatusWrites, TouchesShape DEF IssueCommit, InvoiceStatus
    <3>2. CASE VoidCommit(r)
      BY <2>2, <3>2, StatusWrites, TouchesShape DEF VoidCommit, InvoiceStatus
    <3>3. CASE SweepCommit(r)
      BY <2>2, <3>3, SweepWrites, TouchesShape
    <3> QED
      BY <1>3, <2>2, <3>1, <3>2, <3>3 DEF Updating
  <2>3. CASE i \in touches(r) /\ RecordPaymentCommit(r)
    BY <1>0, <2>3, PaymentWrites, TouchesShape
  <2> QED
    BY <2>1, <2>2, <2>3
<1>4. ASSUME NEW r \in Requests,
             Reading(r) \/ TransitionCommit(r) \/ \E q \in Quotes : CreateQuotation(r, q)
      PROVE  UNCHANGED <<invoice, paid>>
  BY <1>4 DEF Reading, TransitionCommit, CreateQuotation
<1> QED
  BY <1>0, <1>1, <1>2, <1>3, <1>4, StepShape DEF Inserting, Updating

-----------------------------------------------------------------------------
(* What a request has read of invoice i is what is stored.                 *)
SawInvoice(r, i) ==
  /\ tx[r].op = "issue" /\ tx[r].inv = i => invoice[i].status = "DRAFT"
  /\ tx[r].op = "pay" /\ tx[r].inv = i =>
       /\ invoice[i].status \in PAYABLE
       /\ tx[r].seen.amountPaid = invoice[i].amountPaid
  /\ tx[r].op = "void" /\ tx[r].inv = i =>
       invoice[i].status \notin {"NONE", "VOID"} /\ receipts[i] = 0
  /\ tx[r].op = "sweep" /\ i \in tx[r].due =>
       invoice[i].status \in {"ISSUED", "PARTIALLY_PAID"}

(* The balance and the receipt rule of invoice i.                          *)
InvoiceAddsUp(i) ==
  /\ invoice[i].amountPaid = paid[i]
  /\ invoice[i].status = "VOID" => receipts[i] = 0

LEMMA CurrentParts ==
  InvoiceIsCurrent <=>
    \A i \in Invoices \ raced : InvoiceAddsUp(i) /\ \A r \in Requests : SawInvoice(r, i)
  BY DEF InvoiceIsCurrent, InvoiceAddsUp, SawInvoice

(* A request that does not write i has no view of it to be outdated.       *)
LEMMA SawUntouched ==
  ASSUME TypeOK, NEW r \in Requests, NEW i \in Invoices, i \notin touches(r)
  PROVE  SawInvoice(r, i)
  BY TouchesShape DEF SawInvoice

LEMMA SawKept ==
  ASSUME TypeOK, NEW r \in Requests, NEW i \in Invoices, SawInvoice(r, i),
         tx'[r] = tx[r], invoice'[i] = invoice[i], receipts'[i] = receipts[i]
  PROVE  SawInvoice(r, i)'
  BY DEF SawInvoice

(* Each commit leaves an unmarked invoice it writes in order.              *)
LEMMA UpdateAddsUp ==
  ASSUME TypeOK, NEW r \in Requests, Updating(r), NEW i \in Invoices, i \in touches(r),
         InvoiceAddsUp(i), SawInvoice(r, i)
  PROVE  InvoiceAddsUp(i)'
<1>1. CASE IssueCommit(r)
  <2>1. /\ invoice'[i].status = "ISSUED" /\ invoice'[i].amountPaid = invoice[i].amountPaid
        /\ UNCHANGED <<paid, receipts>>
    BY <1>1, StatusWrites, TouchesShape DEF IssueCommit, InvoiceStatus
  <2> QED
    BY <2>1 DEF InvoiceAddsUp
<1>2. CASE RecordPaymentCommit(r)
  <2>1. tx[r].op = "pay" /\ tx[r].inv = i
    BY <1>2, PaymentWrites, TouchesShape
  <2>2. /\ invoice'[i].amountPaid = tx[r].seen.amountPaid + tx[r].amount
        /\ paid'[i] = paid[i] + tx[r].amount
        /\ invoice'[i].status # "VOID"
    BY <1>2, <2>1, PaymentWrites
  <2>3. tx[r].seen.amountPaid = paid[i]
    BY <2>1 DEF SawInvoice, InvoiceAddsUp
  <2> QED
    BY <2>2, <2>3 DEF InvoiceAddsUp
<1>3. CASE VoidCommit(r)
  <2>1. tx[r].op = "void" /\ tx[r].inv = i
    BY <1>3, TouchesShape DEF VoidCommit
  <2>2. invoice'[i].amountPaid = invoice[i].amountPaid /\ UNCHANGED <<paid, receipts>>
    BY <1>3, <2>1, StatusWrites DEF VoidCommit, InvoiceStatus
  <2> QED
    BY <2>1, <2>2 DEF InvoiceAddsUp, SawInvoice
<1>4. CASE SweepCommit(r)
  <2>1. /\ invoice'[i].status = "OVERDUE" /\ invoice'[i].amountPaid = invoice[i].amountPaid
        /\ UNCHANGED <<paid, receipts>>
    BY <1>4, SweepWrites, TouchesShape
  <2> QED
    BY <2>1 DEF InvoiceAddsUp
<1> QED
  BY <1>1, <1>2, <1>3, <1>4 DEF Updating

LEMMA NextInvoiceCurrent ==
  ASSUME IndInv, TypeOK', RowInv, [Next]_vars
  PROVE  InvoiceIsCurrent'
<1> TypeOK /\ WorksOnExisting /\ PaidWasPaid
  BY DEF IndInv, RowInv
<1>0. raced \subseteq raced'
  <2>1. ASSUME NEW r \in Requests, Updating(r) \/ Inserting(r) \/ TransitionCommit(r)
        PROVE  Done(r)
    BY <2>1, UpdateWrites, InsertShape, CommitDone DEF TransitionCommit
  <2> QED
    BY <2>1, StepShape DEF Updating, Inserting, Done, Reading, CreateQuotation
<1> SUFFICES ASSUME NEW i \in Invoices \ raced'
             PROVE  InvoiceAddsUp(i)' /\ \A s \in Requests : SawInvoice(s, i)'
  BY DEF InvoiceIsCurrent, InvoiceAddsUp, SawInvoice
<1>1. InvoiceAddsUp(i) /\ \A s \in Requests : SawInvoice(s, i)
  BY <1>0, CurrentParts DEF RowInv
<1>2. ASSUME invoice'[i] = invoice[i], paid'[i] = paid[i], receipts'[i] = receipts[i]
      PROVE  /\ InvoiceAddsUp(i)'
             /\ \A s \in Requests : tx'[s] = tx[s] => SawInvoice(s, i)'
  BY <1>1, <1>2, SawKept DEF InvoiceAddsUp
<1>3. ASSUME NEW r \in Requests, tx'[r].op \in {"idle", "voided", "compensate"}
      PROVE  SawInvoice(r, i)'
  BY <1>3 DEF SawInvoice
<1>4. ASSUME NEW r \in Requests, Reading(r)
      PROVE  InvoiceAddsUp(i)' /\ \A s \in Requests : SawInvoice(s, i)'
  <2>1. SawInvoice(r, i)'
    BY <1>3, <1>4 DEF Reading, Fresh, SawInvoice
  <2> QED
    BY <1>2, <1>4, <2>1 DEF Reading
<1>5. ASSUME NEW r \in Requests, Updating(r)
      PROVE  InvoiceAddsUp(i)' /\ \A s \in Requests : SawInvoice(s, i)'
  <2>1. Done(r) /\ SawInvoice(r, i)'
    BY <1>3, <1>5, UpdateWrites DEF Done
  <2>2. CASE i \notin touches(r)
    BY <1>2, <1>5, <2>1, <2>2, UpdateWrites DEF Done
  <2>3. CASE i \in touches(r)
    <3>1. InvoiceAddsUp(i)'
      BY <1>1, <1>5, <2>3, UpdateAddsUp
    <3>2. ASSUME NEW s \in Requests \ {r} PROVE SawInvoice(s, i)'
      <4>1. i \notin touches(s) /\ tx'[s] = tx[s]
        BY <2>1, <2>3 DEF Done
      <4>2. /\ tx[s].op \in {"issue", "void", "pay"} => tx[s].inv # i
            /\ tx[s].op = "sweep" => i \notin tx[s].due
        BY <4>1, TouchesShape
      <4> QED
        BY <4>1, <4>2 DEF SawInvoice
    <3> QED
      BY <2>1, <3>1, <3>2
  <2> QED
    BY <2>2, <2>3
<1>6. ASSUME NEW r \in Requests, Inserting(r)
      PROVE  InvoiceAddsUp(i)' /\ \A s \in Requests : SawInvoice(s, i)'
  <2>1. Done(r) /\ UNCHANGED <<paid, receipts>> /\ SawInvoice(r, i)'
    BY <1>3, <1>6, InsertShape DEF Done
  <2>2. PICK j \in Invoices : InsertsAt(r, j)
    BY <1>6, InsertShape
  <2>3. CASE i # j
    BY <1>2, <2>1, <2>2, <2>3 DEF InsertsAt, Done
  <2>4. CASE i = j
    <3>1. InvoiceAddsUp(i)'
      BY <2>1, <2>2, <2>4 DEF InsertsAt, InvoiceAddsUp, PaidWasPaid
    <3>2. ASSUME NEW s \in Requests \ {r} PROVE SawInvoice(s, i)'
      <4>1. tx'[s] = tx[s] /\ invoice[i].status = "NONE"
        BY <2>1, <2>2, <2>4 DEF Done, InsertsAt
      <4>2. /\ tx[s].op \in {"issue", "void", "pay"} => tx[s].inv # i
            /\ tx[s].op = "sweep" => i \notin tx[s].due
        BY <4>1 DEF WorksOnExisting
      <4> QED
        BY <4>1, <4>2 DEF SawInvoice
    <3> QED
      BY <2>1, <3>1, <3>2
  <2> QED
    BY <2>3, <2>4
<1>7. ASSUME NEW r \in Requests, TransitionCommit(r)
      PROVE  InvoiceAddsUp(i)' /\ \A s \in Requests : SawInvoice(s, i)'
  BY <1>2, <1>3, <1>7, CommitDone DEF TransitionCommit, Done
<1>8. ASSUME NEW r \in Requests, NEW q \in Quotes, CreateQuotation(r, q)
      PROVE  InvoiceAddsUp(i)' /\ \A s \in Requests : SawInvoice(s, i)'
  BY <1>2, <1>8 DEF CreateQuotation
<1> QED
  BY <1>2, <1>4, <1>5, <1>6, <1>7, <1>8, StepShape DEF Updating, Inserting

-----------------------------------------------------------------------------
(* What a quotation has billed.                                            *)

LEMMA ShareType ==
  ASSUME TypeOK, NEW i \in Invoices, NEW q
  PROVE  share(i, q) \in Nat
  BY DEF TypeOK, share, InvoiceRow

(* If no share grows, the total does not.                                  *)
LEMMA BilledAtMost ==
  ASSUME TypeOK, TypeOK', NEW q, \A i \in Invoices : share(i, q)' <= share(i, q)
  PROVE  billed(q)' <= billed(q) /\ billed(q) \in Int /\ billed(q)' \in Int
<1> DEFINE f == [i \in Invoices |-> share(i, q)]
           g == [i \in Invoices |-> share(i, q)']
<1>1. \A i \in Invoices : f[i] \in Int /\ f[i] = share(i, q)
  BY ShareType
<1>2. \A i \in Invoices : share(i, q)' \in Nat
  BY DEF TypeOK, share, InvoiceRow
<1>3. \A i \in Invoices : g[i] \in Int /\ g[i] = share(i, q)'
  BY <1>2
<1>4. billed(q) = SumFunctionOnSet(f, Invoices) /\ billed(q)' = SumFunctionOnSet(g, Invoices)
  BY DEF billed
<1> HIDE DEF f, g
<1>5. \A i \in Invoices : f[i] \in Int /\ g[i] \in Int /\ g[i] <= f[i]
  BY <1>1, <1>3
<1>6. SumFunctionOnSet(g, Invoices) <= SumFunctionOnSet(f, Invoices)
  BY <1>5, SumAtMost
<1>7. SumFunctionOnSet(f, Invoices) \in Int /\ SumFunctionOnSet(g, Invoices) \in Int
  BY <1>5, SumType
<1> QED
  BY <1>4, <1>6, <1>7

(* An insert against q bills its subtotal.                                 *)
LEMMA BilledInserted ==
  ASSUME TypeOK, TypeOK', NEW q, NEW j \in Invoices,
         share(j, q) = 0, \A i \in Invoices \ {j} : share(i, q)' = share(i, q)
  PROVE  billed(q)' = billed(q) + share(j, q)' /\ billed(q) \in Int
<1> DEFINE f == [i \in Invoices |-> share(i, q)]
           g == [i \in Invoices |-> share(i, q)']
<1>1. \A i \in Invoices : f[i] \in Int /\ f[i] = share(i, q)
  BY ShareType
<1>2. \A i \in Invoices : share(i, q)' \in Nat
  BY DEF TypeOK, share, InvoiceRow
<1>3. \A i \in Invoices : g[i] \in Int /\ g[i] = share(i, q)'
  BY <1>2
<1>4. billed(q) = SumFunctionOnSet(f, Invoices) /\ billed(q)' = SumFunctionOnSet(g, Invoices)
  BY DEF billed
<1> HIDE DEF f, g
<1>5. SumFunctionOnSet(g, Invoices) = SumFunctionOnSet(f, Invoices) + (g[j] - f[j])
  BY <1>1, <1>3, SumChange
<1>6. SumFunctionOnSet(f, Invoices) \in Int
  BY <1>1, SumType
<1> QED
  BY <1>1, <1>3, <1>4, <1>5, <1>6

(* An update bills nothing more to a quotation that stays undisturbed.     *)
LEMMA UpdateShares ==
  ASSUME TypeOK, TypeOK', InvoiceIsCurrent, NEW r \in Requests, Updating(r),
         NEW q \in Quotes, Undisturbed(q), NEW i \in Invoices
  PROVE  share(i, q)' <= share(i, q)
<1>0. share(i, q) \in Nat
  BY ShareType
<1>1. CASE i \notin touches(r)
  BY <1>0, <1>1, UpdateWrites DEF share
<1>2. CASE i \in touches(r) /\ invoice[i].quotation # q
  BY <1>0, <1>2, UpdateWrites DEF share
<1>3. CASE i \in touches(r) /\ invoice[i].quotation = q
  <2>1. SawInvoice(r, i)
    BY <1>3, CurrentParts DEF Undisturbed
  <2>2. /\ invoice'[i].subtotal = invoice[i].subtotal /\ invoice'[i].quotation = invoice[i].quotation
    BY <1>3, UpdateWrites
  <2>3. invoice'[i].status # "VOID" => invoice[i].status \notin {"NONE", "VOID"}
    <3>1. CASE IssueCommit(r)
      BY <1>3, <2>1, <3>1, TouchesShape DEF IssueCommit, SawInvoice
    <3>2. CASE RecordPaymentCommit(r)
      BY <1>3, <2>1, <3>2, TouchesShape DEF RecordPaymentCommit, SawInvoice, PAYABLE
    <3>3. CASE VoidCommit(r)
      BY <1>3, <3>3, StatusWrites, TouchesShape DEF VoidCommit, InvoiceStatus
    <3>4. CASE SweepCommit(r)
      BY <1>3, <2>1, <3>4, TouchesShape DEF SweepCommit, SawInvoice
    <3> QED
      BY <3>1, <3>2, <3>3, <3>4 DEF Updating
  <2> QED
    BY <1>0, <2>2, <2>3 DEF share
<1> QED
  BY <1>1, <1>2, <1>3

-----------------------------------------------------------------------------
(* What a request has read of quotation q is what is stored.               *)
SawQuote(r, q) ==
  tx[r].op \in {"transition", "convert"} /\ tx[r].quote = q => quotation[q] # "CONVERTED"

SawBilled(r, q) ==
  tx[r].op = "create" /\ tx[r].quote = q => billed(q) + tx[r].subtotal <= QuoteSubtotal

QuoteAddsUp(q) == quotation[q] = "CONVERTED" \/ billed(q) <= QuoteSubtotal

LEMMA NextQuoteCurrent ==
  ASSUME IndInv, TypeOK', RowInv, [Next]_vars
  PROVE  QuoteIsCurrent'
<1> TypeOK /\ WorksOnExisting /\ PaidWasPaid /\ InvoiceIsCurrent /\ QuoteIsCurrent
  BY DEF IndInv, RowInv
<1>0. raced \subseteq raced'
  <2>1. ASSUME NEW r \in Requests, Updating(r) \/ Inserting(r) \/ TransitionCommit(r)
        PROVE  Done(r)
    BY <2>1, UpdateWrites, InsertShape, CommitDone DEF TransitionCommit
  <2> QED
    BY <2>1, StepShape DEF Updating, Inserting, Done, Reading, CreateQuotation
<1> SUFFICES ASSUME NEW q \in Quotes, q \notin raced'
             PROVE  /\ \A s \in Requests : SawQuote(s, q)'
                    /\ Undisturbed(q)' => QuoteAddsUp(q)' /\ \A s \in Requests : SawBilled(s, q)'
  BY DEF QuoteIsCurrent, Undisturbed, SawQuote, SawBilled, QuoteAddsUp
<1>1. \A s \in Requests : SawQuote(s, q)
  BY <1>0 DEF QuoteIsCurrent, SawQuote
<1>2. Undisturbed(q) => QuoteAddsUp(q) /\ \A s \in Requests : SawBilled(s, q)
  BY DEF QuoteIsCurrent, QuoteAddsUp, SawBilled
<1>3. Undisturbed(q)' => Undisturbed(q)
  BY <1>0, RowsPersist DEF Undisturbed, WorksOnExisting
<1>4. ASSUME invoice' = invoice PROVE billed(q)' = billed(q)
  BY <1>4 DEF billed, share
<1>5. ASSUME NEW s \in Requests, tx'[s].op \in {"idle", "voided", "compensate"}
      PROVE  SawQuote(s, q)' /\ SawBilled(s, q)'
  BY <1>5 DEF SawQuote, SawBilled
<1>6. ASSUME NEW s \in Requests, tx'[s] = tx[s], q \notin touches(s)
      PROVE  SawQuote(s, q)' /\ SawBilled(s, q)'
  BY <1>6, TouchesShape DEF SawQuote, SawBilled
<1>7. ASSUME NEW s \in Requests, tx'[s] = tx[s], quotation'[q] = quotation[q]
      PROVE  SawQuote(s, q)'
  BY <1>1, <1>7 DEF SawQuote
<1>8. ASSUME NEW s \in Requests, tx'[s] = tx[s], SawBilled(s, q),
             billed(q) \in Int, billed(q)' \in Int, billed(q)' <= billed(q)
      PROVE  SawBilled(s, q)'
  <2> SUFFICES ASSUME tx[s].op = "create", tx[s].quote = q
               PROVE  billed(q)' + tx[s].subtotal <= QuoteSubtotal
    BY <1>8 DEF SawBilled
  <2>1. tx[s].subtotal \in Nat /\ billed(q) + tx[s].subtotal <= QuoteSubtotal
    BY <1>8, SnapshotShape DEF SawBilled
  <2> QED
    BY <1>8, <2>1
<1>9. billed(q) \in Int
  <2> DEFINE f == [i \in Invoices |-> share(i, q)]
  <2>1. \A i \in Invoices : f[i] \in Int
    BY ShareType
  <2>2. billed(q) = SumFunctionOnSet(f, Invoices)
    BY DEF billed
  <2> HIDE DEF f
  <2> QED
    BY <2>1, <2>2, SumType
<1>10. ASSUME invoice' = invoice, quotation'[q] = quotation[q]
       PROVE  /\ Undisturbed(q) => QuoteAddsUp(q)'
              /\ \A s \in Requests : tx'[s] = tx[s] =>
                   SawQuote(s, q)' /\ (Undisturbed(q) => SawBilled(s, q)')
  <2>1. billed(q)' = billed(q)
    BY <1>4, <1>10
  <2>2. Undisturbed(q) => QuoteAddsUp(q)'
    BY <1>2, <1>10, <2>1 DEF QuoteAddsUp
  <2>3. billed(q)' \in Int /\ billed(q)' <= billed(q)
    BY <1>9, <2>1
  <2> QED
    BY <1>2, <1>7, <1>8, <1>9, <1>10, <2>2, <2>3
<1>11. ASSUME NEW r \in Requests, Reading(r)
       PROVE  /\ \A s \in Requests : SawQuote(s, q)'
              /\ Undisturbed(q)' => QuoteAddsUp(q)' /\ \A s \in Requests : SawBilled(s, q)'
  <2>1. invoice' = invoice /\ quotation' = quotation
    BY <1>11 DEF Reading
  <2>2. billed(q)' = billed(q)
    BY <1>4, <2>1
  <2>3. SawQuote(r, q)' /\ SawBilled(r, q)'
    BY <1>5, <1>11, <2>1, <2>2 DEF Reading, Fresh, SawQuote, SawBilled
  <2> QED
    BY <1>3, <1>10, <1>11, <2>1, <2>3 DEF Reading
<1>12. ASSUME NEW r \in Requests, Updating(r)
       PROVE  /\ \A s \in Requests : SawQuote(s, q)'
              /\ Undisturbed(q)' => QuoteAddsUp(q)' /\ \A s \in Requests : SawBilled(s, q)'
  <2>1. Done(r) /\ quotation' = quotation
    BY <1>12, UpdateWrites
  <2>2. \A s \in Requests : SawQuote(s, q)'
    BY <1>5, <1>7, <2>1 DEF Done
  <2>3. ASSUME Undisturbed(q)'
        PROVE  QuoteAddsUp(q)' /\ \A s \in Requests : SawBilled(s, q)'
    <3>1. Undisturbed(q)
      BY <1>3, <2>3
    <3>2. \A i \in Invoices : share(i, q)' <= share(i, q)
      BY <1>12, <3>1, UpdateShares
    <3>3. billed(q)' <= billed(q) /\ billed(q)' \in Int
      BY <3>2, BilledAtMost
    <3>4. QuoteAddsUp(q)'
      BY <1>2, <1>9, <2>1, <3>1, <3>3 DEF QuoteAddsUp
    <3>5. \A s \in Requests : SawBilled(s, q)'
      BY <1>2, <1>5, <1>8, <1>9, <2>1, <3>1, <3>3 DEF Done
    <3> QED
      BY <3>4, <3>5
  <2> QED
    BY <2>2, <2>3
<1>13. ASSUME NEW r \in Requests, Inserting(r)
       PROVE  /\ \A s \in Requests : SawQuote(s, q)'
              /\ Undisturbed(q)' => QuoteAddsUp(q)' /\ \A s \in Requests : SawBilled(s, q)'
  <2>1. Done(r) /\ touches(r) = {tx[r].quote}
    BY <1>13, InsertShape
  <2>2. PICK j \in Invoices : InsertsAt(r, j)
    BY <1>13, InsertShape
  <2>3. share(j, q) = 0 /\ \A i \in Invoices \ {j} : share(i, q)' = share(i, q)
    BY <2>2 DEF InsertsAt, share
  <2>4. billed(q)' = billed(q) + share(j, q)'
    BY <2>3, BilledInserted
  <2>5. tx[r].quote # q => quotation'[q] = quotation[q]
    BY <1>13 DEF Inserting, ConvertCommit, CreateInvoiceCommit, TypeOK
  <2>6. CASE tx[r].quote # q
    <3>1. share(j, q)' = 0
      BY <2>2, <2>6 DEF InsertsAt, share
    <3>2. billed(q)' = billed(q)
      BY <1>9, <2>4, <3>1
    <3>3. \A s \in Requests : SawQuote(s, q)'
      BY <1>5, <1>7, <2>1, <2>5, <2>6 DEF Done
    <3>4. Undisturbed(q) => QuoteAddsUp(q)'
      BY <1>2, <2>5, <2>6, <3>2 DEF QuoteAddsUp
    <3>5. billed(q)' \in Int /\ billed(q)' <= billed(q)
      BY <1>9, <3>2
    <3>6. Undisturbed(q) => \A s \in Requests : SawBilled(s, q)'
      BY <1>2, <1>5, <1>8, <1>9, <2>1, <3>5 DEF Done
    <3> QED
      BY <1>3, <3>3, <3>4, <3>6
  <2>7. CASE tx[r].quote = q
    <3>1. \A s \in Requests : SawQuote(s, q)' /\ SawBilled(s, q)'
      BY <1>5, <1>6, <2>1, <2>7 DEF Done
    <3>2. ASSUME Undisturbed(q) PROVE QuoteAddsUp(q)'
      <4>1. CASE ConvertCommit(r)
        BY <2>7, <4>1 DEF ConvertCommit, QuoteAddsUp, TypeOK
      <4>2. CASE CreateInvoiceCommit(r)
        <5>1. tx[r].op = "create" /\ tx[r].subtotal \in Nat
          BY <4>2, SnapshotShape DEF CreateInvoiceCommit
        <5>2. share(j, q)' = tx[r].subtotal
          BY <2>2, <2>7, <5>1 DEF InsertsAt, share
        <5>3. billed(q) + tx[r].subtotal <= QuoteSubtotal
          BY <1>2, <2>7, <3>2, <5>1 DEF SawBilled
        <5> QED
          BY <2>4, <5>2, <5>3 DEF QuoteAddsUp
      <4> QED
        BY <1>13, <4>1, <4>2 DEF Inserting
    <3> QED
      BY <1>3, <3>1, <3>2
  <2> QED
    BY <2>6, <2>7
<1>14. ASSUME NEW r \in Requests, TransitionCommit(r)
       PROVE  /\ \A s \in Requests : SawQuote(s, q)'
              /\ Undisturbed(q)' => QuoteAddsUp(q)' /\ \A s \in Requests : SawBilled(s, q)'
  <2>1. Done(r) /\ touches(r) = {tx[r].quote} /\ invoice' = invoice
    BY <1>14, CommitDone, TouchesShape DEF TransitionCommit
  <2>2. CASE tx[r].quote # q
    <3>1. quotation'[q] = quotation[q]
      BY <1>14, <2>2 DEF TransitionCommit, TypeOK
    <3> QED
      BY <1>3, <1>5, <1>10, <2>1, <3>1 DEF Done
  <2>3. CASE tx[r].quote = q
    <3>1. \A s \in Requests : SawQuote(s, q)' /\ SawBilled(s, q)'
      BY <1>5, <1>6, <2>1, <2>3 DEF Done
    <3>2. quotation[q] # "CONVERTED"
      BY <1>1, <1>14, <2>3 DEF TransitionCommit, SawQuote
    <3>3. Undisturbed(q) => QuoteAddsUp(q)'
      BY <1>2, <1>4, <2>1, <3>2 DEF QuoteAddsUp
    <3> QED
      BY <1>3, <3>1, <3>3
  <2> QED
    BY <2>2, <2>3
<1>15. ASSUME NEW r \in Requests, NEW p \in Quotes, CreateQuotation(r, p)
       PROVE  /\ \A s \in Requests : SawQuote(s, q)'
              /\ Undisturbed(q)' => QuoteAddsUp(q)' /\ \A s \in Requests : SawBilled(s, q)'
  <2>1. UNCHANGED <<invoice, tx>>
    BY <1>15 DEF CreateQuotation
  <2>2. \/ quotation'[q] = quotation[q]
        \/ quotation[q] = "NONE" /\ quotation'[q] = "DRAFT"
    BY <1>15 DEF CreateQuotation, TypeOK
  <2>3. \A s \in Requests : SawQuote(s, q)'
    BY <1>1, <2>1, <2>2 DEF SawQuote
  <2>4. billed(q)' = billed(q)
    BY <1>4, <2>1
  <2>5. Undisturbed(q) => QuoteAddsUp(q)' /\ \A s \in Requests : SawBilled(s, q)'
    BY <1>2, <2>1, <2>2, <2>4 DEF QuoteAddsUp, SawBilled
  <2> QED
    BY <1>3, <2>3, <2>5
<1>16. CASE UNCHANGED <<quotation, invoice, paid, receipts, tx, raced>>
  BY <1>3, <1>10, <1>16
<1> QED
  BY <1>11, <1>12, <1>13, <1>14, <1>15, <1>16, StepShape DEF Updating, Inserting

-----------------------------------------------------------------------------
LEMMA InitRowInv == Init => RowInv
<1> SUFFICES ASSUME Init PROVE RowInv
  OBVIOUS
<1>1. WorksOnExisting /\ PaidWasPaid /\ InvoiceIsCurrent
  BY DEF Init, WorksOnExisting, PaidWasPaid, InvoiceIsCurrent, Idle
<1>2. ASSUME NEW q \in Quotes PROVE billed(q) = 0
  <2> DEFINE f == [i \in Invoices |-> share(i, q)]
  <2>1. \A i \in Invoices : f[i] = 0
    BY DEF Init, share
  <2>2. billed(q) = SumFunctionOnSet(f, Invoices)
    BY DEF billed
  <2> HIDE DEF f
  <2> QED
    BY <2>1, <2>2, SumOfZeros
<1>3. QuoteIsCurrent
  BY <1>2 DEF Init, QuoteIsCurrent, Idle
<1> QED
  BY <1>1, <1>3 DEF RowInv

(* RowInv holds in every reachable state.                                  *)
THEOREM RowsAreCurrent == Spec => []RowInv
<1>1. IndInv /\ IndInv' /\ RowInv /\ [Next]_vars => RowInv'
  BY NextExisting, NextPaidWasPaid, NextInvoiceCurrent, NextQuoteCurrent DEF IndInv, RowInv
<1> QED
  BY SalesInvariant, InitRowInv, <1>1, PTL DEF Spec

(* As long as no two requests overlap on a document, its balance is the    *)
(* sum of its payments, a void one has no receipt, and a quotation bills   *)
(* no more than its subtotal before it is converted.                       *)
THEOREM ConsistentDocuments == Spec => []ConsistentUnlessRaced
<1>1. RowInv => ConsistentUnlessRaced
  BY DEF RowInv, InvoiceIsCurrent, QuoteIsCurrent, Undisturbed, ConsistentUnlessRaced,
         AmountPaidIsSum, VoidHasNoReceipt, CeilingBeforeConvert
<1> QED
  BY RowsAreCurrent, <1>1, PTL

LEMMA SettledStays ==
  ASSUME IndInv, RowInv, [Next]_vars, NEW i \in Invoices \ raced,
         invoice[i].status \in {"PAID", "VOID"}
  PROVE  invoice'[i].status = invoice[i].status
<1> TypeOK /\ PaidWasPaid
  BY DEF IndInv, RowInv
<1>1. \A r \in Requests : SawInvoice(r, i)
  BY CurrentParts DEF RowInv
<1>2. invoice[i].status = "PAID" => receipts[i] # 0
  BY DEF IndInv, ReceiptWithFirstPayment, PaidWasPaid
<1>3. ASSUME NEW r \in Requests, Updating(r) PROVE i \notin touches(r)
  <2>1. tx[r].op \in {"issue", "pay", "void", "sweep"}
    BY <1>3, UpdateWrites
  <2> QED
    BY <1>1, <1>2, <2>1, TouchesShape DEF SawInvoice, PAYABLE
<1>4. ASSUME NEW r \in Requests, Updating(r) PROVE invoice'[i] = invoice[i]
  BY <1>3, <1>4, UpdateWrites
<1>5. ASSUME NEW r \in Requests, Inserting(r) PROVE invoice'[i] = invoice[i]
  BY <1>5, InsertShape DEF InsertsAt
<1>6. ASSUME NEW r \in Requests,
             Reading(r) \/ TransitionCommit(r) \/ \E q \in Quotes : CreateQuotation(r, q)
      PROVE  invoice' = invoice
  BY <1>6 DEF Reading, TransitionCommit, CreateQuotation
<1> QED
  BY <1>4, <1>5, <1>6, StepShape DEF Updating, Inserting

(* No payment, void, issue or sweep takes a settled or void invoice to     *)
(* another status, unless two requests overlapped on it.                   *)
THEOREM SettledDocuments == Spec => SettledIsFinal
<1>1. ASSUME IndInv, RowInv, [Next]_vars
      PROVE  [\A i \in Invoices \ raced :
                invoice[i].status \in {"PAID", "VOID"} =>
                  invoice'[i].status = invoice[i].status]_vars
  BY <1>1, SettledStays
<1> QED
  BY SalesInvariant, RowsAreCurrent, <1>1, PTL DEF Spec, SettledIsFinal
===============================================================================
