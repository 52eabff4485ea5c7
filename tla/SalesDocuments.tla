---------------------------- MODULE SalesDocuments ----------------------------
(***************************************************************************)
(* Quotations, invoices, payments, voids and the overdue sweep of          *)
(* apps/api/src/sales, with the stock movements that                       *)
(* inventory/sales-stock.subscriber.ts posts for them.                     *)
(*                                                                         *)
(* Every handler runs in one READ COMMITTED transaction: it SELECTs rows   *)
(* without a lock, checks them in memory, and UPDATEs by primary key.  The *)
(* first UPDATE takes the row lock and keeps it to COMMIT, so a handler is *)
(* a Read step, which stores the snapshot it decided on, and a Commit      *)
(* step, in which its writes and the reads made under the row lock happen  *)
(* at once.  Between the two, other requests may commit.                   *)
(*                                                                         *)
(* Money is an integer; the net amount due (grand total less withholding   *)
(* tax) is represented by the subtotal.                                    *)
(***************************************************************************)
EXTENDS Integers, FiniteSets, FiniteSetsExt

CONSTANTS
  Invoices,       \* invoice ids, unused until a handler inserts one
  Quotes,         \* quotation ids
  NoQuote,        \* invoice.quotation_id IS NULL
  Stocked,        \* invoices with at least one line that has an item
  Requests,       \* concurrently running requests and sweep jobs
  QuoteSubtotal,  \* quotation.subtotal
  Amounts,        \* payment amounts and partial-billing subtotals
  MaxPaid         \* bound: total of the payments explored, per invoice

(* A tenant has finitely many invoices, and no id serves two tables.       *)
ASSUME SalesAssumptions ==
  /\ IsFiniteSet(Invoices)
  /\ Stocked \subseteq Invoices
  /\ Invoices \cap Quotes = {}
  /\ NoQuote \notin Invoices \cup Quotes
  /\ QuoteSubtotal \in Nat \ {0}
  /\ Amounts \subseteq Nat \ {0}
  /\ MaxPaid \in [Invoices -> Nat]

VARIABLES
  quotation,  \* quotation.status, or "NONE" before the row exists
  invoice,    \* invoice rows
  paid,       \* per invoice: total of its payment rows
  receipts,   \* per invoice: number of receipt_tax_invoice rows
  out,        \* per invoice: GOODS_ISSUE OUT postings with this ref_id
  in,         \* per invoice: compensating IN postings with this ref_id
  pastDue,    \* invoices whose due_date has passed
  tx,         \* per request: what it has read and is about to write
  raced,      \* ghost: documents one request wrote while another, which had
              \*   read them, had not committed
  lost        \* ghost: invoices whose DocumentVoided hook was lost

db == <<quotation, invoice, paid, receipts, out, in>>
vars == <<quotation, invoice, paid, receipts, out, in, pastDue, tx, raced, lost>>

QuotationStatus == {"NONE", "DRAFT", "SENT", "APPROVED", "REJECTED", "CONVERTED"}
InvoiceStatus ==
  {"NONE", "DRAFT", "ISSUED", "PARTIALLY_PAID", "PAID", "OVERDUE", "VOID"}
InvoiceRow == [status : InvoiceStatus, quotation : Quotes \cup {NoQuote},
               subtotal : Nat, amountPaid : Nat]

Idle == [op |-> "idle"]
Tx ==
  {Idle}
  \cup [op : {"transition"}, quote : Quotes, to : QuotationStatus]
  \cup [op : {"convert"}, quote : Quotes]
  \cup [op : {"create"}, quote : Quotes \cup {NoQuote}, subtotal : Amounts]
  \cup [op : {"issue", "void", "voided"}, inv : Invoices]
  \cup [op : {"pay"}, inv : Invoices, amount : Amounts, seen : InvoiceRow]
  \cup [op : {"sweep"}, due : SUBSET Invoices]
  \cup [op : {"compensate"}, inv : Invoices, outs : Nat]

TypeOK ==
  /\ quotation \in [Quotes -> QuotationStatus]
  /\ invoice \in [Invoices -> InvoiceRow]
  /\ paid \in [Invoices -> Nat]
  /\ receipts \in [Invoices -> Nat]
  /\ out \in [Invoices -> Nat]
  /\ in \in [Invoices -> Nat]
  /\ pastDue \subseteq Invoices
  /\ tx \in [Requests -> Tx]
  /\ raced \subseteq Invoices \cup Quotes
  /\ lost \subseteq Invoices

Init ==
  /\ quotation = [q \in Quotes |-> "NONE"]
  /\ invoice = [i \in Invoices |-> [status |-> "NONE", quotation |-> NoQuote,
                                    subtotal |-> 0, amountPaid |-> 0]]
  /\ paid = [i \in Invoices |-> 0]
  /\ receipts = [i \in Invoices |-> 0]
  /\ out = [i \in Invoices |-> 0]
  /\ in = [i \in Invoices |-> 0]
  /\ pastDue = {}
  /\ tx = [r \in Requests |-> Idle]
  /\ raced = {}
  /\ lost = {}

-----------------------------------------------------------------------------
(* The unlocked SELECTs of a handler: it keeps what it saw.                *)
Read(r, snapshot) ==
  /\ tx[r] = Idle
  /\ tx' = [tx EXCEPT ![r] = snapshot]
  /\ UNCHANGED <<db, pastDue, raced, lost>>

(* The documents a request has read and will write.                        *)
touches(r) ==
  CASE tx[r].op \in {"transition", "convert", "create"} -> {tx[r].quote}
    [] tx[r].op \in {"issue", "void", "pay"} -> {tx[r].inv}
    [] tx[r].op = "sweep" -> tx[r].due
    [] OTHER -> {}

(* Ghost: another request decided on what this one is about to overwrite.  *)
MarkRaced(r) ==
  raced' = raced \cup {d \in Invoices \cup Quotes :
    d \in touches(r) /\ \E s \in Requests \ {r} : d \in touches(s)}

Commit(r) ==
  /\ tx' = [tx EXCEPT ![r] = Idle]
  /\ MarkRaced(r)
  /\ UNCHANGED <<pastDue, lost>>

setStatus(i, status) == invoice' = [invoice EXCEPT ![i].status = status]

(* QuotationService.create inserts a DRAFT.                                *)
CreateQuotation(r, q) ==
  /\ tx[r] = Idle
  /\ quotation[q] = "NONE"
  /\ quotation' = [quotation EXCEPT ![q] = "DRAFT"]
  /\ UNCHANGED <<invoice, paid, receipts, out, in, pastDue, tx, raced, lost>>

(* send, approve and reject: transition(id, from, to).                     *)
Transitions == {<<"DRAFT", "SENT">>, <<"SENT", "APPROVED">>, <<"SENT", "REJECTED">>}

TransitionRead(r, q) ==
  \E t \in Transitions :
    /\ quotation[q] = t[1]
    /\ Read(r, [op |-> "transition", quote |-> q, to |-> t[2]])

TransitionCommit(r) ==
  /\ tx[r].op = "transition"
  /\ quotation' = [quotation EXCEPT ![tx[r].quote] = tx[r].to]
  /\ Commit(r)
  /\ UNCHANGED <<invoice, paid, receipts, out, in>>

insertInvoice(q, subtotal) ==
  \E i \in Invoices :
    /\ invoice[i].status = "NONE"
    /\ invoice' = [invoice EXCEPT ![i] = [status |-> "DRAFT", quotation |-> q,
                                          subtotal |-> subtotal, amountPaid |-> 0]]

(* QuotationService.convert: the APPROVED check is on the snapshot.        *)
ConvertRead(r, q) ==
  /\ quotation[q] = "APPROVED"
  /\ Read(r, [op |-> "convert", quote |-> q])

ConvertCommit(r) ==
  /\ tx[r].op = "convert"
  /\ insertInvoice(tx[r].quote, QuoteSubtotal)
  /\ quotation' = [quotation EXCEPT ![tx[r].quote] = "CONVERTED"]
  /\ Commit(r)
  /\ UNCHANGED <<paid, receipts, out, in>>

(* What a quotation's invoices, other than void ones, have billed.         *)
share(i, q) ==
  IF invoice[i].quotation = q /\ invoice[i].status \notin {"NONE", "VOID"}
  THEN invoice[i].subtotal ELSE 0

billed(q) == SumFunctionOnSet([i \in Invoices |-> share(i, q)], Invoices)

(* assertUnderBillingCeiling: sum of the quotation's non-VOID invoices plus *)
(* the new subtotal, over the rows visible when it runs.                   *)
assertUnderBillingCeiling(q, subtotal) == billed(q) + subtotal <= QuoteSubtotal

(* InvoiceService.create, standalone or against a quotation of any status. *)
CreateInvoiceRead(r, q, subtotal) ==
  /\ q # NoQuote => quotation[q] # "NONE" /\ assertUnderBillingCeiling(q, subtotal)
  /\ Read(r, [op |-> "create", quote |-> q, subtotal |-> subtotal])

CreateInvoiceCommit(r) ==
  /\ tx[r].op = "create"
  /\ insertInvoice(tx[r].quote, tx[r].subtotal)
  /\ Commit(r)
  /\ UNCHANGED <<quotation, paid, receipts, out, in>>

(* InvoiceService.issue.                                                   *)
IssueRead(r, i) ==
  /\ invoice[i].status = "DRAFT"
  /\ Read(r, [op |-> "issue", inv |-> i])

(* Mutant: issueForSale does not look for an earlier OUT.                  *)
issueForSaleAlways(i) ==
  out' = [out EXCEPT ![i] = IF i \in Stocked THEN @ + 1 ELSE @]

(* issueForSale: in the issuer's transaction, skipped if an OUT with this  *)
(* ref_id exists; a document without stocked lines posts nothing.          *)
issueForSale(i) ==
  out' = [out EXCEPT ![i] = IF i \in Stocked /\ @ = 0 THEN 1 ELSE @]

IssueCommit(r) ==
  /\ tx[r].op = "issue"
  /\ setStatus(tx[r].inv, "ISSUED")
  /\ issueForSale(tx[r].inv)
  /\ Commit(r)
  /\ UNCHANGED <<quotation, paid, receipts, in>>

PAYABLE == {"ISSUED", "PARTIALLY_PAID", "OVERDUE"}

(* PaymentService.record.                                                  *)
RecordPaymentRead(r, i, amount) ==
  /\ invoice[i].status \in PAYABLE
  /\ paid[i] + amount <= MaxPaid[i]
  /\ Read(r, [op |-> "pay", inv |-> i, amount |-> amount, seen |-> invoice[i]])

(* amount_paid and status are computed from the snapshot.  Mutants: the    *)
(* balance is replaced instead of advanced; any payment settles.           *)
newPaidReplaced(seen, amount) == amount
newPaid(seen, amount) == seen.amountPaid + amount

newStatusAlwaysPaid(seen, amount) == "PAID"
newStatus(seen, amount) ==
  IF newPaid(seen, amount) >= seen.subtotal THEN "PAID" ELSE "PARTIALLY_PAID"

(* Mutant: every payment issues a receipt.                                 *)
issueReceiptAlways(i) == receipts' = [receipts EXCEPT ![i] = @ + 1]

(* The receipt is issued unless one exists; the read is made under the     *)
(* invoice row lock, so it sees every committed receipt.                   *)
issueReceipt(i) == receipts' = [receipts EXCEPT ![i] = IF @ = 0 THEN 1 ELSE @]

RecordPaymentCommit(r) ==
  LET i == tx[r].inv
      seen == tx[r].seen
      amount == tx[r].amount
  IN /\ tx[r].op = "pay"
     /\ paid' = [paid EXCEPT ![i] = @ + amount]
     /\ invoice' = [invoice EXCEPT ![i].amountPaid = newPaid(seen, amount),
                                   ![i].status = newStatus(seen, amount)]
     /\ issueReceipt(i)
     /\ Commit(r)
     /\ UNCHANGED <<quotation, out, in>>

(* VoidService.voidInvoice: not VOID yet and no receipt, on the snapshot.  *)
VoidRead(r, i) ==
  /\ invoice[i].status \notin {"NONE", "VOID"}
  /\ receipts[i] = 0
  /\ Read(r, [op |-> "void", inv |-> i])

(* Mutant: DocumentVoided is not published.                                *)
VoidCommitSilent(r) ==
  /\ tx[r].op = "void"
  /\ setStatus(tx[r].inv, "VOID")
  /\ Commit(r)
  /\ UNCHANGED <<quotation, paid, receipts, out, in>>

(* The status and the audit row commit; DocumentVoided is an after-commit  *)
(* hook of this request.                                                   *)
VoidCommit(r) ==
  /\ tx[r].op = "void"
  /\ setStatus(tx[r].inv, "VOID")
  /\ tx' = [tx EXCEPT ![r] = [op |-> "voided", inv |-> tx[r].inv]]
  /\ MarkRaced(r)
  /\ UNCHANGED <<quotation, paid, receipts, out, in, pastDue, lost>>

(* compensate(): a transaction of its own that skips if an IN exists and   *)
(* otherwise reverses every OUT it finds.  Nothing is locked by its reads. *)
CompensateRead(r) ==
  /\ tx[r].op = "voided"
  /\ tx' = [tx EXCEPT ![r] =
       IF in[tx[r].inv] > 0 THEN Idle
       ELSE [op |-> "compensate", inv |-> tx[r].inv, outs |-> out[tx[r].inv]]]
  /\ UNCHANGED <<db, pastDue, raced, lost>>

CompensateCommit(r) ==
  /\ tx[r].op = "compensate"
  /\ in' = [in EXCEPT ![tx[r].inv] = @ + tx[r].outs]
  /\ Commit(r)
  /\ UNCHANGED <<quotation, invoice, paid, receipts, out>>

(* The due date of an invoice passes.                                      *)
DueDatePasses(i) ==
  /\ i \notin pastDue /\ invoice[i].status # "NONE"
  /\ pastDue' = pastDue \cup {i}
  /\ UNCHANGED <<db, tx, raced, lost>>

(* Mutant: the sweep flips every past-due invoice but the void ones.       *)
SweepReadUnpaid(r) ==
  LET due == {i \in pastDue : invoice[i].status \notin {"NONE", "DRAFT", "VOID"}}
  IN due # {} /\ Read(r, [op |-> "sweep", due |-> due])

(* OverdueMonitorWorker.sweep: one transaction, UPDATEs by id only.        *)
SweepRead(r) ==
  LET due == {i \in pastDue : invoice[i].status \in {"ISSUED", "PARTIALLY_PAID"}}
  IN due # {} /\ Read(r, [op |-> "sweep", due |-> due])

SweepCommit(r) ==
  /\ tx[r].op = "sweep"
  /\ invoice' = [i \in Invoices |->
       IF i \in tx[r].due THEN [invoice[i] EXCEPT !.status = "OVERDUE"] ELSE invoice[i]]
  /\ Commit(r)
  /\ UNCHANGED <<quotation, paid, receipts, out, in>>

(* An error, a lost client or a crash before COMMIT undoes the request.    *)
Rollback(r) ==
  /\ tx[r].op \notin {"idle", "voided", "compensate"}
  /\ tx' = [tx EXCEPT ![r] = Idle]
  /\ UNCHANGED <<db, pastDue, raced, lost>>

(* A crash after COMMIT, or a hook that throws, loses the after-commit     *)
(* work: it lives only in the process's memory.                            *)
HookLost(r) ==
  /\ tx[r].op \in {"voided", "compensate"}
  /\ tx' = [tx EXCEPT ![r] = Idle]
  /\ lost' = lost \cup {tx[r].inv}
  /\ UNCHANGED <<db, pastDue, raced>>

Hooks(r) == CompensateRead(r) \/ CompensateCommit(r)

Next ==
  \/ \E i \in Invoices : DueDatePasses(i)
  \/ \E r \in Requests :
       \/ \E q \in Quotes : CreateQuotation(r, q) \/ TransitionRead(r, q) \/ ConvertRead(r, q)
       \/ \E q \in Quotes \cup {NoQuote} : \E a \in Amounts : CreateInvoiceRead(r, q, a)
       \/ \E i \in Invoices : IssueRead(r, i) \/ VoidRead(r, i)
       \/ \E i \in Invoices : \E a \in Amounts : RecordPaymentRead(r, i, a)
       \/ SweepRead(r)
       \/ TransitionCommit(r) \/ ConvertCommit(r) \/ CreateInvoiceCommit(r)
       \/ IssueCommit(r) \/ RecordPaymentCommit(r) \/ VoidCommit(r) \/ SweepCommit(r)
       \/ Hooks(r) \/ Rollback(r) \/ HookLost(r)

Spec == Init /\ [][Next]_vars

-----------------------------------------------------------------------------
(* Properties that hold however requests interleave.                       *)

(* An invoice gets its receipt with its first payment and never a second   *)
(* one: concurrent payments queue on the invoice row before they look.     *)
ReceiptWithFirstPayment ==
  \A i \in Invoices : receipts[i] = IF paid[i] > 0 THEN 1 ELSE 0

(* A lost update may hide a payment but never invents one: amount_paid is  *)
(* covered by payment rows, and a PAID invoice was paid in full.           *)
PaidIsCovered ==
  \A i \in Invoices :
    /\ invoice[i].amountPaid <= paid[i]
    /\ invoice[i].status = "PAID" => paid[i] >= invoice[i].subtotal

(* "an already-issued document no-ops": a document leaves stock at most    *)
(* once, even when two issue requests both saw a DRAFT.                    *)
StockLeavesOnce == \A i \in Invoices : out[i] <= (IF i \in Stocked THEN 1 ELSE 0)

-----------------------------------------------------------------------------
(* Properties the documents promise without condition.  They hold for a    *)
(* document as long as no two requests overlap on it, whatever else runs;  *)
(* an overlap breaks every one of them.                                    *)

(* "Recording a payment appends a payment row, advances amount_paid": the  *)
(* balance is the sum of the rows.                                         *)
AmountPaidIsSum ==
  \A i \in Invoices \ raced : invoice[i].amountPaid = paid[i]

(* "blocked with 409 if a receipt_tax_invoice already exists": no void     *)
(* document carries a receipt.                                             *)
VoidHasNoReceipt ==
  \A i \in Invoices \ raced : invoice[i].status = "VOID" => receipts[i] = 0

(* "no backward transitions": a settled or void invoice never changes      *)
(* status again.                                                           *)
SettledIsFinal ==
  [][\A i \in Invoices \ raced :
       invoice[i].status \in {"PAID", "VOID"} => invoice'[i].status = invoice[i].status]_vars

(* The ceiling as InvoiceService.create keeps it: until a quotation is     *)
(* converted, its live invoices stay within its subtotal.                  *)
CeilingBeforeConvert ==
  \A q \in Quotes :
    \/ quotation[q] = "CONVERTED"
    \/ q \in raced \/ \E i \in raced \cap Invoices : invoice[i].quotation = q
    \/ billed(q) <= QuoteSubtotal

(* The three together: a document on which no two requests overlapped obeys *)
(* the documented rules of payments, voids and billing.                    *)
ConsistentUnlessRaced == AmountPaidIsSum /\ VoidHasNoReceipt /\ CeilingBeforeConvert

-----------------------------------------------------------------------------
(* The after-commit hook of a void.                                        *)

(* A void document that had left stock and has not got it back is owed it  *)
(* by a request that still runs its hook, or the hook was lost with the    *)
(* process: nothing else ever returns the stock.                           *)
StockIsOwed ==
  \A i \in Invoices :
    invoice[i].status = "VOID" /\ out[i] > 0 /\ in[i] = 0 =>
      \/ i \in lost
      \/ \E r \in Requests :
           \/ tx[r] = [op |-> "voided", inv |-> i]
           \/ tx[r].op = "compensate" /\ tx[r].inv = i /\ tx[r].outs > 0

-----------------------------------------------------------------------------
(* The inductive invariant behind the first group.                         *)

(* A payment under way remembers an amount_paid that payment rows cover,   *)
(* and the subtotal the invoice still has.                                 *)
PayersSawCommitted ==
  \A r \in Requests :
    tx[r].op = "pay" =>
      /\ invoice[tx[r].inv].status # "NONE"
      /\ invoice[tx[r].inv].subtotal = tx[r].seen.subtotal
      /\ tx[r].seen.amountPaid <= paid[tx[r].inv]

IndInv ==
  /\ TypeOK
  /\ PayersSawCommitted
  /\ ReceiptWithFirstPayment
  /\ PaidIsCovered
  /\ StockLeavesOnce
  /\ StockIsOwed
===============================================================================
