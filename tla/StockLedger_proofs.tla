-------------------------- MODULE StockLedger_proofs --------------------------
(***************************************************************************)
(* Theorems about the stock ledger, for every finite set of documents and  *)
(* every number of requests.  What a request read is still true when it    *)
(* commits, unless another request wrote the same row in between; every    *)
(* property of StockLedger rests on that.                                  *)
(***************************************************************************)
EXTENDS StockLedger, SumTheorems

-----------------------------------------------------------------------------
(* The inductive invariant, part by part.                                  *)

Posting(r) == tx[r].op \in {"check", "post"}

(* A request works on a document that exists; none is moved back to NONE.  *)
WorksOnExisting ==
  \A r \in Requests :
    /\ tx[r].op = "advance" => status[tx[r].doc] # "NONE" /\ tx[r].to # "NONE"
    /\ Posting(r) => tx[r].doc \in WorkOrders \/ status[tx[r].doc] # "NONE"

(* A document that does not exist has moved no stock and stems from no     *)
(* count; the line of a document that exists never changes.                *)
UnusedIsBlank ==
  \A d \in Docs \ WorkOrders :
    status[d] = "NONE" => posted[d] = 0 /\ (d \in Adjustments => source[d] = NoCount)

(* A value that is the sum of some of the postings.                        *)
PartialReplay(value, made, line) ==
  \E kept \in [Docs -> Nat] :
    /\ \A d \in Docs : kept[d] <= made[d]
    /\ value = SumFunctionOnSet([d \in Docs |-> kept[d] * line[d]], Docs)

BalancesArePartialReplays ==
  /\ PartialReplay(onHand, posted, delta)
  /\ \A r \in Requests : tx[r].op = "post" => PartialReplay(tx[r].loaded, posted, delta)

(* As long as no two postings overlapped, the balance a posting loaded and *)
(* the availability it checked are those it will write over.               *)
BalanceIsCurrent ==
  Balance \notin raced =>
    /\ onHand = replay
    /\ \A r \in Requests :
         /\ tx[r].op = "post" => tx[r].loaded = onHand
         /\ Posting(r) /\ tx[r].doc \in Issues => available(tx[r].doc)

(* As long as no two requests overlapped on a document, the status each    *)
(* one read is the one it writes over, and only POSTED ones moved stock.   *)
DocumentIsCurrent ==
  \A d \in Docs \ raced :
    /\ posted[d] <= 1
    /\ posted[d] = 1 => d \in WorkOrders \/ status[d] = "POSTED"
    /\ \A r \in Requests :
         /\ tx[r].op = "advance" /\ tx[r].doc = d => status[d] = "DRAFT"
         /\ Posting(r) /\ tx[r].doc = d => posted[d] = 0

(* The same for a count: a reconciled one has one adjustment, which books  *)
(* what its lines say.                                                     *)
CountIsCurrent ==
  \A c \in Counts \ raced :
    /\ \A d \in Adjustments :
         source[d] = c =>
           /\ count[c].status = "RECONCILED"
           /\ delta[d] = count[c].counted - count[c].system
           /\ \A e \in Adjustments : source[e] = c => e = d
    /\ \A r \in Requests :
         /\ tx[r].op = "setLines" /\ tx[r].count = c => count[c].status \in {"OPEN", "COUNTING"}
         /\ tx[r].op = "reconcile" /\ tx[r].count = c =>
              /\ count[c].status = "COUNTING"
              /\ tx[r].delta = count[c].counted - count[c].system

StockInv ==
  /\ TypeOK
  /\ WorksOnExisting
  /\ UnusedIsBlank
  /\ BalancesArePartialReplays
  /\ BalanceIsCurrent
  /\ DocumentIsCurrent
  /\ CountIsCurrent

-----------------------------------------------------------------------------
(* What a snapshot holds, what it touches, and what COMMIT does.           *)

LEMMA SnapshotShape ==
  ASSUME TypeOK, NEW r \in Requests
  PROVE  /\ tx[r].op = "advance" => tx[r].doc \in Docs /\ tx[r].to \in DocStatus
         /\ tx[r].op = "check" => tx[r].doc \in Docs
         /\ tx[r].op = "post" => tx[r].doc \in Docs /\ tx[r].loaded \in Int
         /\ tx[r].op = "setLines" => tx[r].count \in Counts /\ tx[r].counted \in Nat
         /\ tx[r].op = "reconcile" => tx[r].count \in Counts /\ tx[r].delta \in Int
<1>1. tx[r] \in Tx
  BY DEF TypeOK
<1> QED
  BY <1>1 DEF Tx, Idle

LEMMA TouchesShape ==
  ASSUME NEW r \in Requests
  PROVE  /\ tx[r].op = "advance" => touches(r) = {tx[r].doc}
         /\ Posting(r) => touches(r) = {tx[r].doc, Balance}
         /\ tx[r].op \in {"setLines", "reconcile"} => touches(r) = {tx[r].count}
  BY DEF touches, Posting

LEMMA TouchesType ==
  ASSUME TypeOK, NEW r \in Requests
  PROVE  touches(r) \subseteq Docs \cup Counts \cup {Balance}
<1>1. CASE tx[r].op = "advance"
  BY <1>1, SnapshotShape, TouchesShape
<1>2. CASE Posting(r)
  BY <1>2, SnapshotShape, TouchesShape DEF Posting
<1>3. CASE tx[r].op \in {"setLines", "reconcile"}
  BY <1>3, SnapshotShape, TouchesShape
<1>4. CASE tx[r].op \notin {"advance", "check", "post", "setLines", "reconcile"}
  BY <1>4 DEF touches
<1> QED
  BY <1>1, <1>2, <1>3, <1>4 DEF Posting

(* After COMMIT no other request still relies on a row this one wrote,     *)
(* unless the row is marked.                                               *)
LEMMA CommitMarks ==
  ASSUME TypeOK, NEW r \in Requests, Commit(r)
  PROVE  /\ tx' = [tx EXCEPT ![r] = Idle] /\ tx' \in [Requests -> Tx]
         /\ raced \subseteq raced' /\ raced' \subseteq Docs \cup Counts \cup {Balance}
         /\ \A q \in Requests \ {r} : touches(r) \cap touches(q) \subseteq raced'
  BY TouchesType DEF Commit, TypeOK, Tx

LEMMA KeepTypes ==
  ASSUME TypeOK, NEW r \in Requests, NEW t \in Tx, Keep(r, t), UNCHANGED <<docs, ledger, count>>
  PROVE  TypeOK'
  BY DEF TypeOK, Keep, docs, ledger

LEMMA CreateTypes ==
  ASSUME TypeOK, NEW r \in Requests, NEW d \in Docs \ WorkOrders, NEW q \in Int, Create(r, d, q),
         d \in Receipts => q >= 0, d \in Issues => q <= 0
  PROVE  TypeOK'
  BY DEF TypeOK, Create, DocStatus, ledger

LEMMA NextTypeOK == TypeOK /\ [Next]_vars => TypeOK'
<1> SUFFICES ASSUME TypeOK, [Next]_vars
             PROVE  TypeOK'
  OBVIOUS
<1> USE StockAssumptions
<1>1. ASSUME NEW r \in Requests, CreateReceipt(r) \/ CreateIssue(r) \/ CreateAdjustment(r)
      PROVE  TypeOK'
  <2>1. \A q \in Qtys : q \in Int /\ -q \in Int /\ q >= 0 /\ -q <= 0
    OBVIOUS
  <2>2. CASE CreateReceipt(r)
    BY <2>1, <2>2, CreateTypes DEF CreateReceipt, Docs
  <2>3. CASE CreateIssue(r)
    BY <2>1, <2>3, CreateTypes DEF CreateIssue, Docs
  <2>4. CASE CreateAdjustment(r)
    BY <2>1, <2>4, CreateTypes DEF CreateAdjustment, Docs
  <2> QED
    BY <1>1, <2>2, <2>3, <2>4
<1>2. ASSUME NEW r \in Requests, NEW d \in Docs,
             ConfirmReceipt(r, d) \/ ApproveAdjustment(r, d) \/ PostCheck(r, d)
      PROVE  TypeOK'
  <2>1. /\ [op |-> "advance", doc |-> d, to |-> "CONFIRMED"] \in Tx
        /\ [op |-> "advance", doc |-> d, to |-> "APPROVED"] \in Tx
        /\ [op |-> "check", doc |-> d] \in Tx
    BY DEF Tx, DocStatus
  <2> QED
    BY <1>2, <2>1, KeepTypes DEF ConfirmReceipt, ApproveAdjustment, Advance, PostCheck
<1>3. ASSUME NEW r \in Requests, AdvanceCommit(r)
      PROVE  TypeOK'
  BY <1>3, SnapshotShape, CommitMarks DEF AdvanceCommit, TypeOK, ledger
<1>4. ASSUME NEW r \in Requests, PostLoad(r)
      PROVE  TypeOK'
  <2>1. [op |-> "post", doc |-> tx[r].doc, loaded |-> onHand] \in Tx
    BY <1>4, SnapshotShape DEF PostLoad, Tx, TypeOK
  <2> QED
    BY <1>4, <2>1, KeepTypes DEF PostLoad
<1>5. ASSUME NEW r \in Requests, PostCommit(r)
      PROVE  TypeOK'
  <2>1. tx[r].doc \in Docs /\ tx[r].loaded \in Int
    BY <1>5, SnapshotShape DEF PostCommit
  <2>2. posted' \in [Docs -> Nat] /\ onHand' \in Int /\ signals' \in Nat
    BY <1>5, <2>1 DEF PostCommit, applyToBalance, TypeOK
  <2>3. status' \in [Docs -> DocStatus]
    BY <1>5, <2>1 DEF PostCommit, TypeOK, DocStatus
  <2>4. Commit(r) /\ UNCHANGED <<delta, source, count>>
    BY <1>5 DEF PostCommit
  <2> QED
    BY <2>2, <2>3, <2>4, CommitMarks DEF TypeOK
<1>6. ASSUME NEW r \in Requests, NEW c \in Counts, CreateCount(r, c)
      PROVE  TypeOK'
  BY <1>6 DEF CreateCount, TypeOK, CountStatus, docs, ledger
<1>7. ASSUME NEW r \in Requests, NEW c \in Counts, NEW n \in Qtys \cup {0}, SetLinesRead(r, c, n)
      PROVE  TypeOK'
  <2>1. n \in Nat
    OBVIOUS
  <2>2. [op |-> "setLines", count |-> c, counted |-> n] \in Tx
    BY <2>1 DEF Tx
  <2> QED
    BY <1>7, <2>2, KeepTypes DEF SetLinesRead
<1>8. ASSUME NEW r \in Requests, NEW c \in Counts, ReconcileRead(r, c)
      PROVE  TypeOK'
  <2>1. count[c].counted - count[c].system \in Int
    BY DEF TypeOK, Uncounted
  <2>2. [op |-> "reconcile", count |-> c, delta |-> count[c].counted - count[c].system] \in Tx
    BY <2>1 DEF Tx
  <2> QED
    BY <1>8, <2>2, KeepTypes DEF ReconcileRead
<1>9. ASSUME NEW r \in Requests, SetLinesCommit(r)
      PROVE  TypeOK'
  <2>1. tx[r].count \in Counts /\ tx[r].counted \in Nat
    BY <1>9, SnapshotShape DEF SetLinesCommit
  <2>2. count' \in [Counts -> [status : CountStatus, system : Int, counted : Nat \cup {Uncounted}]]
    BY <1>9, <2>1 DEF SetLinesCommit, TypeOK, CountStatus
  <2> QED
    BY <1>9, <2>2, CommitMarks DEF SetLinesCommit, TypeOK, docs, ledger
<1>10. ASSUME NEW r \in Requests, ReconcileCommit(r)
       PROVE  TypeOK'
  <2>1. tx[r].count \in Counts /\ tx[r].delta \in Int
    BY <1>10, SnapshotShape DEF ReconcileCommit
  <2>2. count' \in [Counts -> [status : CountStatus, system : Int, counted : Nat \cup {Uncounted}]]
    BY <1>10, <2>1 DEF ReconcileCommit, TypeOK, CountStatus
  <2>3. PICK d \in Adjustments :
          /\ status' = [status EXCEPT ![d] = "DRAFT"]
          /\ delta' = [delta EXCEPT ![d] = tx[r].delta]
          /\ source' = [source EXCEPT ![d] = tx[r].count]
    BY <1>10 DEF ReconcileCommit
  <2>4. /\ status' \in [Docs -> DocStatus] /\ delta' \in [Docs -> Int]
        /\ source' \in [Adjustments -> Counts \cup {NoCount}]
    BY <2>1, <2>3 DEF TypeOK, DocStatus
  <2>5. (\A e \in Receipts : delta'[e] >= 0) /\ (\A e \in Issues : delta'[e] <= 0)
    BY <2>3 DEF TypeOK, Docs
  <2> QED
    BY <1>10, <2>2, <2>4, <2>5, CommitMarks DEF ReconcileCommit, TypeOK, ledger
<1>11. ASSUME NEW r \in Requests, Rollback(r)
       PROVE  TypeOK'
  <2>1. Idle \in Tx
    BY DEF Tx
  <2> QED
    BY <1>11, <2>1, KeepTypes DEF Rollback
<1>12. CASE UNCHANGED vars
  BY <1>12 DEF vars, TypeOK
<1> QED
  BY <1>1, <1>2, <1>3, <1>4, <1>5, <1>6, <1>7, <1>8, <1>9, <1>10, <1>11, <1>12 DEF Next

-----------------------------------------------------------------------------
(* The steps by their shape: a request reads (or gives up), a document is  *)
(* created, or one of the commits.                                         *)

(* What request r has just read is what is stored.                         *)
Fresh(r) ==
  \/ tx'[r].op = "advance" /\ tx'[r].to # "NONE" /\ status[tx'[r].doc] = "DRAFT"
  \/ tx'[r].op = "check" /\ postable(tx'[r].doc)
  \/ /\ tx'[r].op = "post" /\ tx'[r].loaded = onHand
     /\ tx[r].op = "check" /\ tx'[r].doc = tx[r].doc
  \/ tx'[r].op = "setLines" /\ count[tx'[r].count].status \in {"OPEN", "COUNTING"}
  \/ /\ tx'[r].op = "reconcile" /\ count[tx'[r].count].status = "COUNTING"
     /\ tx'[r].delta = count[tx'[r].count].counted - count[tx'[r].count].system

Reading(r) ==
  /\ UNCHANGED <<status, delta, source, posted, onHand, signals, count, raced>>
  /\ \A q \in Requests \ {r} : tx'[q] = tx[q]
  /\ tx'[r].op = "idle" \/ Fresh(r)

Creating(d) ==
  /\ status[d] = "NONE"
  /\ status' = [status EXCEPT ![d] = "DRAFT"]
  /\ \A e \in Docs \ {d} : delta'[e] = delta[e]
  /\ UNCHANGED <<source, posted, onHand, signals, count, tx, raced>>

LEMMA StepShape ==
  ASSUME TypeOK, [Next]_vars
  PROVE  \/ UNCHANGED vars
         \/ \E d \in Docs \ WorkOrders : Creating(d)
         \/ \E r \in Requests :
              \/ Reading(r) \/ AdvanceCommit(r) \/ PostCommit(r)
              \/ \E c \in Counts : CreateCount(r, c)
              \/ SetLinesCommit(r) \/ ReconcileCommit(r)
<1>1. ASSUME NEW r \in Requests, CreateReceipt(r) \/ CreateIssue(r) \/ CreateAdjustment(r)
      PROVE  \E d \in Docs \ WorkOrders : Creating(d)
  <2>1. PICK d \in Docs \ WorkOrders : \E q : Create(r, d, q)
    BY <1>1, StockAssumptions DEF CreateReceipt, CreateIssue, CreateAdjustment, Docs
  <2>2. Creating(d)
    BY <2>1 DEF Create, Creating, ledger, TypeOK
  <2> QED
    BY <2>2
<1>2. ASSUME NEW r \in Requests, NEW t, Keep(r, t), UNCHANGED <<docs, ledger, count>>
      PROVE  /\ UNCHANGED <<status, delta, source, posted, onHand, signals, count, raced>>
             /\ \A q \in Requests \ {r} : tx'[q] = tx[q]
             /\ tx'[r] = t
  BY <1>2 DEF Keep, docs, ledger, TypeOK
<1>3. ASSUME NEW r \in Requests, NEW d \in Docs,
             ConfirmReceipt(r, d) \/ ApproveAdjustment(r, d) \/ PostCheck(r, d)
      PROVE  Reading(r)
  BY <1>2, <1>3 DEF ConfirmReceipt, ApproveAdjustment, Advance, PostCheck, Reading, Fresh
<1>4. ASSUME NEW r \in Requests, PostLoad(r) \/ Rollback(r)
      PROVE  Reading(r)
  BY <1>2, <1>4 DEF PostLoad, Rollback, Idle, Reading, Fresh
<1>5. ASSUME NEW r \in Requests, NEW c \in Counts, NEW n, SetLinesRead(r, c, n) \/ ReconcileRead(r, c)
      PROVE  Reading(r)
  BY <1>2, <1>5 DEF SetLinesRead, ReconcileRead, Reading, Fresh
<1> QED
  BY <1>1, <1>3, <1>4, <1>5 DEF Next

(* What the commits on documents and counts write.                         *)
LEMMA SetLinesWrites ==
  ASSUME TypeOK, NEW r \in Requests, SetLinesCommit(r)
  PROVE  /\ tx[r].count \in Counts
         /\ count'[tx[r].count].status = "COUNTING"
         /\ \A c \in Counts \ {tx[r].count} : count'[c] = count[c]
         /\ UNCHANGED <<status, delta, source, posted, onHand, signals>>
<1>1. tx[r].op = "setLines" /\ tx[r].count \in Counts
  BY SnapshotShape DEF SetLinesCommit
<1>2. count[tx[r].count] \in [status : CountStatus, system : Int, counted : Nat \cup {Uncounted}]
  BY <1>1 DEF TypeOK
<1>3. /\ count'[tx[r].count].status = "COUNTING"
      /\ \A c \in Counts \ {tx[r].count} : count'[c] = count[c]
  BY <1>1, <1>2 DEF SetLinesCommit, TypeOK
<1> QED
  BY <1>1, <1>3 DEF SetLinesCommit, docs, ledger

LEMMA ReconcileWrites ==
  ASSUME TypeOK, NEW r \in Requests, ReconcileCommit(r)
  PROVE  /\ tx[r].count \in Counts
         /\ count'[tx[r].count].status = "RECONCILED"
         /\ count'[tx[r].count].counted = count[tx[r].count].counted
         /\ count'[tx[r].count].system = count[tx[r].count].system
         /\ \A c \in Counts \ {tx[r].count} : count'[c] = count[c]
         /\ UNCHANGED <<posted, onHand, signals>>
         /\ \E d \in Adjustments :
              /\ status[d] = "NONE" /\ status' = [status EXCEPT ![d] = "DRAFT"]
              /\ delta' = [delta EXCEPT ![d] = tx[r].delta]
              /\ source' = [source EXCEPT ![d] = tx[r].count]
<1>1. tx[r].op = "reconcile" /\ tx[r].count \in Counts
  BY SnapshotShape DEF ReconcileCommit
<1>2. count[tx[r].count] \in [status : CountStatus, system : Int, counted : Nat \cup {Uncounted}]
  BY <1>1 DEF TypeOK
<1>3. count' = [count EXCEPT ![tx[r].count].status = "RECONCILED"]
  BY DEF ReconcileCommit
<1>4. /\ count'[tx[r].count].status = "RECONCILED"
      /\ count'[tx[r].count].counted = count[tx[r].count].counted
      /\ count'[tx[r].count].system = count[tx[r].count].system
  BY <1>1, <1>2, <1>3 DEF TypeOK
<1>5. \A c \in Counts \ {tx[r].count} : count'[c] = count[c]
  BY <1>1, <1>3 DEF TypeOK
<1> QED
  BY <1>1, <1>4, <1>5 DEF ReconcileCommit, ledger

-----------------------------------------------------------------------------
(* Documents come into being once.                                         *)
LEMMA ExistingStep ==
  StockInv /\ [Next]_vars => WorksOnExisting' /\ UnusedIsBlank'
<1> SUFFICES ASSUME StockInv, [Next]_vars
             PROVE  WorksOnExisting' /\ UnusedIsBlank'
  OBVIOUS
<1>0. TypeOK /\ WorksOnExisting /\ UnusedIsBlank
  BY DEF StockInv
<1> USE StockAssumptions DEF Posting
<1>1. ASSUME NEW d \in Docs \ WorkOrders, Creating(d)
      PROVE  WorksOnExisting' /\ UnusedIsBlank'
  BY <1>0, <1>1, SnapshotShape DEF Creating, WorksOnExisting, UnusedIsBlank, TypeOK
<1>2. ASSUME NEW r \in Requests, Reading(r)
      PROVE  WorksOnExisting' /\ UnusedIsBlank'
  BY <1>0, <1>2 DEF Reading, Fresh, postable, receiptPostable, issuePostable, adjustmentPostable,
                    backflushable, WorksOnExisting, UnusedIsBlank
<1>3. ASSUME NEW r \in Requests, AdvanceCommit(r)
      PROVE  WorksOnExisting' /\ UnusedIsBlank'
  BY <1>0, <1>3, SnapshotShape, CommitMarks
  DEF AdvanceCommit, ledger, Idle, WorksOnExisting, UnusedIsBlank, TypeOK
<1>4. ASSUME NEW r \in Requests, PostCommit(r)
      PROVE  WorksOnExisting' /\ UnusedIsBlank'
  <2>1. /\ tx[r].op = "post" /\ tx[r].doc \in Docs
        /\ posted' = [posted EXCEPT ![tx[r].doc] = @ + 1]
        /\ status' = [status EXCEPT ![tx[r].doc] = IF tx[r].doc \in WorkOrders THEN @ ELSE "POSTED"]
        /\ Commit(r) /\ UNCHANGED <<delta, source, count>>
    BY <1>0, <1>4, SnapshotShape DEF PostCommit
  <2> QED
    BY <1>0, <2>1, SnapshotShape, CommitMarks DEF Idle, WorksOnExisting, UnusedIsBlank, TypeOK
<1>5. ASSUME NEW r \in Requests, NEW c \in Counts, CreateCount(r, c)
      PROVE  WorksOnExisting' /\ UnusedIsBlank'
  BY <1>0, <1>5 DEF CreateCount, docs, ledger, WorksOnExisting, UnusedIsBlank
<1>6. ASSUME NEW r \in Requests, SetLinesCommit(r)
      PROVE  WorksOnExisting' /\ UnusedIsBlank'
  <2>1. Commit(r)
    BY <1>6 DEF SetLinesCommit
  <2> QED
    BY <1>0, <1>6, <2>1, SetLinesWrites, CommitMarks DEF Idle, WorksOnExisting, UnusedIsBlank, TypeOK
<1>7. ASSUME NEW r \in Requests, ReconcileCommit(r)
      PROVE  WorksOnExisting' /\ UnusedIsBlank'
  <2>1. Commit(r)
    BY <1>7 DEF ReconcileCommit
  <2>2. PICK d \in Adjustments :
          /\ status[d] = "NONE" /\ status' = [status EXCEPT ![d] = "DRAFT"]
          /\ source' = [source EXCEPT ![d] = tx[r].count]
    BY <1>0, <1>7, ReconcileWrites
  <2>3. posted' = posted
    BY <1>0, <1>7, ReconcileWrites
  <2> QED
    BY <1>0, <2>1, <2>2, <2>3, SnapshotShape, CommitMarks
    DEF Idle, WorksOnExisting, UnusedIsBlank, TypeOK, Docs
<1>8. CASE UNCHANGED vars
  BY <1>0, <1>8 DEF vars, WorksOnExisting, UnusedIsBlank
<1> QED
  BY <1>0, <1>1, <1>2, <1>3, <1>4, <1>5, <1>6, <1>7, <1>8, StepShape

-----------------------------------------------------------------------------
(* The cached balance and the replay of the ledger.                        *)

(* A partial replay stays one when movements are added and lines of        *)
(* documents that moved nothing are filled in.                             *)
LEMMA PartialGrows ==
  ASSUME NEW v, NEW made \in [Docs -> Nat], NEW more \in [Docs -> Nat],
         NEW line \in [Docs -> Int], NEW filled \in [Docs -> Int],
         PartialReplay(v, made, line),
         \A d \in Docs : made[d] <= more[d],
         \A d \in Docs : filled[d] = line[d] \/ made[d] = 0
  PROVE  PartialReplay(v, more, filled)
<1>1. PICK kept \in [Docs -> Nat] :
        /\ \A d \in Docs : kept[d] <= made[d]
        /\ v = SumFunctionOnSet([d \in Docs |-> kept[d] * line[d]], Docs)
  BY DEF PartialReplay
<1> DEFINE f == [d \in Docs |-> kept[d] * line[d]]
           g == [d \in Docs |-> kept[d] * filled[d]]
<1>2. \A d \in Docs : f[d] \in Int /\ g[d] = f[d]
  <2> SUFFICES ASSUME NEW d \in Docs
               PROVE  kept[d] * line[d] \in Int /\ kept[d] * filled[d] = kept[d] * line[d]
    OBVIOUS
  <2>1. kept[d] \in Nat /\ line[d] \in Int /\ filled[d] \in Int
    OBVIOUS
  <2>2. CASE filled[d] = line[d]
    BY <2>1, <2>2
  <2>3. CASE made[d] = 0
    <3>1. kept[d] = 0
      BY <1>1, <2>1, <2>3
    <3> QED
      BY <2>1, <3>1
  <2> QED
    BY <2>2, <2>3
<1>3. SumFunctionOnSet(g, Docs) = SumFunctionOnSet(f, Docs)
  <2> HIDE DEF f, g
  <2> QED
    BY <1>2, SumAgrees, StockAssumptions
<1>4. \A d \in Docs : kept[d] <= more[d]
  BY <1>1
<1> QED
  BY <1>1, <1>3, <1>4 DEF PartialReplay

(* One more movement of a document adds its line once.                     *)
LEMMA SumAdds ==
  ASSUME NEW made \in [Docs -> Nat], NEW line \in [Docs -> Int], NEW d \in Docs
  PROVE  SumFunctionOnSet([e \in Docs |-> [made EXCEPT ![d] = @ + 1][e] * line[e]], Docs)
           = SumFunctionOnSet([e \in Docs |-> made[e] * line[e]], Docs) + line[d]
<1> DEFINE f == [e \in Docs |-> made[e] * line[e]]
           g == [e \in Docs |-> [made EXCEPT ![d] = @ + 1][e] * line[e]]
<1>1. \A e \in Docs : f[e] \in Int
  OBVIOUS
<1>2. \A e \in Docs \ {d} : g[e] = f[e]
  OBVIOUS
<1>3. g[d] \in Int /\ g[d] - f[d] = line[d]
  <2>1. g[d] = (made[d] + 1) * line[d] /\ f[d] = made[d] * line[d]
    OBVIOUS
  <2>2. made[d] \in Nat /\ line[d] \in Int
    OBVIOUS
  <2> QED
    BY <2>1, <2>2
<1> HIDE DEF f, g
<1>4. SumFunctionOnSet(g, Docs) = SumFunctionOnSet(f, Docs) + (g[d] - f[d])
  BY <1>1, <1>2, <1>3, SumChange, StockAssumptions
<1> QED
  BY <1>3, <1>4 DEF f, g

LEMMA PartialAdds ==
  ASSUME NEW v, NEW made \in [Docs -> Nat], NEW line \in [Docs -> Int], NEW d \in Docs,
         PartialReplay(v, made, line)
  PROVE  PartialReplay(v + line[d], [made EXCEPT ![d] = @ + 1], line)
<1>1. PICK kept \in [Docs -> Nat] :
        /\ \A e \in Docs : kept[e] <= made[e]
        /\ v = SumFunctionOnSet([e \in Docs |-> kept[e] * line[e]], Docs)
  BY DEF PartialReplay
<1> DEFINE more == [kept EXCEPT ![d] = @ + 1]
<1>2. more \in [Docs -> Nat] /\ \A e \in Docs : more[e] <= [made EXCEPT ![d] = @ + 1][e]
  BY <1>1
<1>3. v + line[d] = SumFunctionOnSet([e \in Docs |-> more[e] * line[e]], Docs)
  BY <1>1, SumAdds
<1> HIDE DEF more
<1> QED
  BY <1>2, <1>3 DEF PartialReplay

(* The replay does not change when a line of a document that moved nothing *)
(* is filled in.                                                           *)
LEMMA ReplayKept ==
  ASSUME TypeOK, TypeOK', posted' = posted, \A d \in Docs : delta'[d] = delta[d] \/ posted[d] = 0
  PROVE  replay' = replay
<1> DEFINE f == [d \in Docs |-> posted[d] * delta[d]]
           g == [d \in Docs |-> posted[d] * delta'[d]]
<1>1. \A d \in Docs : f[d] \in Int /\ g[d] = f[d]
  <2> SUFFICES ASSUME NEW d \in Docs
               PROVE  posted[d] * delta[d] \in Int /\ posted[d] * delta'[d] = posted[d] * delta[d]
    OBVIOUS
  <2>1. posted[d] \in Nat /\ delta[d] \in Int /\ delta'[d] \in Int
    BY DEF TypeOK
  <2> QED
    BY <2>1
<1>2. SumFunctionOnSet(g, Docs) = SumFunctionOnSet(f, Docs)
  <2> HIDE DEF f, g
  <2> QED
    BY <1>1, SumAgrees, StockAssumptions
<1> QED
  BY <1>2 DEF replay, rebuildBalance

LEMMA ReplayAdds ==
  ASSUME TypeOK, NEW d \in Docs, posted' = [posted EXCEPT ![d] = @ + 1], delta' = delta
  PROVE  replay' = replay + delta[d]
<1>1. posted \in [Docs -> Nat] /\ delta \in [Docs -> Int]
  BY DEF TypeOK
<1>2. replay' = SumFunctionOnSet([e \in Docs |-> [posted EXCEPT ![d] = @ + 1][e] * delta[e]], Docs)
  BY DEF replay, rebuildBalance
<1> QED
  BY <1>1, <1>2, SumAdds DEF replay, rebuildBalance

-----------------------------------------------------------------------------
(* A step that posts nothing leaves the ledger, the marks made so far, the *)
(* lines of existing documents and the requests under way alone.           *)
Quiet ==
  /\ UNCHANGED <<posted, onHand, signals>>
  /\ raced \subseteq raced'
  /\ \A d \in Docs : delta'[d] = delta[d] \/ (d \notin WorkOrders /\ status[d] = "NONE")
  /\ \A r \in Requests :
       \/ tx'[r] = tx[r]
       \/ tx'[r].op = "idle"
       \/ Fresh(r) /\ UNCHANGED <<status, delta, count, raced>>

LEMMA QuietSteps ==
  ASSUME TypeOK, [Next]_vars
  PROVE  Quiet \/ \E r \in Requests : PostCommit(r)
<1>1. ASSUME NEW d \in Docs \ WorkOrders, Creating(d)
      PROVE  Quiet
  BY <1>1 DEF Creating, Quiet
<1>2. ASSUME NEW r \in Requests, Reading(r)
      PROVE  Quiet
  BY <1>2 DEF Reading, Quiet
<1>3. ASSUME NEW r \in Requests, AdvanceCommit(r)
      PROVE  Quiet
  BY <1>3, CommitMarks DEF AdvanceCommit, ledger, Idle, Quiet, TypeOK
<1>4. ASSUME NEW r \in Requests, NEW c \in Counts, CreateCount(r, c)
      PROVE  Quiet
  BY <1>4 DEF CreateCount, docs, ledger, Quiet
<1>5. ASSUME NEW r \in Requests, SetLinesCommit(r)
      PROVE  Quiet
  <2>1. Commit(r)
    BY <1>5 DEF SetLinesCommit
  <2> QED
    BY <1>5, <2>1, SetLinesWrites, CommitMarks DEF Idle, Quiet, TypeOK
<1>6. ASSUME NEW r \in Requests, ReconcileCommit(r)
      PROVE  Quiet
  <2>1. PICK d \in Adjustments : status[d] = "NONE" /\ delta' = [delta EXCEPT ![d] = tx[r].delta]
    BY <1>6, ReconcileWrites
  <2>2. d \notin WorkOrders /\ \A e \in Docs : delta'[e] = delta[e] \/ e = d
    BY <2>1, StockAssumptions DEF TypeOK
  <2>3. Commit(r) /\ UNCHANGED <<posted, onHand, signals>>
    BY <1>6, ReconcileWrites DEF ReconcileCommit
  <2> QED
    BY <2>1, <2>2, <2>3, CommitMarks DEF Idle, Quiet, TypeOK
<1>7. CASE UNCHANGED vars
  BY <1>7 DEF vars, Quiet
<1> QED
  BY <1>1, <1>2, <1>3, <1>4, <1>5, <1>6, <1>7, StepShape

(* What a posting commits.                                                 *)
LEMMA PostWrites ==
  ASSUME TypeOK, NEW r \in Requests, PostCommit(r)
  PROVE  /\ Posting(r) /\ tx[r].op = "post" /\ tx[r].doc \in Docs /\ tx[r].loaded \in Int
         /\ posted' = [posted EXCEPT ![tx[r].doc] = @ + 1]
         /\ onHand' = tx[r].loaded + delta[tx[r].doc]
         /\ signals' = IF crossedDown(tx[r].loaded, onHand') THEN signals + 1 ELSE signals
         /\ status' = [status EXCEPT ![tx[r].doc] = IF tx[r].doc \in WorkOrders THEN @ ELSE "POSTED"]
         /\ Commit(r) /\ UNCHANGED <<delta, source, count>>
  BY SnapshotShape DEF PostCommit, Posting, applyToBalance

(* The line of a document that moved stock, or that a request works on, is *)
(* never changed again.                                                    *)
LEMMA LinesStay ==
  ASSUME StockInv, Quiet
  PROVE  /\ \A d \in Docs : delta'[d] = delta[d] \/ posted[d] = 0
         /\ \A r \in Requests : Posting(r) => delta'[tx[r].doc] = delta[tx[r].doc]
  BY SnapshotShape DEF StockInv, Quiet, UnusedIsBlank, WorksOnExisting, Posting

LEMMA PartialStep == StockInv /\ [Next]_vars => BalancesArePartialReplays'
<1> SUFFICES ASSUME StockInv, [Next]_vars
             PROVE  /\ PartialReplay(onHand', posted', delta')
                    /\ \A r \in Requests :
                         tx'[r].op = "post" => PartialReplay(tx'[r].loaded, posted', delta')
  BY DEF BalancesArePartialReplays
<1>0. TypeOK /\ TypeOK' /\ BalancesArePartialReplays
  BY NextTypeOK DEF StockInv
<1>1. /\ posted \in [Docs -> Nat] /\ posted' \in [Docs -> Nat]
      /\ delta \in [Docs -> Int] /\ delta' \in [Docs -> Int]
  BY <1>0 DEF TypeOK
<1>2. ASSUME Quiet
      PROVE  /\ PartialReplay(onHand', posted', delta')
             /\ \A r \in Requests :
                  tx'[r].op = "post" => PartialReplay(tx'[r].loaded, posted', delta')
  <2>1. \A v : PartialReplay(v, posted, delta) => PartialReplay(v, posted', delta')
    <3>1. \A d \in Docs : posted[d] <= posted'[d]
      BY <1>1, <1>2 DEF Quiet
    <3> QED
      BY <1>1, <1>2, <3>1, LinesStay, PartialGrows
  <2> QED
    BY <1>0, <1>2, <2>1 DEF BalancesArePartialReplays, Quiet, Fresh
<1>3. ASSUME NEW r \in Requests, PostCommit(r)
      PROVE  /\ PartialReplay(onHand', posted', delta')
             /\ \A q \in Requests :
                  tx'[q].op = "post" => PartialReplay(tx'[q].loaded, posted', delta')
  <2>1. /\ tx[r].doc \in Docs /\ posted' = [posted EXCEPT ![tx[r].doc] = @ + 1]
        /\ onHand' = tx[r].loaded + delta[tx[r].doc] /\ delta' = delta
        /\ PartialReplay(tx[r].loaded, posted, delta)
        /\ Commit(r)
    BY <1>0, <1>3, PostWrites DEF BalancesArePartialReplays
  <2>2. PartialReplay(onHand', posted', delta')
    BY <1>1, <2>1, PartialAdds
  <2>3. \A v : PartialReplay(v, posted, delta) => PartialReplay(v, posted', delta')
    <3>1. \A d \in Docs : posted[d] <= posted'[d]
      BY <1>1, <2>1
    <3> QED
      BY <1>1, <2>1, <3>1, PartialGrows
  <2>4. \A q \in Requests : tx'[q] = tx[q] \/ tx'[q].op = "idle"
    BY <1>0, <2>1, CommitMarks DEF Idle, TypeOK
  <2> QED
    BY <1>0, <2>2, <2>3, <2>4 DEF BalancesArePartialReplays
<1> QED
  BY <1>0, <1>2, <1>3, QuietSteps

LEMMA BalanceStep == StockInv /\ [Next]_vars => BalanceIsCurrent'
<1> SUFFICES ASSUME StockInv, [Next]_vars, Balance \notin raced'
             PROVE  /\ onHand' = replay'
                    /\ \A r \in Requests :
                         /\ tx'[r].op = "post" => tx'[r].loaded = onHand'
                         /\ Posting(r)' /\ tx'[r].doc \in Issues => available(tx[r].doc)'
  BY DEF BalanceIsCurrent
<1>0. TypeOK /\ TypeOK' /\ BalanceIsCurrent
  BY NextTypeOK DEF StockInv
<1>1. ASSUME Quiet
      PROVE  /\ onHand' = replay'
             /\ \A r \in Requests :
                  /\ tx'[r].op = "post" => tx'[r].loaded = onHand'
                  /\ Posting(r)' /\ tx'[r].doc \in Issues => available(tx[r].doc)'
  <2>1. Balance \notin raced /\ onHand = replay /\ UNCHANGED <<posted, onHand>>
    BY <1>0, <1>1 DEF Quiet, BalanceIsCurrent
  <2>2. onHand' = replay'
    BY <1>0, <1>1, <2>1, LinesStay, ReplayKept
  <2> SUFFICES ASSUME NEW r \in Requests
               PROVE  /\ tx'[r].op = "post" => tx'[r].loaded = onHand'
                      /\ Posting(r)' /\ tx'[r].doc \in Issues => available(tx[r].doc)'
    BY <2>2
  <2>3. CASE tx'[r] = tx[r]
    <3>1. Posting(r) => delta'[tx[r].doc] = delta[tx[r].doc]
      BY <1>1, LinesStay
    <3> QED
      BY <1>0, <2>1, <2>3, <3>1 DEF BalanceIsCurrent, Posting, available
  <2>4. CASE tx'[r].op = "idle"
    BY <2>4 DEF Posting
  <2>5. CASE Fresh(r) /\ UNCHANGED <<status, delta, count, raced>>
    <3>1. tx'[r].op = "check" /\ tx'[r].doc \in Issues => available(tx'[r].doc)
      BY <2>5, StockAssumptions DEF Fresh, postable, receiptPostable, issuePostable,
                                    adjustmentPostable, backflushable
    <3>2. tx'[r].op = "post" =>
            /\ tx'[r].loaded = onHand /\ Posting(r) /\ tx'[r].doc = tx[r].doc
      BY <2>5 DEF Fresh, Posting
    <3>3. tx'[r].op = "post" /\ tx'[r].doc \in Issues => available(tx'[r].doc)
      BY <1>0, <2>1, <3>2 DEF BalanceIsCurrent
    <3> QED
      BY <2>1, <2>5, <3>1, <3>2, <3>3 DEF Posting, available
  <2> QED
    BY <1>1, <2>3, <2>4, <2>5 DEF Quiet
<1>2. ASSUME NEW r \in Requests, PostCommit(r)
      PROVE  /\ onHand' = replay'
             /\ \A q \in Requests : tx'[q].op \notin {"check", "post"}
  <2>1. /\ Posting(r) /\ tx[r].op = "post" /\ tx[r].doc \in Docs
        /\ posted' = [posted EXCEPT ![tx[r].doc] = @ + 1] /\ delta' = delta
        /\ onHand' = tx[r].loaded + delta[tx[r].doc] /\ Commit(r)
    BY <1>0, <1>2, PostWrites
  <2>2. raced \subseteq raced' /\ \A q \in Requests \ {r} : ~ Posting(q)
    BY <1>0, <2>1, CommitMarks, TouchesShape
  <2>3. tx[r].loaded = onHand /\ onHand = replay
    BY <1>0, <2>1, <2>2 DEF BalanceIsCurrent
  <2>4. onHand' = replay'
    BY <1>0, <2>1, <2>3, ReplayAdds
  <2>5. \A q \in Requests : tx'[q].op \notin {"check", "post"}
    BY <1>0, <2>1, <2>2, CommitMarks DEF Idle, Posting, TypeOK
  <2> QED
    BY <2>4, <2>5
<1> QED
  BY <1>0, <1>1, <1>2, QuietSteps DEF Posting

-----------------------------------------------------------------------------
(* One document.                                                           *)
LEMMA DocumentStep == StockInv /\ [Next]_vars => DocumentIsCurrent'
<1> SUFFICES ASSUME StockInv, [Next]_vars, NEW d \in Docs, d \notin raced'
             PROVE  /\ posted'[d] <= 1
                    /\ posted'[d] = 1 => d \in WorkOrders \/ status'[d] = "POSTED"
                    /\ \A r \in Requests :
                         /\ tx'[r].op = "advance" /\ tx'[r].doc = d => status'[d] = "DRAFT"
                         /\ Posting(r)' /\ tx'[r].doc = d => posted'[d] = 0
  BY DEF DocumentIsCurrent
<1> DEFINE Good == /\ posted'[d] <= 1
                   /\ posted'[d] = 1 => d \in WorkOrders \/ status'[d] = "POSTED"
                   /\ \A r \in Requests :
                        /\ tx'[r].op = "advance" /\ tx'[r].doc = d => status'[d] = "DRAFT"
                        /\ Posting(r)' /\ tx'[r].doc = d => posted'[d] = 0
<1>0. /\ TypeOK /\ WorksOnExisting /\ UnusedIsBlank
      /\ posted[d] \in Nat
      /\ d \notin raced =>
           /\ posted[d] <= 1
           /\ posted[d] = 1 => d \in WorkOrders \/ status[d] = "POSTED"
           /\ \A r \in Requests :
                /\ tx[r].op = "advance" /\ tx[r].doc = d => status[d] = "DRAFT"
                /\ Posting(r) /\ tx[r].doc = d => posted[d] = 0
  BY DEF StockInv, DocumentIsCurrent, TypeOK
<1> USE DEF Posting
<1>1. ASSUME NEW e \in Docs \ WorkOrders, Creating(e)
      PROVE  Good
  <2>1. CASE e = d
    <3>1. posted[d] = 0 /\ \A r \in Requests : tx[r].op = "advance" => tx[r].doc # d
      BY <1>0, <1>1, <2>1 DEF Creating, UnusedIsBlank, WorksOnExisting
    <3> QED
      BY <1>0, <1>1, <2>1, <3>1 DEF Creating
  <2>2. CASE e # d
    BY <1>0, <1>1, <2>2 DEF Creating, TypeOK
  <2> QED
    BY <2>1, <2>2
<1>2. ASSUME NEW r \in Requests, Reading(r)
      PROVE  Good
  <2>1. d \notin raced /\ UNCHANGED <<status, posted>>
    BY <1>2 DEF Reading
  <2>2. Posting(r)' /\ tx'[r].doc = d => posted[d] = 0
    <3>1. CASE tx'[r].op = "check" /\ tx'[r].doc = d
      <4>1. postable(d)
        BY <1>2, <3>1 DEF Reading, Fresh
      <4> QED
        BY <1>0, <2>1, <4>1, StockAssumptions
        DEF postable, receiptPostable, issuePostable, adjustmentPostable, backflushable
    <3>2. CASE tx'[r].op = "post" /\ tx'[r].doc = d
      BY <1>0, <1>2, <2>1, <3>2 DEF Reading, Fresh
    <3> QED
      BY <3>1, <3>2
  <2>3. tx'[r].op = "advance" /\ tx'[r].doc = d => status[d] = "DRAFT"
    BY <1>2 DEF Reading, Fresh
  <2> QED
    BY <1>0, <1>2, <2>1, <2>2, <2>3 DEF Reading
<1>3. ASSUME NEW r \in Requests, AdvanceCommit(r)
      PROVE  Good
  <2>1. /\ tx[r].op = "advance" /\ tx[r].doc \in Docs /\ Commit(r) /\ posted' = posted
        /\ status' = [status EXCEPT ![tx[r].doc] = tx[r].to]
    BY <1>0, <1>3, SnapshotShape DEF AdvanceCommit, ledger
  <2>2. /\ d \notin raced /\ touches(r) = {tx[r].doc}
        /\ tx'[r].op = "idle" /\ \A q \in Requests \ {r} : tx'[q] = tx[q]
    BY <1>0, <2>1, CommitMarks, TouchesShape DEF Idle, TypeOK
  <2>3. CASE tx[r].doc = d
    <3>1. \A q \in Requests \ {r} :
            tx[q].op \in {"advance", "check", "post"} => tx[q].doc # d
      BY <1>0, <2>1, <2>2, <2>3, CommitMarks, TouchesShape
    <3>2. posted[d] = 1 => d \in WorkOrders
      BY <1>0, <2>1, <2>2, <2>3
    <3> QED
      BY <1>0, <2>1, <2>2, <3>1, <3>2
  <2>4. CASE tx[r].doc # d
    BY <1>0, <2>1, <2>2, <2>4 DEF TypeOK
  <2> QED
    BY <2>3, <2>4
<1>4. ASSUME NEW r \in Requests, PostCommit(r)
      PROVE  Good
  <2>1. /\ Posting(r) /\ tx[r].doc \in Docs /\ Commit(r)
        /\ posted' = [posted EXCEPT ![tx[r].doc] = @ + 1]
        /\ status' = [status EXCEPT ![tx[r].doc] = IF tx[r].doc \in WorkOrders THEN @ ELSE "POSTED"]
    BY <1>0, <1>4, PostWrites
  <2>2. /\ d \notin raced /\ touches(r) = {tx[r].doc, Balance}
        /\ tx'[r].op = "idle" /\ \A q \in Requests \ {r} : tx'[q] = tx[q]
    BY <1>0, <2>1, CommitMarks, TouchesShape DEF Idle, TypeOK
  <2>3. CASE tx[r].doc = d
    <3>1. \A q \in Requests \ {r} :
            tx[q].op \in {"advance", "check", "post"} => tx[q].doc # d
      BY <1>0, <2>1, <2>2, <2>3, CommitMarks, TouchesShape
    <3>2. posted[d] = 0
      BY <1>0, <2>1, <2>2, <2>3
    <3>3. posted'[d] = 1 /\ (d \in WorkOrders \/ status'[d] = "POSTED")
      BY <1>0, <2>1, <2>3, <3>2 DEF TypeOK
    <3> QED
      BY <2>2, <3>1, <3>3
  <2>4. CASE tx[r].doc # d
    BY <1>0, <2>1, <2>2, <2>4 DEF TypeOK
  <2> QED
    BY <2>3, <2>4
<1>5. ASSUME NEW r \in Requests, NEW c \in Counts, CreateCount(r, c)
      PROVE  Good
  BY <1>0, <1>5 DEF CreateCount, docs, ledger
<1>6. ASSUME NEW r \in Requests, SetLinesCommit(r)
      PROVE  Good
  <2>1. Commit(r) /\ UNCHANGED <<status, posted>>
    BY <1>0, <1>6, SetLinesWrites DEF SetLinesCommit
  <2> QED
    BY <1>0, <2>1, CommitMarks DEF Idle, TypeOK
<1>7. ASSUME NEW r \in Requests, ReconcileCommit(r)
      PROVE  Good
  <2>1. PICK e \in Adjustments : status[e] = "NONE" /\ status' = [status EXCEPT ![e] = "DRAFT"]
    BY <1>0, <1>7, ReconcileWrites
  <2>2. Commit(r) /\ posted' = posted
    BY <1>0, <1>7, ReconcileWrites DEF ReconcileCommit
  <2>3. d \notin raced /\ \A q \in Requests : tx'[q] = tx[q] \/ tx'[q].op = "idle"
    BY <1>0, <2>2, CommitMarks DEF Idle, TypeOK
  <2>4. CASE e = d
    <3>1. posted[d] = 0 /\ \A q \in Requests : tx[q].op = "advance" => tx[q].doc # d
      BY <1>0, <2>1, <2>4, StockAssumptions DEF UnusedIsBlank, WorksOnExisting
    <3> QED
      BY <2>2, <2>3, <3>1
  <2>5. CASE e # d
    BY <1>0, <2>1, <2>2, <2>3, <2>5 DEF TypeOK
  <2> QED
    BY <2>4, <2>5
<1>8. CASE UNCHANGED vars
  BY <1>0, <1>8 DEF vars
<1> QED
  BY <1>0, <1>1, <1>2, <1>3, <1>4, <1>5, <1>6, <1>7, <1>8, StepShape

-----------------------------------------------------------------------------
(* One stock count and the adjustment raised from it.                      *)
LEMMA CountStep == StockInv /\ [Next]_vars => CountIsCurrent'
<1> SUFFICES ASSUME StockInv, [Next]_vars, NEW c \in Counts, c \notin raced'
             PROVE  /\ \A d \in Adjustments :
                         source'[d] = c =>
                           /\ count'[c].status = "RECONCILED"
                           /\ delta'[d] = count'[c].counted - count'[c].system
                           /\ \A e \in Adjustments : source'[e] = c => e = d
                    /\ \A r \in Requests :
                         /\ tx'[r].op = "setLines" /\ tx'[r].count = c =>
                              count'[c].status \in {"OPEN", "COUNTING"}
                         /\ tx'[r].op = "reconcile" /\ tx'[r].count = c =>
                              /\ count'[c].status = "COUNTING"
                              /\ tx'[r].delta = count'[c].counted - count'[c].system
  BY DEF CountIsCurrent
<1> DEFINE Booked ==
             \A d \in Adjustments :
               source'[d] = c =>
                 /\ count'[c].status = "RECONCILED"
                 /\ delta'[d] = count'[c].counted - count'[c].system
                 /\ \A e \in Adjustments : source'[e] = c => e = d
           Seen ==
             \A r \in Requests :
               /\ tx'[r].op = "setLines" /\ tx'[r].count = c =>
                    count'[c].status \in {"OPEN", "COUNTING"}
               /\ tx'[r].op = "reconcile" /\ tx'[r].count = c =>
                    /\ count'[c].status = "COUNTING"
                    /\ tx'[r].delta = count'[c].counted - count'[c].system
<1>0. /\ TypeOK /\ UnusedIsBlank /\ CountIsCurrent
      /\ c # NoCount /\ Adjustments \subseteq Docs \ WorkOrders
  BY StockAssumptions DEF StockInv, Docs
<1>1. ASSUME NEW e \in Docs \ WorkOrders, Creating(e)
      PROVE  Booked /\ Seen
  <2>1. c \notin raced /\ UNCHANGED <<source, count, tx>>
    BY <1>1 DEF Creating
  <2>2. \A d \in Adjustments : source[d] = c => delta'[d] = delta[d]
    BY <1>0, <1>1 DEF Creating, UnusedIsBlank
  <2> QED
    BY <1>0, <2>1, <2>2 DEF CountIsCurrent
<1>2. ASSUME NEW r \in Requests, Reading(r)
      PROVE  Booked /\ Seen
  <2>1. c \notin raced /\ UNCHANGED <<delta, source, count>>
    BY <1>2 DEF Reading
  <2>2. Seen
    BY <1>0, <1>2, <2>1 DEF Reading, Fresh, CountIsCurrent
  <2> QED
    BY <1>0, <2>1, <2>2 DEF CountIsCurrent
<1>3. ASSUME NEW r \in Requests, AdvanceCommit(r) \/ PostCommit(r)
      PROVE  Booked /\ Seen
  <2>1. Commit(r) /\ UNCHANGED <<delta, source, count>>
    BY <1>3 DEF AdvanceCommit, PostCommit
  <2>2. c \notin raced /\ \A q \in Requests : tx'[q] = tx[q] \/ tx'[q].op = "idle"
    BY <1>0, <2>1, CommitMarks DEF Idle, TypeOK
  <2> QED
    BY <1>0, <2>1, <2>2 DEF CountIsCurrent
<1>4. ASSUME NEW r \in Requests, NEW b \in Counts, CreateCount(r, b)
      PROVE  Booked /\ Seen
  <2>1. /\ c \notin raced /\ UNCHANGED <<delta, source, tx>> /\ count[b].status = "NONE"
        /\ c # b => count'[c] = count[c]
    BY <1>0, <1>4 DEF CreateCount, docs, TypeOK
  <2>2. CASE c = b
    BY <1>0, <2>1, <2>2 DEF CountIsCurrent
  <2>3. CASE c # b
    BY <1>0, <2>1, <2>3 DEF CountIsCurrent
  <2> QED
    BY <2>2, <2>3
<1>5. ASSUME NEW r \in Requests, SetLinesCommit(r)
      PROVE  Booked /\ Seen
  <2>1. /\ tx[r].op = "setLines" /\ tx[r].count \in Counts /\ Commit(r)
        /\ count'[tx[r].count].status = "COUNTING" /\ UNCHANGED <<delta, source>>
        /\ c # tx[r].count => count'[c] = count[c]
    BY <1>0, <1>5, SetLinesWrites DEF SetLinesCommit
  <2>2. /\ c \notin raced /\ touches(r) = {tx[r].count}
        /\ tx'[r].op = "idle" /\ \A q \in Requests \ {r} : tx'[q] = tx[q]
    BY <1>0, <2>1, CommitMarks, TouchesShape DEF Idle, TypeOK
  <2>3. CASE c = tx[r].count
    <3>1. \A q \in Requests \ {r} : tx[q].op \in {"setLines", "reconcile"} => tx[q].count # c
      BY <1>0, <2>1, <2>2, <2>3, CommitMarks, TouchesShape
    <3>2. \A d \in Adjustments : source[d] # c
      BY <1>0, <2>1, <2>2, <2>3 DEF CountIsCurrent
    <3> QED
      BY <2>1, <2>2, <3>1, <3>2
  <2>4. CASE c # tx[r].count
    BY <1>0, <2>1, <2>2, <2>4 DEF CountIsCurrent
  <2> QED
    BY <2>3, <2>4
<1>6. ASSUME NEW r \in Requests, ReconcileCommit(r)
      PROVE  Booked /\ Seen
  <2>1. /\ tx[r].op = "reconcile" /\ tx[r].count \in Counts /\ Commit(r)
        /\ count'[tx[r].count].status = "RECONCILED"
        /\ count'[tx[r].count].counted = count[tx[r].count].counted
        /\ count'[tx[r].count].system = count[tx[r].count].system
        /\ c # tx[r].count => count'[c] = count[c]
    BY <1>0, <1>6, ReconcileWrites DEF ReconcileCommit
  <2>2. /\ c \notin raced /\ touches(r) = {tx[r].count}
        /\ tx'[r].op = "idle" /\ \A q \in Requests \ {r} : tx'[q] = tx[q]
    BY <1>0, <2>1, CommitMarks, TouchesShape DEF Idle, TypeOK
  <2>3. PICK a \in Adjustments :
          /\ status[a] = "NONE"
          /\ delta' = [delta EXCEPT ![a] = tx[r].delta]
          /\ source' = [source EXCEPT ![a] = tx[r].count]
    BY <1>0, <1>6, ReconcileWrites
  <2>4. /\ delta'[a] = tx[r].delta /\ source'[a] = tx[r].count
        /\ \A d \in Adjustments \ {a} : delta'[d] = delta[d] /\ source'[d] = source[d]
        /\ source[a] = NoCount
    BY <1>0, <2>3 DEF TypeOK, UnusedIsBlank
  <2>5. CASE c = tx[r].count
    <3>1. \A q \in Requests \ {r} : tx[q].op \in {"setLines", "reconcile"} => tx[q].count # c
      BY <1>0, <2>1, <2>2, <2>5, CommitMarks, TouchesShape
    <3>2. /\ count[c].status = "COUNTING"
          /\ tx[r].delta = count[c].counted - count[c].system
      BY <1>0, <2>1, <2>2, <2>5 DEF CountIsCurrent
    <3>3. \A d \in Adjustments : source[d] # c
      BY <1>0, <2>2, <3>2 DEF CountIsCurrent
    <3> QED
      BY <2>1, <2>2, <2>4, <2>5, <3>1, <3>2, <3>3
  <2>6. CASE c # tx[r].count
    <3>1. \A d \in Adjustments : source'[d] = c => d # a /\ source[d] = c /\ delta'[d] = delta[d]
      BY <2>4, <2>6
    <3> QED
      BY <1>0, <2>1, <2>2, <2>6, <3>1 DEF CountIsCurrent
  <2> QED
    BY <2>5, <2>6
<1>7. CASE UNCHANGED vars
  BY <1>0, <1>7 DEF vars, CountIsCurrent
<1> QED
  BY <1>0, <1>1, <1>2, <1>3, <1>4, <1>5, <1>6, <1>7, StepShape

-----------------------------------------------------------------------------
LEMMA StockInit == Init => StockInv
<1> SUFFICES ASSUME Init
             PROVE  StockInv
  OBVIOUS
<1> USE StockAssumptions
<1>1. TypeOK
  <2>1. delta \in [Docs -> Int] /\ (\A d \in Receipts \cup Issues : delta[d] = 0)
    BY DEF Init, Docs
  <2>2. tx \in [Requests -> Tx]
    BY DEF Init, Tx
  <2>3. count \in [Counts -> [status : CountStatus, system : Int, counted : Nat \cup {Uncounted}]]
    BY DEF Init, CountStatus
  <2> QED
    BY <2>1, <2>2, <2>3 DEF Init, TypeOK, DocStatus
<1>2. \A r \in Requests : tx[r].op = "idle"
  BY DEF Init, Idle
<1>3. WorksOnExisting /\ UnusedIsBlank /\ DocumentIsCurrent /\ CountIsCurrent
  BY <1>2 DEF Init, WorksOnExisting, UnusedIsBlank, DocumentIsCurrent, CountIsCurrent, Posting, Docs
<1>4. rebuildBalance([d \in Docs |-> 0]) = 0
  <2> DEFINE f == [d \in Docs |-> [e \in Docs |-> 0][d] * delta[d]]
  <2>1. \A d \in Docs : f[d] = 0
    BY <1>1 DEF TypeOK
  <2>2. SumFunctionOnSet(f, Docs) = 0
    <3> HIDE DEF f
    <3> QED
      BY <2>1, SumOfZeros
  <2> QED
    BY <2>2 DEF rebuildBalance
<1>5. BalancesArePartialReplays
  <2>1. PartialReplay(onHand, posted, delta)
    <3>1. [d \in Docs |-> 0] \in [Docs -> Nat] /\ \A d \in Docs : [e \in Docs |-> 0][d] <= posted[d]
      BY DEF Init
    <3> QED
      BY <1>4, <3>1 DEF Init, rebuildBalance, PartialReplay
  <2> QED
    BY <1>2, <2>1 DEF BalancesArePartialReplays
<1>6. BalanceIsCurrent
  BY <1>2, <1>4 DEF Init, BalanceIsCurrent, Posting, replay
<1> QED
  BY <1>1, <1>3, <1>5, <1>6 DEF StockInv

LEMMA StockStep == StockInv /\ [Next]_vars => StockInv'
  BY NextTypeOK, ExistingStep, PartialStep, BalanceStep, DocumentStep, CountStep DEF StockInv

LEMMA StockInvariant == Spec => []StockInv
  BY StockInit, StockStep, PTL DEF Spec

(* The rows and the snapshots keep their types: receipts add, issues take. *)
THEOREM StockTypeCorrect == Spec => []TypeOK
<1>1. StockInv => TypeOK
  BY DEF StockInv
<1> QED
  BY <1>1, StockInvariant, PTL

(* However postings interleave, stock_balance is the sum of some of the    *)
(* movements: LedgerService.post may lose an update, but it never counts a *)
(* movement twice or invents one.                                          *)
THEOREM CacheMissesWholeMovements == Spec => []CacheIsPartialReplay
<1>1. StockInv => CacheIsPartialReplay
  <2> SUFFICES ASSUME StockInv
               PROVE  CacheIsPartialReplay
    OBVIOUS
  <2>1. PICK kept \in [Docs -> Nat] :
          (\A d \in Docs : kept[d] <= posted[d]) /\ onHand = rebuildBalance(kept)
    BY DEF StockInv, BalancesArePartialReplays, PartialReplay, rebuildBalance
  <2>2. \A d \in Docs : kept[d] \in 0 .. posted[d]
    BY <2>1 DEF StockInv, TypeOK
  <2>3. kept \in [Docs -> UNION {0 .. posted[d] : d \in Docs}]
    BY <2>2
  <2> QED
    BY <2>1, <2>3 DEF CacheIsPartialReplay
<1> QED
  BY <1>1, StockInvariant, PTL

(* Until two requests overlap, the balance is what rebuildBalance would    *)
(* compute, and each reconciled count has one adjustment, for exactly the  *)
(* counted difference (LedgerService.post, StockCountService.reconcile).   *)
THEOREM LedgerAgrees == Spec => []LedgerAgreesUnlessRaced
<1>1. StockInv => LedgerAgreesUnlessRaced
  <2> SUFFICES ASSUME StockInv
               PROVE  LedgerAgreesUnlessRaced
    OBVIOUS
  <2>1. CacheIsReplayUnlessRaced
    BY DEF StockInv, BalanceIsCurrent, CacheIsReplayUnlessRaced, CacheIsReplay
  <2>2. ASSUME NEW c \in Counts \ raced
        PROVE  /\ Cardinality({d \in Adjustments : source[d] = c}) <= 1
               /\ \A d \in {e \in Adjustments : source[e] = c} :
                    delta[d] = count[c].counted - count[c].system
    <3> DEFINE raised == {d \in Adjustments : source[d] = c}
    <3>1. \A d \in raised : delta[d] = count[c].counted - count[c].system /\ raised = {d}
      BY DEF StockInv, CountIsCurrent
    <3> HIDE DEF raised
    <3>2. Cardinality(raised) <= 1
      <4>1. CASE raised = {}
        BY <4>1, FS_EmptySet
      <4>2. CASE raised # {}
        <5>1. PICK d : raised = {d}
          BY <3>1, <4>2
        <5>2. Cardinality({d}) = 1
          BY FS_Singleton
        <5> QED
          BY <5>1, <5>2
      <4> QED
        BY <4>1, <4>2
    <3> QED
      BY <3>1, <3>2 DEF raised
  <2> QED
    BY <2>1, <2>2 DEF LedgerAgreesUnlessRaced, DifferenceIsBooked
<1> QED
  BY <1>1, StockInvariant, PTL

(* A receipt, an issue, an adjustment or a completed work order moves      *)
(* stock once at most, unless two requests overlap on it (the status       *)
(* checks of the post handlers, and backflush's search for a movement).    *)
THEOREM PostsOnce == Spec => []PostedOnce
<1>1. StockInv => PostedOnce
  BY DEF StockInv, DocumentIsCurrent, PostedOnce
<1> QED
  BY <1>1, StockInvariant, PTL

(* Until two postings overlap, a goods issue never takes more than there   *)
(* is, and LowStockReached is published exactly when a movement takes the  *)
(* balance down to min_stock (GoodsIssueService.post, LedgerService.post). *)
THEOREM PostsByTheRules == Spec => PostingRules
<1>1. StockInv /\ [Next]_vars =>
        [\A d \in Issues :
           posted'[d] > posted[d] /\ ~AllowNegative /\ Balance \notin raced => replay' >= 0]_vars
  <2> SUFFICES ASSUME StockInv, [Next]_vars, NEW d \in Issues,
                      posted'[d] > posted[d], ~AllowNegative, Balance \notin raced
               PROVE  replay' >= 0
    OBVIOUS
  <2>1. TypeOK /\ BalanceIsCurrent /\ d \in Docs /\ posted[d] \in Nat
    BY DEF StockInv, TypeOK, Docs
  <2>2. ~ Quiet
    BY <2>1 DEF Quiet
  <2>3. PICK r \in Requests : PostCommit(r)
    BY <2>1, <2>2, QuietSteps
  <2>4. /\ Posting(r) /\ tx[r].doc \in Docs /\ delta' = delta
        /\ posted' = [posted EXCEPT ![tx[r].doc] = @ + 1]
    BY <2>1, <2>3, PostWrites
  <2>5. d = tx[r].doc
    BY <2>1, <2>4 DEF TypeOK
  <2>6. replay' = onHand + delta[d]
    BY <2>1, <2>4, <2>5, ReplayAdds DEF BalanceIsCurrent
  <2>7. onHand + delta[d] >= 0
    BY <2>1, <2>4, <2>5 DEF BalanceIsCurrent, available
  <2> QED
    BY <2>6, <2>7
<1>2. StockInv /\ [Next]_vars =>
        [\/ Balance \in raced
         \/ signals' = signals + (IF onHand > MinStock /\ onHand' <= MinStock THEN 1 ELSE 0)]_vars
  <2> SUFFICES ASSUME StockInv, [Next]_vars, Balance \notin raced
               PROVE  signals' = signals
                        + (IF onHand > MinStock /\ onHand' <= MinStock THEN 1 ELSE 0)
    OBVIOUS
  <2>1. /\ TypeOK /\ TypeOK' /\ BalanceIsCurrent
        /\ signals \in Nat /\ onHand \in Int /\ onHand' \in Int /\ MinStock \in Nat
    BY NextTypeOK, StockAssumptions DEF StockInv, TypeOK
  <2>2. CASE Quiet
    BY <2>1, <2>2 DEF Quiet
  <2>3. ASSUME NEW r \in Requests, PostCommit(r)
        PROVE  signals' = signals
                 + (IF onHand > MinStock /\ onHand' <= MinStock THEN 1 ELSE 0)
    <3>1. /\ tx[r].op = "post"
          /\ signals' = IF crossedDown(tx[r].loaded, onHand') THEN signals + 1 ELSE signals
      BY <2>1, <2>3, PostWrites
    <3>2. tx[r].loaded = onHand
      BY <2>1, <3>1 DEF BalanceIsCurrent
    <3> QED
      BY <2>1, <3>1, <3>2 DEF crossedDown
  <2> QED
    BY <2>1, <2>2, <2>3, QuietSteps
<1> QED
  BY <1>1, <1>2, StockInvariant, PTL DEF Spec, PostingRules, IssueNeverOverdraws, LowStockSignalled
===============================================================================
