-------------------------- MODULE DocumentSequence --------------------------
(***************************************************************************)
(* Document numbering (apps/api/src/sequence/sequence.service.ts) inside   *)
(* the transaction boundary of apps/api/src/db/unit-of-work.service.ts.    *)
(*                                                                         *)
(* A request is one PostgreSQL transaction.  next(key) joins it, locks the *)
(* (tenant, key) row of document_sequence with SELECT ... FOR UPDATE,      *)
(* reads the clock, resets or increments the counter and writes the row.   *)
(* The lock is kept until the surrounding transaction ends, so a second    *)
(* caller waits for the first one's COMMIT or ROLLBACK and never reads an  *)
(* uncommitted counter.                                                    *)
(***************************************************************************)
EXTENDS Integers

CONSTANTS
  Tenants,      \* tenant ids
  SequenceKeys, \* sequence keys (INVOICE, RECEIPT, WORK_ORDER, ...)
  Seeded,       \* the (tenant, key) pairs that have a document_sequence row
  ResetYearly,  \* per key: the row's reset_yearly flag
  HasYear,      \* per key: the row's format holds the {yyyy} token
  Txs,          \* request transactions that may run concurrently
  NoTx,         \* "the row is not locked"
  NoTenant,     \* a request outside any tenant scope
  SeedYear,     \* year_scope the rows are seeded with
  MaxYear,      \* bound: the clock stops here
  MaxValue      \* bound: largest counter value explored

(* Shapes of the seeded rows: packages/db/src/seed/tenant-defaults.ts      *)
(* gives {yyyy} to every sequence that resets yearly.                      *)
ASSUME SequenceAssumptions ==
  /\ Seeded \subseteq Tenants \X SequenceKeys
  /\ ResetYearly \in [SequenceKeys -> BOOLEAN]
  /\ HasYear \in [SequenceKeys -> BOOLEAN]
  /\ \A k \in SequenceKeys : ResetYearly[k] => HasYear[k]
  /\ NoTx \notin Txs
  /\ NoTenant \notin Tenants
  /\ SeedYear \in Nat /\ MaxYear \in Nat /\ MaxValue \in Nat

VARIABLES
  sequence,     \* committed document_sequence rows
  dirty,        \* the row version the lock holder sees and writes
  lock,         \* row lock: the holding transaction or NoTx
  tenantOf,     \* tenant GUC of each open transaction
  open,         \* transactions between BEGIN and COMMIT/ROLLBACK
  taken,        \* numbers handed out inside a still open transaction
  issued,       \* numbers on committed documents
  year          \* new Date().getFullYear()

numberVars == <<sequence, dirty, lock, tenantOf, open, taken, issued, year>>

SequenceRow == [currentValue : Nat, yearScope : Nat]
Number == [tenant : Tenants, key : SequenceKeys, year : Nat, seq : Nat]

NumberTypeOK ==
  /\ sequence \in [Seeded -> SequenceRow]
  /\ dirty \in [Seeded -> SequenceRow]
  /\ lock \in [Seeded -> Txs \cup {NoTx}]
  /\ tenantOf \in [Txs -> Tenants \cup {NoTenant}]
  /\ open \in SUBSET Txs
  /\ taken \in [Txs -> SUBSET Number]
  /\ issued \in SUBSET Number
  /\ year \in Nat

-----------------------------------------------------------------------------
(* renderSequenceFormat: the document number a (year, seq) pair is printed *)
(* as.  Padding never truncates, so a number is its prefix (the key), the  *)
(* year if the template holds {yyyy}, and the sequence value.              *)
renderSequenceFormat(n) ==
  IF HasYear[n.key] THEN <<n.key, n.year, n.seq>> ELSE <<n.key, n.seq>>

(* The counter arithmetic of next(): yearly reset or increment.            *)
nextRow(key, row, currentYear) ==
  IF ResetYearly[key] /\ row.yearScope # currentYear
    THEN [currentValue |-> 1, yearScope |-> currentYear]
    ELSE [row EXCEPT !.currentValue = @ + 1]

(* sequenceScope: the row of the caller's tenant.                          *)
sequenceScope(p, key) == <<tenantOf[p], key>>

NumberInit ==
  /\ sequence = [s \in Seeded |-> [currentValue |-> 0, yearScope |-> SeedYear]]
  /\ dirty = sequence
  /\ lock = [s \in Seeded |-> NoTx]
  /\ tenantOf = [p \in Txs |-> NoTenant]
  /\ open = {}
  /\ taken = [p \in Txs |-> {}]
  /\ issued = {}
  /\ year = SeedYear

(* withTransaction opens a transaction and sets app.tenant_id from the     *)
(* tenant context; without one no GUC is set and RLS shows no row.         *)
Begin(p, t) ==
  /\ p \notin open
  /\ open' = open \cup {p}
  /\ tenantOf' = [tenantOf EXCEPT ![p] = t]
  /\ UNCHANGED <<sequence, dirty, lock, taken, issued, year>>

(* Mutant: the row is read without waiting for its lock.                   *)
NextNumberUnlocked(p, key) ==
  LET s == sequenceScope(p, key)
      row == nextRow(key, sequence[s], year)
      number == [tenant |-> tenantOf[p], key |-> key,
                 year |-> row.yearScope, seq |-> row.currentValue]
  IN /\ p \in open
     /\ s \in Seeded
     /\ row.currentValue <= MaxValue
     /\ lock' = [lock EXCEPT ![s] = p]
     /\ dirty' = [dirty EXCEPT ![s] = row]
     /\ taken' = [taken EXCEPT ![p] = @ \cup {number}]
     /\ UNCHANGED <<sequence, tenantOf, open, issued, year>>

(* next(key): the row is locked (now, or earlier by this transaction), the *)
(* clock is read under the lock, and the row is updated.  The caller's tx  *)
(* puts the number on a document it has yet to commit.                     *)
NextNumber(p, key) ==
  LET s == sequenceScope(p, key)
      row == nextRow(key, dirty[s], year)
      number == [tenant |-> tenantOf[p], key |-> key,
                 year |-> row.yearScope, seq |-> row.currentValue]
  IN /\ p \in open
     /\ s \in Seeded
     /\ lock[s] \in {NoTx, p}
     /\ row.currentValue <= MaxValue
     /\ lock' = [lock EXCEPT ![s] = p]
     /\ dirty' = [dirty EXCEPT ![s] = row]
     /\ taken' = [taken EXCEPT ![p] = @ \cup {number}]
     /\ UNCHANGED <<sequence, tenantOf, open, issued, year>>

ReleaseLocks(p) ==
  /\ lock' = [s \in Seeded |-> IF lock[s] = p THEN NoTx ELSE lock[s]]
  /\ open' = open \ {p}
  /\ tenantOf' = [tenantOf EXCEPT ![p] = NoTenant]
  /\ taken' = [taken EXCEPT ![p] = {}]
  /\ UNCHANGED year

(* COMMIT publishes the row versions and the documents of the transaction. *)
CommitTx(p) ==
  /\ p \in open
  /\ sequence' = [s \in Seeded |-> IF lock[s] = p THEN dirty[s] ELSE sequence[s]]
  /\ issued' = issued \cup taken[p]
  /\ ReleaseLocks(p)
  /\ UNCHANGED dirty

(* Mutant: the counter keeps its value when the transaction rolls back, as *)
(* a PostgreSQL SEQUENCE would.                                            *)
RollbackKeepsCounter(p) ==
  /\ p \in open
  /\ sequence' = [s \in Seeded |-> IF lock[s] = p THEN dirty[s] ELSE sequence[s]]
  /\ ReleaseLocks(p)
  /\ UNCHANGED <<dirty, issued>>

(* ROLLBACK: the handler threw, the client went away, PostgreSQL chose the *)
(* transaction as a deadlock victim, or the process died.                  *)
Rollback(p) ==
  /\ p \in open
  /\ dirty' = [s \in Seeded |-> IF lock[s] = p THEN sequence[s] ELSE dirty[s]]
  /\ ReleaseLocks(p)
  /\ UNCHANGED <<sequence, issued>>

(* next(key) finds no row (an unseeded key, or no tenant in scope) and     *)
(* throws NotFoundError, which rolls the caller's transaction back.        *)
NotFound(p, key) ==
  /\ sequenceScope(p, key) \notin Seeded
  /\ Rollback(p)

NewYear ==
  /\ year < MaxYear
  /\ year' = year + 1
  /\ UNCHANGED <<sequence, dirty, lock, tenantOf, open, taken, issued>>

NumberNext ==
  \/ \E p \in Txs : \E t \in Tenants \cup {NoTenant} : Begin(p, t)
  \/ \E p \in Txs : \E k \in SequenceKeys : NextNumber(p, k)
  \/ \E p \in Txs : \E k \in SequenceKeys : NotFound(p, k)
  \/ \E p \in Txs : CommitTx(p)
  \/ \E p \in Txs : Rollback(p)
  \/ NewYear

NumberSpec == NumberInit /\ [][NumberNext]_numberVars

-----------------------------------------------------------------------------
(* The document number as the tenant's users see it: what the per-tenant   *)
(* unique constraints on doc_no, wo_no, emp_code ... range over.           *)
DocNo(n) == <<n.tenant, renderSequenceFormat(n)>>

(* Numbers of all documents, committed or still in an open transaction.    *)
InFlight == UNION {taken[p] : p \in Txs}

(* "concurrent callers never produce a duplicate number": no two open      *)
(* transactions hold the same printed number, none holds a number already  *)
(* on a committed document, and no two committed numbers print alike,      *)
(* across yearly resets, rollbacks and tenants.                            *)
NoDuplicateNumber ==
  /\ \A p, q \in Txs : \A n \in taken[p] : \A m \in taken[q] :
       DocNo(n) = DocNo(m) => p = q /\ n = m
  /\ \A n \in InFlight : \A m \in issued : DocNo(n) # DocNo(m)
  /\ \A n, m \in issued : DocNo(n) = DocNo(m) => n = m

(* Committed numbers of a (tenant, key, year) are contiguous from 1 and    *)
(* the committed counter is the last of them: a rollback gives its number  *)
(* back because next() joins the caller's transaction.                     *)
Contiguous ==
  /\ \A n \in issued : n.seq > 1 => [n EXCEPT !.seq = @ - 1] \in issued
  /\ \A n \in issued : n.seq >= 1
  /\ \A s \in Seeded : sequence[s].currentValue > 0 =>
       [tenant |-> s[1], key |-> s[2], year |-> sequence[s].yearScope,
        seq |-> sequence[s].currentValue] \in issued

(* Numbering implements the book of GaplessNumbers: documents of a tenant  *)
(* and key become visible in number order and without a gap, so an auditor *)
(* never sees a later invoice before an earlier one, even around New Year, *)
(* whatever rolls back and whichever transactions overlap.                 *)
Book == INSTANCE GaplessNumbers WITH Numbers <- Number, issued <- issued
ImplementsBook == Book!Spec

-----------------------------------------------------------------------------
(* The inductive invariant behind the properties above.                    *)

Scope(n) == <<n.tenant, n.key>>

(* Numbers ns of documents agree with counters rows: none lies after its   *)
(* row's counter, every number has its predecessor, and the counter's own  *)
(* value is on a document.                                                 *)
NotAfter(n, row) ==
  n.year < row.yearScope \/ (n.year = row.yearScope /\ n.seq <= row.currentValue)

Numbered(rows, ns) ==
  /\ \A n \in ns : Scope(n) \in Seeded /\ n.seq >= 1 /\ NotAfter(n, rows[Scope(n)])
  /\ \A n \in ns : n.seq > 1 => [n EXCEPT !.seq = @ - 1] \in ns
  /\ \A s \in Seeded : rows[s].currentValue > 0 =>
       [tenant |-> s[1], key |-> s[2], year |-> rows[s].yearScope,
        seq |-> rows[s].currentValue] \in ns

(* A number handed out in an open transaction belongs to a row that this   *)
(* transaction has locked, and lies after the committed counter.           *)
TakenUnderLock ==
  \A p \in Txs : \A n \in taken[p] :
    /\ Scope(n) \in Seeded
    /\ lock[Scope(n)] = p
    /\ ~ NotAfter(n, sequence[Scope(n)])

(* Row versions: only a locked row differs from its committed version, a   *)
(* version never runs ahead of the clock or behind its committed version,  *)
(* and a row that never resets keeps its year.                             *)
RowVersions ==
  \A s \in Seeded :
    /\ lock[s] = NoTx => dirty[s] = sequence[s]
    /\ dirty[s].yearScope <= year
    /\ \/ sequence[s].yearScope < dirty[s].yearScope
       \/ /\ sequence[s].yearScope = dirty[s].yearScope
          /\ sequence[s].currentValue <= dirty[s].currentValue
    /\ ~ ResetYearly[s[2]] =>
         dirty[s].yearScope = SeedYear /\ sequence[s].yearScope = SeedYear

YearKept ==
  \A n \in issued \cup InFlight : ~ ResetYearly[n.key] => n.year = SeedYear

NumberInv ==
  /\ NumberTypeOK
  /\ TakenUnderLock
  /\ RowVersions
  /\ YearKept
  /\ Numbered(sequence, issued)
  /\ Numbered(dirty, issued \cup InFlight)
=============================================================================
