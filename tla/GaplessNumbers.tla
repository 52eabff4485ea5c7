-------------------------- MODULE GaplessNumbers --------------------------
(***************************************************************************)
(* What document numbering promises a tenant's auditor: the book of the    *)
(* numbers on committed documents, which only ever grows at its end.       *)
(* Counters, locks, transactions and the clock are not part of it.         *)
(***************************************************************************)
EXTENDS Integers

CONSTANT Numbers    \* records with a tenant, a key, a year and a seq

VARIABLE issued     \* the numbers on committed documents

Earlier(n, m) == n.year < m.year \/ (n.year = m.year /\ n.seq < m.seq)

SameBook(n, m) == n.tenant = m.tenant /\ n.key = m.key

Init == issued = {}

(* A commit enters numbers, of any books, that come after all numbers of   *)
(* their book and leave no gap.                                            *)
Publish ==
  /\ issued \subseteq issued'
  /\ \A n \in issued' \ issued :
       /\ n \in Numbers
       /\ n.seq >= 1
       /\ n.seq > 1 => [n EXCEPT !.seq = @ - 1] \in issued'
       /\ \A m \in issued : SameBook(n, m) => Earlier(m, n)

Spec == Init /\ [][Publish]_issued
===========================================================================
