----------------------------- MODULE SumTheorems -----------------------------
(***************************************************************************)
(* Sums over finite sets, for the proofs about the stock ledger, the       *)
(* billing ceiling and the payroll advances.  The community modules define *)
(* SumFunctionOnSet by a recursive function that takes an arbitrary member *)
(* first; here it is shown to be defined and independent of that choice.   *)
(***************************************************************************)
EXTENDS Integers, FiniteSetsExt, FiniteSetTheorems, WellFoundedInduction, TLAPS

(* Every non-empty family of subsets of a finite set has a minimal member. *)
LEMMA MinimalSubset ==
  ASSUME NEW S, IsFiniteSet(S), NEW B \in SUBSET (SUBSET S), B # {}
  PROVE  \E m \in B : \A s \in B : s \subseteq m => s = m
<1> DEFINE F == FiniteSubsetsOf(S)
<1>1. B \subseteq F
  BY FS_Subset DEF FiniteSubsetsOf
<1>2. IsWellFoundedOn(StrictSubsetOrdering(S), F)
  BY FS_StrictSubsetOrderingWellFounded
<1> HIDE DEF F
<1>3. PICK m \in B : \A s \in B : ~ (<<s, m>> \in StrictSubsetOrdering(S))
  BY <1>1, <1>2, WFMin
<1> QED
  BY <1>3 DEF StrictSubsetOrdering

-----------------------------------------------------------------------------
(* The member the recursion takes first.                                   *)
First(s) == CHOOSE x \in s : TRUE

LEMMA FirstIn == \A s : s # {} => First(s) \in s
  BY DEF First

(* The functions on the subsets of S that satisfy the recursion.           *)
Partial(f, S) ==
  {h \in [SUBSET S -> Int] :
     \A s \in SUBSET S : h[s] = IF s = {} THEN 0 ELSE f[First(s)] + h[s \ {First(s)}]}

(* Two of them agree wherever both are defined.                            *)
LEMMA PartialUnique ==
  ASSUME NEW f, NEW S, NEW T, IsFiniteSet(S),
         NEW g \in Partial(f, S), NEW h \in Partial(f, T), NEW u \in SUBSET S, u \in SUBSET T
  PROVE  g[u] = h[u]
<1> DEFINE B == {s \in SUBSET S : s \in SUBSET T /\ g[s] # h[s]}
<1> SUFFICES ASSUME B # {} PROVE FALSE
  OBVIOUS
<1>1. PICK m \in B : \A s \in B : s \subseteq m => s = m
  <2>1. B \in SUBSET (SUBSET S)
    OBVIOUS
  <2> HIDE DEF B
  <2> QED
    BY <2>1, MinimalSubset
<1>2. m # {}
  BY DEF Partial
<1>3. First(m) \in m
  BY <1>2, FirstIn
<1>4. g[m \ {First(m)}] = h[m \ {First(m)}]
  BY <1>1, <1>3
<1> QED
  BY <1>2, <1>3, <1>4 DEF Partial

(* There is one.                                                           *)
LEMMA PartialExists ==
  ASSUME NEW S, IsFiniteSet(S), NEW f, \A x \in S : f[x] \in Int
  PROVE  Partial(f, S) # {}
<1> DEFINE B == {s \in SUBSET S : Partial(f, s) = {}}
<1> SUFFICES ASSUME B # {} PROVE FALSE
  OBVIOUS
<1>1. PICK m \in B : \A s \in B : s \subseteq m => s = m
  <2>1. B \in SUBSET (SUBSET S)
    OBVIOUS
  <2> HIDE DEF B
  <2> QED
    BY <2>1, MinimalSubset
<1> DEFINE H(s) == CHOOSE h \in Partial(f, s) : TRUE
           c(s) == s \ {First(s)}
           g == [s \in SUBSET m |->
                   IF s = {} THEN 0 ELSE f[First(s)] + H(c(s))[c(s)]]
<1>2. \A s \in SUBSET m : s # {} => First(s) \in s /\ First(s) \in S /\ c(s) \in SUBSET m /\ c(s) # m
  BY FirstIn
<1>3. \A s \in SUBSET m : s # m => H(s) \in Partial(f, s)
  BY <1>1
<1>4. \A s \in SUBSET m : s # m => H(s)[s] \in Int
  BY <1>3 DEF Partial
<1>5. g \in [SUBSET m -> Int]
  <2> SUFFICES ASSUME NEW s \in SUBSET m, s # {}
               PROVE  f[First(s)] + H(c(s))[c(s)] \in Int
    OBVIOUS
  <2>1. f[First(s)] \in Int /\ H(c(s))[c(s)] \in Int
    <3>1. c(s) \in SUBSET m /\ c(s) # m /\ First(s) \in S
      BY <1>2
    <3> HIDE DEF H, c
    <3> QED
      BY <1>4, <3>1
  <2> HIDE DEF H, c
  <2> QED
    BY <2>1
<1>6. \A s \in SUBSET m : s # m => g[s] = H(s)[s]
  <2> SUFFICES ASSUME NEW s \in SUBSET m, s # m
               PROVE  g[s] = H(s)[s]
    OBVIOUS
  <2>0. H(s) \in Partial(f, s)
    BY <1>3
  <2>1. CASE s = {}
    BY <2>0, <2>1 DEF Partial
  <2>2. CASE s # {}
    <3>1. c(s) \in SUBSET m /\ c(s) # m /\ c(s) \in SUBSET s
      BY <1>2, <2>2
    <3>2. H(c(s)) \in Partial(f, c(s))
      BY <1>3, <3>1
    <3>3. IsFiniteSet(s)
      BY FS_Subset
    <3> HIDE DEF H
    <3>4. H(c(s))[c(s)] = H(s)[c(s)]
      BY <2>0, <3>1, <3>2, <3>3, PartialUnique
    <3>5. H(s)[s] = f[First(s)] + H(s)[c(s)]
      BY <2>0, <2>2 DEF Partial
    <3> QED
      BY <2>2, <3>4, <3>5
  <2> QED
    BY <2>1, <2>2
<1>7. \A s \in SUBSET m : g[s] = IF s = {} THEN 0 ELSE f[First(s)] + g[c(s)]
  <2> SUFFICES ASSUME NEW s \in SUBSET m, s # {}
               PROVE  g[s] = f[First(s)] + g[c(s)]
    <3> HIDE DEF H, c
    <3> QED
      OBVIOUS
  <2>1. g[c(s)] = H(c(s))[c(s)]
    <3>1. c(s) \in SUBSET m /\ c(s) # m
      BY <1>2
    <3> HIDE DEF H, c, g
    <3> QED
      BY <1>6, <3>1
  <2>2. g[s] = f[First(s)] + H(c(s))[c(s)]
    OBVIOUS
  <2> QED
    BY <2>1, <2>2
<1>8. g \in Partial(f, m)
  BY <1>5, <1>7 DEF Partial
<1> QED
  BY <1>1, <1>8

(* The sum is the value every solution of the recursion has at S.          *)
LEMMA SumIsPartial ==
  ASSUME NEW S, IsFiniteSet(S), NEW f, \A x \in S : f[x] \in Int, NEW h \in Partial(f, S)
  PROVE  SumFunctionOnSet(f, S) = h[S]
<1> DEFINE Step(g) == [s \in SUBSET S |->
                         IF s = {} THEN 0 ELSE f[First(s)] + g[s \ {First(s)}]]
           iter == CHOOSE g : g = Step(g)
<1>1. h = Step(h)
  BY DEF Partial
<1>2. iter = Step(iter)
  BY <1>1
<1>3. SumFunctionOnSet(f, S) = iter[S]
  BY DEF SumFunctionOnSet, FoldFunctionOnSet, MapThenFoldSet, First
<1> HIDE DEF iter
<1>4. \A s \in SUBSET S : iter[s] = IF s = {} THEN 0 ELSE f[First(s)] + iter[s \ {First(s)}]
  BY <1>2
<1> DEFINE B == {s \in SUBSET S : iter[s] # h[s]}
<1> SUFFICES ASSUME B # {} PROVE FALSE
  BY <1>3
<1>5. PICK m \in B : \A s \in B : s \subseteq m => s = m
  <2>1. B \in SUBSET (SUBSET S)
    OBVIOUS
  <2> HIDE DEF B
  <2> QED
    BY <2>1, MinimalSubset
<1>6. m # {}
  BY <1>4 DEF Partial
<1>7. First(m) \in m
  BY <1>6, FirstIn
<1>8. iter[m \ {First(m)}] = h[m \ {First(m)}]
  BY <1>5, <1>7
<1> QED
  BY <1>4, <1>6, <1>8 DEF Partial

-----------------------------------------------------------------------------
(* What a sum is: an integer, 0 for the empty set, and otherwise the value *)
(* of any one member plus the sum over the others.                         *)

LEMMA SumType ==
  ASSUME NEW S, IsFiniteSet(S), NEW f, \A x \in S : f[x] \in Int
  PROVE  SumFunctionOnSet(f, S) \in Int
<1>1. PICK h : h \in Partial(f, S)
  BY PartialExists
<1>2. h[S] \in Int
  BY <1>1 DEF Partial
<1> QED
  BY <1>1, <1>2, SumIsPartial

LEMMA SumRecursion ==
  ASSUME NEW S, IsFiniteSet(S), NEW f, \A x \in S : f[x] \in Int
  PROVE  SumFunctionOnSet(f, S)
           = IF S = {} THEN 0 ELSE f[First(S)] + SumFunctionOnSet(f, S \ {First(S)})
<1>1. PICK h : h \in Partial(f, S)
  BY PartialExists
<1>2. SumFunctionOnSet(f, S) = h[S]
  BY <1>1, SumIsPartial
<1> DEFINE T == S \ {First(S)}
           g == [s \in SUBSET T |-> h[s]]
<1>3. g \in Partial(f, T)
  <2>1. g \in [SUBSET T -> Int]
    BY <1>1 DEF Partial
  <2>2. \A s \in SUBSET T : s \ {First(s)} \in SUBSET T
    OBVIOUS
  <2>3. \A s \in SUBSET T : h[s] = IF s = {} THEN 0 ELSE f[First(s)] + h[s \ {First(s)}]
    BY <1>1 DEF Partial
  <2> HIDE DEF T
  <2> QED
    BY <2>1, <2>2, <2>3 DEF Partial
<1>4. IsFiniteSet(T) /\ \A x \in T : f[x] \in Int
  BY FS_Subset
<1>5. g[T] = h[T]
  OBVIOUS
<1>6. SumFunctionOnSet(f, T) = h[T]
  <2> HIDE DEF g, T
  <2> QED
    BY <1>3, <1>4, <1>5, SumIsPartial
<1>7. h[S] = IF S = {} THEN 0 ELSE f[First(S)] + h[T]
  BY <1>1 DEF Partial
<1> QED
  BY <1>2, <1>6, <1>7

LEMMA SumEmpty == \A f : SumFunctionOnSet(f, {}) = 0
  BY FS_EmptySet, SumRecursion

LEMMA SumSplit ==
  ASSUME NEW S, IsFiniteSet(S), NEW f, \A x \in S : f[x] \in Int, NEW x \in S
  PROVE  SumFunctionOnSet(f, S) = f[x] + SumFunctionOnSet(f, S \ {x})
<1> DEFINE Sum(s) == SumFunctionOnSet(f, s)
           B == {s \in SUBSET S : \E y \in s : Sum(s) # f[y] + Sum(s \ {y})}
<1> SUFFICES ASSUME B # {} PROVE FALSE
  OBVIOUS
<1>1. PICK m \in B : \A s \in B : s \subseteq m => s = m
  <2>1. B \in SUBSET (SUBSET S)
    OBVIOUS
  <2> HIDE DEF B
  <2> QED
    BY <2>1, MinimalSubset
<1>2. PICK y \in m : Sum(m) # f[y] + Sum(m \ {y})
  OBVIOUS
<1> DEFINE c == First(m)
<1>3. c \in m
  BY FirstIn
<1>4. \A s \in SUBSET S : IsFiniteSet(s) /\ Sum(s) \in Int
  BY FS_Subset, SumType
<1>5. Sum(m) = f[c] + Sum(m \ {c})
  BY <1>3, <1>4, SumRecursion
<1>6. c # y
  BY <1>2, <1>5
<1>7. m \ {c} \notin B /\ m \ {y} \notin B
  BY <1>1, <1>2, <1>3
<1>8. Sum(m \ {c}) = f[y] + Sum((m \ {c}) \ {y})
  BY <1>6, <1>7
<1>9. Sum(m \ {y}) = f[c] + Sum((m \ {y}) \ {c})
  BY <1>3, <1>6, <1>7
<1>10. (m \ {c}) \ {y} = (m \ {y}) \ {c}
  OBVIOUS
<1>11. f[c] \in Int /\ f[y] \in Int /\ Sum((m \ {c}) \ {y}) \in Int
  BY <1>3, <1>4
<1>12. Sum(m \ {y}) = f[c] + Sum((m \ {c}) \ {y})
  BY <1>9, <1>10
<1> HIDE DEF B, Sum, c
<1> QED
  BY <1>2, <1>5, <1>8, <1>11, <1>12

(* The sum depends only on the values at the members.                      *)
LEMMA SumAgrees ==
  ASSUME NEW S, IsFiniteSet(S), NEW f, NEW g,
         \A x \in S : f[x] \in Int /\ g[x] = f[x]
  PROVE  SumFunctionOnSet(g, S) = SumFunctionOnSet(f, S)
<1> DEFINE B == {s \in SUBSET S : SumFunctionOnSet(g, s) # SumFunctionOnSet(f, s)}
<1> SUFFICES ASSUME B # {} PROVE FALSE
  OBVIOUS
<1>1. PICK m \in B : \A s \in B : s \subseteq m => s = m
  <2>1. B \in SUBSET (SUBSET S)
    OBVIOUS
  <2> HIDE DEF B
  <2> QED
    BY <2>1, MinimalSubset
<1>2. m # {}
  BY SumEmpty
<1>3. PICK y : y \in m
  BY <1>2
<1>4. SumFunctionOnSet(g, m \ {y}) = SumFunctionOnSet(f, m \ {y})
  BY <1>1, <1>3
<1>5. IsFiniteSet(m) /\ \A x \in m : f[x] \in Int /\ g[x] \in Int
  BY FS_Subset
<1>6. SumFunctionOnSet(f, m) = f[y] + SumFunctionOnSet(f, m \ {y})
  BY <1>3, <1>5, SumSplit
<1>7. SumFunctionOnSet(g, m) = g[y] + SumFunctionOnSet(g, m \ {y})
  BY <1>3, <1>5, SumSplit
<1> QED
  BY <1>3, <1>4, <1>6, <1>7

(* Changing the value at one member changes the sum by the difference.     *)
LEMMA SumChange ==
  ASSUME NEW S, IsFiniteSet(S), NEW f, NEW g, NEW x \in S,
         \A y \in S : f[y] \in Int,
         g[x] \in Int,
         \A y \in S \ {x} : g[y] = f[y]
  PROVE  SumFunctionOnSet(g, S) = SumFunctionOnSet(f, S) + (g[x] - f[x])
<1>1. IsFiniteSet(S \ {x})
  BY FS_Subset
<1>2. SumFunctionOnSet(g, S \ {x}) = SumFunctionOnSet(f, S \ {x})
  BY <1>1, SumAgrees
<1>3. SumFunctionOnSet(f, S) = f[x] + SumFunctionOnSet(f, S \ {x})
  BY SumSplit
<1>4. SumFunctionOnSet(g, S) = g[x] + SumFunctionOnSet(g, S \ {x})
  BY SumSplit
<1>5. SumFunctionOnSet(f, S \ {x}) \in Int
  BY <1>1, SumType
<1> QED
  BY <1>2, <1>3, <1>4, <1>5

(* A sum of zeros is zero.                                                 *)
LEMMA SumOfZeros ==
  ASSUME NEW S, IsFiniteSet(S), NEW f, \A x \in S : f[x] = 0
  PROVE  SumFunctionOnSet(f, S) = 0
<1> DEFINE B == {s \in SUBSET S : SumFunctionOnSet(f, s) # 0}
<1> SUFFICES ASSUME B # {} PROVE FALSE
  OBVIOUS
<1>1. PICK m \in B : \A s \in B : s \subseteq m => s = m
  <2>1. B \in SUBSET (SUBSET S)
    OBVIOUS
  <2> HIDE DEF B
  <2> QED
    BY <2>1, MinimalSubset
<1>2. PICK y : y \in m
  BY SumEmpty
<1>3. SumFunctionOnSet(f, m \ {y}) = 0
  BY <1>1, <1>2
<1>4. IsFiniteSet(m) /\ \A x \in m : f[x] \in Int
  BY FS_Subset
<1>5. SumFunctionOnSet(f, m) = f[y] + SumFunctionOnSet(f, m \ {y})
  BY <1>2, <1>4, SumSplit
<1> QED
  BY <1>2, <1>3, <1>5

(* Smaller values have a smaller sum.                                      *)
LEMMA SumAtMost ==
  ASSUME NEW S, IsFiniteSet(S), NEW f, NEW g,
         \A x \in S : f[x] \in Int /\ g[x] \in Int /\ g[x] <= f[x]
  PROVE  SumFunctionOnSet(g, S) <= SumFunctionOnSet(f, S)
<1> DEFINE B == {s \in SUBSET S : ~ (SumFunctionOnSet(g, s) <= SumFunctionOnSet(f, s))}
<1> SUFFICES ASSUME B # {} PROVE FALSE
  OBVIOUS
<1>1. PICK m \in B : \A s \in B : s \subseteq m => s = m
  <2>1. B \in SUBSET (SUBSET S)
    OBVIOUS
  <2> HIDE DEF B
  <2> QED
    BY <2>1, MinimalSubset
<1>2. PICK y : y \in m
  BY SumEmpty
<1>3. SumFunctionOnSet(g, m \ {y}) <= SumFunctionOnSet(f, m \ {y})
  BY <1>1, <1>2
<1>4. IsFiniteSet(m) /\ IsFiniteSet(m \ {y}) /\ \A x \in m : f[x] \in Int /\ g[x] \in Int
  BY FS_Subset
<1>5. SumFunctionOnSet(f, m) = f[y] + SumFunctionOnSet(f, m \ {y})
  BY <1>2, <1>4, SumSplit
<1>6. SumFunctionOnSet(g, m) = g[y] + SumFunctionOnSet(g, m \ {y})
  BY <1>2, <1>4, SumSplit
<1>7. SumFunctionOnSet(f, m \ {y}) \in Int /\ SumFunctionOnSet(g, m \ {y}) \in Int
  BY <1>4, SumType
<1>8. f[y] \in Int /\ g[y] \in Int /\ g[y] <= f[y]
  BY <1>2
<1>9. SumFunctionOnSet(g, m) <= SumFunctionOnSet(f, m)
  BY <1>3, <1>5, <1>6, <1>7, <1>8
<1> QED
  BY <1>9

(* The sum of two functions is the sum of their sums.                      *)
LEMMA SumOfSums ==
  ASSUME NEW S, IsFiniteSet(S), NEW f, NEW g, NEW h,
         \A x \in S : g[x] \in Int /\ h[x] \in Int /\ f[x] = g[x] + h[x]
  PROVE  SumFunctionOnSet(f, S) = SumFunctionOnSet(g, S) + SumFunctionOnSet(h, S)
<1> DEFINE B == {s \in SUBSET S :
                   SumFunctionOnSet(f, s) # SumFunctionOnSet(g, s) + SumFunctionOnSet(h, s)}
<1> SUFFICES ASSUME B # {} PROVE FALSE
  OBVIOUS
<1>1. PICK m \in B : \A s \in B : s \subseteq m => s = m
  <2>1. B \in SUBSET (SUBSET S)
    OBVIOUS
  <2> HIDE DEF B
  <2> QED
    BY <2>1, MinimalSubset
<1>2. PICK y : y \in m
  <2>1. /\ SumFunctionOnSet(f, {}) = 0 /\ SumFunctionOnSet(g, {}) = 0
        /\ SumFunctionOnSet(h, {}) = 0
    BY SumEmpty
  <2>2. {} \notin B
    BY <2>1
  <2> QED
    BY <2>2
<1> DEFINE T == m \ {y}
<1>3. SumFunctionOnSet(f, T) = SumFunctionOnSet(g, T) + SumFunctionOnSet(h, T)
  <2>1. T \in SUBSET S /\ T \subseteq m /\ T # m
    BY <1>2
  <2> QED
    BY <1>1, <2>1
<1>4. IsFiniteSet(m) /\ IsFiniteSet(T)
  BY FS_Subset
<1>5. \A x \in m : f[x] \in Int /\ g[x] \in Int /\ h[x] \in Int /\ f[x] = g[x] + h[x]
  OBVIOUS
<1>6. /\ SumFunctionOnSet(f, m) = f[y] + SumFunctionOnSet(f, T)
      /\ SumFunctionOnSet(g, m) = g[y] + SumFunctionOnSet(g, T)
      /\ SumFunctionOnSet(h, m) = h[y] + SumFunctionOnSet(h, T)
  BY <1>2, <1>4, <1>5, SumSplit
<1>7. SumFunctionOnSet(g, T) \in Int /\ SumFunctionOnSet(h, T) \in Int
  <2>1. \A x \in T : g[x] \in Int /\ h[x] \in Int
    BY <1>5
  <2> HIDE DEF T
  <2> QED
    BY <1>4, <2>1, SumType
<1> HIDE DEF T
<1>8. SumFunctionOnSet(f, m) = SumFunctionOnSet(g, m) + SumFunctionOnSet(h, m)
  BY <1>2, <1>3, <1>5, <1>6, <1>7
<1> QED
  BY <1>8

(* Members where the function is zero do not matter.                       *)
LEMMA SumWithin ==
  ASSUME NEW T, IsFiniteSet(T), NEW S \in SUBSET T, NEW f,
         \A x \in T : f[x] \in Int, \A x \in T \ S : f[x] = 0
  PROVE  SumFunctionOnSet(f, T) = SumFunctionOnSet(f, S)
<1> DEFINE B == {s \in SUBSET T :
                   S \subseteq s /\ SumFunctionOnSet(f, s) # SumFunctionOnSet(f, S)}
<1> SUFFICES ASSUME B # {} PROVE FALSE
  OBVIOUS
<1>1. PICK m \in B : \A s \in B : s \subseteq m => s = m
  <2>1. B \in SUBSET (SUBSET T)
    OBVIOUS
  <2> HIDE DEF B
  <2> QED
    BY <2>1, MinimalSubset
<1>2. PICK y \in m : y \notin S
  OBVIOUS
<1> DEFINE u == m \ {y}
<1>3. SumFunctionOnSet(f, u) = SumFunctionOnSet(f, S)
  BY <1>1, <1>2
<1>4. IsFiniteSet(m) /\ \A x \in m : f[x] \in Int
  BY FS_Subset
<1>5. SumFunctionOnSet(f, m) = f[y] + SumFunctionOnSet(f, u)
  BY <1>2, <1>4, SumSplit
<1>6. f[y] = 0 /\ SumFunctionOnSet(f, S) \in Int
  <2>1. IsFiniteSet(S) /\ \A x \in S : f[x] \in Int
    BY FS_Subset
  <2> QED
    BY <1>2, <2>1, SumType
<1> QED
  BY <1>3, <1>5, <1>6

=============================================================================
