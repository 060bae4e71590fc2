----------------------------- MODULE SetSums -------------------------------
(***************************************************************************)
(* The total of a natural number over the elements of a finite set, and    *)
(* what happens to it when an element is added, removed or given another   *)
(* number.  MapThenSumSet takes the elements in an order of its own; the   *)
(* totals do not depend on it.                                             *)
(*                                                                         *)
(* A total is defined by a recursion over the subsets of the set.  Every   *)
(* proof about it goes through a function g on those subsets that may take *)
(* away any element next (Sums): one exists (SumsExist), and the recursion *)
(* computes it (SumIs).  Both are shown with a smallest set for which they *)
(* would fail.                                                             *)
(***************************************************************************)
EXTENDS Integers, FiniteSets, FiniteSetsExt, FiniteSetTheorems, WellFoundedInduction, TLAPS

SumOver(f, S) == MapThenSumSet(LAMBDA x : f[x], S)

Pick(t) == CHOOSE x \in t : TRUE
\* The recursion of MapThenFoldSet, as it takes the elements in the order of CHOOSE.
Recursion(f, S, g) ==
  g = [t \in SUBSET S |-> IF t = {} THEN 0 ELSE f[Pick(t)] + g[t \ {Pick(t)}]]

\* The totals of all subsets, whatever element is taken next.
Sums(f, S, g) ==
  /\ g \in [SUBSET S -> Nat]
  /\ g[{}] = 0
  /\ \A t \in SUBSET S : \A x \in t : g[t] = f[x] + g[t \ {x}]

\* A family of subsets of a finite set has a smallest member: one that loses its
\* place in the family as soon as an element is taken away.
LEMMA SmallestSubset ==
  ASSUME NEW S, IsFiniteSet(S), NEW F \in SUBSET (SUBSET S), F # {}
  PROVE  \E t \in F : \A x \in t : t \ {x} \notin F
<1>1. IsWellFoundedOn(StrictSubsetOrdering(S), SUBSET S)
  BY FS_StrictSubsetOrderingWellFounded, FS_FiniteSubsetsOfFinite
<1>2. PICK t \in F : \A u \in F : ~ (<<u, t>> \in StrictSubsetOrdering(S))
  BY <1>1, WFMin
<1>3. ASSUME NEW x \in t, t \ {x} \in F PROVE FALSE
  <2>1. <<t \ {x}, t>> \in StrictSubsetOrdering(S)
    BY <1>3 DEF StrictSubsetOrdering
  <2> QED BY <1>2, <1>3, <2>1
<1> QED BY <1>3

\* The totals of the subsets exist: with the totals of all but one element, that of a
\* subset with the element adds its number.
LEMMA SumsExist ==
  ASSUME NEW S, IsFiniteSet(S), NEW f, \A x \in S : f[x] \in Nat
  PROVE  \E g : Sums(f, S, g)
<1> DEFINE Without == {T \in SUBSET S : ~ \E g : Sums(f, T, g)}
<1> SUFFICES ASSUME Without # {} PROVE FALSE
  OBVIOUS
<1>1. PICK T \in Without : \A x \in T : T \ {x} \notin Without
  BY SmallestSubset
<1>2. T # {}
  <2>1. Sums(f, {}, [t \in SUBSET {} |-> 0])
    BY DEF Sums
  <2> QED BY <1>1, <2>1
<1>3. PICK y \in T : TRUE
  BY <1>2
<1>4. PICK h : Sums(f, T \ {y}, h)
  BY <1>1, <1>3
<1> DEFINE g == [t \in SUBSET T |-> IF y \in t THEN f[y] + h[t \ {y}] ELSE h[t]]
<1>5. \A t \in SUBSET (T \ {y}) : h[t] \in Nat
  BY <1>4 DEF Sums
<1>6. f[y] \in Nat /\ \A x \in T : f[x] \in Nat
  BY <1>1, <1>3
<1>7. \A t \in SUBSET T : y \notin t => t \in SUBSET (T \ {y})
  OBVIOUS
<1>8. \A t \in SUBSET T : t \ {y} \in SUBSET (T \ {y})
  OBVIOUS
<1>9. \A t \in SUBSET T : g[t] \in Nat
  BY <1>5, <1>6, <1>7, <1>8
<1>10. g[{}] = 0
  BY <1>4 DEF Sums
<1>11. ASSUME NEW t \in SUBSET T, NEW x \in t PROVE g[t] = f[x] + g[t \ {x}]
  <2>0. t \ {x} \in SUBSET T
    OBVIOUS
  <2>1. CASE y \notin t
    <3>1. h[t] = f[x] + h[t \ {x}]
      BY <1>4, <1>7, <2>1 DEF Sums
    <3> QED BY <2>0, <2>1, <3>1
  <2>2. CASE x = y
    BY <2>0, <2>2
  <2>3. CASE y \in t /\ x # y
    <3>1. PICK w \in SUBSET (T \ {y}) : w = (t \ {y}) \ {x} /\ w = (t \ {x}) \ {y}
      OBVIOUS
    <3>2. h[t \ {y}] = f[x] + h[w]
      <4>1. h[t \ {y}] = f[x] + h[(t \ {y}) \ {x}]
        BY <1>4, <1>8, <2>3 DEF Sums
      <4> QED BY <3>1, <4>1
    <3>3. g[t] = f[y] + h[t \ {y}]
      BY <2>3
    <3>4. g[t \ {x}] = f[y] + h[w]
      BY <2>0, <2>3, <3>1
    <3>5. f[x] \in Nat /\ f[y] \in Nat /\ h[w] \in Nat
      BY <1>5, <1>6, <3>1
    <3>6. f[y] + (f[x] + h[w]) = f[x] + (f[y] + h[w])
      BY <3>5
    <3> HIDE DEF g
    <3> QED BY <3>2, <3>3, <3>4, <3>6
  <2> QED BY <2>1, <2>2, <2>3
<1>12. g \in [SUBSET T -> Nat]
  BY <1>9
<1>13. Sums(f, T, g)
  <2> HIDE DEF g
  <2> QED BY <1>10, <1>11, <1>12 DEF Sums
<1> QED BY <1>1, <1>13

\* Whatever function obeys the recursion gives the total of the set.
LEMMA RecursionIs ==
  ASSUME NEW S, IsFiniteSet(S), NEW f, NEW g, Sums(f, S, g), NEW h, Recursion(f, S, h)
  PROVE  h[S] = g[S]
<1> DEFINE Wrong == {t \in SUBSET S : h[t] # g[t]}
<1> SUFFICES ASSUME Wrong # {} PROVE FALSE
  OBVIOUS
<1>1. PICK t \in Wrong : \A x \in t : t \ {x} \notin Wrong
  BY SmallestSubset
<1>2. h[t] = IF t = {} THEN 0 ELSE f[Pick(t)] + h[t \ {Pick(t)}]
  BY <1>1 DEF Recursion
<1>3. CASE t = {}
  BY <1>1, <1>2, <1>3 DEF Sums
<1>4. CASE t # {}
  <2>1. t \in SUBSET S /\ Pick(t) \in t /\ t \ {Pick(t)} \in SUBSET S
    BY <1>1, <1>4 DEF Pick
  <2>2. h[t \ {Pick(t)}] = g[t \ {Pick(t)}]
    BY <1>1, <2>1
  <2>3. g[t] = f[Pick(t)] + g[t \ {Pick(t)}]
    BY <2>1 DEF Sums
  <2> QED BY <1>1, <1>2, <1>4, <2>2, <2>3
<1> QED BY <1>3, <1>4

\* The totals of the subsets obey the recursion.
LEMMA SumsAreRecursion ==
  ASSUME NEW S, NEW f, NEW g, Sums(f, S, g)
  PROVE  Recursion(f, S, g)
<1>1. \A t \in SUBSET S : t # {} => Pick(t) \in t
  BY DEF Pick
<1>2. \A t \in SUBSET S :
        g[t] = IF t = {} THEN 0 ELSE f[Pick(t)] + g[t \ {Pick(t)}]
  BY <1>1 DEF Sums
<1> QED BY <1>2, Zenon DEF Recursion, Sums

\* MapThenSumSet gives the total.
LEMMA SumIs ==
  ASSUME NEW S, IsFiniteSet(S), NEW f, NEW g, Sums(f, S, g)
  PROVE  SumOver(f, S) = g[S]
<1> DEFINE h == CHOOSE h : Recursion(f, S, h)
<1>1. SumOver(f, S) = h[S]
  BY Zenon DEF SumOver, MapThenSumSet, MapThenFoldSet, Recursion, Pick
<1>2. Recursion(f, S, h)
  BY SumsAreRecursion, Zenon
<1> QED BY <1>1, <1>2, RecursionIs

\* A sum over a column of the rows is the sum over the function of that column.
LEMMA ColumnSum ==
  ASSUME NEW S, IsFiniteSet(S), NEW row, \A x \in S : row[x].amount \in Nat
  PROVE  MapThenSumSet(LAMBDA x : row[x].amount, S) = SumOver([x \in S |-> row[x].amount], S)
<1> DEFINE f == [x \in S |-> row[x].amount]
           Rule(g) == g = [t \in SUBSET S |->
             IF t = {} THEN 0 ELSE row[Pick(t)].amount + g[t \ {Pick(t)}]]
           h == CHOOSE g : Rule(g)
<1>1. MapThenSumSet(LAMBDA x : row[x].amount, S) = h[S]
  BY Zenon DEF MapThenSumSet, MapThenFoldSet, Pick
<1>2. PICK g : Sums(f, S, g)
  BY SumsExist
<1>3. \A t \in SUBSET S : t # {} => Pick(t) \in t
  BY DEF Pick
<1>4. ASSUME NEW e PROVE Rule(e) <=> Recursion(f, S, e)
  BY <1>3 DEF Recursion
<1> HIDE DEF Rule
<1>5. Rule(h)
  BY <1>2, <1>4, SumsAreRecursion, Zenon
<1>6. h[S] = g[S]
  BY <1>2, <1>4, <1>5, RecursionIs
<1> QED BY <1>1, <1>2, <1>6, SumIs

\* The same for a number that is looked up through another function.
LEMMA IndexedSum ==
  ASSUME NEW S, IsFiniteSet(S), NEW value, NEW key, \A x \in S : value[key[x]] \in Nat
  PROVE  MapThenSumSet(LAMBDA x : value[key[x]], S) = SumOver([x \in S |-> value[key[x]]], S)
<1> DEFINE f == [x \in S |-> value[key[x]]]
           Rule(g) == g = [t \in SUBSET S |->
             IF t = {} THEN 0 ELSE value[key[Pick(t)]] + g[t \ {Pick(t)}]]
           h == CHOOSE g : Rule(g)
<1>1. MapThenSumSet(LAMBDA x : value[key[x]], S) = h[S]
  BY Zenon DEF MapThenSumSet, MapThenFoldSet, Pick
<1>2. PICK g : Sums(f, S, g)
  BY SumsExist
<1>3. \A t \in SUBSET S : t # {} => Pick(t) \in t
  BY DEF Pick
<1>4. ASSUME NEW e PROVE Rule(e) <=> Recursion(f, S, e)
  BY <1>3 DEF Recursion
<1> HIDE DEF Rule
<1>5. Rule(h)
  BY <1>2, <1>4, SumsAreRecursion, Zenon
<1>6. h[S] = g[S]
  BY <1>2, <1>4, <1>5, RecursionIs
<1> QED BY <1>1, <1>2, <1>6, SumIs
-----------------------------------------------------------------------------
(* What the proofs about a journal use.                                    *)

\* Nothing adds up to 0.
LEMMA SumEmpty == \A f : SumOver(f, {}) = 0
<1> SUFFICES ASSUME NEW f PROVE SumOver(f, {}) = 0
  OBVIOUS
<1>1. Sums(f, {}, [t \in SUBSET {} |-> 0])
  BY DEF Sums
<1> QED BY <1>1, SumIs, FS_EmptySet

\* A total is a natural number.
LEMMA SumType ==
  ASSUME NEW S, IsFiniteSet(S), NEW f, \A x \in S : f[x] \in Nat
  PROVE  SumOver(f, S) \in Nat
<1>1. PICK g : Sums(f, S, g)
  BY SumsExist
<1>2. g[S] \in Nat
  BY <1>1 DEF Sums
<1> QED BY <1>1, <1>2, SumIs

\* Taking an element away takes its number away.
LEMMA SumRemove ==
  ASSUME NEW S, IsFiniteSet(S), NEW f, \A x \in S : f[x] \in Nat, NEW x \in S
  PROVE  SumOver(f, S) = f[x] + SumOver(f, S \ {x})
<1>1. PICK g : Sums(f, S, g)
  BY SumsExist
<1>2. g[S] = f[x] + g[S \ {x}]
  BY <1>1 DEF Sums
<1> DEFINE T == S \ {x}
           h == [t \in SUBSET T |-> g[t]]
<1>3. Sums(f, T, h)
  <2>1. \A t \in SUBSET T : t \in SUBSET S /\ h[t] = g[t] /\ \A y \in t : t \ {y} \in SUBSET T
    OBVIOUS
  <2>2. {} \in SUBSET T
    OBVIOUS
  <2>3. \A t \in SUBSET T : h[t] \in Nat /\ \A y \in t : h[t] = f[y] + h[t \ {y}]
    BY <1>1, <2>1 DEF Sums
  <2>4. h \in [SUBSET T -> Nat]
    BY <2>3
  <2>5. h[{}] = 0
    BY <1>1, <2>1, <2>2 DEF Sums
  <2> HIDE DEF h
  <2> QED BY <2>3, <2>4, <2>5 DEF Sums
<1>4. IsFiniteSet(T)
  BY FS_RemoveElement
<1>5. SumOver(f, T) = g[T]
  BY <1>3, <1>4, SumIs
<1> QED BY <1>1, <1>2, <1>5, SumIs

\* Adding an element adds its number.
LEMMA SumAdd ==
  ASSUME NEW S, IsFiniteSet(S), NEW f, NEW x, x \notin S, \A y \in S \cup {x} : f[y] \in Nat
  PROVE  SumOver(f, S \cup {x}) = f[x] + SumOver(f, S)
<1>1. IsFiniteSet(S \cup {x})
  BY FS_AddElement
<1>2. (S \cup {x}) \ {x} = S
  OBVIOUS
<1> QED BY <1>1, <1>2, SumRemove

\* The total only looks at the numbers of the elements.
LEMMA SumSame ==
  ASSUME NEW S, IsFiniteSet(S), NEW e, NEW f, \A x \in S : f[x] \in Nat /\ e[x] = f[x]
  PROVE  SumOver(e, S) = SumOver(f, S)
<1>1. PICK g : Sums(f, S, g)
  BY SumsExist
<1>2. Sums(e, S, g)
  BY <1>1 DEF Sums
<1> QED BY <1>1, <1>2, SumIs
=============================================================================
