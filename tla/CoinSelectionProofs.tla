------------------------ MODULE CoinSelectionProofs -------------------------
(***************************************************************************)
(* What selectCoins guarantees for all values of coins, amounts, types of  *)
(* output, fee rates and sizes of the group, and any number of coins and   *)
(* of payments: it takes the fewest coins that do, it gives up only when   *)
(* no choice of coins does, and the fee reaches the rate.                  *)
(***************************************************************************)
EXTENDS CoinSelection, FiniteSetTheorems, TLAPS

-----------------------------------------------------------------------------
(* Induction over the subsets of a finite set.                             *)

\* A set that has every subset of S of which it has all that are one element
\* smaller has every subset of S.
LEMMA SubsetInduction ==
    ASSUME NEW S, IsFiniteSet(S), NEW Q, {} \in Q,
           \A T \in SUBSET S : T # {} /\ (\A x \in T : T \ {x} \in Q) => T \in Q
    PROVE  SUBSET S \subseteq Q
<1>. DEFINE Rest == (SUBSET S) \ Q
<1>. SUFFICES ASSUME Rest # {} PROVE FALSE
  OBVIOUS
<1>1. Rest \subseteq FiniteSubsetsOf(S)
  BY FS_FiniteSubsetsOfFinite
<1>2. PICK T \in Rest : \A U \in Rest : <<U, T>> \notin StrictSubsetOrdering(S)
  <2>. HIDE DEF Rest
  <2>. QED
    BY <1>1, FS_StrictSubsetOrderingWellFounded, FS_FiniteSubsetsOfFinite, WFMin
<1>3. PICK x \in T : T \ {x} \notin Q
  BY <1>2
<1>4. T \ {x} \in Rest /\ <<T \ {x}, T>> \in StrictSubsetOrdering(S)
  BY <1>2, <1>3 DEF StrictSubsetOrdering
<1>. QED
  BY <1>2, <1>4

\* A member of a finite set that is not empty has the least value.
LEMMA LeastValue ==
    ASSUME NEW S, IsFiniteSet(S), S # {}, NEW g, \A k \in S : g[k] \in Int
    PROVE  \E x \in S : \A y \in S : g[x] <= g[y]
<1>. DEFINE Q == {T \in SUBSET S : T # {} => \E x \in T : \A y \in T : g[x] <= g[y]}
<1>1. {} \in Q
  OBVIOUS
<1>2. ASSUME NEW T \in SUBSET S, T # {}, \A x \in T : T \ {x} \in Q
      PROVE  T \in Q
  <2>1. PICK x \in T : TRUE
    BY <1>2
  <2>2. CASE T \ {x} = {}
    <3>1. \A y \in T : y = x
      BY <2>2
    <3>2. g[x] <= g[x]
      BY <2>1
    <3>. QED
      BY <2>1, <3>1, <3>2
  <2>3. CASE T \ {x} # {}
    <3>1. PICK z \in T \ {x} : \A y \in T \ {x} : g[z] <= g[y]
      BY <1>2, <2>1, <2>3
    <3>2. CASE g[x] <= g[z]
      <4>1. \A y \in T : g[x] <= g[y]
        BY <2>1, <3>1, <3>2
      <4>. QED
        BY <2>1, <4>1
    <3>3. CASE ~(g[x] <= g[z])
      <4>1. \A y \in T : g[z] <= g[y]
        BY <2>1, <3>1, <3>3
      <4>. QED
        BY <3>1, <4>1
    <3>. QED
      BY <3>2, <3>3
  <2>. QED
    BY <2>2, <2>3
<1>. QED
  <2>. HIDE DEF Q
  <2>1. SUBSET S \subseteq Q
    BY <1>1, <1>2, SubsetInduction
  <2>. QED
    BY <2>1 DEF Q

-----------------------------------------------------------------------------
(* Folds over a set: their recursion has a solution.                       *)

\* The member a fold takes first.
First(T) == CHOOSE x \in T : TRUE

\* f folds the subsets of S, from base with h, and has its values in A.
IsFold(f, S, A, base, h) ==
    /\ f \in [SUBSET S -> A]
    /\ \A T \in SUBSET S : f[T] = IF T = {} THEN base ELSE h[First(T)][f[T \ {First(T)}]]

\* There is such an f if h has its values in A.
LEMMA FoldExists ==
    ASSUME NEW S, IsFiniteSet(S), NEW A, NEW base \in A, NEW h \in [S -> [A -> A]]
    PROVE  \E f : IsFold(f, S, A, base, h)
<1>. DEFINE Small(n) == {U \in SUBSET S : Cardinality(U) <= n}
            Solves(f, n) == \A T \in Small(n) :
                f[T] = IF T = {} THEN base ELSE h[First(T)][f[T \ {First(T)}]]
            Q == {T \in SUBSET S : \E f \in [Small(Cardinality(T)) -> A] : Solves(f, Cardinality(T))}
<1>1. \A T \in SUBSET S : IsFiniteSet(T) /\ Cardinality(T) \in Nat
  BY FS_Subset, FS_CardinalityType
<1>2. \A T \in SUBSET S : T # {} => First(T) \in T /\ Cardinality(T \ {First(T)}) = Cardinality(T) - 1
  BY <1>1, FS_RemoveElement DEF First
<1>3. {} \in Q
  <2>1. Cardinality({}) = 0 /\ Small(0) = {{}}
    BY <1>1, FS_EmptySet
  <2>. DEFINE f == [T \in Small(0) |-> base]
  <2>2. f \in [Small(0) -> A] /\ Solves(f, 0)
    BY <2>1
  <2>. QED
    BY <2>1, <2>2
<1>4. ASSUME NEW T \in SUBSET S, T # {}, \A x \in T : T \ {x} \in Q
      PROVE  T \in Q
  <2>. DEFINE n == Cardinality(T) - 1
  <2>1. n \in Nat /\ Cardinality(T) = n + 1 /\ T \ {First(T)} \in Q /\ Cardinality(T \ {First(T)}) = n
    <3>1. First(T) \in T /\ Cardinality(T \ {First(T)}) = n /\ T \ {First(T)} \in SUBSET S
      BY <1>2, <1>4
    <3>2. n \in Nat /\ Cardinality(T) = n + 1
      BY <1>1, <3>1
    <3>. QED
      BY <1>4, <3>1, <3>2
  <2>. HIDE DEF n
  <2>2. PICK f \in [Small(n) -> A] : Solves(f, n)
    BY <2>1
  <2>. DEFINE e == [U \in Small(n + 1) |->
                      IF U = {} THEN base ELSE h[First(U)][f[U \ {First(U)}]]]
  <2>3. \A U \in Small(n + 1) : U # {} =>
            First(U) \in S /\ U \ {First(U)} \in Small(n) /\ U \ {First(U)} \in Small(n + 1)
    BY <1>1, <1>2, <2>1
  <2>4. e \in [Small(n + 1) -> A]
    BY <2>2, <2>3
  <2>5. ASSUME NEW U \in Small(n)
        PROVE  U \in Small(n + 1) /\ e[U] = f[U]
    <3>1. U \in Small(n + 1)
      BY <1>1, <2>1
    <3>2. f[U] = IF U = {} THEN base ELSE h[First(U)][f[U \ {First(U)}]]
      BY <2>2
    <3>3. e[U] = IF U = {} THEN base ELSE h[First(U)][f[U \ {First(U)}]]
      BY <3>1
    <3>. QED
      BY <3>1, <3>2, <3>3
  <2>6. Solves(e, n + 1)
    BY <2>3, <2>5
  <2>7. \E k \in [Small(n + 1) -> A] : Solves(k, n + 1)
    <3>. HIDE DEF e, Small, Solves
    <3>. QED
      BY <2>4, <2>6
  <2>. HIDE DEF Small, Solves
  <2>. QED
    BY <2>1, <2>7
<1>5. S \in Q
  <2>. HIDE DEF Q
  <2>. QED
    BY <1>3, <1>4, SubsetInduction
<1>6. Small(Cardinality(S)) = SUBSET S
  BY FS_Subset
<1>. QED
  BY <1>5, <1>6 DEF IsFold

-----------------------------------------------------------------------------
(* Sums: Sum(s) and ValueOf(P) are totals, and a total is what it should   *)
(* be whatever the order it is taken in.                                   *)

\* The sum of g[k] for the k of S.
Total(g, S) == MapThenSumSet(LAMBDA k : g[k], S)

\* f gives the totals of the subsets of S.
Totals(f, g, S) ==
    f = [T \in SUBSET S |-> IF T = {} THEN 0 ELSE g[First(T)] + f[T \ {First(T)}]]

\* There is such an f.
LEMMA TotalsExists ==
    ASSUME NEW S, IsFiniteSet(S), NEW g, \A k \in S : g[k] \in Int
    PROVE  \E f : Totals(f, g, S)
<1>. DEFINE h == [k \in S |-> [a \in Int |-> g[k] + a]]
<1>1. h \in [S -> [Int -> Int]]
  OBVIOUS
<1>2. PICK f : IsFold(f, S, Int, 0, h)
  <2>1. 0 \in Int
    OBVIOUS
  <2>2. \A k \in [S -> [Int -> Int]] : \E f : IsFold(f, S, Int, 0, k)
    BY <2>1, FoldExists
  <2>. QED
    BY <1>1, <2>2
<1>3. ASSUME NEW T \in SUBSET S, T # {}
      PROVE  h[First(T)][f[T \ {First(T)}]] = g[First(T)] + f[T \ {First(T)}]
  <2>1. First(T) \in S /\ f[T \ {First(T)}] \in Int
    BY <1>2, <1>3 DEF First, IsFold
  <2>. QED
    BY <2>1
<1>4. Totals(f, g, S)
  <2>. HIDE DEF h
  <2>1. \A T \in SUBSET S : f[T] = IF T = {} THEN 0 ELSE g[First(T)] + f[T \ {First(T)}]
    BY <1>2, <1>3 DEF IsFold
  <2>. QED
    BY <1>2, <2>1 DEF Totals, IsFold
<1>. QED
  BY <1>4

\* Its values are integers.
LEMMA TotalsType ==
    ASSUME NEW S, IsFiniteSet(S), NEW g, \A k \in S : g[k] \in Int, NEW f, Totals(f, g, S)
    PROVE  \A T \in SUBSET S : f[T] \in Int
<1>. DEFINE Q == {T \in SUBSET S : f[T] \in Int}
<1>1. {} \in Q
  BY DEF Totals
<1>2. ASSUME NEW T \in SUBSET S, T # {}, \A x \in T : T \ {x} \in Q
      PROVE  T \in Q
  <2>1. First(T) \in T
    BY <1>2 DEF First
  <2>2. f[T] = g[First(T)] + f[T \ {First(T)}]
    BY <1>2 DEF Totals
  <2>3. g[First(T)] \in Int /\ f[T \ {First(T)}] \in Int
    BY <1>2, <2>1
  <2>4. f[T] \in Int
    BY <2>2, <2>3
  <2>. QED
    BY <2>4
<1>. QED
  <2>. HIDE DEF Q
  <2>1. SUBSET S \subseteq Q
    BY <1>1, <1>2, SubsetInduction
  <2>. QED
    BY <2>1 DEF Q

\* Two such functions agree where the values summed agree.
LEMMA TotalsAgree ==
    ASSUME NEW S, IsFiniteSet(S), NEW U, NEW V, S \subseteq U, S \subseteq V,
           NEW f, NEW g, NEW e, NEW h, Totals(f, g, U), Totals(e, h, V),
           \A k \in S : g[k] = h[k]
    PROVE  f[S] = e[S]
<1>. DEFINE Q == {T \in SUBSET S : f[T] = e[T]}
<1>1. {} \in Q
  BY DEF Totals
<1>2. ASSUME NEW T \in SUBSET S, T # {}, \A x \in T : T \ {x} \in Q
      PROVE  T \in Q
  <2>1. First(T) \in T
    BY <1>2 DEF First
  <2>2. f[T] = g[First(T)] + f[T \ {First(T)}] /\ e[T] = h[First(T)] + e[T \ {First(T)}]
    BY <1>2 DEF Totals
  <2>. QED
    BY <1>2, <2>1, <2>2
<1>. QED
  <2>. HIDE DEF Q
  <2>1. SUBSET S \subseteq Q
    BY <1>1, <1>2, SubsetInduction
  <2>. QED
    BY <2>1 DEF Q

\* It may take the members in any order.
LEMMA TotalsAny ==
    ASSUME NEW S, IsFiniteSet(S), NEW g, \A k \in S : g[k] \in Int, NEW f, Totals(f, g, S),
           NEW U \in SUBSET S, NEW y \in U
    PROVE  f[U] = g[y] + f[U \ {y}]
<1>. DEFINE Q == {T \in SUBSET S : \A x \in T : f[T] = g[x] + f[T \ {x}]}
<1>1. {} \in Q
  OBVIOUS
<1>2. ASSUME NEW T \in SUBSET S, T # {}, \A x \in T : T \ {x} \in Q
      PROVE  T \in Q
  <2>. SUFFICES ASSUME NEW x \in T PROVE f[T] = g[x] + f[T \ {x}]
    OBVIOUS
  <2>. DEFINE c == First(T)
  <2>1. c \in T
    BY <1>2 DEF First
  <2>2. f[T] = g[c] + f[T \ {c}]
    BY <1>2 DEF Totals
  <2>. HIDE DEF c
  <2>3. CASE x = c
    BY <2>2, <2>3
  <2>4. CASE x # c
    <3>1. f[T \ {c}] = g[x] + f[(T \ {c}) \ {x}]
      BY <1>2, <2>1, <2>4
    <3>2. f[T \ {x}] = g[c] + f[(T \ {x}) \ {c}]
      BY <1>2, <2>1, <2>4
    <3>3. (T \ {c}) \ {x} = (T \ {x}) \ {c}
      OBVIOUS
    <3>4. g[x] \in Int /\ g[c] \in Int /\ f[(T \ {x}) \ {c}] \in Int
      BY <2>1, TotalsType
    <3>5. \A a, b, d \in Int : a + (b + d) = b + (a + d)
      OBVIOUS
    <3>6. g[c] + (g[x] + f[(T \ {x}) \ {c}]) = g[x] + (g[c] + f[(T \ {x}) \ {c}])
      BY <3>4, <3>5
    <3>. QED
      BY ONLY <2>2, <3>1, <3>2, <3>3, <3>6
  <2>. QED
    BY <2>3, <2>4
<1>. QED
  <2>. HIDE DEF Q
  <2>1. SUBSET S \subseteq Q
    BY <1>1, <1>2, SubsetInduction
  <2>. QED
    BY <2>1 DEF Q

\* A total is the value of such a function.
LEMMA TotalDef ==
    ASSUME NEW S, IsFiniteSet(S), NEW g, \A k \in S : g[k] \in Int
    PROVE  \E f : Totals(f, g, S) /\ Total(g, S) = f[S]
<1>. DEFINE f == CHOOSE e : Totals(e, g, S)
<1>1. Totals(f, g, S)
  BY TotalsExists
<1>2. Total(g, S) = f[S]
  BY DEF Total, Totals, First, MapThenSumSet, MapThenFoldSet
<1>. QED
  BY <1>1, <1>2

\* Sum(s) is the total of its members.
LEMMA SumIsTotal ==
    ASSUME NEW s
    PROVE  Sum(s) = Total(s, DOMAIN s)
BY DEF Sum, Total, FoldSeq, FoldFunction, FoldFunctionOnSet, MapThenSumSet, MapThenFoldSet

\* What a total is: 0 of nothing, and one value and the total of the rest.
LEMMA TotalFacts ==
    ASSUME NEW S, IsFiniteSet(S), NEW g, \A k \in S : g[k] \in Int
    PROVE  /\ Total(g, S) \in Int
           /\ S = {} => Total(g, S) = 0
           /\ \A x \in S : Total(g, S) = g[x] + Total(g, S \ {x})
<1>1. PICK f : Totals(f, g, S) /\ Total(g, S) = f[S]
  BY TotalDef
<1>2. Total(g, S) \in Int
  BY <1>1, TotalsType
<1>3. S = {} => Total(g, S) = 0
  BY <1>1 DEF Totals
<1>4. ASSUME NEW x \in S
      PROVE  Total(g, S) = g[x] + Total(g, S \ {x})
  <2>1. f[S] = g[x] + f[S \ {x}]
    <3>1. S \in SUBSET S /\ Totals(f, g, S)
      BY <1>1
    <3>. QED
      BY <3>1, TotalsAny
  <2>2. IsFiniteSet(S \ {x})
    BY FS_RemoveElement
  <2>3. PICK e : Totals(e, g, S \ {x}) /\ Total(g, S \ {x}) = e[S \ {x}]
    BY <2>2, TotalDef
  <2>4. e[S \ {x}] = f[S \ {x}]
    BY <1>1, <2>2, <2>3, TotalsAgree
  <2>. QED
    BY <1>1, <2>1, <2>3, <2>4
<1>. QED
  BY <1>2, <1>3, <1>4

\* Equal values have equal totals.
LEMMA TotalAgree ==
    ASSUME NEW S, IsFiniteSet(S), NEW g, NEW h, \A k \in S : g[k] \in Int /\ g[k] = h[k]
    PROVE  Total(g, S) = Total(h, S)
<1>1. PICK f : Totals(f, g, S) /\ Total(g, S) = f[S]
  BY TotalDef
<1>2. PICK e : Totals(e, h, S) /\ Total(h, S) = e[S]
  BY TotalDef
<1>. QED
  BY <1>1, <1>2, TotalsAgree

-----------------------------------------------------------------------------
(* Largest first.                                                          *)

\* The values of s do not increase.
Descending(s) == \A i, j \in DOMAIN s : i < j => s[i] >= s[j]

\* Of all choices of as many, the first have the greatest total.
LEMMA FirstAreLargest ==
    ASSUME NEW s \in Seq(Nat), Descending(s)
    PROVE  \A P \in SUBSET (DOMAIN s) : Total(s, P) <= Total(s, 1 .. Cardinality(P))
<1>. DEFINE Q == {P \in SUBSET (DOMAIN s) : Total(s, P) <= Total(s, 1 .. Cardinality(P))}
<1>1. DOMAIN s = 1 .. Len(s) /\ Len(s) \in Nat /\ \A k \in DOMAIN s : s[k] \in Nat
  OBVIOUS
<1>2. IsFiniteSet(DOMAIN s) /\ Cardinality(DOMAIN s) = Len(s)
  <2>1. 1 \in Int /\ Len(s) \in Int
    BY <1>1
  <2>2. IsFiniteSet(1 .. Len(s)) /\ Cardinality(1 .. Len(s)) = Len(s)
    <3>1. \A n \in Nat : IsFiniteSet(1 .. n) /\ Cardinality(1 .. n) = n
      BY FS_Interval
    <3>. QED
      BY <1>1, <3>1
  <2>. QED
    BY <1>1, <2>2
<1>3. \A P \in SUBSET (DOMAIN s) : /\ IsFiniteSet(P)
                                   /\ Cardinality(P) \in Nat
                                   /\ 1 .. Cardinality(P) \subseteq DOMAIN s
  BY <1>1, <1>2, FS_Subset, FS_CardinalityType
<1>4. \A P \in SUBSET (DOMAIN s) : Total(s, P) \in Int
  <2>. SUFFICES ASSUME NEW P \in SUBSET (DOMAIN s) PROVE Total(s, P) \in Int
    OBVIOUS
  <2>1. IsFiniteSet(P) /\ \A k \in P : s[k] \in Int
    BY <1>1, <1>3
  <2>. QED
    BY <2>1, TotalFacts
<1>5. {} \in Q
  <2>1. Cardinality({}) = 0 /\ 1 .. 0 = {}
    BY FS_EmptySet
  <2>2. Total(s, {}) \in Int
    BY <1>4
  <2>. QED
    BY <2>1, <2>2
<1>6. ASSUME NEW P \in SUBSET (DOMAIN s), P # {}, \A x \in P : P \ {x} \in Q
      PROVE  P \in Q
  <2>. DEFINE k == Cardinality(P)
              neg == [i \in P |-> -i]
  <2>1. PICK m \in P : \A i \in P : i <= m
    <3>1. \A i \in P : neg[i] \in Int /\ i \in Int
      BY <1>1
    <3>2. \E x \in P : \A y \in P : neg[x] <= neg[y]
      <4>. HIDE DEF neg
      <4>. QED
        BY <1>3, <1>6, <3>1, LeastValue
    <3>. QED
      BY <3>1, <3>2
  <2>2. Cardinality(P \ {m}) = k - 1 /\ k - 1 \in Nat /\ k \in Nat
    <3>1. IsFiniteSet(P) /\ k \in Nat
      BY <1>3
    <3>2. Cardinality(P \ {m}) = k - 1 /\ IsFiniteSet(P \ {m})
      BY <2>1, <3>1, FS_RemoveElement
    <3>3. Cardinality(P \ {m}) \in Nat
      BY <3>2, FS_CardinalityType
    <3>. QED
      BY <3>1, <3>2, <3>3
  <2>3. k <= m /\ m \in Nat
    <3>1. m \in Nat /\ P \subseteq 1 .. m
      BY <1>1, <2>1
    <3>2. IsFiniteSet(1 .. m) /\ Cardinality(1 .. m) = m
      BY <3>1, FS_Interval
    <3>. QED
      BY <3>1, <3>2, FS_Subset
  <2>4. s[m] <= s[k] /\ s[m] \in Nat /\ s[k] \in Nat /\ k \in DOMAIN s
    BY <1>1, <2>1, <2>2, <2>3 DEF Descending
  <2>5. Total(s, P) = s[m] + Total(s, P \ {m})
    <3>1. IsFiniteSet(P) /\ \A i \in P : s[i] \in Int
      BY <1>1, <1>3
    <3>. QED
      BY <2>1, <3>1, TotalFacts
  <2>6. Total(s, 1 .. k) = s[k] + Total(s, 1 .. k - 1)
    <3>1. (1 .. k) \ {k} = 1 .. k - 1 /\ k \in 1 .. k /\ 1 .. k \subseteq DOMAIN s
      BY <1>3, <2>2
    <3>2. IsFiniteSet(1 .. k)
      BY <1>2, <3>1, FS_Subset
    <3>. QED
      BY <1>1, <3>1, <3>2, TotalFacts
  <2>7. Total(s, P \ {m}) <= Total(s, 1 .. k - 1)
    BY <1>6, <2>1, <2>2
  <2>8. Total(s, P \ {m}) \in Int /\ Total(s, 1 .. k - 1) \in Int
    BY <1>3, <1>4, <2>2
  <2>. QED
    BY <2>4, <2>5, <2>6, <2>7, <2>8
<1>. QED
  <2>. HIDE DEF Q
  <2>1. SUBSET (DOMAIN s) \subseteq Q
    BY <1>2, <1>5, <1>6, SubsetInduction
  <2>. QED
    BY <2>1 DEF Q

\* A descending arrangement of the coins exists, and SortCoins is one.
LEMMA SortCoinsFacts ==
    ASSUME NEW s \in Seq(Nat)
    PROVE  SortCoins(s) \in Seq(Nat) /\ Descending(SortCoins(s))
<1>. DEFINE D == DOMAIN s
            Places(T, p) == /\ p \in Bijection(1 .. Cardinality(T), T)
                            /\ \A i, j \in 1 .. Cardinality(T) : i < j => s[p[i]] >= s[p[j]]
            Q == {T \in SUBSET D : \E p : Places(T, p)}
<1>1. D = 1 .. Len(s) /\ Len(s) \in Nat /\ (\A k \in D : s[k] \in Nat)
      /\ IsFiniteSet(D) /\ Cardinality(D) = Len(s)
  <2>1. \A n \in Nat : IsFiniteSet(1 .. n) /\ Cardinality(1 .. n) = n
    BY FS_Interval
  <2>. QED
    BY <2>1
<1>2. \A T \in SUBSET D : IsFiniteSet(T) /\ Cardinality(T) \in Nat
  BY <1>1, FS_Subset, FS_CardinalityType
<1>3. {} \in Q
  <2>1. Cardinality({}) = 0 /\ 1 .. 0 = {}
    BY FS_EmptySet
  <2>2. Places({}, [i \in {} |-> i])
    BY <2>1 DEF Bijection, Injection, Surjection, IsInjective
  <2>. QED
    BY <2>2
<1>4. ASSUME NEW T \in SUBSET D, T # {}, \A x \in T : T \ {x} \in Q
      PROVE  T \in Q
  <2>. DEFINE n == Cardinality(T)
  <2>1. PICK x \in T : \A y \in T : s[x] <= s[y]
    <3>1. IsFiniteSet(T) /\ \A k \in T : s[k] \in Int
      BY <1>1, <1>2
    <3>. QED
      BY <1>4, <3>1, LeastValue
  <2>2. Cardinality(T \ {x}) = n - 1 /\ n - 1 \in Nat /\ n \in Nat
    <3>1. IsFiniteSet(T) /\ n \in Nat
      BY <1>2
    <3>2. Cardinality(T \ {x}) = n - 1
      BY <2>1, <3>1, FS_RemoveElement
    <3>3. Cardinality(T \ {x}) \in Nat
      BY <1>2
    <3>. QED
      BY <3>1, <3>2, <3>3
  <2>3. PICK p : Places(T \ {x}, p)
    BY <1>4, <2>1
  <2>. DEFINE r == [i \in 1 .. n |-> IF i = n THEN x ELSE p[i]]
  <2>. HIDE DEF n
  <2>4. /\ p \in [1 .. n - 1 -> T \ {x}]
        /\ \A i, j \in 1 .. n - 1 : i # j => p[i] # p[j]
        /\ \A t \in T \ {x} : \E i \in 1 .. n - 1 : p[i] = t
        /\ \A i, j \in 1 .. n - 1 : i < j => s[p[i]] >= s[p[j]]
    BY <2>2, <2>3 DEF Bijection, Injection, Surjection, IsInjective
  <2>5. \A i \in 1 .. n : i # n => i \in 1 .. n - 1
    BY <2>2
  <2>6. r \in [1 .. n -> T]
    BY <2>1, <2>4, <2>5
  <2>7. \A i, j \in 1 .. n : i # j => r[i] # r[j]
    BY <2>4, <2>5
  <2>8. \A t \in T : \E i \in 1 .. n : r[i] = t
    <3>1. n \in 1 .. n /\ r[n] = x
      BY <2>2
    <3>2. \A i \in 1 .. n - 1 : i \in 1 .. n /\ r[i] = p[i]
      BY <2>2
    <3>. HIDE DEF r
    <3>. QED
      BY <2>4, <3>1, <3>2
  <2>9. \A i, j \in 1 .. n : i < j => s[r[i]] >= s[r[j]]
    <3>. SUFFICES ASSUME NEW i \in 1 .. n, NEW j \in 1 .. n, i < j PROVE s[r[i]] >= s[r[j]]
      OBVIOUS
    <3>1. i \in 1 .. n - 1 /\ r[i] = p[i] /\ p[i] \in T /\ s[p[i]] \in Nat
      BY <1>1, <2>2, <2>4, <1>4
    <3>2. CASE j = n
      BY <2>1, <3>1, <3>2
    <3>3. CASE j # n
      BY <2>4, <2>5, <3>1, <3>3
    <3>. QED
      BY <3>2, <3>3
  <2>10. Places(T, r)
    <3>. HIDE DEF r
    <3>. QED
      BY <2>6, <2>7, <2>8, <2>9 DEF Bijection, Injection, Surjection, IsInjective, n
  <2>. HIDE DEF r, Places
  <2>. QED
    BY <2>10
<1>5. D \in Q
  <2>. HIDE DEF Q, D
  <2>1. IsFiniteSet(D)
    BY <1>1
  <2>2. SUBSET D \subseteq Q
    BY <1>3, <1>4, <2>1, SubsetInduction
  <2>. QED
    BY <2>2
<1>6. PICK q : q \in Bijection(D, D) /\ \A i, j \in D : i < j => s[q[i]] >= s[q[j]]
  BY <1>1, <1>5
<1>. DEFINE place == CHOOSE p \in Bijection(D, D) : \A i, j \in D : i < j => s[p[i]] >= s[p[j]]
<1>7. /\ place \in Bijection(D, D)
      /\ \A i, j \in D : i < j => s[place[i]] >= s[place[j]]
  BY <1>6
<1>8. SortCoins(s) = [k \in D |-> s[place[k]]]
  BY DEF SortCoins
<1>9. \A k \in D : place[k] \in D
  BY <1>7 DEF Bijection, Injection
<1>. HIDE DEF place
<1>10. SortCoins(s) \in Seq(Nat)
  BY <1>1, <1>8, <1>9
<1>. QED
  BY <1>7, <1>8, <1>9, <1>10 DEF Descending

\* Taking coins out of the wallet leaves coins.
LEMMA RemoveFirstType ==
    ASSUME NEW s \in Seq(Nat), NEW v
    PROVE  RemoveFirst(s, v) \in Seq(Nat)
<1>1. CASE \E i \in 1 .. Len(s) : s[i] = v
  <2>. DEFINE I == {i \in 1 .. Len(s) : s[i] = v}
              m == SelectInSeq(s, LAMBDA u : u = v)
  <2>1. m \in 1 .. Len(s)
    <3>1. I # {} /\ I \subseteq 1 .. Len(s) /\ IsFiniteSet(I) /\ \A i \in I : i \in Int
      <4>1. \A n \in Nat : IsFiniteSet(1 .. n)
        BY FS_Interval
      <4>2. IsFiniteSet(1 .. Len(s)) /\ I \in SUBSET (1 .. Len(s))
        BY <4>1
      <4>3. IsFiniteSet(I)
        BY <4>2, FS_Subset
      <4>. QED
        BY <1>1, <4>3
    <3>2. \E x \in I : \A y \in I : x <= y
      <4>1. PICK x \in I : \A y \in I : [i \in I |-> i][x] <= [i \in I |-> i][y]
        BY <3>1, LeastValue
      <4>. QED
        BY <4>1
    <3>3. m = CHOOSE x \in I : \A y \in I : x <= y
      BY <3>1 DEF SelectInSeq, Min
    <3>4. m \in I
      BY <3>2, <3>3
    <3>. QED
      BY <3>1, <3>4
  <2>2. RemoveFirst(s, v) = RemoveAt(s, m)
    BY <1>1 DEF RemoveFirst
  <2>. HIDE DEF m
  <2>3. SubSeq(s, 1, m - 1) \in Seq(Nat) /\ SubSeq(s, m + 1, Len(s)) \in Seq(Nat)
    BY <2>1
  <2>. QED
    BY <2>2, <2>3 DEF RemoveAt
<1>2. CASE ~\E i \in 1 .. Len(s) : s[i] = v
  BY <1>2 DEF RemoveFirst
<1>. QED
  BY <1>1, <1>2

\* The wallet a payment leaves has coins only.
LEMMA SpentType ==
    ASSUME NEW s \in Seq(Nat), selected \in Seq(Nat)
    PROVE  Spent(s) \in Seq(Nat)
<1>. DEFINE D == DOMAIN selected
            h == [k \in D |-> [rest \in Seq(Nat) |-> RemoveFirst(rest, selected[k])]]
            Solves(f) == f = [T \in SUBSET D |-> IF T = {} THEN s
                                 ELSE RemoveFirst(f[T \ {First(T)}], selected[First(T)])]
<1>1. h \in [D -> [Seq(Nat) -> Seq(Nat)]]
  BY RemoveFirstType
<1>2. IsFiniteSet(D)
  <2>1. D = 1 .. Len(selected) /\ Len(selected) \in Nat
    OBVIOUS
  <2>. QED
    BY <2>1, FS_Interval
<1>3. PICK f : IsFold(f, D, Seq(Nat), s, h)
  <2>. HIDE DEF h, D
  <2>1. \A k \in [D -> [Seq(Nat) -> Seq(Nat)]] : \E f : IsFold(f, D, Seq(Nat), s, k)
    BY <1>2, FoldExists
  <2>. QED
    BY <1>1, <2>1
<1>4. Solves(f)
  <2>1. ASSUME NEW T \in SUBSET D, T # {}
        PROVE  h[First(T)][f[T \ {First(T)}]] = RemoveFirst(f[T \ {First(T)}], selected[First(T)])
    <3>1. First(T) \in D /\ f[T \ {First(T)}] \in Seq(Nat)
      BY <1>3, <2>1 DEF First, IsFold
    <3>. QED
      BY <3>1
  <2>. HIDE DEF h, D
  <2>2. \A T \in SUBSET D : f[T] = IF T = {} THEN s
            ELSE RemoveFirst(f[T \ {First(T)}], selected[First(T)])
    BY <1>3, <2>1 DEF IsFold
  <2>. QED
    BY <1>3, <2>2 DEF IsFold
<1>. DEFINE e == CHOOSE sol : Solves(sol)
<1>5. Solves(e)
  <2>. HIDE DEF Solves
  <2>. QED
    BY <1>4
<1>6. Spent(s) = e[D]
  BY DEF Spent, FoldSeq, FoldFunction, FoldFunctionOnSet, MapThenFoldSet, First
<1>. DEFINE Q == {T \in SUBSET D : e[T] \in Seq(Nat)}
<1>. HIDE DEF e, D
<1>7. {} \in Q
  BY <1>5
<1>8. ASSUME NEW T \in SUBSET D, T # {}, \A x \in T : T \ {x} \in Q
      PROVE  T \in Q
  <2>1. First(T) \in T
    BY <1>8 DEF First
  <2>2. e[T] = RemoveFirst(e[T \ {First(T)}], selected[First(T)])
    BY <1>5, <1>8
  <2>3. e[T \ {First(T)}] \in Seq(Nat)
    BY <1>8, <2>1
  <2>4. e[T] \in Seq(Nat)
    BY <2>2, <2>3, RemoveFirstType
  <2>. QED
    BY <2>4
<1>9. D \in Q
  <2>. HIDE DEF Q
  <2>. QED
    BY <1>2, <1>7, <1>8, SubsetInduction
<1>. QED
  BY <1>6, <1>9

-----------------------------------------------------------------------------
(* The inductive invariant.                                                *)

\* The n largest coins do for the payment.
Reaches(n) == Total(sorted, 1 .. n) > amount + feeRate * Vbytes(kind, n, output) + Dust

\* What is selected is the start of what is sorted, and nothing is before the
\* loop.
Prefix ==
    /\ Descending(sorted)
    /\ step \in {"idle", "list", "rate"} => selected = <<>>
    /\ Len(selected) <= Len(sorted)
    /\ \A k \in 1 .. Len(selected) : selected[k] = sorted[k]

\* No shorter start did; the loop ends with one that does, or with none left.
Shortest ==
    /\ \A n \in 1 .. Len(selected) - 1 : ~Reaches(n)
    /\ step = "build" => Len(selected) > 0 /\ Reaches(Len(selected))
    /\ step = "failed" => \A n \in 1 .. Len(sorted) : ~Reaches(n)

\* The inductive invariant.
IInv == TypeOK /\ Prefix /\ Shortest

\* Sizes are natural numbers.
LEMMA WeightType ==
    ASSUME NEW k \in Kinds, NEW n \in Nat, NEW o \in Outputs
    PROVE  Weight(k, n, o) \in Nat /\ Vbytes(k, n, o) \in Nat
<1>1. OutputWeight[o] \in Nat
  BY KindsAssumption DEF OutputWeight
<1>2. SizeOfVarInt(n) \in Nat /\ SizeOfVarInt(2) \in Nat
  BY DEF SizeOfVarInt
<1>3. TxOverhead(n) \in Nat
  BY <1>2 DEF TxOverhead
<1>4. WpkhTxWeight(n, o) \in Nat
  BY <1>1, <1>3 DEF WpkhTxWeight
<1>5. MsTxWeight(PublicKeys, MinSigners, n, o) \in Nat
  <2>. DEFINE redeemScript == 34 * PublicKeys + 3
              witness == 1 + 73 * MinSigners + SizeOfScriptLength(redeemScript) + redeemScript
  <2>1. redeemScript \in Nat /\ SizeOfScriptLength(redeemScript) \in Nat /\ MinSigners \in Nat
    BY GroupAssumption DEF SizeOfScriptLength
  <2>. HIDE DEF redeemScript
  <2>2. witness \in Nat
    BY <2>1
  <2>. HIDE DEF witness
  <2>3. (160 + witness) * n \in Nat
    BY <2>2
  <2>4. MsTxWeight(PublicKeys, MinSigners, n, o) =
            TxOverhead(n) + (160 + witness) * n + 4 * (OutputWeight[o] + 43)
    BY DEF MsTxWeight, witness, redeemScript
  <2>. QED
    BY <1>1, <1>3, <2>3, <2>4
<1>6. Weight(k, n, o) \in Nat
  BY <1>4, <1>5 DEF Weight
<1>. QED
  BY <1>6 DEF Vbytes, ToFixed, ToBigInt

\* A fee rate is a natural number.
LEMMA FeeRateType ==
    ASSUME NEW e \in Estimates
    PROVE  FeeRate(e) \in Nat
BY SatsAssumption DEF FeeRate

\* The coins selected are the first of those sorted.
LEMMA CoinAmountIs ==
    ASSUME TypeOK, Prefix
    PROVE  CoinAmount = Total(sorted, 1 .. Len(selected)) /\ CoinAmount \in Int
<1>1. /\ DOMAIN selected = 1 .. Len(selected) /\ Len(selected) \in Nat
      /\ \A k \in 1 .. Len(selected) : selected[k] \in Int /\ selected[k] = sorted[k]
  BY DEF TypeOK, Prefix
<1>2. IsFiniteSet(1 .. Len(selected))
  <2>1. \A n \in Nat : IsFiniteSet(1 .. n)
    BY FS_Interval
  <2>. QED
    BY <1>1, <2>1
<1>3. CoinAmount = Total(selected, 1 .. Len(selected))
  BY <1>1, SumIsTotal DEF CoinAmount
<1>4. Total(selected, 1 .. Len(selected)) = Total(sorted, 1 .. Len(selected))
  BY <1>1, <1>2, TotalAgree
<1>5. Total(selected, 1 .. Len(selected)) \in Int
  BY <1>1, <1>2, TotalFacts
<1>. QED
  BY <1>3, <1>4, <1>5

\* Whether the loop is filled is whether what is selected does.
LEMMA FilledIs ==
    ASSUME TypeOK, Prefix
    PROVE  Filled <=> Len(selected) > 0 /\ Reaches(Len(selected))
BY CoinAmountIs DEF Filled, Fee, Reaches

-----------------------------------------------------------------------------
(* IInv is inductive.                                                      *)

\* It holds at the start.
LEMMA InitIInv == Init => IInv
<1>. SUFFICES ASSUME Init PROVE IInv
  OBVIOUS
<1>1. TypeOK
  BY BoundAssumption DEF Init, TypeOK
<1>. QED
  BY <1>1 DEF Init, IInv, Prefix, Shortest, Descending

\* The end of a job resets what it had, whatever the wallet is.
LEMMA DoneStep ==
    ASSUME IInv, Done, wallet' \in Seq(Nat), UNCHANGED <<kind, payments>>
    PROVE  IInv'
<1>1. TypeOK'
  BY DEF IInv, TypeOK, Done
<1>2. Prefix' /\ Shortest'
  BY DEF Prefix, Shortest, Descending, Done
<1>. QED
  BY <1>1, <1>2 DEF IInv

\* A coin paid into the wallet changes nothing of the payment in hand.
LEMMA ReceiveStep ==
    ASSUME IInv, NEW v \in Values, Receive(v)
    PROVE  IInv'
<1>1. TypeOK'
  BY SatsAssumption DEF IInv, TypeOK, Receive, payment
<1>2. Prefix'
  BY DEF IInv, Prefix, Receive, payment, Descending
<1>3. Shortest'
  BY DEF IInv, Shortest, Reaches, Receive, payment
<1>. QED
  BY <1>1, <1>2, <1>3 DEF IInv

\* A payment starts with nothing selected.
LEMMA SendBtcStep ==
    ASSUME IInv, NEW a \in Amounts, NEW o \in Outputs, SendBtc(a, o)
    PROVE  IInv'
<1>1. TypeOK'
  BY BoundAssumption DEF IInv, TypeOK, SendBtc
<1>2. Prefix'
  BY DEF IInv, Prefix, SendBtc, Descending
<1>3. Shortest'
  BY DEF IInv, Prefix, Shortest, SendBtc
<1>. QED
  BY <1>1, <1>2, <1>3 DEF IInv

\* The coins are listed largest first.
LEMMA ListUnspentStep ==
    ASSUME IInv, ListUnspent
    PROVE  IInv'
<1>1. sorted' \in Seq(Nat) /\ Descending(sorted')
  BY SortCoinsFacts DEF IInv, TypeOK, ListUnspent
<1>2. TypeOK'
  BY <1>1 DEF IInv, TypeOK, ListUnspent
<1>3. Prefix'
  BY <1>1 DEF IInv, Prefix, ListUnspent
<1>4. Shortest'
  BY DEF IInv, Prefix, Shortest, ListUnspent
<1>. QED
  BY <1>2, <1>3, <1>4 DEF IInv

\* The rate is set before anything is selected.
LEMMA GetFeeRateStep ==
    ASSUME IInv, GetFeeRate
    PROVE  IInv'
<1>1. TypeOK'
  BY FeeRateType DEF IInv, TypeOK, GetFeeRate
<1>2. Prefix'
  BY DEF IInv, Prefix, GetFeeRate, Descending
<1>3. Shortest'
  BY DEF IInv, Prefix, Shortest, GetFeeRate
<1>. QED
  BY <1>1, <1>2, <1>3 DEF IInv

\* The loop goes on only while what is selected does not do.
LEMMA TakeCoinStep ==
    ASSUME IInv, TakeCoin
    PROVE  IInv'
<1>. DEFINE n == Len(selected)
<1>1. /\ n \in Nat /\ Len(sorted) \in Nat /\ n < Len(sorted)
      /\ sorted[n + 1] \in Nat /\ selected \in Seq(Nat)
  BY DEF IInv, TypeOK, Prefix, TakeCoin, Exhausted
<1>2. /\ selected' = Append(selected, sorted[n + 1]) /\ selected' \in Seq(Nat)
      /\ Len(selected') = n + 1 /\ selected'[n + 1] = sorted[n + 1]
      /\ \A k \in 1 .. n : selected'[k] = selected[k]
  BY <1>1 DEF TakeCoin
<1>3. n > 0 => ~Reaches(n)
  BY FilledIs DEF IInv, TakeCoin
<1>. HIDE DEF n
<1>4. TypeOK'
  BY <1>2 DEF IInv, TypeOK, TakeCoin
<1>5. Prefix'
  <2>1. \A k \in 1 .. n + 1 : k # n + 1 => k \in 1 .. n
    BY <1>1
  <2>2. \A k \in 1 .. n + 1 : selected'[k] = sorted[k]
    BY <1>2, <2>1 DEF IInv, Prefix, n
  <2>. QED
    BY <1>1, <1>2, <2>2 DEF IInv, Prefix, TakeCoin, Descending
<1>6. Shortest'
  <2>1. \A k \in 1 .. n : k # n => k \in 1 .. n - 1
    BY <1>1
  <2>2. \A k \in 1 .. n : ~Reaches(k)
    BY <1>1, <1>3, <2>1 DEF IInv, Shortest, n
  <2>3. \A k : Reaches(k)' <=> Reaches(k)
    BY DEF Reaches, TakeCoin
  <2>4. Len(selected') - 1 = n
    BY <1>1, <1>2
  <2>. QED
    BY <2>2, <2>3, <2>4 DEF Shortest, TakeCoin
<1>. QED
  BY <1>4, <1>5, <1>6 DEF IInv

\* The loop ends with what does, or with every coin and none left.
LEMMA EndLoopStep ==
    ASSUME IInv, EndLoop
    PROVE  IInv'
<1>. DEFINE n == Len(selected)
<1>1. n \in Nat /\ n <= Len(sorted)
  BY DEF IInv, TypeOK, Prefix
<1>2. TypeOK'
  BY DEF IInv, TypeOK, EndLoop, payment
<1>3. Prefix'
  BY DEF IInv, Prefix, EndLoop, payment, Descending
<1>4. Filled <=> n > 0 /\ Reaches(n)
  BY FilledIs DEF IInv
<1>5. \A k : Reaches(k)' <=> Reaches(k)
  BY DEF Reaches, EndLoop, payment
<1>6. ASSUME Filled PROVE Shortest'
  <2>1. step' = "build" /\ n > 0 /\ Reaches(n)' /\ selected' = selected
    BY <1>4, <1>5, <1>6 DEF EndLoop, payment
  <2>2. \A k \in 1 .. n - 1 : ~Reaches(k)'
    BY <1>5 DEF IInv, Shortest
  <2>. QED
    BY <2>1, <2>2 DEF Shortest, Reaches
<1>7. ASSUME ~Filled PROVE Shortest'
  <2>1. n = Len(sorted)
    BY <1>7 DEF EndLoop, Exhausted
  <2>2. \A k \in 1 .. n : k # n => k \in 1 .. n - 1
    BY <1>1
  <2>3. \A k \in 1 .. n : ~Reaches(k)
    <3>. HIDE DEF n
    <3>. QED
      BY <1>1, <1>4, <1>7, <2>2 DEF IInv, Shortest, n
  <2>4. step' = "failed" /\ selected' = selected /\ sorted' = sorted
    BY <1>7 DEF EndLoop, payment
  <2>5. \A k \in 1 .. n : ~Reaches(k)'
    BY <1>5, <2>3
  <2>6. \A k \in 1 .. n - 1 : k \in 1 .. n
    BY <1>1
  <2>. QED
    BY <2>1, <2>4, <2>5, <2>6 DEF Shortest, Reaches
<1>. QED
  BY <1>2, <1>3, <1>6, <1>7 DEF IInv

\* The change is a coin again.
LEMMA ChangeIsDue ==
    ASSUME IInv, step = "build"
    PROVE  Change \in Nat /\ Change > Dust /\ Fee \in Nat
<1>1. CoinAmount \in Int /\ CoinAmount = Total(sorted, 1 .. Len(selected))
  BY CoinAmountIs DEF IInv
<1>2. amount \in Nat /\ feeRate \in Nat /\ Len(selected) \in Nat
  BY SatsAssumption DEF IInv, TypeOK
<1>3. Fee \in Nat
  <2>1. Vbytes(kind, Len(selected), output) \in Nat
    BY <1>2, WeightType DEF IInv, TypeOK
  <2>2. \A a, b \in Nat : a * b \in Nat
    OBVIOUS
  <2>. QED
    BY <1>2, <2>1, <2>2 DEF Fee
<1>4. CoinAmount > amount + Fee + Dust
  BY <1>1 DEF IInv, Shortest, Reaches, Fee
<1>. QED
  BY <1>1, <1>2, <1>3, <1>4 DEF Change, Dust

\* The payment spends its coins and the wallet gets the change.
LEMMA BuildStep ==
    ASSUME IInv, Build
    PROVE  IInv'
<1>1. Spent(wallet) \in Seq(Nat)
  BY SpentType DEF IInv, TypeOK
<1>2. Change \in Nat
  BY ChangeIsDue DEF Build
<1>3. wallet' \in Seq(Nat)
  BY <1>1, <1>2 DEF Build
<1>. QED
  BY <1>3, DoneStep DEF Build

\* Every step keeps it.
LEMMA NextIInv == IInv /\ [Next]_vars => IInv'
<1>. SUFFICES ASSUME IInv, [Next]_vars PROVE IInv'
  OBVIOUS
<1>1. CASE \E v \in Values : Receive(v)
  BY <1>1, ReceiveStep
<1>2. CASE \E a \in Amounts, o \in Outputs : SendBtc(a, o)
  BY <1>2, SendBtcStep
<1>3. CASE ListUnspent
  BY <1>3, ListUnspentStep
<1>4. CASE GetFeeRate
  BY <1>4, GetFeeRateStep
<1>5. CASE TakeCoin
  BY <1>5, TakeCoinStep
<1>6. CASE EndLoop
  BY <1>6, EndLoopStep
<1>7. CASE Build
  BY <1>7, BuildStep
<1>8. CASE Throw
  BY <1>8, DoneStep DEF Throw, IInv, TypeOK
<1>9. CASE UNCHANGED vars
  <2>1. TypeOK' /\ Prefix' /\ Shortest'
    BY <1>9 DEF IInv, TypeOK, Prefix, Shortest, Reaches, Descending, vars, payment
  <2>. QED
    BY <2>1 DEF IInv
<1>. QED
  BY <1>1, <1>2, <1>3, <1>4, <1>5, <1>6, <1>7, <1>8, <1>9 DEF Next

\* IInv holds in every reachable state.
LEMMA Invariance == Spec => []IInv
BY InitIInv, NextIInv, PTL DEF Spec

-----------------------------------------------------------------------------
(* The properties.                                                         *)

\* Every variable has its type: in particular no payment makes change below
\* zero, and the wallet has only coins.
THEOREM TypeCorrect == Spec => []TypeOK
<1>1. IInv => TypeOK
  BY DEF IInv
<1>. QED
  BY <1>1, Invariance, PTL

\* A choice of coins that would do shows that as many of the largest do.
LEMMA LargestWouldDo ==
    ASSUME IInv, NEW P \in SUBSET (DOMAIN sorted), P # {}, WouldDo(P)
    PROVE  Cardinality(P) \in 1 .. Len(sorted) /\ Reaches(Cardinality(P))
<1>. DEFINE n == Cardinality(P)
<1>1. sorted \in Seq(Nat) /\ Descending(sorted) /\ DOMAIN sorted = 1 .. Len(sorted)
      /\ Len(sorted) \in Nat /\ \A k \in DOMAIN sorted : sorted[k] \in Int
  BY DEF IInv, TypeOK, Prefix
<1>2. IsFiniteSet(DOMAIN sorted) /\ Cardinality(DOMAIN sorted) = Len(sorted)
  <2>1. \A m \in Nat : IsFiniteSet(1 .. m) /\ Cardinality(1 .. m) = m
    BY FS_Interval
  <2>. QED
    BY <1>1, <2>1
<1>3. IsFiniteSet(P) /\ n \in Nat /\ n # 0 /\ n <= Len(sorted)
  <2>1. IsFiniteSet(P) /\ n <= Len(sorted)
    BY <1>2, FS_Subset
  <2>. QED
    BY <2>1, FS_CardinalityType, FS_EmptySet
<1>4. Total(sorted, P) \in Int /\ Total(sorted, 1 .. n) \in Int
  <2>1. 1 .. n \subseteq DOMAIN sorted
    BY <1>1, <1>3
  <2>2. IsFiniteSet(1 .. n)
    BY <1>2, <2>1, FS_Subset
  <2>. HIDE DEF n
  <2>. QED
    BY <1>1, <1>3, <2>1, <2>2, TotalFacts
<1>5. Total(sorted, P) <= Total(sorted, 1 .. n)
  BY <1>1, FirstAreLargest
<1>6. Total(sorted, P) > amount + feeRate * Vbytes(kind, n, output) + Dust
  BY DEF WouldDo, ValueOf, Total
<1>7. amount \in Nat /\ feeRate * Vbytes(kind, n, output) \in Nat
  <2>1. amount \in Nat /\ feeRate \in Nat /\ Vbytes(kind, n, output) \in Nat
    BY <1>3, SatsAssumption, WeightType DEF IInv, TypeOK
  <2>2. \A a, b \in Nat : a * b \in Nat
    OBVIOUS
  <2>. QED
    BY <2>1, <2>2
<1>8. Total(sorted, 1 .. n) > amount + feeRate * Vbytes(kind, n, output) + Dust
  <2>. DEFINE f == feeRate * Vbytes(kind, n, output)
  <2>1. f \in Nat /\ Total(sorted, P) > amount + f + Dust
    BY <1>6, <1>7
  <2>. HIDE DEF f
  <2>2. Total(sorted, 1 .. n) > amount + f + Dust
    BY <1>4, <1>5, <1>7, <2>1 DEF Dust
  <2>. QED
    BY <2>2 DEF f
<1>. QED
  BY <1>1, <1>3, <1>8 DEF Reaches

\* The transaction built spends as few coins as any choice that would do.
THEOREM CoinsAreFewest == Spec => []FewestCoins
<1>1. IInv => FewestCoins
  <2>. SUFFICES ASSUME IInv, step = "build",
                       NEW P \in SUBSET (DOMAIN sorted), P # {}, WouldDo(P)
                PROVE  Cardinality(P) >= Len(selected)
    BY DEF FewestCoins
  <2>1. Cardinality(P) \in 1 .. Len(sorted) /\ Reaches(Cardinality(P))
    BY LargestWouldDo
  <2>2. Cardinality(P) \notin 1 .. Len(selected) - 1
    BY <2>1 DEF IInv, Shortest
  <2>3. Len(selected) \in Nat
    BY DEF IInv, TypeOK
  <2>. QED
    BY <2>1, <2>2, <2>3
<1>. QED
  BY <1>1, Invariance, PTL

\* A payment is given up only if no choice of the listed coins would do.
THEOREM GivenUpRightly == Spec => []GivesUpRightly
<1>1. IInv => GivesUpRightly
  <2>. SUFFICES ASSUME IInv, step = "failed",
                       NEW P \in SUBSET (DOMAIN sorted), P # {}, WouldDo(P)
                PROVE  FALSE
    BY DEF GivesUpRightly
  <2>1. Cardinality(P) \in 1 .. Len(sorted) /\ Reaches(Cardinality(P))
    BY LargestWouldDo
  <2>. QED
    BY <2>1 DEF IInv, Shortest
<1>. QED
  BY <1>1, Invariance, PTL

\* A product is monotone.
LEMMA TimesMonotone ==
    ASSUME NEW r \in Nat, NEW a \in Nat, NEW b \in Nat, a <= b
    PROVE  r * a <= r * b
OBVIOUS

\* The fee reaches the rate for the estimated size, but for the half vbyte
\* that toFixed may take off, and the change is above the dust.
THEOREM FeeReachesRate == Spec => []FeeMeetsRate
<1>1. IInv => FeeMeetsRate
  <2>. SUFFICES ASSUME IInv, step = "build" PROVE FeeMeetsRate
    BY DEF FeeMeetsRate
  <2>. DEFINE n == Len(selected)
              w == Weight(kind, n, output)
              v == Vbytes(kind, n, output)
  <2>1. w \in Nat /\ v \in Nat /\ feeRate \in Nat /\ kind \in {"wpkh", "ms"}
    BY WeightType, KindsAssumption DEF IInv, TypeOK
  <2>2. w <= 4 * v + (IF kind = "ms" THEN 2 ELSE 0)
    <3>. HIDE DEF w
    <3>1. kind = "ms" => v = ToFixed(w)
      BY DEF Vbytes, w
    <3>2. kind # "ms" => v = ToBigInt(w)
      BY DEF Vbytes, w
    <3>3. w <= 4 * ToFixed(w) + 2 /\ w <= 4 * ToBigInt(w)
      BY <2>1 DEF ToFixed, ToBigInt
    <3>4. ToFixed(w) \in Nat /\ ToBigInt(w) \in Nat
      BY <2>1 DEF ToFixed, ToBigInt
    <3>5. CASE kind = "ms"
      BY <3>1, <3>3, <3>5
    <3>6. CASE kind # "ms"
      <4>. HIDE DEF v
      <4>1. w <= 4 * v /\ v \in Nat
        BY <3>2, <3>3, <3>4, <3>6
      <4>. QED
        BY <2>1, <3>6, <4>1
    <3>. QED
      BY <3>5, <3>6
  <2>3. CoinAmount - amount - Change = feeRate * v
    <3>1. CoinAmount \in Int /\ amount \in Nat /\ Fee \in Nat
      BY CoinAmountIs, ChangeIsDue, SatsAssumption DEF IInv, TypeOK
    <3>2. CoinAmount - amount - Change = Fee
      BY <3>1 DEF Change
    <3>. QED
      BY <3>2 DEF Fee
  <2>. HIDE DEF w, v
  <2>4. 4 * (feeRate * v) + (IF kind = "ms" THEN 2 * feeRate ELSE 0) >= feeRate * w
    <3>1. CASE kind = "ms"
      <4>1. feeRate * w <= feeRate * (4 * v + 2)
        BY <2>1, <2>2, <3>1, TimesMonotone
      <4>2. feeRate * (4 * v + 2) = 4 * (feeRate * v) + 2 * feeRate
        BY <2>1
      <4>. QED
        BY <3>1, <4>1, <4>2
    <3>2. CASE kind # "ms"
      <4>1. feeRate * w <= feeRate * (4 * v)
        BY <2>1, <2>2, <3>2, TimesMonotone
      <4>2. feeRate * (4 * v) = 4 * (feeRate * v) + 0
        BY <2>1
      <4>. QED
        BY <3>2, <4>1, <4>2
    <3>. QED
      BY <3>1, <3>2
  <2>. QED
    BY <2>3, <2>4, ChangeIsDue DEF FeeMeetsRate, w
<1>. QED
  BY <1>1, Invariance, PTL
=============================================================================
